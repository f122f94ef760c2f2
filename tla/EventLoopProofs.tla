--------------------------- MODULE EventLoopProofs ---------------------------
(***************************************************************************)
(* Proofs about EventLoop, for every number of slots, descriptors and      *)
(* connections.  The event loop drives its timer as Timer says, so the     *)
(* theorems about the timer hold in the loop, however its two threads      *)
(* interleave and whatever its clients do.  With them, one inductive       *)
(* invariant shows what slots, timers, events, descriptors and cur_conn    *)
(* have to do with each other.                                             *)
(***************************************************************************)
EXTENDS EventLoop, TimerProofs, FiniteSetTheorems, WellFoundedInduction

\* A sid belongs to one of the slots, and an event carries a natural number.
LEMMA SlotType ==
  ASSUME NEW sid \in Nat
  PROVE  Slot(sid) \in Slots /\ EventSid(sid) \in Nat
BY MaxConnAssumption, SidModulusAssumption DEF Slot, Slots, EventSid

\* Closing descriptors keeps the kernel's two tables well typed.
LEMMA CloseType ==
  ASSUME LoopTypeOK, NEW closed, Close(closed)
  PROVE  /\ owner' \in [Fds -> {Free} \cup {Socket(c) : c \in Conns} \cup {File(s) : s \in Slots}]
         /\ epoll' \in [Fds -> {NotRegistered} \cup [sid : Nat, out : BOOLEAN]]
BY DEF LoopTypeOK, Close

LEMMA LoopTypeInit ==
  ASSUME ELInit
  PROVE  LoopTypeOK
<1> USE DEF ELInit
<1>1. sockset \in [Slots -> [sid : Sids \cup {0}, fd : Fds \cup {0}]]
  OBVIOUS
<1>2. requests \in [Slots -> [fd : Fds \cup {0}, answering : BOOLEAN]]
  OBVIOUS
<1>3. /\ epoll \in [Fds -> {NotRegistered} \cup [sid : Nat, out : BOOLEAN]]
      /\ owner \in [Fds -> {Free} \cup {Socket(c) : c \in Conns} \cup {File(s) : s \in Slots}]
  OBVIOUS
<1>4. /\ acceptor \in [step : AcceptorSteps, fd : Fds \cup {0}, sid : Sids \cup {0}, seen : Int]
      /\ acceptor.step = "idle"
  BY DEF AcceptorIdle, AcceptorSteps
<1>5. /\ io \in [step : IoSteps, sid : Nat, fd : Fds \cup {0}, cause : {"event", "timeout"}, seen : Int]
      /\ io.cause = "event"
  BY DEF IoIdle, IoSteps
<1> QED BY <1>1, <1>2, <1>3, <1>4, <1>5, MaxAcceptsAssumption DEF LoopTypeOK

LEMMA LoopTypeAcceptor ==
  ASSUME LoopTypeOK, AddConnection
  PROVE  LoopTypeOK'
<1> USE DEF LoopTypeOK, AcceptorSteps
<1>1. CASE AcceptConn
  <2> PICK fd \in Fds :
        /\ owner' = [owner EXCEPT ![fd] = Socket(accepted + 1)]
        /\ acceptor' = [AcceptorIdle EXCEPT !.step = "loaded", !.fd = fd, !.seen = cur_conn]
    BY <1>1 DEF AcceptConn
  <2>1. accepted + 1 \in Conns /\ accepted' \in 0 .. MaxAccepts
    BY <1>1, MaxAcceptsAssumption DEF AcceptConn, Conns
  <2>2. owner' \in [Fds -> {Free} \cup {Socket(c) : c \in Conns} \cup {File(s) : s \in Slots}]
    BY <2>1
  <2>3. /\ acceptor' \in [step : AcceptorSteps, fd : Fds \cup {0}, sid : Sids \cup {0}, seen : Int]
        /\ acceptor'.step = "loaded" /\ acceptor'.fd \in Fds
    BY DEF AcceptorIdle
  <2> QED BY <1>1, <2>1, <2>2, <2>3 DEF AcceptConn
<1>2. CASE CountConn
  <2>1. cur_conn' \in Int /\ faults' \subseteq Faults /\ rejected' \in Nat
    BY <1>2 DEF CountConn, Fault, Faults
  <2>2. /\ owner' \in [Fds -> {Free} \cup {Socket(c) : c \in Conns} \cup {File(s) : s \in Slots}]
        /\ epoll' \in [Fds -> {NotRegistered} \cup [sid : Nat, out : BOOLEAN]]
    BY <1>2, CloseType DEF CountConn
  <2>3. /\ acceptor' \in [step : AcceptorSteps, fd : Fds \cup {0}, sid : Sids \cup {0}, seen : Int]
        /\ acceptor'.step \in {"idle", "counted"}
        /\ acceptor'.step # "idle" => acceptor'.fd \in Fds
    BY <1>2 DEF CountConn, AcceptorIdle
  <2> QED BY <1>2, <2>1, <2>2, <2>3 DEF CountConn
<1>3. CASE PutSocket
  <2> DEFINE sid == curr_sid + SidsTried
  <2>1. sid \in Sids /\ sid \in Nat /\ acceptor.fd \in Fds
    BY <1>3, SidsAssumption DEF PutSocket
  <2>2. sockset' \in [Slots -> [sid : Sids \cup {0}, fd : Fds \cup {0}]]
    BY <1>3, <2>1, SlotType DEF PutSocket
  <2>3. /\ acceptor' \in [step : AcceptorSteps, fd : Fds \cup {0}, sid : Sids \cup {0}, seen : Int]
        /\ acceptor'.sid \in Sids /\ acceptor'.fd \in Fds
    BY <1>3, <2>1 DEF PutSocket
  <2>4. faults' \subseteq Faults
    BY <1>3 DEF PutSocket, Fault, Faults
  <2>5. curr_sid' \in Nat
    BY <1>3, <2>1 DEF PutSocket
  <2> QED BY <1>3, <2>2, <2>3, <2>4, <2>5 DEF PutSocket
<1>4. CASE AddToEpoll
  <2>1. acceptor.sid \in Nat /\ acceptor.fd \in Fds /\ acceptor.sid \in Sids
    BY <1>4, SidsAssumption DEF AddToEpoll
  <2>2. epoll' \in [Fds -> {NotRegistered} \cup [sid : Nat, out : BOOLEAN]]
    BY <1>4, <2>1 DEF AddToEpoll
  <2>3. /\ acceptor' \in [step : AcceptorSteps, fd : Fds \cup {0}, sid : Sids \cup {0}, seen : Int]
        /\ acceptor'.sid \in Sids /\ acceptor'.fd \in Fds
    BY <1>4, <2>1 DEF AddToEpoll
  <2> QED BY <1>4, <2>2, <2>3 DEF AddToEpoll
<1>5. CASE InsertTimer
  <2>1. CASE UNCHANGED loopVars
    BY <2>1 DEF loopVars
  <2>2. CASE acceptor' = AcceptorIdle /\ UNCHANGED <<sockset, curr_sid, cur_conn,
               requests, epoll, owner, batch, io, accepted, rejected, faults>>
    <3>1. /\ acceptor' \in [step : AcceptorSteps, fd : Fds \cup {0}, sid : Sids \cup {0}, seen : Int]
          /\ acceptor'.step = "idle"
      BY <2>2 DEF AcceptorIdle
    <3> QED BY <2>2, <3>1
  <2> QED BY <1>5, <2>1, <2>2 DEF InsertTimer
<1> QED BY <1>1, <1>2, <1>3, <1>4, <1>5 DEF AddConnection

\* The descriptors that ModEpoll is given are registered or left alone.
LEMMA ModEpollType ==
  ASSUME NEW table \in [Fds -> {NotRegistered} \cup [sid : Nat, out : BOOLEAN]],
         NEW fd, NEW sid \in Nat, NEW out \in BOOLEAN
  PROVE  ModEpoll(table, fd, sid, out) \in [Fds -> {NotRegistered} \cup [sid : Nat, out : BOOLEAN]]
BY DEF ModEpoll

LEMMA LoopTypeEvent ==
  ASSUME LoopTypeOK, NEW event \in batch,
         EventContinues(event) \/ RequestArrives(event) \/ ResponseEnds(event) \/ EventFails(event)
  PROVE  LoopTypeOK'
<1> USE DEF LoopTypeOK
<1>1. event.sid \in Nat /\ Slot(event.sid) \in Slots
  BY SlotType
<1>2. CASE EventContinues(event)
  BY <1>2 DEF EventContinues, TakeEvent
<1>3. CASE RequestArrives(event)
  <2> DEFINE slot == Slot(event.sid)
  <2>1. PICK file \in Fds \cup {0} :
          /\ requests' = [requests EXCEPT ![slot] = [fd |-> file, answering |-> TRUE]]
          /\ owner' = IF file = 0 THEN owner ELSE [owner EXCEPT ![file] = File(slot)]
    BY <1>3 DEF RequestArrives
  <2>2. requests' \in [Slots -> [fd : Fds \cup {0}, answering : BOOLEAN]]
    BY <1>1, <2>1
  <2>3. owner' \in [Fds -> {Free} \cup {Socket(c) : c \in Conns} \cup {File(s) : s \in Slots}]
    BY <1>1, <2>1
  <2>4. epoll' \in [Fds -> {NotRegistered} \cup [sid : Nat, out : BOOLEAN]]
    <3>1. epoll' = ModEpoll(epoll, sockset[slot].fd, event.sid, TRUE)
      BY <1>3 DEF RequestArrives
    <3> HIDE DEF slot
    <3> QED BY <1>1, <3>1, ModEpollType
  <2>5. batch' \subseteq batch
    BY <1>3 DEF RequestArrives, TakeEvent
  <2> QED BY <1>3, <2>2, <2>3, <2>4, <2>5 DEF RequestArrives
<1>4. CASE ResponseEnds(event)
  <2> DEFINE slot == Slot(event.sid)
             modified == ModEpoll(epoll, sockset[slot].fd, event.sid, FALSE)
             closed == FileToClose(slot)
  <2>1. requests' \in [Slots -> [fd : Fds \cup {0}, answering : BOOLEAN]]
    BY <1>1, <1>4 DEF ResponseEnds, ResetRequest
  <2>2. modified \in [Fds -> {NotRegistered} \cup [sid : Nat, out : BOOLEAN]]
    BY <1>1, ModEpollType
  <2>3. /\ owner' = [f \in Fds |-> IF f \in closed THEN Free ELSE owner[f]]
        /\ epoll' = [f \in Fds |-> IF f \in closed THEN NotRegistered ELSE modified[f]]
    BY <1>4 DEF ResponseEnds
  <2> HIDE DEF modified, closed
  <2>4. /\ owner' \in [Fds -> {Free} \cup {Socket(c) : c \in Conns} \cup {File(s) : s \in Slots}]
        /\ epoll' \in [Fds -> {NotRegistered} \cup [sid : Nat, out : BOOLEAN]]
    BY <2>2, <2>3
  <2>5. batch' \subseteq batch /\ faults' \subseteq Faults
    BY <1>4 DEF ResponseEnds, TakeEvent, Fault, Faults
  <2> QED BY <1>4, <2>1, <2>4, <2>5 DEF ResponseEnds
<1>5. CASE EventFails(event)
  <2>1. /\ io' \in [step : IoSteps, sid : Nat, fd : Fds \cup {0}, cause : {"event", "timeout"}, seen : Int]
        /\ io'.cause = "event"
    <3>1. sockset[Slot(event.sid)].fd \in Fds \cup {0}
      BY <1>1
    <3>2. io' = [step |-> "unlink", sid |-> event.sid,
                 fd |-> sockset[Slot(event.sid)].fd, cause |-> "event", seen |-> 0]
      BY <1>5 DEF EventFails, IoIdle
    <3> QED BY <1>1, <3>1, <3>2 DEF IoSteps
  <2>2. batch' \subseteq batch
    BY <1>5 DEF EventFails, TakeEvent
  <2> QED BY <1>5, <2>1, <2>2 DEF EventFails
<1> QED BY <1>2, <1>3, <1>4, <1>5

LEMMA LoopTypeTearDown ==
  ASSUME LoopTypeOK, TearDown
  PROVE  LoopTypeOK'
<1> DEFINE IoType == [step : IoSteps, sid : Nat, fd : Fds \cup {0}, cause : {"event", "timeout"}, seen : Int]
<1> USE DEF LoopTypeOK
<1>1. io.sid \in Nat /\ Slot(io.sid) \in Slots
  BY SlotType
<1>2. ASSUME NEW sid \in Sids, TimeoutFires(sid)
      PROVE  LoopTypeOK'
  <2>1. sid \in Nat /\ Slot(sid) \in Slots
    BY SidsAssumption, SlotType
  <2>2. io' \in IoType /\ io'.sid \in Sids
    BY <1>2, <2>1 DEF TimeoutFires, IoIdle, IoSteps
  <2> QED BY <1>2, <2>2 DEF TimeoutFires
<1>3. CASE UnlinkSock
  <2>1. epoll' \in [Fds -> {NotRegistered} \cup [sid : Nat, out : BOOLEAN]]
    BY <1>3 DEF UnlinkSock
  <2>2. /\ sockset' \in [Slots -> [sid : Sids \cup {0}, fd : Fds \cup {0}]]
        /\ io' \in IoType /\ io'.cause = io.cause /\ io'.sid = io.sid
    BY <1>1, <1>3 DEF UnlinkSock, IoSteps
  <2> QED BY <1>3, <2>1, <2>2 DEF UnlinkSock
<1>4. CASE CloseSock
  <2>1. io' \in IoType /\ io'.cause = io.cause /\ io'.sid = io.sid
    BY <1>4 DEF CloseSock, IoSteps
  <2>2. /\ owner' \in [Fds -> {Free} \cup {Socket(c) : c \in Conns} \cup {File(s) : s \in Slots}]
        /\ epoll' \in [Fds -> {NotRegistered} \cup [sid : Nat, out : BOOLEAN]]
    BY <1>4, CloseType DEF CloseSock
  <2> QED BY <1>4, <2>1, <2>2 DEF CloseSock
<1>5. CASE ResetSock
  <2>1. io' \in IoType /\ io'.cause = io.cause /\ io'.sid = io.sid
    BY <1>5 DEF ResetSock, IoSteps
  <2>2. /\ owner' \in [Fds -> {Free} \cup {Socket(c) : c \in Conns} \cup {File(s) : s \in Slots}]
        /\ epoll' \in [Fds -> {NotRegistered} \cup [sid : Nat, out : BOOLEAN]]
    BY <1>5, CloseType DEF ResetSock
  <2>3. requests' \in [Slots -> [fd : Fds \cup {0}, answering : BOOLEAN]]
    BY <1>1, <1>5 DEF ResetSock, ResetRequest
  <2>4. faults' \subseteq Faults
    BY <1>5 DEF ResetSock, Faults
  <2> QED BY <1>5, <2>1, <2>2, <2>3, <2>4 DEF ResetSock
<1>6. CASE UncountConn
  <2>1. io' \in IoType /\ io'.cause = "event"
    BY <1>6 DEF UncountConn, IoIdle, IoSteps
  <2>2. cur_conn' \in Int /\ faults' \subseteq Faults
    BY <1>6 DEF UncountConn, Fault, Faults
  <2> QED BY <1>6, <2>1, <2>2 DEF UncountConn
<1> QED BY <1>2, <1>3, <1>4, <1>5, <1>6 DEF TearDown

LEMMA LoopTypeStep ==
  ASSUME LoopTypeOK, [ELNext]_elVars
  PROVE  LoopTypeOK'
<1>1. CASE UNCHANGED loopVars
  BY <1>1 DEF loopVars, LoopTypeOK
<1>2. CASE AddConnection
  BY <1>2, LoopTypeAcceptor
<1>3. CASE EpollWait
  <2>1. PICK ready \in SUBSET {fd \in Fds : epoll[fd] # NotRegistered} :
          batch' = {[sid |-> EventSid(epoll[fd].sid), out |-> epoll[fd].out] : fd \in ready}
    BY <1>3 DEF EpollWait
  <2>2. \A fd \in ready : EventSid(epoll[fd].sid) \in Nat /\ epoll[fd].out \in BOOLEAN
    BY SlotType DEF LoopTypeOK
  <2>3. batch' \subseteq [sid : Nat, out : BOOLEAN]
    BY <2>1, <2>2
  <2>4. faults' \subseteq Faults
    BY <1>3 DEF EpollWait, Fault, Faults, LoopTypeOK
  <2> QED BY <1>3, <2>3, <2>4 DEF EpollWait, LoopTypeOK
<1>4. CASE HandleEvent
  BY <1>4, LoopTypeEvent DEF HandleEvent
<1>5. CASE TearDown
  BY <1>5, LoopTypeTearDown
<1>6. CASE CheckTimeout
  BY <1>1, <1>6 DEF CheckTimeout
<1> QED BY <1>1, <1>2, <1>3, <1>4, <1>5, <1>6 DEF ELNext, elVars

-----------------------------------------------------------------------------
(***************************************************************************)
(* Every step of the loop is a step of the timer or leaves it alone.       *)
(***************************************************************************)

LEMMA LoopTimerStep ==
  ASSUME LoopTypeOK, [ELNext]_elVars
  PROVE  [TimerNext]_timerVars
<1>1. CASE UNCHANGED timerVars
  BY <1>1
<1>2. CASE AddConnection
  <2>1. CASE AcceptConn \/ CountConn \/ PutSocket \/ AddToEpoll
    BY <2>1 DEF AcceptConn, CountConn, PutSocket, AddToEpoll
  <2>2. CASE InsertTimer
    BY <2>2 DEF InsertTimer, LoopTypeOK, TimerNext, AcceptorStep
  <2> QED BY <1>2, <2>1, <2>2 DEF AddConnection
<1>3. CASE EpollWait
  BY <1>3 DEF EpollWait
<1>4. CASE HandleEvent
  BY <1>4 DEF HandleEvent, EventContinues, RequestArrives, ResponseEnds, EventFails
<1>5. CASE TearDown
  <2>1. CASE (\E sid \in Sids : TimeoutFires(sid)) \/ UnlinkSock \/ CloseSock
    BY <2>1 DEF TimeoutFires, UnlinkSock, CloseSock
  <2>2. CASE ResetSock
    BY <2>2 DEF ResetSock, TimerNext, LoopStep
  <2>3. CASE UncountConn
    BY <2>3 DEF UncountConn, LoopTypeOK, TimerNext, LoopStep
  <2> QED BY <1>5, <2>1, <2>2, <2>3 DEF TearDown
<1>6. CASE CheckTimeout
  BY <1>6 DEF CheckTimeout, TimerNext, LoopStep
<1> QED BY <1>1, <1>2, <1>3, <1>4, <1>5, <1>6 DEF ELNext, elVars

\* The types of what the loop itself keeps.
THEOREM LoopTypes == ELSpec => []LoopTypeOK
<1>1. ELInit => LoopTypeOK
  BY LoopTypeInit
<1>2. LoopTypeOK /\ [ELNext]_elVars => LoopTypeOK'
  BY LoopTypeStep
<1> QED BY <1>1, <1>2, PTL DEF ELSpec

\* lmvs_el_add_connection and lmvs_el_io_loop use lmvs-timer.c as Timer says it is
\* used: the specification of the loop implements that of the timer.
THEOREM LoopImplementsTimer == ELSpec => DrivesTimer
<1>1. ELInit => TimerInit
  BY DEF ELInit
<1>2. LoopTypeOK /\ [ELNext]_elVars => [TimerNext]_timerVars
  BY LoopTimerStep
<1> QED BY <1>1, <1>2, LoopTypes, PTL DEF ELSpec, TimerSpec, DrivesTimer

\* Types of the loop and of its timer together.
THEOREM LoopTypeCorrect == ELSpec => []ELTypeOK
<1>1. TypeOK /\ LoopTypeOK => ELTypeOK
  BY DEF ELTypeOK
<1> QED BY <1>1, LoopTypes, LoopImplementsTimer, TypeCorrect, PTL DEF DrivesTimer

\* What the timer promises it promises in the loop: no connection is timed out
\* early and none is passed over, whatever the two threads and the clients do.
THEOREM LoopKeepsDeadlines == ELSpec => [](NeverEarly /\ NeverLate)
BY LoopImplementsTimer, NoneEarly, NoneLate, PTL DEF DrivesTimer

-----------------------------------------------------------------------------
(***************************************************************************)
(* What the two threads know of each other: the inductive invariant behind *)
(* Timed, CountExact, SocketsOwned and Registered.  SidInv and FreshInv    *)
(* hold whatever happens; each other part as long as the faults it names   *)
(* have not.                                                               *)
(***************************************************************************)

\* Sids are handed out in ascending order, so none of them is beyond curr_sid,
\* and every one that has been handed out is positive.
Known(sid) == HasEntry(sid) \/ sid \in keys \/ BeingInserted(sid)

SidInv ==
  /\ \A s \in Slots : InUse(s) => Slot(sockset[s].sid) = s /\ sockset[s].sid <= curr_sid
  /\ \A fd \in Fds : epoll[fd].sid <= curr_sid
  /\ \A event \in batch : event.sid <= curr_sid
  /\ io.sid <= curr_sid
  /\ acceptor.sid <= curr_sid
  /\ acceptor.step \in {"put", "added"} => acceptor.sid > 0
  /\ \A sid \in Sids : Known(sid) => 0 < sid /\ sid <= curr_sid

\* A sid on its way to the timer is not known there yet; one that was taken out
\* of its slot does not come back; keys are closed only between the batches of
\* events.
FreshInv ==
  /\ acceptor.step # "idle" => inserting = Idle
  /\ acceptor.step \in {"put", "added"} => ~Known(acceptor.sid)
  /\ io.step \in {"close", "reset", "uncount"} /\ io.sid # 0 => sockset[Slot(io.sid)].sid # io.sid
  /\ io.step # "idle" /\ io.cause = "timeout" => io.sid \in keys
  /\ io.step # "idle" /\ io.cause = "event" => checking = "events"
  /\ batch # {} => checking = "events"

\* Slots and timers name each other, but for a teardown in progress.
InSlot(sid) == sockset[Slot(sid)].sid = sid
TearingDown(sid) == io.step # "idle" /\ io.sid = sid

TimerOfEachSlot ==
  \A s \in Slots : InUse(s) => HasTimer(sockset[s].sid) \/ TimerUnderWay(sockset[s].sid)
SlotOfEachTimer ==
  \A sid \in Sids : HasTimer(sid) \/ TimerUnderWay(sid) \/ sid \in keys
                      => InSlot(sid) \/ TearingDown(sid)
TimerIsRemoved ==
  io.step = "uncount" /\ io.cause = "event" => ~HasTimer(io.sid) /\ ~TimerUnderWay(io.sid)

TimedInv ==
  Avoided({"overload", "early_close"}) =>
    TimerOfEachSlot /\ SlotOfEachTimer /\ TimerIsRemoved

\* Whatever is registered is the descriptor of a slot in use; an event is of a
\* connection that is still there, and each has one event at most; a teardown
\* begins at a slot in use.
InSlotWith(sid, fd) == sid # 0 /\ sockset[Slot(sid)] = [sid |-> sid, fd |-> fd]

RegisteredInSlot ==
  \A fd \in Fds : epoll[fd] # NotRegistered => InSlotWith(epoll[fd].sid, fd)
EventsOfSlots ==
  /\ \A event \in batch : event.sid # 0 /\ InSlot(event.sid)
  /\ \A event, other \in batch : event.sid = other.sid => event = other
  /\ io.step # "idle" /\ io.cause = "event" => \A event \in batch : event.sid # io.sid
PutUnannounced ==
  acceptor.step = "put" =>
    /\ InSlotWith(acceptor.sid, acceptor.fd)
    /\ \A fd \in Fds : epoll[fd].sid # acceptor.sid
    /\ \A event \in batch : event.sid # acceptor.sid
    /\ ~TearingDown(acceptor.sid)
TearDownFinds == io.step = "unlink" => InSlotWith(io.sid, io.fd)

EventInv ==
  Avoided({"overload", "early_close", "truncated"}) =>
    RegisteredInSlot /\ EventsOfSlots /\ PutUnannounced /\ TearDownFinds

\* An open socket has one holder, which is the acceptor or a slot.
Holds(s) == InUse(s) \/ Closing(s)
AcceptorHolds(fd) == acceptor.step \in {"loaded", "counted"} /\ acceptor.fd = fd

OneHolder ==
  /\ \A fd \in Fds : IsOpenSocket(fd) => AcceptorHolds(fd) \/ \E s \in Slots : Holds(s) /\ sockset[s].fd = fd
  /\ \A s \in Slots : Holds(s) => IsOpenSocket(sockset[s].fd) /\ ~AcceptorHolds(sockset[s].fd)
  /\ \A s, t \in Slots : Holds(s) /\ Holds(t) /\ sockset[s].fd = sockset[t].fd => s = t
  /\ \A fd \in Fds : AcceptorHolds(fd) => IsOpenSocket(fd)
RealSids ==
  /\ \A fd \in Fds : epoll[fd].sid # 0
  /\ \A event \in batch : event.sid # 0
  /\ io.step = "unlink" => io.sid # 0
  /\ io.step = "close" => ~InUse(Slot(io.sid))

OwnedInv ==
  Avoided({"overload", "torn_reset", "stray_close", "truncated"}) => OneHolder /\ RealSids

LoopInv ==
  /\ EarlyInv /\ LoopTypeOK
  /\ SidInv /\ FreshInv /\ TimedInv /\ EventInv /\ OwnedInv
  /\ Registered /\ CountExact

-----------------------------------------------------------------------------
(***************************************************************************)
(* What the steps do to faults, to the timers and to the sids in use.      *)
(***************************************************************************)

LEMMA LoopFaultsGrow ==
  ASSUME ELNext, NEW set
  PROVE  Avoided(set)' => Avoided(set)
<1>1. faults \subseteq faults'
  BY DEF ELNext, AddConnection, AcceptConn, CountConn, PutSocket, AddToEpoll, InsertTimer, loopVars,
         EpollWait, HandleEvent, EventContinues, RequestArrives, ResponseEnds, EventFails, TearDown,
         TimeoutFires, UnlinkSock, CloseSock, ResetSock, UncountConn, CheckTimeout, Fault
<1> QED BY <1>1 DEF Avoided

\* The search of lmvs_sockset_put ends, having moved on by at least one sid.
LEMMA SomeSidTried == SidsTried \in 1 .. MaxConn
<1> DEFINE free == {n \in 1 .. MaxConn : sockset[Slot(curr_sid + n)].sid = 0}
<1>1. CASE free = {}
  BY <1>1, MaxConnAssumption DEF SidsTried
<1>2. CASE free # {}
  <2> free \subseteq Nat
    OBVIOUS
  <2>1. \E n \in free : \A m \in free : ~ (<<m, n>> \in OpToRel(<, Nat))
    BY <1>2, NatLessThanWellFounded, WFMin, Zenon
  <2>2. PICK n \in free : \A m \in free : ~ (<<m, n>> \in OpToRel(<, Nat))
    BY <2>1
  <2>3. ASSUME NEW m \in free PROVE n <= m
    <3>1. <<m, n>> \in Nat \X Nat
      OBVIOUS
    <3>2. ~ (m < n)
      BY <2>2, <3>1 DEF OpToRel
    <3> QED BY <3>2
  <2>4. SidsTried = CHOOSE k \in free : \A m \in free : k <= m
    BY <1>2 DEF SidsTried
  <2> HIDE DEF free
  <2>5. SidsTried \in free
    BY <2>3, <2>4
  <2> QED BY <2>5 DEF free
<1> QED BY <1>1, <1>2

\* A node in a wheel has its entry, a key has its node, and a sid whose entry
\* has just been made has no node yet.
LEMMA TimersHaveEntries ==
  ASSUME EarlyInv, NEW sid \in Sids
  PROVE  /\ HasTimer(sid) => HasEntry(sid)
         /\ sid \in keys => HasTimer(sid) /\ checking = "closing"
         /\ inserting = Entered(sid) => HasEntry(sid) /\ ~HasTimer(sid) /\ sid \notin keys
<1> USE DEF EarlyInv
<1>1. HasTimer(sid) => HasEntry(sid)
  BY IntervalAssumption DEF HasTimer, HasEntry, Tracked, Wheels, NoWheel
<1>2. sid \in keys => HasTimer(sid) /\ checking = "closing"
  BY DEF KeysInWheel, HasTimer, TypeOK
<1> QED BY <1>1, <1>2 DEF EnteredIsUnlinked, HasTimer

\* lmvs_timer_remove takes the node of its sid out of the wheels, and no other.
LEMMA TimerRemoved ==
  ASSUME EarlyInv, NEW sid \in Sids, RemoveTimer(sid), NEW s \in Sids
  PROVE  /\ HasTimer(s)' <=> HasTimer(s) /\ s # sid
         /\ HasEntry(s)' => HasEntry(s)
<1> USE DEF EarlyInv
<1>1. CASE ~HasEntry(sid)
  <2>1. ~HasTimer(sid)
    BY <1>1, TimersHaveEntries
  <2> QED BY <1>1, <2>1 DEF RemoveTimer, structVars, HasTimer, HasEntry
<1>2. CASE sid \in freed_cells
  <2>1. ~HasTimer(sid)
    BY <1>2 DEF Tracked, HasTimer
  <2>2. UNCHANGED <<wheels_tbl, which_wheel_tbl>>
    BY <1>2 DEF RemoveTimer, ReadFreedCell, structVars
  <2> QED BY <2>1, <2>2 DEF HasTimer, HasEntry
<1>3. CASE HasEntry(sid) /\ sid \notin freed_cells
  <2> DEFINE w == which_wheel_tbl[sid]
  <2>1. w \in Wheels
    BY <1>3 DEF HasEntry, TypeOK
  <2>2. \A v \in Wheels : sid \in wheels_tbl[v] => v = w
    BY DEF Tracked
  <2>3. CASE sid \in wheels_tbl[w]
    <3>1. /\ wheels_tbl' = [wheels_tbl EXCEPT ![w] = @ \ {sid}]
          /\ which_wheel_tbl' = [which_wheel_tbl EXCEPT ![sid] = NoWheel]
      BY <1>3, <2>3 DEF RemoveTimer, Unlink
    <3>2. \A v \in Wheels : wheels_tbl'[v] = wheels_tbl[v] \ {sid}
      BY <2>1, <2>2, <3>1 DEF TypeOK
    <3>3. HasTimer(s)' <=> HasTimer(s) /\ s # sid
      BY <3>2 DEF HasTimer
    <3>4. HasEntry(s)' => HasEntry(s)
      BY <3>1 DEF HasEntry, TypeOK
    <3> QED BY <3>3, <3>4
  <2>4. CASE sid \notin wheels_tbl[w]
    <3>1. UNCHANGED <<wheels_tbl, which_wheel_tbl>>
      BY <1>3, <2>4 DEF RemoveTimer
    <3>2. ~HasTimer(sid)
      BY <2>2, <2>4 DEF HasTimer
    <3> QED BY <3>1, <3>2 DEF HasTimer, HasEntry
  <2> QED BY <2>3, <2>4
<1> QED BY <1>1, <1>2, <1>3

\* The sids that lmvs-timer.c knows of are those that it was given.
LEMMA KnownStep ==
  ASSUME EarlyInv, LoopTypeOK, ELNext, NEW s \in Sids, Known(s)'
  PROVE  Known(s) \/ (acceptor.step = "added" /\ s = acceptor.sid /\ acceptor' = AcceptorIdle)
<1> USE DEF Known
<1>1. CASE UNCHANGED timerVars
  BY <1>1 DEF timerVars, structVars, HasEntry, BeingInserted
<1>2. ASSUME acceptor.step = "added", InsertEnter(acceptor.sid)
      PROVE  Known(s) \/ s = acceptor.sid
  BY <1>2 DEF InsertEnter, HasEntry, BeingInserted, EarlyInv, TypeOK
<1>3. CASE InsertLink
  <2>1. inserting.sid \in Sids /\ inserting # Idle
    BY <1>3, InsertingTypes DEF InsertLink, EarlyInv, TypeOK, Idle
  <2>2. UNCHANGED <<which_wheel_tbl, keys>> /\ inserting'.sid = inserting.sid
    BY <1>3 DEF InsertLink, ReadFreedCell, Linked
  <2> QED BY <2>1, <2>2 DEF HasEntry, BeingInserted
<1>4. CASE InsertCount
  BY <1>4 DEF InsertCount, HasEntry, BeingInserted
<1>5. ASSUME NEW sid \in Sids, RemoveTimer(sid), keys' \subseteq keys, inserting' = inserting
      PROVE  Known(s)
  BY <1>5, TimerRemoved DEF BeingInserted
<1>6. CASE TurnWheel \/ CheckDone
  BY <1>6 DEF TurnWheel, CheckDone, structVars, HasEntry, BeingInserted
<1>7. CASE GetAllKeys
  <2>1. s \in keys' => HasTimer(s)
    BY <1>7 DEF GetAllKeys, HasTimer, EarlyInv, TypeOK
  <2> QED BY <1>7, <2>1, TimersHaveEntries DEF GetAllKeys, structVars, HasEntry, BeingInserted
<1>8. CASE AddConnection
  <2>1. CASE AcceptConn \/ CountConn \/ PutSocket \/ AddToEpoll
    BY <1>1, <2>1 DEF AcceptConn, CountConn, PutSocket, AddToEpoll
  <2>2. CASE InsertTimer
    BY <1>2, <1>3, <1>4, <2>2 DEF InsertTimer
  <2> QED BY <1>8, <2>1, <2>2 DEF AddConnection
<1>9. CASE EpollWait \/ HandleEvent
  BY <1>1, <1>9 DEF EpollWait, HandleEvent, EventContinues, RequestArrives, ResponseEnds, EventFails
<1>10. CASE TearDown
  <2>1. CASE (\E sid \in Sids : TimeoutFires(sid)) \/ UnlinkSock \/ CloseSock
    BY <1>1, <2>1 DEF TimeoutFires, UnlinkSock, CloseSock
  <2>2. CASE ResetSock
    BY <1>1, <1>5, <2>2 DEF ResetSock, RemoveOnEvent
  <2>3. CASE UncountConn
    BY <1>1, <1>5, <2>3 DEF UncountConn, CloseExpired, LoopTypeOK
  <2> QED BY <1>10, <2>1, <2>2, <2>3 DEF TearDown
<1>11. CASE CheckTimeout
  BY <1>6, <1>7, <1>11 DEF CheckTimeout
<1> QED BY <1>8, <1>9, <1>10, <1>11 DEF ELNext

-----------------------------------------------------------------------------
(***************************************************************************)
(* The sids in use.                                                        *)
(***************************************************************************)

\* A sid is put in the slot it belongs to, and it is a new one.
LEMMA SidPut ==
  ASSUME LoopTypeOK, PutSocket
  PROVE  /\ acceptor'.sid = curr_sid'
         /\ curr_sid' \in Sids /\ curr_sid' > curr_sid
         /\ Slot(curr_sid') \in Slots
         /\ sockset' = [sockset EXCEPT ![Slot(curr_sid')] = [sid |-> curr_sid', fd |-> acceptor.fd]]
<1>1. SidsTried \in 1 .. MaxConn
  BY SomeSidTried
<1>2. curr_sid' \in Sids /\ curr_sid' = curr_sid + SidsTried
  BY DEF PutSocket
<1>3. curr_sid' \in Nat
  BY <1>2, SidsAssumption
<1> QED BY <1>1, <1>2, <1>3, SlotType DEF PutSocket, LoopTypeOK

\* The sid of an event is never more than the one it was registered under.
LEMMA EventSidBound ==
  ASSUME NEW sid \in Nat
  PROVE  EventSid(sid) \in Nat /\ EventSid(sid) <= sid
BY SidModulusAssumption DEF EventSid

LEMMA SidInit ==
  ASSUME ELInit
  PROVE  SidInv
BY DEF ELInit, TimerInit, SidInv, InUse, NotRegistered, IoIdle, AcceptorIdle, Known, HasEntry,
       NoWheel, BeingInserted

\* The sids kept anywhere are natural numbers, and have a slot.
LEMMA SidTypes ==
  ASSUME LoopTypeOK
  PROVE  /\ \A s \in Slots : sockset[s].sid \in Nat /\ sockset[s].fd \in Fds \cup {0}
         /\ \A fd \in Fds : epoll[fd] = NotRegistered \/ epoll[fd].sid \in Nat
         /\ \A event \in batch : event.sid \in Nat /\ Slot(event.sid) \in Slots
         /\ io.sid \in Nat /\ Slot(io.sid) \in Slots
         /\ acceptor.sid \in Nat /\ Slot(acceptor.sid) \in Slots
         /\ curr_sid \in Nat
<1>1. \A s \in Slots : sockset[s] \in [sid : Sids \cup {0}, fd : Fds \cup {0}]
  BY DEF LoopTypeOK
<1>2. \A s \in Slots : sockset[s].sid \in Nat /\ sockset[s].fd \in Fds \cup {0}
  BY <1>1, SidsAssumption
<1>3. io.sid \in Nat /\ curr_sid \in Nat /\ acceptor.sid \in Sids \cup {0}
  BY DEF LoopTypeOK
<1>4. \A fd \in Fds : epoll[fd] = NotRegistered \/ epoll[fd].sid \in Nat
  BY DEF LoopTypeOK
<1>5. \A event \in batch : event.sid \in Nat
  BY DEF LoopTypeOK
<1>6. acceptor.sid \in Nat
  <2>1. CASE acceptor.sid \in Sids
    BY <2>1, SidsAssumption
  <2>2. CASE acceptor.sid = 0
    BY <2>2
  <2> QED BY <1>3, <2>1, <2>2
<1> QED BY <1>2, <1>3, <1>4, <1>5, <1>6, SlotType

\* Where a teardown and an acceptance go from one step to the next.
LEMMA TearDownMoves ==
  ASSUME LoopTypeOK
  PROVE  /\ UnlinkSock \/ CloseSock \/ ResetSock =>
              io'.sid = io.sid /\ io'.fd = io.fd /\ io'.cause = io.cause
         /\ UnlinkSock => /\ io.step = "unlink"
                          /\ io'.step = IF InSlot(io.sid) THEN "close" ELSE "reset"
         /\ CloseSock => io.step = "close" /\ io'.step = "reset"
         /\ ResetSock => io.step = "reset" /\ io'.step = "uncount" /\ io'.seen = cur_conn
<1>1. io \in [step : IoSteps, sid : Nat, fd : Fds \cup {0}, cause : {"event", "timeout"}, seen : Int]
  BY DEF LoopTypeOK
<1> QED BY <1>1 DEF UnlinkSock, CloseSock, ResetSock, InSlot

LEMMA AcceptorMoves ==
  ASSUME LoopTypeOK
  PROVE  /\ CountConn => /\ acceptor.step = "loaded"
                         /\ \/ acceptor' = AcceptorIdle
                            \/ /\ acceptor'.step = "counted"
                               /\ acceptor'.fd = acceptor.fd /\ acceptor'.sid = acceptor.sid
         /\ PutSocket => /\ acceptor.step = "counted" /\ acceptor'.step = "put"
                         /\ acceptor'.fd = acceptor.fd
         /\ AddToEpoll => /\ acceptor.step = "put" /\ acceptor'.step = "added"
                          /\ acceptor'.fd = acceptor.fd /\ acceptor'.sid = acceptor.sid
<1>1. acceptor \in [step : AcceptorSteps, fd : Fds \cup {0}, sid : Sids \cup {0}, seen : Int]
  BY DEF LoopTypeOK
<1> QED BY <1>1 DEF CountConn, PutSocket, AddToEpoll

LEMMA SidStepPut ==
  ASSUME LoopTypeOK, SidInv, PutSocket
  PROVE  SidInv'
<1>1. /\ acceptor'.sid = curr_sid' /\ curr_sid' \in Sids /\ curr_sid' > curr_sid
      /\ sockset' = [sockset EXCEPT ![Slot(curr_sid')] = [sid |-> curr_sid', fd |-> acceptor.fd]]
  BY SidPut
<1>2. curr_sid \in Nat /\ curr_sid' \in Nat
  BY <1>1, SidsAssumption DEF LoopTypeOK
<1>3. \A s \in Slots : InUse(s)' => Slot(sockset'[s].sid) = s /\ sockset'[s].sid <= curr_sid'
  <2>1. \A s \in Slots : sockset[s].sid \in Nat
    BY SidTypes
  <2>2. \A s \in Slots : sockset'[s] = IF s = Slot(curr_sid') THEN [sid |-> curr_sid', fd |-> acceptor.fd]
                                                           ELSE sockset[s]
    BY <1>1 DEF LoopTypeOK
  <2> QED BY <1>1, <1>2, <2>1, <2>2 DEF SidInv, InUse
<1>4. /\ \A fd \in Fds : epoll'[fd].sid <= curr_sid'
      /\ \A event \in batch' : event.sid <= curr_sid'
      /\ io'.sid <= curr_sid'
  BY <1>1, <1>2 DEF PutSocket, NotRegistered, SidInv, LoopTypeOK
<1>5. ASSUME NEW sid \in Sids, Known(sid)'
      PROVE  0 < sid /\ sid <= curr_sid'
  <2>1. Known(sid)
    BY <1>5 DEF PutSocket, timerVars, structVars, Known, HasEntry, BeingInserted
  <2> QED BY <1>1, <1>2, <2>1, SidsAssumption DEF SidInv
<1> QED BY <1>1, <1>2, <1>3, <1>4, <1>5 DEF SidInv

LEMMA SidStep ==
  ASSUME EarlyInv, LoopTypeOK, SidInv, ELNext
  PROVE  SidInv'
<1> DEFINE KnownInv == \A sid \in Sids : Known(sid) => 0 < sid /\ sid <= curr_sid
<1>4. CASE PutSocket
  BY <1>4, SidStepPut
<1> USE DEF SidInv, LoopTypeOK
<1>1. ASSUME curr_sid' = curr_sid
      PROVE  KnownInv'
  BY <1>1, KnownStep
<1> USE DEF InUse
<1>2. CASE AcceptConn
  BY <1>1, <1>2 DEF AcceptConn, AcceptorIdle
<1>3. CASE CountConn
  BY <1>1, <1>3 DEF CountConn, Close, AcceptorIdle, NotRegistered
<1>5. CASE AddToEpoll
  BY <1>1, <1>5 DEF AddToEpoll
<1>6. CASE InsertTimer
  <2>1. UNCHANGED <<sockset, curr_sid, epoll, batch, io>>
    BY <1>6 DEF InsertTimer, loopVars
  <2>2. acceptor' = AcceptorIdle \/ acceptor' = acceptor
    BY <1>6 DEF InsertTimer, loopVars
  <2> QED BY <1>1, <2>1, <2>2 DEF AcceptorIdle
<1>7. CASE EpollWait
  <2>1. PICK ready \in SUBSET {fd \in Fds : epoll[fd] # NotRegistered} :
          batch' = {[sid |-> EventSid(epoll[fd].sid), out |-> epoll[fd].out] : fd \in ready}
    BY <1>7 DEF EpollWait
  <2>2. ASSUME NEW event \in batch'
        PROVE  event.sid <= curr_sid
    <3>1. PICK fd \in ready : event.sid = EventSid(epoll[fd].sid)
      BY <2>1
    <3>2. epoll[fd].sid \in Nat /\ epoll[fd].sid <= curr_sid
      BY <3>1
    <3> QED BY <3>1, <3>2, EventSidBound
  <2> QED BY <1>1, <1>7, <2>2 DEF EpollWait
<1>8. ASSUME NEW event \in batch, EventContinues(event)
      PROVE  SidInv'
  BY <1>1, <1>8 DEF EventContinues, TakeEvent
<1>9. ASSUME NEW event \in batch, RequestArrives(event)
      PROVE  SidInv'
  BY <1>1, <1>9 DEF RequestArrives, TakeEvent, ModEpoll
<1>10. ASSUME NEW event \in batch, ResponseEnds(event)
       PROVE  SidInv'
  BY <1>1, <1>10 DEF ResponseEnds, TakeEvent, ModEpoll, NotRegistered
<1>11. ASSUME NEW event \in batch, EventFails(event)
       PROVE  SidInv'
  BY <1>1, <1>11 DEF EventFails, TakeEvent, IoIdle
<1>12. ASSUME NEW sid \in Sids, TimeoutFires(sid)
       PROVE  SidInv'
  <2>1. sid <= curr_sid
    BY <1>12 DEF TimeoutFires, Known
  <2> QED BY <1>1, <1>12, <2>1 DEF TimeoutFires, IoIdle
<1>13. CASE UnlinkSock
  <2>1. /\ \A fd \in Fds : epoll'[fd] \in {epoll[fd], NotRegistered}
        /\ \A s \in Slots : sockset'[s].sid \in {sockset[s].sid, 0}
        /\ io'.sid = io.sid
        /\ UNCHANGED <<curr_sid, batch, acceptor>>
    BY <1>13 DEF UnlinkSock
  <2> QED BY <1>1, <2>1 DEF NotRegistered
<1>14. CASE CloseSock
  BY <1>1, <1>14 DEF CloseSock, Close, NotRegistered
<1>15. CASE ResetSock
  BY <1>1, <1>15 DEF ResetSock, Close, NotRegistered
<1>16. CASE UncountConn
  BY <1>1, <1>16 DEF UncountConn, IoIdle
<1>17. CASE CheckTimeout
  BY <1>1, <1>17 DEF CheckTimeout, loopVars
<1> QED BY <1>2, <1>3, <1>4, <1>5, <1>6, <1>7, <1>8, <1>9, <1>10, <1>11, <1>12, <1>13, <1>14,
           <1>15, <1>16, <1>17 DEF ELNext, AddConnection, HandleEvent, TearDown

-----------------------------------------------------------------------------
(***************************************************************************)
(* A sid on its way in or out.                                             *)
(***************************************************************************)

LEMMA FreshInit ==
  ASSUME ELInit
  PROVE  FreshInv
BY DEF ELInit, TimerInit, FreshInv, AcceptorIdle, IoIdle

LEMMA FreshAcceptor ==
  ASSUME EarlyInv, LoopTypeOK, SidInv, FreshInv, AddConnection
  PROVE  FreshInv'
<1> USE DEF FreshInv
<1>1. CASE AcceptConn
  BY <1>1 DEF AcceptConn, AcceptorIdle, timerVars
<1>2. CASE CountConn
  BY <1>2, AcceptorMoves DEF CountConn, AcceptorIdle, timerVars
<1>3. CASE PutSocket
  <2>1. acceptor'.sid = curr_sid' /\ curr_sid' \in Sids /\ curr_sid' > curr_sid
    BY <1>3, SidPut
  <2>2. /\ UNCHANGED <<timerVars, io, batch>> /\ inserting = Idle
        /\ sockset' = [sockset EXCEPT ![Slot(curr_sid')] = [sid |-> curr_sid', fd |-> acceptor.fd]]
    BY <1>3, SidPut DEF PutSocket
  <2>3. ~Known(curr_sid')
    BY <2>1, SidsAssumption DEF SidInv, LoopTypeOK
  <2>4. ~Known(acceptor.sid)'
    BY <2>1, <2>2, <2>3 DEF Known, HasEntry, BeingInserted, timerVars, structVars
  <2>5. Slot(io.sid) \in Slots /\ io.sid # curr_sid'
    BY <2>1, SidTypes, SidsAssumption DEF SidInv
  <2>6. sockset'[Slot(io.sid)].sid \in {sockset[Slot(io.sid)].sid, curr_sid'}
    BY <2>2, <2>5 DEF LoopTypeOK
  <2> QED BY <2>2, <2>4, <2>5, <2>6 DEF timerVars
<1>4. CASE AddToEpoll
  <2>1. UNCHANGED <<timerVars, sockset, batch, io>> /\ acceptor'.sid = acceptor.sid
    BY <1>4, AcceptorMoves DEF AddToEpoll
  <2>2. Known(acceptor.sid)' <=> Known(acceptor.sid)
    BY <2>1 DEF timerVars, structVars, Known, HasEntry, BeingInserted
  <2> QED BY <1>4, <2>1, <2>2 DEF AddToEpoll, timerVars
<1>5. CASE InsertTimer
  <2>1. UNCHANGED <<checking, keys, io, batch, sockset>>
    BY <1>5 DEF InsertTimer, loopVars, InsertEnter, InsertLink, InsertCount
  <2>2. acceptor'.step = "idle"
    BY <1>5 DEF InsertTimer, loopVars, InsertLink, InsertCount, AcceptorIdle, Idle
  <2> QED BY <2>1, <2>2
<1> QED BY <1>1, <1>2, <1>3, <1>4, <1>5 DEF AddConnection

LEMMA FreshLoop ==
  ASSUME EarlyInv, LoopTypeOK, SidInv, FreshInv, ELNext,
         EpollWait \/ HandleEvent \/ TearDown \/ CheckTimeout
  PROVE  FreshInv'
<1> DEFINE NotKnown == acceptor.step \in {"put", "added"} => ~Known(acceptor.sid)
           FindsNone == io.step \in {"close", "reset", "uncount"} /\ io.sid # 0
                          => sockset[Slot(io.sid)].sid # io.sid
           Timeout == io.step # "idle" /\ io.cause = "timeout" => io.sid \in keys
           Event == io.step # "idle" /\ io.cause = "event" => checking = "events"
           Batch == batch # {} => checking = "events"
<1>1. acceptor' = acceptor /\ inserting' = inserting
  BY DEF EpollWait, HandleEvent, EventContinues, RequestArrives, ResponseEnds, EventFails, TearDown,
         TimeoutFires, UnlinkSock, CloseSock, ResetSock, UncountConn, CheckTimeout, timerVars,
         RemoveOnEvent, CloseExpired, TurnWheel, GetAllKeys, CheckDone, loopVars
<1>2. NotKnown'
  BY <1>1, KnownStep DEF FreshInv, LoopTypeOK, AcceptorIdle
<1>3. CASE EpollWait
  BY <1>1, <1>2, <1>3 DEF FreshInv, EpollWait, BetweenPasses, timerVars
<1>4. ASSUME NEW event \in batch,
             EventContinues(event) \/ RequestArrives(event) \/ ResponseEnds(event) \/ EventFails(event)
      PROVE  FreshInv'
  <2>1. checking' = "events" /\ sockset' = sockset /\ keys' = keys
    BY <1>4 DEF FreshInv, EventContinues, RequestArrives, ResponseEnds, EventFails, timerVars
  <2>2. io' = io \/ (io'.step = "unlink" /\ io'.cause = "event")
    BY <1>4 DEF EventContinues, RequestArrives, ResponseEnds, EventFails, IoIdle
  <2> QED BY <1>1, <1>2, <2>1, <2>2 DEF FreshInv
<1>5. ASSUME NEW sid \in Sids, TimeoutFires(sid)
      PROVE  FreshInv'
  BY <1>1, <1>2, <1>5 DEF FreshInv, TimeoutFires, IoIdle, timerVars
<1>6. CASE UnlinkSock
  <2>1. UNCHANGED <<keys, checking, batch>> /\ io'.sid = io.sid /\ io'.cause = io.cause
        /\ io'.step # "idle" /\ io.step # "idle"
    BY <1>6, TearDownMoves DEF UnlinkSock, timerVars
  <2>2. io.sid # 0 => sockset'[Slot(io.sid)].sid # io.sid
    BY <1>6, SidTypes DEF UnlinkSock, LoopTypeOK
  <2> QED BY <1>1, <1>2, <2>1, <2>2 DEF FreshInv
<1>7. CASE CloseSock \/ ResetSock
  <2>1. /\ UNCHANGED <<keys, checking, batch, sockset>>
        /\ io'.sid = io.sid /\ io'.cause = io.cause
        /\ io.step \in {"close", "reset"}
    BY <1>7, TearDownMoves DEF CloseSock, ResetSock, timerVars, RemoveOnEvent
  <2> QED BY <1>1, <1>2, <2>1 DEF FreshInv
<1>8. CASE UncountConn
  BY <1>1, <1>2, <1>8 DEF FreshInv, UncountConn, CloseExpired, IoIdle, timerVars
<1>9. CASE CheckTimeout
  BY <1>1, <1>2, <1>9 DEF FreshInv, CheckTimeout, IoIdle, loopVars
<1> QED BY <1>3, <1>4, <1>5, <1>6, <1>7, <1>8, <1>9 DEF HandleEvent, TearDown

-----------------------------------------------------------------------------
(***************************************************************************)
(* Slots and timers.                                                       *)
(***************************************************************************)

\* No slot in use has the sid that a teardown has taken out of its slot.
LEMMA NotInAnySlot ==
  ASSUME LoopTypeOK, SidInv, FreshInv, io.step \in {"close", "reset", "uncount"},
         NEW s \in Slots, InUse(s)
  PROVE  sockset[s].sid # io.sid
BY DEF SidInv, FreshInv, InUse

\* The sids of slots in use are among Sids; only those have timers.
LEMMA SidsInUse ==
  ASSUME LoopTypeOK, TypeOK
  PROVE  /\ \A s \in Slots : InUse(s) => sockset[s].sid \in Sids
         /\ \A sid : HasTimer(sid) => sid \in Sids
BY DEF LoopTypeOK, TypeOK, InUse, HasTimer

\* What the parts of TimedInv depend on, when nothing else than this changes.
LEMMA TimedFrame ==
  ASSUME LoopTypeOK, TypeOK, TimedInv, Avoided({"overload", "early_close"}),
         UNCHANGED <<sockset, keys, wheels_tbl>>,
         \A s : TimerUnderWay(s)' <=> TimerUnderWay(s),
         \A s : TearingDown(s) => TearingDown(s)',
         io' = io \/ io'.step # "uncount" \/ io'.cause # "event"
  PROVE  TimedInv'
<1>1. \A s : (HasTimer(s)' <=> HasTimer(s)) /\ (InSlot(s)' <=> InSlot(s))
  BY DEF HasTimer, InSlot
<1>2. \A s \in Slots : InUse(s)' => InUse(s) /\ sockset'[s].sid \in Sids
  BY SidsInUse DEF InUse
<1>3. TimerOfEachSlot'
  BY <1>1, <1>2 DEF TimedInv, TimerOfEachSlot
<1>4. SlotOfEachTimer'
  BY <1>1 DEF TimedInv, SlotOfEachTimer
<1>5. TimerIsRemoved'
  BY <1>1 DEF TimedInv, TimerIsRemoved
<1> QED BY <1>3, <1>4, <1>5 DEF TimedInv

LEMMA TimedInit ==
  ASSUME ELInit
  PROVE  TimedInv
BY DEF ELInit, TimerInit, TimedInv, TimerOfEachSlot, SlotOfEachTimer, TimerIsRemoved, InUse,
       HasTimer, TimerUnderWay, AcceptorIdle, IoIdle, Idle, Entered

LEMMA TimedPut ==
  ASSUME EarlyInv, LoopTypeOK, SidInv, FreshInv, TimedInv, PutSocket,
         Avoided({"overload", "early_close"}), Avoided({"overload", "early_close"})'
  PROVE  TimedInv'
<1> DEFINE new == curr_sid'
<1>1. /\ acceptor.step = "counted" /\ acceptor'.step = "put" /\ acceptor'.sid = new
      /\ new \in Sids /\ new \in Nat /\ new > curr_sid /\ Slot(new) \in Slots
      /\ sockset' = [sockset EXCEPT ![Slot(new)] = [sid |-> new, fd |-> acceptor.fd]]
      /\ UNCHANGED <<timerVars, io>>
  BY SidPut, AcceptorMoves, SidTypes, SidsAssumption DEF PutSocket
<1> HIDE DEF new
<1>2. inserting = Idle /\ inserting' = Idle
  BY <1>1 DEF FreshInv, timerVars
<1>3. \A s : ~TimerUnderWay(s) /\ (TimerUnderWay(s)' <=> s = new)
  BY <1>1, <1>2 DEF TimerUnderWay, Idle, Entered
<1>4. \A s : (HasTimer(s)' <=> HasTimer(s)) /\ (TearingDown(s)' <=> TearingDown(s))
  BY <1>1 DEF HasTimer, TearingDown, timerVars, structVars
<1>5. sockset[Slot(new)].sid = 0
  <2>1. sockset[Slot(curr_sid')].sid # 0 => Fault("overload", TRUE)
    BY SidPut DEF PutSocket
  <2> QED BY <2>1 DEF Avoided, Fault, new
<1>6. \A s \in Slots : sockset'[s] = IF s = Slot(new) THEN [sid |-> new, fd |-> acceptor.fd] ELSE sockset[s]
  BY <1>1 DEF LoopTypeOK
<1>7. TimerOfEachSlot'
  BY <1>3, <1>4, <1>6 DEF TimedInv, TimerOfEachSlot, InUse
<1>8. ASSUME NEW sid \in Sids, (HasTimer(sid) \/ TimerUnderWay(sid) \/ sid \in keys)'
      PROVE  (InSlot(sid) \/ TearingDown(sid))'
  <2>1. CASE sid = new
    BY <1>1, <1>6, <2>1 DEF InSlot
  <2>2. CASE sid # new
    <3>1. HasTimer(sid) \/ sid \in keys
      BY <1>1, <1>3, <1>4, <1>8, <2>2 DEF timerVars
    <3>2. sid > 0
      BY <3>1, TimersHaveEntries DEF SidInv, Known
    <3>3. InSlot(sid) \/ TearingDown(sid)
      BY <3>1 DEF TimedInv, SlotOfEachTimer
    <3>4. sid \in Nat /\ Slot(sid) \in Slots
      BY SidsAssumption, SlotType
    <3> QED BY <1>4, <1>5, <1>6, <3>2, <3>3, <3>4 DEF InSlot
  <2> QED BY <2>1, <2>2
<1>9. TimerIsRemoved'
  <2>1. io.sid # new
    BY <1>1, SidTypes DEF SidInv
  <2> QED BY <1>1, <1>3, <1>4, <2>1 DEF TimedInv, TimerIsRemoved
<1> QED BY <1>7, <1>8, <1>9 DEF TimedInv, SlotOfEachTimer

LEMMA TimedAcceptor ==
  ASSUME EarlyInv, LoopTypeOK, SidInv, FreshInv, TimedInv, AddConnection,
         Avoided({"overload", "early_close"}), Avoided({"overload", "early_close"})'
  PROVE  TimedInv'
<1> TypeOK
  BY DEF EarlyInv
<1>1. CASE AcceptConn
  <2>1. \A s : TimerUnderWay(s)' <=> TimerUnderWay(s)
    BY <1>1 DEF AcceptConn, TimerUnderWay, AcceptorIdle, timerVars
  <2> QED BY <1>1, <2>1, TimedFrame DEF AcceptConn, TearingDown, timerVars, structVars
<1>2. CASE CountConn
  <2>1. acceptor.step = "loaded" /\ acceptor'.step \in {"idle", "counted"}
    BY <1>2, AcceptorMoves DEF AcceptorIdle
  <2>2. \A s : TimerUnderWay(s)' <=> TimerUnderWay(s)
    BY <1>2, <2>1 DEF CountConn, TimerUnderWay, timerVars
  <2> QED BY <1>2, <2>2, TimedFrame DEF CountConn, TearingDown, timerVars, structVars
<1>3. CASE PutSocket
  BY <1>3, TimedPut
<1>4. CASE AddToEpoll
  <2>1. \A s : TimerUnderWay(s)' <=> TimerUnderWay(s)
    BY <1>4, AcceptorMoves DEF AddToEpoll, TimerUnderWay, timerVars
  <2> QED BY <1>4, <2>1, TimedFrame DEF AddToEpoll, TearingDown, timerVars, structVars
<1>5. ASSUME acceptor.step = "added", InsertEnter(acceptor.sid), acceptor' = AcceptorIdle, UNCHANGED <<sockset, io>>
      PROVE  TimedInv'
  <2>1. inserting = Idle /\ inserting' = Entered(acceptor.sid)
    BY <1>5 DEF InsertEnter, Entered
  <2>2. \A s : TimerUnderWay(s)' <=> s = acceptor.sid
    BY <1>5, <2>1 DEF TimerUnderWay, AcceptorIdle, Entered
  <2>3. \A s : TimerUnderWay(s) <=> s = acceptor.sid
    BY <1>5, <2>1 DEF TimerUnderWay, Idle, Entered
  <2> QED BY <1>5, <2>2, <2>3, TimedFrame DEF InsertEnter, TearingDown
<1>6. CASE InsertLink /\ UNCHANGED loopVars
  <2> DEFINE sid == inserting.sid
             w == which_wheel_tbl[sid]
  <2>1. sid \in Sids /\ inserting = Entered(sid) /\ inserting # Idle
    BY <1>6, InsertingTypes DEF InsertLink, TypeOK, Idle
  <2>2. acceptor.step = "idle" /\ acceptor' = acceptor /\ UNCHANGED <<sockset, io, keys>>
    BY <1>6, <2>1 DEF FreshInv, loopVars, InsertLink
  <2>3. CASE sid \in freed_cells
    <3>1. UNCHANGED <<inserting, wheels_tbl>>
      BY <1>6, <2>3 DEF InsertLink, ReadFreedCell
    <3>2. \A s : TimerUnderWay(s)' <=> TimerUnderWay(s)
      BY <2>2, <3>1 DEF TimerUnderWay
    <3> QED BY <2>2, <3>1, <3>2, TimedFrame DEF TearingDown
  <2>4. CASE sid \notin freed_cells
    <3>1. /\ wheels_tbl' = [wheels_tbl EXCEPT ![w] = @ \cup {sid}]
          /\ inserting' = Linked(sid, w)
      BY <1>6, <2>4 DEF InsertLink
    <3>2. w \in Wheels
      BY <2>1, TimersHaveEntries DEF TypeOK, HasEntry
    <3>3. \A v \in Wheels : wheels_tbl'[v] = IF v = w THEN wheels_tbl[v] \cup {sid} ELSE wheels_tbl[v]
      BY <3>1, <3>2 DEF TypeOK
    <3> HIDE DEF sid, w
    <3>4. \A s : (HasTimer(s)' <=> HasTimer(s) \/ s = sid) /\ (InSlot(s)' <=> InSlot(s))
      BY <2>2, <3>2, <3>3 DEF HasTimer, InSlot
    <3>5. \A s : (TimerUnderWay(s) <=> s = sid) /\ ~TimerUnderWay(s)'
      BY <2>1, <2>2, <3>1 DEF TimerUnderWay, Linked, Entered
    <3>6. \A s \in Slots : InUse(s)' => InUse(s) /\ sockset'[s].sid = sockset[s].sid
      BY <2>2 DEF InUse
    <3>7. TimerOfEachSlot'
      BY <3>4, <3>5, <3>6 DEF TimedInv, TimerOfEachSlot
    <3>8. SlotOfEachTimer'
      BY <2>2, <3>4, <3>5 DEF TimedInv, SlotOfEachTimer, TearingDown
    <3>9. TimerIsRemoved'
      BY <2>2, <3>4, <3>5 DEF TimedInv, TimerIsRemoved
    <3> QED BY <3>7, <3>8, <3>9 DEF TimedInv
  <2> QED BY <2>3, <2>4
<1>7. CASE InsertCount /\ UNCHANGED loopVars
  <2>1. acceptor.step = "idle" /\ acceptor' = acceptor /\ inserting' = Idle /\ inserting.step = "linked"
    BY <1>7 DEF FreshInv, loopVars, InsertCount, Idle
  <2>2. \A s : TimerUnderWay(s)' <=> TimerUnderWay(s)
    BY <2>1 DEF TimerUnderWay, Idle, Entered
  <2> QED BY <1>7, <2>2, TimedFrame DEF InsertCount, TearingDown, loopVars
<1> QED BY <1>1, <1>2, <1>3, <1>4, <1>5, <1>6, <1>7 DEF AddConnection, InsertTimer

LEMMA TimedReset ==
  ASSUME EarlyInv, LoopTypeOK, SidInv, FreshInv, TimedInv, ResetSock,
         Avoided({"overload", "early_close"}), Avoided({"overload", "early_close"})'
  PROVE  TimedInv'
<1> TypeOK
  BY DEF EarlyInv
<1>1. /\ io.step = "reset" /\ io'.step = "uncount" /\ io'.sid = io.sid /\ io'.cause = io.cause
      /\ UNCHANGED <<sockset, acceptor>>
  BY TearDownMoves DEF ResetSock
<1>2. \A s : TearingDown(s)' <=> TearingDown(s)
  BY <1>1 DEF TearingDown
<1>3. CASE io.cause # "event"
  <2>1. UNCHANGED timerVars
    BY <1>3 DEF ResetSock
  <2>2. \A s : TimerUnderWay(s)' <=> TimerUnderWay(s)
    BY <1>1, <2>1 DEF TimerUnderWay, timerVars
  <2> QED BY <1>1, <1>2, <1>3, <2>1, <2>2, TimedFrame DEF timerVars, structVars
<1>4. CASE io.cause = "event"
  <2>1. ~TimerUnderWay(io.sid)
    BY <1>4 DEF ResetSock, Avoided
  <2>2. /\ inserting' = inserting /\ keys' = keys
        /\ \A s \in Sids : HasTimer(s)' <=> HasTimer(s) /\ s # io.sid
    <3>1. CASE io.sid \in Sids
      BY <1>4, <3>1, TimerRemoved DEF ResetSock, RemoveOnEvent
    <3>2. CASE io.sid \notin Sids
      BY <1>4, <3>2 DEF ResetSock, HasTimer, timerVars, structVars
    <3> QED BY <3>1, <3>2
  <2>3. TypeOK'
    <3>1. [TimerNext]_timerVars
      BY <1>4 DEF ResetSock, TimerNext, LoopStep
    <3> QED BY <3>1, EarlyStep DEF EarlyInv
  <2>4. \A s : HasTimer(s)' <=> HasTimer(s) /\ s # io.sid
    BY <2>2, <2>3 DEF HasTimer, TypeOK
  <2>5. \A s : TimerUnderWay(s)' <=> TimerUnderWay(s)
    BY <1>1, <2>2 DEF TimerUnderWay
  <2>6. \A s \in Slots : InUse(s) => sockset[s].sid # io.sid
    BY <1>1, NotInAnySlot
  <2>7. TimerOfEachSlot'
    BY <1>1, <2>4, <2>5, <2>6 DEF TimedInv, TimerOfEachSlot, InUse
  <2>8. SlotOfEachTimer'
    BY <1>1, <1>2, <2>2, <2>4, <2>5 DEF TimedInv, SlotOfEachTimer, InSlot
  <2>9. TimerIsRemoved'
    BY <1>1, <2>1, <2>4, <2>5 DEF TimerIsRemoved
  <2> QED BY <2>7, <2>8, <2>9 DEF TimedInv
<1> QED BY <1>3, <1>4

LEMMA TimedUncount ==
  ASSUME EarlyInv, LoopTypeOK, SidInv, FreshInv, TimedInv, UncountConn,
         Avoided({"overload", "early_close"}), Avoided({"overload", "early_close"})'
  PROVE  TimedInv'
<1> TypeOK
  BY DEF EarlyInv
<1>1. io.step = "uncount" /\ io' = IoIdle /\ UNCHANGED <<sockset, acceptor>>
  BY DEF UncountConn
<1>2. /\ inserting' = inserting /\ keys' = keys \ {io.sid}
      /\ \A s \in Sids : HasTimer(s)' <=> HasTimer(s) /\ s # io.sid
      /\ ~TimerUnderWay(io.sid)
  <2>1. CASE io.cause = "timeout"
    <3>1. io.sid \in keys /\ io.sid \in Sids /\ CloseExpired(io.sid)
      BY <1>1, <2>1 DEF FreshInv, LoopTypeOK, UncountConn
    <3>2. HasTimer(io.sid) /\ HasEntry(io.sid) /\ inserting # Entered(io.sid)
      BY <3>1, TimersHaveEntries
    <3>3. ~TimerUnderWay(io.sid)
      BY <3>2 DEF TimerUnderWay, FreshInv, Known
    <3> QED BY <3>1, <3>3, TimerRemoved DEF CloseExpired
  <2>2. CASE io.cause # "timeout"
    <3>1. io.cause = "event" /\ checking = "events" /\ UNCHANGED timerVars
      BY <1>1, <2>2 DEF FreshInv, LoopTypeOK, UncountConn
    <3>2. keys = {} /\ ~HasTimer(io.sid) /\ ~TimerUnderWay(io.sid)
      BY <1>1, <3>1 DEF EarlyInv, KeysInWheel, TimedInv, TimerIsRemoved
    <3> QED BY <3>1, <3>2 DEF timerVars, structVars, HasTimer
  <2> QED BY <2>1, <2>2
<1>3. \A s : TimerUnderWay(s)' <=> TimerUnderWay(s)
  BY <1>1, <1>2 DEF TimerUnderWay
<1>4. TimerOfEachSlot'
  <2>1. \A s \in Slots : InUse(s) => sockset[s].sid # io.sid /\ sockset[s].sid \in Sids
    BY <1>1, NotInAnySlot, SidsInUse
  <2> QED BY <1>1, <1>2, <1>3, <2>1 DEF TimedInv, TimerOfEachSlot, InUse
<1>5. SlotOfEachTimer'
  BY <1>1, <1>2, <1>3 DEF TimedInv, SlotOfEachTimer, InSlot, TearingDown
<1> QED BY <1>1, <1>4, <1>5 DEF TimedInv, TimerIsRemoved, IoIdle

LEMMA TimedUnlink ==
  ASSUME EarlyInv, LoopTypeOK, SidInv, FreshInv, TimedInv, UnlinkSock, Avoided({"overload", "early_close"})
  PROVE  TimedInv'
<1>1. /\ io.step = "unlink" /\ io'.step \in {"close", "reset"} /\ io'.sid = io.sid
      /\ UNCHANGED <<timerVars, acceptor>>
  BY TearDownMoves DEF UnlinkSock
<1>2. \A s : /\ TimerUnderWay(s)' <=> TimerUnderWay(s)
             /\ HasTimer(s)' <=> HasTimer(s)
             /\ TearingDown(s)' <=> TearingDown(s)
  BY <1>1 DEF TimerUnderWay, HasTimer, TearingDown, timerVars, structVars
<1>3. Slot(io.sid) \in Slots
  BY SidTypes
<1>4. \A s \in Slots : sockset'[s].sid = IF s = Slot(io.sid) /\ InSlot(io.sid) THEN 0 ELSE sockset[s].sid
  BY <1>3 DEF UnlinkSock, LoopTypeOK, InSlot
<1>5. TimerOfEachSlot'
  BY <1>2, <1>4 DEF TimedInv, TimerOfEachSlot, InUse
<1>6. ASSUME NEW sid \in Sids, (HasTimer(sid) \/ TimerUnderWay(sid) \/ sid \in keys)'
      PROVE  (InSlot(sid) \/ TearingDown(sid))'
  <2>1. InSlot(sid) \/ TearingDown(sid)
    BY <1>1, <1>2, <1>6 DEF TimedInv, SlotOfEachTimer, timerVars
  <2>2. Slot(sid) \in Slots
    BY SidsAssumption, SlotType
  <2>3. sid # io.sid /\ InSlot(sid) => InSlot(sid)'
    BY <1>4, <2>2 DEF InSlot
  <2> QED BY <1>1, <1>2, <2>1, <2>3 DEF TearingDown
<1> QED BY <1>1, <1>5, <1>6 DEF TimedInv, SlotOfEachTimer, TimerIsRemoved

LEMMA TimedLoop ==
  ASSUME EarlyInv, LoopTypeOK, SidInv, FreshInv, TimedInv,
         EpollWait \/ HandleEvent \/ TearDown \/ CheckTimeout,
         Avoided({"overload", "early_close"}), Avoided({"overload", "early_close"})'
  PROVE  TimedInv'
<1> TypeOK
  BY DEF EarlyInv
<1>1. ASSUME UNCHANGED <<timerVars, sockset, acceptor>>,
             io' = io \/ (io = IoIdle /\ io'.step = "unlink")
      PROVE  TimedInv'
  <2>1. \A s : (TimerUnderWay(s)' <=> TimerUnderWay(s)) /\ (TearingDown(s) => TearingDown(s)')
    BY <1>1 DEF TimerUnderWay, timerVars, TearingDown, IoIdle
  <2> QED BY <1>1, <2>1, TimedFrame DEF timerVars, structVars
<1>2. CASE EpollWait
  BY <1>1, <1>2 DEF EpollWait
<1>3. ASSUME NEW event \in batch,
             EventContinues(event) \/ RequestArrives(event) \/ ResponseEnds(event) \/ EventFails(event)
      PROVE  TimedInv'
  <2>1. io' = io \/ (io = IoIdle /\ io'.step = "unlink")
    BY <1>3 DEF EventContinues, RequestArrives, ResponseEnds, EventFails, TakeEvent, IoIdle
  <2> QED BY <1>1, <1>3, <2>1 DEF EventContinues, RequestArrives, ResponseEnds, EventFails
<1>4. ASSUME NEW sid \in Sids, TimeoutFires(sid)
      PROVE  TimedInv'
  BY <1>1, <1>4 DEF TimeoutFires, IoIdle
<1>5. CASE UnlinkSock
  BY <1>5, TimedUnlink
<1>6. CASE CloseSock
  <2>1. io'.step = "reset" /\ io'.sid = io.sid /\ io.step # "idle" /\ UNCHANGED <<timerVars, sockset, acceptor>>
    BY <1>6, TearDownMoves DEF CloseSock
  <2>2. \A s : (TimerUnderWay(s)' <=> TimerUnderWay(s)) /\ (TearingDown(s) => TearingDown(s)')
    BY <2>1 DEF TimerUnderWay, timerVars, TearingDown
  <2> QED BY <2>1, <2>2, TimedFrame DEF timerVars, structVars
<1>7. CASE ResetSock
  BY <1>7, TimedReset
<1>8. CASE UncountConn
  BY <1>8, TimedUncount
<1>9. CASE CheckTimeout
  <2>1. UNCHANGED <<sockset, acceptor, io>> /\ io = IoIdle
    BY <1>9 DEF CheckTimeout, loopVars
  <2>2. CASE TurnWheel \/ CheckDone
    <3>1. UNCHANGED <<inserting, wheels_tbl, keys>>
      BY <2>2 DEF TurnWheel, CheckDone, structVars
    <3>2. \A s : (TimerUnderWay(s)' <=> TimerUnderWay(s)) /\ (TearingDown(s) => TearingDown(s)')
      BY <2>1, <3>1 DEF TimerUnderWay, TearingDown
    <3> QED BY <2>1, <3>1, <3>2, TimedFrame
  <2>3. CASE GetAllKeys
    <3>1. UNCHANGED <<inserting, wheels_tbl>> /\ \A s \in Sids : s \in keys' => HasTimer(s)
      BY <2>3 DEF GetAllKeys, structVars, HasTimer, TypeOK
    <3>2. \A s : /\ TimerUnderWay(s)' <=> TimerUnderWay(s)
                 /\ HasTimer(s)' <=> HasTimer(s)
                 /\ TearingDown(s)' <=> TearingDown(s)
      BY <2>1, <3>1 DEF TimerUnderWay, TearingDown, HasTimer
    <3>3. TimerOfEachSlot'
      BY <2>1, <3>2 DEF TimedInv, TimerOfEachSlot, InUse
    <3>4. SlotOfEachTimer'
      BY <2>1, <3>1, <3>2 DEF TimedInv, SlotOfEachTimer, InSlot
    <3> QED BY <2>1, <3>3, <3>4 DEF TimedInv, TimerIsRemoved, IoIdle
  <2> QED BY <1>9, <2>2, <2>3 DEF CheckTimeout
<1> QED BY <1>2, <1>3, <1>4, <1>5, <1>6, <1>7, <1>8, <1>9 DEF HandleEvent, TearDown

LEMMA TimedStep ==
  ASSUME EarlyInv, LoopTypeOK, SidInv, FreshInv, TimedInv, ELNext
  PROVE  TimedInv'
<1>1. CASE Avoided({"overload", "early_close"})'
  <2>1. Avoided({"overload", "early_close"})
    BY <1>1, LoopFaultsGrow
  <2> QED BY <1>1, <2>1, TimedAcceptor, TimedLoop DEF ELNext
<1>2. CASE ~Avoided({"overload", "early_close"})'
  BY <1>2 DEF TimedInv
<1> QED BY <1>1, <1>2

-----------------------------------------------------------------------------
(***************************************************************************)
(* Events and teardowns are of connections that are there.                 *)
(***************************************************************************)

LEMMA EventInit ==
  ASSUME ELInit
  PROVE  EventInv
BY DEF ELInit, EventInv, RegisteredInSlot, EventsOfSlots, PutUnannounced, TearDownFinds,
       AcceptorIdle, IoIdle

\* Descriptors may disappear from epoll and a teardown may go on.
LEMMA EventFrame ==
  ASSUME EventInv, Avoided({"overload", "early_close", "truncated"}),
         sockset' = sockset, batch' \subseteq batch,
         \A fd \in Fds : epoll'[fd] = epoll[fd] \/ epoll'[fd] = NotRegistered,
         LoopTypeOK,
         acceptor' = acceptor \/ acceptor'.step # "put",
         \/ io' = io
         \/ io'.step = "idle"
         \/ io'.step # "unlink" /\ io.step # "idle" /\ io'.sid = io.sid /\ io'.cause = io.cause
  PROVE  EventInv'
<1> USE DEF EventInv
<1>1. \A sid, fd : InSlotWith(sid, fd)' <=> InSlotWith(sid, fd)
  BY DEF InSlotWith
<1>2. RegisteredInSlot'
  BY <1>1 DEF RegisteredInSlot
<1>3. EventsOfSlots'
  BY DEF EventsOfSlots, InSlot
<1>4. PutUnannounced'
  <2>1. acceptor.sid # -1
    BY SidTypes
  <2> QED BY <1>1, <2>1 DEF PutUnannounced, TearingDown, NotRegistered
<1>5. TearDownFinds'
  BY <1>1 DEF TearDownFinds
<1> QED BY <1>2, <1>3, <1>4, <1>5

LEMMA EventPut ==
  ASSUME LoopTypeOK, SidInv, EventInv, PutSocket,
         Avoided({"overload", "early_close", "truncated"}), Avoided({"overload", "early_close", "truncated"})'
  PROVE  EventInv'
<1>1. PICK new \in Nat :
        /\ new = curr_sid'
        /\ acceptor'.step = "put" /\ acceptor'.sid = new /\ acceptor'.fd = acceptor.fd
        /\ new > curr_sid /\ curr_sid \in Nat /\ Slot(new) \in Slots
        /\ sockset' = [sockset EXCEPT ![Slot(new)] = [sid |-> new, fd |-> acceptor.fd]]
        /\ UNCHANGED <<epoll, batch, io>>
  BY SidPut, AcceptorMoves, SidTypes, SidsAssumption DEF PutSocket
<1>2. sockset[Slot(new)].sid = 0
  <2>1. sockset[Slot(curr_sid')].sid # 0 => Fault("overload", TRUE)
    BY SidPut DEF PutSocket
  <2> QED BY <1>1, <2>1 DEF Avoided, Fault
<1>3. \A s \in Slots : sockset'[s] = IF s = Slot(new) THEN [sid |-> new, fd |-> acceptor.fd] ELSE sockset[s]
  BY <1>1 DEF LoopTypeOK
<1>4. ASSUME NEW sid \in Nat, NEW fd, InSlotWith(sid, fd)
      PROVE  InSlotWith(sid, fd)'
  BY <1>2, <1>3, <1>4, SlotType DEF InSlotWith
<1>5. ASSUME NEW sid \in Nat, sid # 0, InSlot(sid)
      PROVE  InSlot(sid)'
  BY <1>2, <1>3, <1>5, SlotType DEF InSlot
<1>6. RegisteredInSlot'
  BY <1>1, <1>4, SidTypes DEF EventInv, RegisteredInSlot
<1>7. EventsOfSlots'
  BY <1>1, <1>5, SidTypes DEF EventInv, EventsOfSlots
<1>8. TearDownFinds'
  BY <1>1, <1>4, SidTypes DEF EventInv, TearDownFinds
<1>9. PutUnannounced'
  <2>1. InSlotWith(new, acceptor.fd)'
    BY <1>1, <1>3 DEF InSlotWith
  <2>2. \A fd \in Fds : epoll[fd].sid # new
    BY <1>1, SidTypes DEF SidInv, NotRegistered
  <2>3. (\A event \in batch : event.sid # new) /\ io.sid # new
    BY <1>1, SidTypes DEF SidInv
  <2> QED BY <1>1, <2>1, <2>2, <2>3 DEF PutUnannounced, TearingDown
<1> QED BY <1>6, <1>7, <1>8, <1>9 DEF EventInv

LEMMA EventAcceptor ==
  ASSUME LoopTypeOK, SidInv, EventInv, AddConnection,
         Avoided({"overload", "early_close", "truncated"}), Avoided({"overload", "early_close", "truncated"})'
  PROVE  EventInv'
<1>1. CASE AcceptConn
  BY <1>1, EventFrame DEF AcceptConn, AcceptorIdle
<1>2. CASE CountConn
  <2>1. \A fd \in Fds : epoll'[fd] = epoll[fd] \/ epoll'[fd] = NotRegistered
    BY <1>2 DEF CountConn, Close
  <2>2. acceptor'.step # "put"
    BY <1>2, AcceptorMoves DEF AcceptorIdle
  <2> QED BY <1>2, <2>1, <2>2, EventFrame DEF CountConn
<1>3. CASE PutSocket
  BY <1>3, EventPut
<1>4. CASE AddToEpoll
  <2>1. /\ acceptor.step = "put" /\ acceptor'.step = "added" /\ UNCHANGED <<sockset, batch, io>>
        /\ InSlotWith(acceptor.sid, acceptor.fd)
    BY <1>4, AcceptorMoves DEF AddToEpoll, EventInv, PutUnannounced
  <2>2. \A fd \in Fds : \/ epoll'[fd] = epoll[fd]
                        \/ fd = acceptor.fd /\ epoll'[fd] = [sid |-> acceptor.sid, out |-> FALSE]
    BY <1>4 DEF AddToEpoll, LoopTypeOK
  <2>3. RegisteredInSlot'
    BY <2>1, <2>2 DEF EventInv, RegisteredInSlot, InSlotWith
  <2> QED BY <2>1, <2>3 DEF EventInv, EventsOfSlots, PutUnannounced, TearDownFinds, InSlot, InSlotWith
<1>5. CASE InsertTimer
  <2>1. acceptor' = acceptor \/ acceptor'.step # "put"
    BY <1>5 DEF InsertTimer, loopVars, AcceptorIdle
  <2>2. UNCHANGED <<sockset, batch, epoll, io>>
    BY <1>5 DEF InsertTimer, loopVars
  <2> QED BY <2>1, <2>2, EventFrame
<1> QED BY <1>1, <1>2, <1>3, <1>4, <1>5 DEF AddConnection

LEMMA EventWait ==
  ASSUME LoopTypeOK, EventInv, EpollWait, Avoided({"overload", "early_close", "truncated"}),
         Avoided({"overload", "early_close", "truncated"})'
  PROVE  EventInv'
<1>1. io = IoIdle /\ UNCHANGED <<sockset, epoll, acceptor, io>>
  BY DEF EpollWait, BetweenPasses
<1>2. PICK ready \in SUBSET {fd \in Fds : epoll[fd] # NotRegistered} :
        /\ batch' = {[sid |-> EventSid(epoll[fd].sid), out |-> epoll[fd].out] : fd \in ready}
        /\ Fault("truncated", \E fd \in ready : EventSid(epoll[fd].sid) # epoll[fd].sid)
  BY DEF EpollWait
<1>3. \A fd \in ready : EventSid(epoll[fd].sid) = epoll[fd].sid
  BY <1>2 DEF Avoided, Fault
<1>4. ASSUME NEW event \in batch'
      PROVE  /\ event.sid # 0 /\ InSlot(event.sid)
             /\ \E fd \in Fds : /\ fd = sockset[Slot(event.sid)].fd
                                /\ event = [sid |-> epoll[fd].sid, out |-> epoll[fd].out]
  <2>1. PICK fd \in ready : event = [sid |-> EventSid(epoll[fd].sid), out |-> epoll[fd].out]
    BY <1>2
  <2>2. InSlotWith(epoll[fd].sid, fd)
    BY DEF EventInv, RegisteredInSlot
  <2>3. event = [sid |-> epoll[fd].sid, out |-> epoll[fd].out] /\ event.sid = epoll[fd].sid
    BY <1>3, <2>1
  <2>4. event.sid # 0 /\ InSlot(event.sid) /\ fd = sockset[Slot(event.sid)].fd
    BY <2>2, <2>3 DEF InSlotWith, InSlot
  <2> QED BY <2>3, <2>4
<1>6. ASSUME NEW event \in batch', NEW other \in batch', event.sid = other.sid
      PROVE  event = other
  BY <1>4, <1>6
<1>7. EventsOfSlots'
  BY <1>1, <1>4, <1>6 DEF EventsOfSlots, InSlot, IoIdle
<1>8. RegisteredInSlot'
  BY <1>1 DEF EventInv, RegisteredInSlot, InSlotWith
<1>9. PutUnannounced'
  <2>1. \A event \in batch' : \E fd \in Fds : event.sid = epoll[fd].sid
    BY <1>4
  <2> QED BY <1>1, <2>1 DEF EventInv, PutUnannounced, InSlotWith, TearingDown
<1>10. TearDownFinds'
  BY <1>1 DEF TearDownFinds, IoIdle
<1> QED BY <1>7, <1>8, <1>9, <1>10 DEF EventInv

\* The descriptor of the slot that an event is for is registered under the sid
\* of the event.
LEMMA EventModified ==
  ASSUME LoopTypeOK, EventInv, Avoided({"overload", "early_close", "truncated"}),
         NEW event \in batch, UNCHANGED <<sockset, acceptor, io>>, batch' \subseteq batch,
         \A fd \in Fds : \/ epoll'[fd] \in {epoll[fd], NotRegistered}
                         \/ fd = sockset[Slot(event.sid)].fd /\ epoll'[fd].sid = event.sid
  PROVE  EventInv'
<1> USE DEF EventInv
<1>1. event.sid # 0 /\ InSlot(event.sid) /\ Slot(event.sid) \in Slots
  BY SidTypes DEF EventsOfSlots
<1>2. sockset[Slot(event.sid)] = [sid |-> event.sid, fd |-> sockset[Slot(event.sid)].fd]
  BY <1>1 DEF InSlot, LoopTypeOK
<1>3. RegisteredInSlot'
  BY <1>1, <1>2 DEF RegisteredInSlot, InSlotWith
<1>4. EventsOfSlots'
  BY DEF EventsOfSlots, InSlot
<1>5. PutUnannounced'
  <2>1. acceptor.sid # -1
    BY SidTypes
  <2>2. acceptor.step = "put" => event.sid # acceptor.sid
    BY DEF PutUnannounced
  <2> QED BY <2>1, <2>2 DEF PutUnannounced, TearingDown, NotRegistered, InSlotWith
<1>6. TearDownFinds'
  BY DEF TearDownFinds, InSlotWith
<1> QED BY <1>3, <1>4, <1>5, <1>6

LEMMA EventFailed ==
  ASSUME LoopTypeOK, EventInv, Avoided({"overload", "early_close", "truncated"}),
         NEW event \in batch, EventFails(event)
  PROVE  EventInv'
<1> USE DEF EventInv
<1>1. /\ UNCHANGED <<sockset, epoll, acceptor>> /\ batch' = batch \ {event}
      /\ io'.step = "unlink" /\ io'.sid = event.sid /\ io'.fd = sockset[Slot(event.sid)].fd
  BY DEF EventFails, TakeEvent, IoIdle
<1>2. RegisteredInSlot'
  BY <1>1 DEF RegisteredInSlot, InSlotWith
<1>3. EventsOfSlots'
  BY <1>1 DEF EventsOfSlots, InSlot
<1>4. PutUnannounced'
  BY <1>1 DEF PutUnannounced, TearingDown, InSlotWith
<1>5. TearDownFinds'
  <2>1. event.sid # 0 /\ InSlot(event.sid) /\ Slot(event.sid) \in Slots
    BY SidTypes DEF EventsOfSlots
  <2>2. sockset[Slot(event.sid)] = [sid |-> event.sid, fd |-> sockset[Slot(event.sid)].fd]
    BY <2>1 DEF InSlot, LoopTypeOK
  <2> QED BY <1>1, <2>1, <2>2 DEF TearDownFinds, InSlotWith
<1> QED BY <1>2, <1>3, <1>4, <1>5

LEMMA EventTimeout ==
  ASSUME EarlyInv, LoopTypeOK, SidInv, FreshInv, TimedInv, EventInv,
         Avoided({"overload", "early_close", "truncated"}), NEW sid \in Sids, TimeoutFires(sid)
  PROVE  EventInv'
<1> USE DEF EventInv
<1>1. /\ UNCHANGED <<sockset, epoll, acceptor, batch>> /\ io = IoIdle /\ sid \in keys
      /\ io'.step = "unlink" /\ io'.sid = sid /\ io'.fd = sockset[Slot(sid)].fd /\ io'.cause = "timeout"
  BY DEF TimeoutFires, IoIdle
<1>2. RegisteredInSlot'
  BY <1>1 DEF RegisteredInSlot, InSlotWith
<1>3. EventsOfSlots'
  BY <1>1 DEF EventsOfSlots, InSlot
<1>4. PutUnannounced'
  <2>1. acceptor.step = "put" => sid # acceptor.sid
    BY <1>1 DEF FreshInv, Known
  <2> QED BY <1>1, <2>1 DEF PutUnannounced, TearingDown, InSlotWith
<1>5. TearDownFinds'
  <2>1. Avoided({"overload", "early_close"})
    BY DEF Avoided
  <2>2. InSlot(sid)
    BY <1>1, <2>1 DEF TimedInv, SlotOfEachTimer, TearingDown, IoIdle
  <2>3. sid > 0 /\ sid \in Nat /\ Slot(sid) \in Slots
    BY <1>1, SidsAssumption, SlotType DEF SidInv, Known
  <2>4. sockset[Slot(sid)] = [sid |-> sid, fd |-> sockset[Slot(sid)].fd]
    BY <2>2, <2>3 DEF InSlot, LoopTypeOK
  <2> QED BY <1>1, <2>3, <2>4 DEF TearDownFinds, InSlotWith
<1> QED BY <1>2, <1>3, <1>4, <1>5

LEMMA EventUnlink ==
  ASSUME EarlyInv, LoopTypeOK, FreshInv, EventInv,
         Avoided({"overload", "early_close", "truncated"}), UnlinkSock
  PROVE  EventInv'
<1> USE DEF EventInv
<1>1. /\ io.step = "unlink" /\ io'.step # "unlink" /\ io'.sid = io.sid /\ io'.cause = io.cause
      /\ UNCHANGED <<acceptor, batch>>
      /\ \A fd \in Fds : epoll'[fd] = IF fd = io.fd THEN NotRegistered ELSE epoll[fd]
  BY TearDownMoves DEF UnlinkSock
<1>2. InSlotWith(io.sid, io.fd) /\ Slot(io.sid) \in Slots
  BY <1>1, SidTypes DEF TearDownFinds
<1>3. ASSUME NEW s \in Slots, s # Slot(io.sid)
      PROVE  sockset'[s] = sockset[s]
  BY <1>2, <1>3 DEF UnlinkSock, LoopTypeOK
<1>4. ASSUME NEW sid \in Nat, NEW fd, InSlotWith(sid, fd), sid # io.sid
      PROVE  InSlotWith(sid, fd)'
  BY <1>2, <1>3, <1>4, SlotType DEF InSlotWith
<1>5. RegisteredInSlot'
  <2>1. ASSUME NEW fd \in Fds, epoll'[fd] # NotRegistered
        PROVE  InSlotWith(epoll[fd].sid, fd)'
    <3>1. PICK sid \in Nat : sid = epoll[fd].sid /\ epoll'[fd] = epoll[fd] /\ fd # io.fd /\ InSlotWith(sid, fd)
      BY <1>1, <2>1, SidTypes DEF RegisteredInSlot
    <3>2. sid # io.sid
      BY <1>2, <3>1 DEF InSlotWith
    <3>3. InSlotWith(sid, fd)'
      BY <1>4, <3>1, <3>2
    <3> QED BY <3>1, <3>3
  <2> QED BY <2>1 DEF RegisteredInSlot
<1>6. EventsOfSlots'
  <2>1. ASSUME NEW event \in batch
        PROVE  event.sid # io.sid
    <3>1. CASE io.cause = "event"
      BY <1>1, <3>1 DEF EventsOfSlots
    <3>2. CASE io.cause # "event"
      <4>1. keys # {} /\ checking = "events"
        BY <1>1, <2>1, <3>2 DEF FreshInv, LoopTypeOK
      <4> QED BY <4>1 DEF EarlyInv, KeysInWheel
    <3> QED BY <3>1, <3>2
  <2>2. ASSUME NEW event \in batch
        PROVE  event.sid # 0 /\ InSlot(event.sid)'
    <3>1. event.sid # 0 /\ InSlot(event.sid) /\ Slot(event.sid) \in Slots
      BY SidTypes DEF EventsOfSlots
    <3>2. Slot(event.sid) # Slot(io.sid)
      BY <1>2, <2>1, <3>1 DEF InSlot, InSlotWith
    <3> QED BY <1>3, <3>1, <3>2 DEF InSlot
  <2> QED BY <1>1, <2>1, <2>2 DEF EventsOfSlots
<1>7. PutUnannounced'
  <2>1. ASSUME acceptor.step = "put"
        PROVE  acceptor.sid # io.sid /\ InSlotWith(acceptor.sid, acceptor.fd)'
    <3>1. acceptor.sid # io.sid /\ InSlotWith(acceptor.sid, acceptor.fd) /\ Slot(acceptor.sid) \in Slots
      BY <1>1, <2>1, SidTypes DEF PutUnannounced, TearingDown
    <3>2. Slot(acceptor.sid) # Slot(io.sid)
      BY <1>2, <3>1 DEF InSlotWith
    <3> QED BY <1>1, <1>3, <3>1, <3>2 DEF InSlotWith
  <2>2. acceptor.sid # -1
    BY SidTypes
  <2> QED BY <1>1, <2>1, <2>2 DEF PutUnannounced, TearingDown, NotRegistered
<1> QED BY <1>1, <1>5, <1>6, <1>7 DEF TearDownFinds

LEMMA EventLoopStep ==
  ASSUME EarlyInv, LoopTypeOK, SidInv, FreshInv, TimedInv, EventInv,
         EpollWait \/ HandleEvent \/ TearDown \/ CheckTimeout,
         Avoided({"overload", "early_close", "truncated"}), Avoided({"overload", "early_close", "truncated"})'
  PROVE  EventInv'
<1>1. CASE EpollWait
  BY <1>1, EventWait
<1>2. ASSUME NEW event \in batch, EventContinues(event)
      PROVE  EventInv'
  BY <1>2, EventFrame DEF EventContinues, TakeEvent
<1>3. ASSUME NEW event \in batch, RequestArrives(event)
      PROVE  EventInv'
  <2>1. UNCHANGED <<sockset, acceptor, io>> /\ batch' \subseteq batch
    BY <1>3 DEF RequestArrives, TakeEvent
  <2>2. \A fd \in Fds : \/ epoll'[fd] \in {epoll[fd], NotRegistered}
                        \/ fd = sockset[Slot(event.sid)].fd /\ epoll'[fd].sid = event.sid
    BY <1>3 DEF RequestArrives, ModEpoll, LoopTypeOK
  <2> QED BY <2>1, <2>2, EventModified
<1>4. ASSUME NEW event \in batch, ResponseEnds(event)
      PROVE  EventInv'
  <2>1. UNCHANGED <<sockset, acceptor, io>> /\ batch' \subseteq batch
    BY <1>4 DEF ResponseEnds, TakeEvent
  <2>2. \A fd \in Fds : \/ epoll'[fd] \in {epoll[fd], NotRegistered}
                        \/ fd = sockset[Slot(event.sid)].fd /\ epoll'[fd].sid = event.sid
    BY <1>4 DEF ResponseEnds, ModEpoll, LoopTypeOK
  <2> QED BY <2>1, <2>2, EventModified
<1>5. ASSUME NEW event \in batch, EventFails(event)
      PROVE  EventInv'
  BY <1>5, EventFailed
<1>6. ASSUME NEW sid \in Sids, TimeoutFires(sid)
      PROVE  EventInv'
  BY <1>6, EventTimeout
<1>7. CASE UnlinkSock
  BY <1>7, EventUnlink
<1>8. CASE CloseSock \/ ResetSock
  <2>1. \A fd \in Fds : epoll'[fd] = epoll[fd] \/ epoll'[fd] = NotRegistered
    BY <1>8 DEF CloseSock, ResetSock, Close
  <2>2. io'.step # "unlink" /\ io.step # "idle" /\ io'.sid = io.sid /\ io'.cause = io.cause
    BY <1>8, TearDownMoves
  <2> QED BY <1>8, <2>1, <2>2, EventFrame DEF CloseSock, ResetSock
<1>9. CASE UncountConn
  BY <1>9, EventFrame DEF UncountConn, IoIdle
<1>10. CASE CheckTimeout
  BY <1>10, EventFrame DEF CheckTimeout, loopVars
<1> QED BY <1>1, <1>2, <1>3, <1>4, <1>5, <1>6, <1>7, <1>8, <1>9, <1>10 DEF HandleEvent, TearDown

LEMMA EventStep ==
  ASSUME EarlyInv, LoopTypeOK, SidInv, FreshInv, TimedInv, EventInv, ELNext
  PROVE  EventInv'
<1> DEFINE Exceptions == {"overload", "early_close", "truncated"}
<1>1. CASE Avoided(Exceptions)'
  <2>1. Avoided(Exceptions)
    BY <1>1, LoopFaultsGrow
  <2> QED BY <1>1, <2>1, EventAcceptor, EventLoopStep DEF ELNext
<1>2. CASE ~Avoided(Exceptions)'
  BY <1>2 DEF EventInv
<1> QED BY <1>1, <1>2

-----------------------------------------------------------------------------
(***************************************************************************)
(* Who holds the open sockets.                                             *)
(***************************************************************************)

Excused == {"overload", "torn_reset", "stray_close", "truncated"}

LEMMA OwnedInit ==
  ASSUME ELInit
  PROVE  OwnedInv
<1>1. ELInit => \A fd : ~IsOpenSocket(fd)
  BY DEF ELInit, IsOpenSocket, Free
<1>2. OneHolder
  BY <1>1 DEF ELInit, OneHolder, Holds, InUse, Closing, AcceptorHolds, IoIdle, AcceptorIdle
<1>3. RealSids
  BY DEF ELInit, RealSids, NotRegistered, IoIdle
<1> QED BY <1>2, <1>3 DEF OwnedInv

\* Nothing that OneHolder speaks of has changed.
LEMMA HolderFrame ==
  ASSUME OneHolder, sockset' = sockset,
         \A fd : IsOpenSocket(fd)' <=> IsOpenSocket(fd),
         \A fd : AcceptorHolds(fd)' <=> AcceptorHolds(fd),
         \A s : Closing(s)' <=> Closing(s)
  PROVE  OneHolder'
<1>1. \A s : Holds(s)' <=> Holds(s)
  BY DEF Holds, InUse
<1> QED BY <1>1 DEF OneHolder

\* The acceptor has one socket in its hands, which it gives to a free slot.
LEMMA HolderAcceptor ==
  ASSUME LoopTypeOK, OneHolder, AddConnection, Avoided(Excused)'
  PROVE  OneHolder'
<1>1. CASE AcceptConn
  <2>1. PICK fd \in Fds :
          /\ owner[fd] = Free
          /\ owner' = [owner EXCEPT ![fd] = Socket(accepted + 1)]
          /\ acceptor' = [AcceptorIdle EXCEPT !.step = "loaded", !.fd = fd, !.seen = cur_conn]
    BY <1>1 DEF AcceptConn
  <2>2. \A f : IsOpenSocket(f)' <=> IsOpenSocket(f) \/ f = fd
    BY <2>1 DEF IsOpenSocket, Socket, LoopTypeOK
  <2>3. ~IsOpenSocket(fd)
    BY <2>1 DEF IsOpenSocket, Free
  <2>4. \A f : ~AcceptorHolds(f) /\ (AcceptorHolds(f)' <=> f = fd)
    BY <1>1, <2>1 DEF AcceptConn, AcceptorHolds, AcceptorIdle
  <2>5. \A s : Holds(s)' <=> Holds(s)
    BY <1>1 DEF AcceptConn, Holds, InUse, Closing
  <2>6. sockset' = sockset
    BY <1>1 DEF AcceptConn
  <2> QED BY <2>2, <2>3, <2>4, <2>5, <2>6 DEF OneHolder
<1>2. CASE CountConn
  <2>1. sockset' = sockset /\ \A s : Holds(s)' <=> Holds(s)
    BY <1>2 DEF CountConn, Holds, InUse, Closing
  <2>2. \A f : AcceptorHolds(f) <=> f = acceptor.fd
    BY <1>2 DEF CountConn, AcceptorHolds
  <2>3. CASE TooMany(acceptor.seen)
    <3>1. \A f : ~AcceptorHolds(f)'
      BY <1>2, <2>3 DEF CountConn, AcceptorHolds, AcceptorIdle
    <3>2. \A f : IsOpenSocket(f)' <=> IsOpenSocket(f) /\ f # acceptor.fd
      BY <1>2, <2>3 DEF CountConn, Close, IsOpenSocket, Free
    <3> QED BY <2>1, <2>2, <3>1, <3>2 DEF OneHolder
  <2>4. CASE ~TooMany(acceptor.seen)
    <3>1. acceptor'.step = "counted" /\ acceptor'.fd = acceptor.fd /\ owner' = owner
      BY <1>2, <2>4 DEF CountConn, LoopTypeOK
    <3>2. \A f : (AcceptorHolds(f)' <=> AcceptorHolds(f)) /\ (IsOpenSocket(f)' <=> IsOpenSocket(f))
      BY <2>2, <3>1 DEF AcceptorHolds, IsOpenSocket
    <3> QED BY <2>1, <3>2 DEF OneHolder
  <2> QED BY <2>3, <2>4
<1>3. CASE PutSocket
  <2>1. PICK new \in Sids :
          /\ new = curr_sid' /\ new > curr_sid /\ curr_sid \in Nat
          /\ acceptor.step = "counted" /\ acceptor'.step = "put" /\ acceptor'.fd = acceptor.fd
          /\ Slot(new) \in Slots
          /\ sockset' = [sockset EXCEPT ![Slot(new)] = [sid |-> new, fd |-> acceptor.fd]]
          /\ UNCHANGED <<owner, io>>
    BY <1>3, SidPut, AcceptorMoves, SidTypes DEF PutSocket
  <2>2. ~Holds(Slot(new))
    <3>1. sockset[Slot(curr_sid')].sid # 0 => Fault("overload", TRUE)
      BY <1>3, SidPut DEF PutSocket
    <3>2. sockset[Slot(curr_sid')].sid = 0
            => Fault("torn_reset", io.step = "close" /\ Slot(io.sid) = Slot(curr_sid'))
      BY <1>3, SidPut DEF PutSocket
    <3> QED BY <2>1, <3>1, <3>2 DEF Avoided, Excused, Fault, Holds, InUse, Closing
  <2>3. \A s \in Slots : sockset'[s] = IF s = Slot(new) THEN [sid |-> new, fd |-> acceptor.fd] ELSE sockset[s]
    BY <2>1 DEF LoopTypeOK
  <2>4. new # 0
    BY <2>1, SidsAssumption
  <2>5. \A s \in Slots : Holds(s)' <=> Holds(s) \/ s = Slot(new)
    BY <2>1, <2>2, <2>3, <2>4 DEF Holds, InUse, Closing
  <2>6. \A f : (AcceptorHolds(f) <=> f = acceptor.fd) /\ ~AcceptorHolds(f)'
    BY <2>1 DEF AcceptorHolds
  <2>7. acceptor.fd \in Fds /\ \A f : IsOpenSocket(f)' <=> IsOpenSocket(f)
    BY <2>1 DEF IsOpenSocket, LoopTypeOK
  <2>8. \A s \in Slots : sockset'[s].fd = IF s = Slot(new) THEN acceptor.fd ELSE sockset[s].fd
    BY <2>3
  <2> QED BY <2>1, <2>2, <2>5, <2>6, <2>7, <2>8 DEF OneHolder
<1>4. CASE AddToEpoll \/ InsertTimer
  <2>1. UNCHANGED <<sockset, owner, io>>
    BY <1>4 DEF AddToEpoll, InsertTimer, loopVars
  <2>2. \A f : AcceptorHolds(f)' <=> AcceptorHolds(f)
    BY <1>4, AcceptorMoves DEF InsertTimer, loopVars, AcceptorHolds, AcceptorIdle
  <2> QED BY <2>1, <2>2, HolderFrame DEF IsOpenSocket, Closing
<1> QED BY <1>1, <1>2, <1>3, <1>4 DEF AddConnection

\* Closing the file of a request closes no socket, unless it is a stray.
LEMMA FilesAreNotSockets ==
  ASSUME LoopTypeOK, NEW slot, ~Strays(slot),
         owner' = [fd \in Fds |-> IF fd \in FileToClose(slot) THEN Free ELSE owner[fd]]
  PROVE  \A fd : IsOpenSocket(fd)' <=> IsOpenSocket(fd)
<1>1. ASSUME NEW fd \in FileToClose(slot)
      PROVE  owner[fd].kind # "socket"
  BY DEF Strays, Free, File
<1> QED BY <1>1 DEF IsOpenSocket, Free

\* A slot is emptied, and then its socket is closed.
LEMMA HolderTearDown ==
  ASSUME LoopTypeOK, OneHolder, RealSids, Avoided(Excused)', UnlinkSock \/ CloseSock \/ ResetSock
  PROVE  OneHolder'
<1> DEFINE slot == Slot(io.sid)
<1>1. slot \in Slots
  BY SidTypes
<1>2. acceptor' = acceptor
  BY DEF UnlinkSock, CloseSock, ResetSock
<1>3. \A f : AcceptorHolds(f)' <=> AcceptorHolds(f)
  BY <1>2 DEF AcceptorHolds
<1>4. CASE UnlinkSock
  <2>1. io.step = "unlink" /\ io'.sid = io.sid /\ io'.step = IF InSlot(io.sid) THEN "close" ELSE "reset"
    BY <1>4, TearDownMoves
  <2>2. \A f : IsOpenSocket(f)' <=> IsOpenSocket(f)
    BY <1>4 DEF UnlinkSock, IsOpenSocket
  <2>3. CASE InSlot(io.sid)
    <3>1. InUse(slot) /\ \A s : ~Closing(s) /\ (Closing(s)' <=> s = slot)
      BY <2>1, <2>3 DEF InSlot, RealSids, InUse, Closing
    <3>2. sockset' = [sockset EXCEPT ![slot].sid = 0]
      BY <1>4, <2>3 DEF UnlinkSock, InSlot
    <3>3. \A s \in Slots : /\ sockset'[s].fd = sockset[s].fd
                           /\ sockset'[s].sid = IF s = slot THEN 0 ELSE sockset[s].sid
      BY <1>1, <3>2 DEF LoopTypeOK
    <3>4. \A s \in Slots : Holds(s)' <=> Holds(s)
      BY <3>1, <3>3 DEF Holds, InUse
    <3> QED BY <1>3, <2>2, <3>3, <3>4 DEF OneHolder
  <2>4. CASE ~InSlot(io.sid)
    <3>1. sockset' = sockset /\ \A s : ~Closing(s) /\ ~Closing(s)'
      BY <1>4, <2>1, <2>4 DEF UnlinkSock, InSlot, Closing
    <3> QED BY <1>3, <2>2, <3>1, HolderFrame
  <2> QED BY <2>3, <2>4
<1>5. CASE CloseSock
  <2>1. io.step = "close" /\ io'.step = "reset" /\ sockset' = sockset
    BY <1>5, TearDownMoves DEF CloseSock
  <2>2. Holds(slot) /\ \A s \in Slots : Holds(s)' <=> Holds(s) /\ s # slot
    BY <2>1 DEF Holds, InUse, Closing, RealSids
  <2>3. \A f : IsOpenSocket(f)' <=> IsOpenSocket(f) /\ f # sockset[slot].fd
    BY <1>5 DEF CloseSock, Close, IsOpenSocket, Free
  <2> QED BY <1>1, <1>3, <2>1, <2>2, <2>3 DEF OneHolder
<1>6. CASE ResetSock
  <2>1. io.step = "reset" /\ io'.step = "uncount" /\ sockset' = sockset
    BY <1>6, TearDownMoves DEF ResetSock
  <2>2. ~Strays(slot)
    BY <1>6 DEF ResetSock, Avoided, Excused
  <2>3. \A f : IsOpenSocket(f)' <=> IsOpenSocket(f)
    BY <1>6, <2>2, FilesAreNotSockets DEF ResetSock, Close
  <2>4. \A s : Closing(s)' <=> Closing(s)
    BY <2>1 DEF Closing
  <2> QED BY <1>3, <2>1, <2>3, <2>4, HolderFrame
<1> QED BY <1>4, <1>5, <1>6

LEMMA HolderLoop ==
  ASSUME LoopTypeOK, OneHolder, RealSids, Avoided(Excused)',
         EpollWait \/ HandleEvent \/ TearDown \/ CheckTimeout
  PROVE  OneHolder'
<1>1. ASSUME UNCHANGED <<sockset, owner, acceptor>>,
             io' = io \/ (io.step # "close" /\ io'.step # "close")
      PROVE  OneHolder'
  BY <1>1, HolderFrame DEF IsOpenSocket, AcceptorHolds, Closing
<1>2. CASE EpollWait
  BY <1>1, <1>2 DEF EpollWait
<1>3. ASSUME NEW event \in batch, EventContinues(event) \/ EventFails(event)
      PROVE  OneHolder'
  <2>1. UNCHANGED <<sockset, owner, acceptor>>
    BY <1>3 DEF EventContinues, EventFails
  <2>2. CASE EventContinues(event)
    BY <1>1, <2>1, <2>2 DEF EventContinues
  <2>3. CASE EventFails(event)
    BY <1>1, <2>1, <2>3 DEF EventFails, TakeEvent, IoIdle
  <2> QED BY <1>3, <2>2, <2>3
<1>4. ASSUME NEW event \in batch, RequestArrives(event)
      PROVE  OneHolder'
  <2>1. PICK file \in {f \in Fds : owner[f] = Free} \cup {0} :
          owner' = IF file = 0 THEN owner ELSE [owner EXCEPT ![file] = File(Slot(event.sid))]
    BY <1>4 DEF RequestArrives
  <2>2. \A f : IsOpenSocket(f)' <=> IsOpenSocket(f)
    BY <2>1 DEF IsOpenSocket, Free, File, LoopTypeOK
  <2> QED BY <1>4, <2>2, HolderFrame DEF RequestArrives, AcceptorHolds, Closing
<1>5. ASSUME NEW event \in batch, ResponseEnds(event)
      PROVE  OneHolder'
  <2>1. ~Strays(Slot(event.sid))
    BY <1>5 DEF ResponseEnds, Fault, Avoided, Excused
  <2>2. \A f : IsOpenSocket(f)' <=> IsOpenSocket(f)
    BY <1>5, <2>1, FilesAreNotSockets DEF ResponseEnds
  <2> QED BY <1>5, <2>2, HolderFrame DEF ResponseEnds, AcceptorHolds, Closing
<1>6. ASSUME NEW sid \in Sids, TimeoutFires(sid)
      PROVE  OneHolder'
  BY <1>1, <1>6 DEF TimeoutFires, IoIdle
<1>7. CASE UnlinkSock \/ CloseSock \/ ResetSock
  BY <1>7, HolderTearDown
<1>8. CASE UncountConn
  BY <1>1, <1>8 DEF UncountConn, IoIdle
<1>9. CASE CheckTimeout
  BY <1>1, <1>9 DEF CheckTimeout, loopVars
<1> QED BY <1>2, <1>3, <1>4, <1>5, <1>6, <1>7, <1>8, <1>9 DEF HandleEvent, TearDown

\* No sid is lost on its way from a slot to epoll, to an event, to a teardown.
LEMMA RealSidsStep ==
  ASSUME EarlyInv, LoopTypeOK, SidInv, FreshInv, RealSids, ELNext, Avoided(Excused)'
  PROVE  RealSids'
<1> DEFINE ClosesEmpty == io.step = "close" => ~InUse(Slot(io.sid))
<1> USE DEF RealSids
<1>1. ASSUME UNCHANGED <<sockset, io>>, batch' \subseteq batch,
             \A fd \in Fds : epoll'[fd] \in {epoll[fd], NotRegistered} \/ epoll'[fd].sid # 0
      PROVE  RealSids'
  BY <1>1 DEF NotRegistered, InUse
<1>2. CASE AddConnection
  <2>1. CASE AcceptConn \/ InsertTimer
    BY <1>1, <2>1 DEF AcceptConn, InsertTimer, loopVars
  <2>2. CASE CountConn
    BY <1>1, <2>2 DEF CountConn, Close
  <2>3. CASE PutSocket
    <3>1. io.step = "close" => Slot(io.sid) # Slot(curr_sid')
      <4>1. sockset[Slot(curr_sid')].sid # 0 => Fault("overload", TRUE)
        BY <2>3, SidPut DEF PutSocket
      <4>2. sockset[Slot(curr_sid')].sid = 0
              => Fault("torn_reset", io.step = "close" /\ Slot(io.sid) = Slot(curr_sid'))
        BY <2>3, SidPut DEF PutSocket
      <4> QED BY <4>1, <4>2 DEF Avoided, Excused, Fault
    <3>2. \A s \in Slots : s # Slot(curr_sid') => sockset'[s] = sockset[s]
      BY <2>3, SidPut DEF LoopTypeOK
    <3>3. Slot(io.sid) \in Slots
      BY SidTypes
    <3> QED BY <2>3, <3>1, <3>2, <3>3 DEF PutSocket, InUse
  <2>4. CASE AddToEpoll
    <3>1. acceptor.sid # 0
      BY <2>4, SidTypes DEF AddToEpoll, SidInv
    <3>2. \A fd \in Fds : epoll'[fd] = epoll[fd] \/ epoll'[fd].sid # 0
      BY <2>4, <3>1 DEF AddToEpoll, LoopTypeOK
    <3> QED BY <1>1, <2>4, <3>2 DEF AddToEpoll
  <2> QED BY <1>2, <2>1, <2>2, <2>3, <2>4 DEF AddConnection
<1>3. CASE EpollWait
  <2>1. PICK ready \in SUBSET {fd \in Fds : epoll[fd] # NotRegistered} :
          /\ batch' = {[sid |-> EventSid(epoll[fd].sid), out |-> epoll[fd].out] : fd \in ready}
          /\ Fault("truncated", \E fd \in ready : EventSid(epoll[fd].sid) # epoll[fd].sid)
    BY <1>3 DEF EpollWait
  <2>2. \A fd \in ready : EventSid(epoll[fd].sid) = epoll[fd].sid
    BY <2>1 DEF Avoided, Excused, Fault
  <2>3. \A event \in batch' : event.sid # 0
    BY <2>1, <2>2
  <2> QED BY <1>3, <2>3 DEF EpollWait, InUse
<1>4. ASSUME NEW event \in batch,
             EventContinues(event) \/ RequestArrives(event) \/ ResponseEnds(event)
      PROVE  RealSids'
  <2>1. \A fd \in Fds : epoll'[fd] \in {epoll[fd], NotRegistered} \/ epoll'[fd].sid # 0
    BY <1>4 DEF EventContinues, RequestArrives, ResponseEnds, ModEpoll, LoopTypeOK
  <2> QED BY <1>1, <1>4, <2>1 DEF EventContinues, RequestArrives, ResponseEnds, TakeEvent
<1>5. ASSUME NEW event \in batch, EventFails(event)
      PROVE  RealSids'
  BY <1>5 DEF EventFails, TakeEvent, IoIdle
<1>6. ASSUME NEW sid \in Sids, TimeoutFires(sid)
      PROVE  RealSids'
  <2>1. sid # 0
    BY <1>6, SidsAssumption DEF TimeoutFires, SidInv, Known
  <2> QED BY <1>6, <2>1 DEF TimeoutFires, IoIdle
<1>7. CASE UnlinkSock
  <2>1. /\ io'.step \in {"close", "reset"} /\ io'.sid = io.sid /\ Slot(io.sid) \in Slots
        /\ io'.step = "close" => InSlot(io.sid)
    BY <1>7, TearDownMoves, SidTypes
  <2>2. \A fd \in Fds : epoll'[fd] \in {epoll[fd], NotRegistered}
    BY <1>7 DEF UnlinkSock
  <2>3. io'.step = "close" => sockset'[Slot(io.sid)].sid = 0
    BY <1>7, <2>1 DEF UnlinkSock, InSlot, LoopTypeOK
  <2>4. io'.step = "close" => ~InUse(Slot(io.sid))'
    BY <2>1, <2>3 DEF InUse
  <2> QED BY <1>7, <2>1, <2>2, <2>4 DEF UnlinkSock, NotRegistered
<1>8. CASE CloseSock \/ ResetSock
  <2>1. io'.step \in {"reset", "uncount"}
    BY <1>8, TearDownMoves
  <2>2. \A fd \in Fds : epoll'[fd] \in {epoll[fd], NotRegistered}
    BY <1>8 DEF CloseSock, ResetSock, Close
  <2> QED BY <1>8, <2>1, <2>2 DEF CloseSock, ResetSock, NotRegistered
<1>9. CASE UncountConn
  BY <1>9 DEF UncountConn, IoIdle
<1>10. CASE CheckTimeout
  BY <1>1, <1>10 DEF CheckTimeout, loopVars
<1> QED BY <1>2, <1>3, <1>4, <1>5, <1>6, <1>7, <1>8, <1>9, <1>10 DEF ELNext, HandleEvent, TearDown

LEMMA OwnedStep ==
  ASSUME EarlyInv, LoopTypeOK, SidInv, FreshInv, OwnedInv, ELNext
  PROVE  OwnedInv'
<1>1. CASE Avoided(Excused)'
  <2>1. OneHolder /\ RealSids
    BY <1>1, LoopFaultsGrow DEF OwnedInv, Excused
  <2>2. OneHolder'
    BY <1>1, <2>1, HolderAcceptor, HolderLoop DEF ELNext
  <2>3. RealSids'
    BY <1>1, <2>1, RealSidsStep
  <2> QED BY <2>2, <2>3 DEF OwnedInv
<1>2. CASE ~Avoided(Excused)'
  BY <1>2 DEF OwnedInv, Excused
<1> QED BY <1>1, <1>2

-----------------------------------------------------------------------------
(***************************************************************************)
(* Every slot in use is registered.                                        *)
(***************************************************************************)

Deafening == {"overload", "torn_reset", "stray_close", "early_close", "truncated"}

\* Descriptors that no slot in use has may change in epoll.
LEMMA RegisteredFrame ==
  ASSUME Registered, Avoided(Deafening), sockset' = sockset,
         acceptor' = acceptor \/ (acceptor.step # "put" /\ acceptor'.step # "put"),
         \A s \in Slots : InUse(s) => epoll'[sockset[s].fd] = epoll[sockset[s].fd]
  PROVE  Registered'
<1> USE DEF Registered, Deafening, InUse
<1>1. CASE acceptor' = acceptor
  BY <1>1
<1>2. CASE acceptor.step # "put" /\ acceptor'.step # "put"
  BY <1>2
<1> QED BY <1>1, <1>2

\* Descriptors that are no open sockets are those of no slot in use.
LEMMA RegisteredClosing ==
  ASSUME LoopTypeOK, Registered, OneHolder, Avoided(Deafening), UNCHANGED <<sockset, acceptor>>,
         \A fd \in Fds : IsOpenSocket(fd) => epoll'[fd] = epoll[fd]
  PROVE  Registered'
<1>1. \A s \in Slots : InUse(s) => sockset[s].fd \in Fds /\ IsOpenSocket(sockset[s].fd)
  BY DEF OneHolder, Holds, IsOpenSocket
<1> QED BY <1>1, RegisteredFrame

LEMMA RegisteredAcceptor ==
  ASSUME LoopTypeOK, SidInv, EventInv, OneHolder, Registered, AddConnection,
         Avoided(Deafening), Avoided(Deafening)'
  PROVE  Registered'
<1> USE DEF Deafening
<1>0. Avoided({"overload", "early_close", "truncated"})
  BY DEF Avoided
<1>1. CASE AcceptConn
  BY <1>1, RegisteredFrame DEF AcceptConn, AcceptorIdle
<1>2. CASE CountConn
  <2>1. acceptor.step = "loaded" /\ acceptor'.step # "put" /\ sockset' = sockset
    BY <1>2, AcceptorMoves DEF CountConn, AcceptorIdle
  <2>2. AcceptorHolds(acceptor.fd)
    BY <2>1 DEF AcceptorHolds
  <2>3. \A s \in Slots : InUse(s) => sockset[s].fd \in Fds /\ sockset[s].fd # acceptor.fd
    BY <2>2 DEF OneHolder, Holds, IsOpenSocket
  <2>4. \A fd \in Fds : fd # acceptor.fd => epoll'[fd] = epoll[fd]
    BY <1>2 DEF CountConn, Close
  <2> QED BY <2>1, <2>3, <2>4, RegisteredFrame
<1>3. CASE PutSocket
  <2>1. /\ acceptor.step = "counted" /\ acceptor'.step = "put" /\ acceptor'.sid = curr_sid'
        /\ sockset' = [sockset EXCEPT ![Slot(curr_sid')] = [sid |-> curr_sid', fd |-> acceptor.fd]]
        /\ epoll' = epoll
    BY <1>3, SidPut, AcceptorMoves DEF PutSocket
  <2>2. \A s \in Slots : sockset'[s] = IF s = Slot(curr_sid') THEN [sid |-> curr_sid', fd |-> acceptor.fd]
                                                             ELSE sockset[s]
    BY <2>1 DEF LoopTypeOK
  <2> QED BY <2>1, <2>2 DEF Registered, InUse
<1>4. CASE AddToEpoll
  <2>1. acceptor.step = "put" /\ acceptor'.step = "added" /\ sockset' = sockset
    BY <1>4, AcceptorMoves DEF AddToEpoll
  <2>2. InSlotWith(acceptor.sid, acceptor.fd) /\ Slot(acceptor.sid) \in Slots
    BY <1>0, <2>1, SidTypes DEF EventInv, PutUnannounced
  <2>3. InUse(Slot(acceptor.sid)) /\ sockset[Slot(acceptor.sid)].fd = acceptor.fd
    BY <2>2 DEF InSlotWith, InUse
  <2>4. IsOpenSocket(acceptor.fd) /\ acceptor.fd \in Fds
    BY <2>2, <2>3 DEF OneHolder, Holds, IsOpenSocket
  <2>5. \A fd \in Fds : epoll'[fd] = IF fd = acceptor.fd THEN [sid |-> acceptor.sid, out |-> FALSE] ELSE epoll[fd]
    BY <1>4, <2>4 DEF AddToEpoll, LoopTypeOK
  <2>6. ASSUME NEW s \in Slots, InUse(s)
        PROVE  epoll'[sockset[s].fd].sid = sockset[s].sid
    <3>1. sockset[s].fd \in Fds
      BY <2>6 DEF OneHolder, Holds, IsOpenSocket
    <3>2. CASE s = Slot(acceptor.sid)
      BY <2>2, <2>3, <2>4, <2>5, <3>2 DEF InSlotWith
    <3>3. CASE s # Slot(acceptor.sid)
      <4>1. sockset[s].fd # acceptor.fd
        BY <2>2, <2>3, <2>6, <3>3 DEF OneHolder, Holds
      <4>2. \/ epoll[sockset[s].fd].sid = sockset[s].sid
            \/ sockset[s].sid = acceptor.sid
        BY <2>6 DEF Registered
      <4>3. sockset[s].sid # acceptor.sid
        BY <2>6, <3>3 DEF SidInv
      <4> QED BY <2>5, <3>1, <4>1, <4>2, <4>3
    <3> QED BY <3>2, <3>3
  <2> QED BY <2>1, <2>6 DEF Registered, InUse
<1>5. CASE InsertTimer
  <2>1. UNCHANGED <<sockset, epoll>>
        /\ (acceptor' = acceptor \/ (acceptor.step # "put" /\ acceptor'.step # "put"))
    BY <1>5 DEF InsertTimer, loopVars, AcceptorIdle
  <2> QED BY <2>1, RegisteredFrame
<1> QED BY <1>1, <1>2, <1>3, <1>4, <1>5 DEF AddConnection

LEMMA RegisteredEvent ==
  ASSUME LoopTypeOK, EventInv, OneHolder, Registered, NEW event \in batch,
         RequestArrives(event) \/ ResponseEnds(event),
         Avoided(Deafening), Avoided(Deafening)'
  PROVE  Registered'
<1> DEFINE slot == Slot(event.sid)
<1> USE DEF Deafening
<1>0. Avoided({"overload", "early_close", "truncated"})
  BY DEF Avoided
<1>1. UNCHANGED <<sockset, acceptor>>
  BY DEF RequestArrives, ResponseEnds
<1>2. InSlot(event.sid) /\ event.sid # 0 /\ slot \in Slots
  BY <1>0, SidTypes DEF EventInv, EventsOfSlots
<1>3. InUse(slot) /\ sockset[slot].sid = event.sid
  BY <1>2 DEF InSlot, InUse
<1>4. ASSUME NEW fd \in Fds, IsOpenSocket(fd)
      PROVE  epoll'[fd] = epoll[fd] \/ (fd = sockset[slot].fd /\ epoll'[fd].sid = event.sid)
  <2>1. CASE RequestArrives(event)
    BY <2>1 DEF RequestArrives, ModEpoll, LoopTypeOK
  <2>2. CASE ResponseEnds(event)
    <3>1. ~Strays(slot)
      BY <2>2 DEF ResponseEnds, Fault, Avoided
    <3>2. fd \notin FileToClose(slot)
      BY <1>4, <3>1 DEF Strays, IsOpenSocket, Free, File
    <3> QED BY <2>2, <3>2 DEF ResponseEnds, ModEpoll, LoopTypeOK
  <2> QED BY <2>1, <2>2
<1>5. ASSUME NEW s \in Slots, InUse(s)
      PROVE  \/ epoll'[sockset[s].fd].sid = sockset[s].sid
             \/ acceptor.step = "put" /\ acceptor.sid = sockset[s].sid
  <2>1. IsOpenSocket(sockset[s].fd) /\ sockset[s].fd \in Fds
    BY <1>5 DEF OneHolder, Holds, IsOpenSocket
  <2>2. sockset[s].fd = sockset[slot].fd => s = slot
    BY <1>2, <1>3, <1>5 DEF OneHolder, Holds
  <2> QED BY <1>3, <1>4, <1>5, <2>1, <2>2 DEF Registered
<1> QED BY <1>1, <1>5 DEF Registered, InUse

LEMMA RegisteredTearDown ==
  ASSUME LoopTypeOK, EventInv, OneHolder, RealSids, Registered, UnlinkSock \/ CloseSock \/ ResetSock,
         Avoided(Deafening), Avoided(Deafening)'
  PROVE  Registered'
<1> DEFINE slot == Slot(io.sid)
<1> USE DEF Deafening
<1>0. Avoided({"overload", "early_close", "truncated"})
  BY DEF Avoided
<1>1. slot \in Slots
  BY SidTypes
<1>2. acceptor' = acceptor
  BY DEF UnlinkSock, CloseSock, ResetSock
<1>3. CASE UnlinkSock
  <2>1. io.step = "unlink" /\ InSlotWith(io.sid, io.fd)
    BY <1>0, <1>3 DEF UnlinkSock, EventInv, TearDownFinds
  <2>2. InUse(slot) /\ sockset[slot].fd = io.fd /\ InSlot(io.sid)
    BY <2>1 DEF InSlotWith, InUse, InSlot
  <2>3. \A s \in Slots : /\ s # slot => sockset'[s] = sockset[s]
                         /\ s = slot => sockset'[s].sid = 0
    BY <1>1, <1>3, <2>2 DEF UnlinkSock, InSlot, LoopTypeOK
  <2>4. ASSUME NEW s \in Slots, InUse(s), s # slot
        PROVE  epoll'[sockset[s].fd] = epoll[sockset[s].fd]
    <3>1. sockset[s].fd # io.fd /\ sockset[s].fd \in Fds
      BY <1>1, <2>2, <2>4 DEF OneHolder, Holds, IsOpenSocket
    <3> QED BY <1>3, <3>1 DEF UnlinkSock
  <2> QED BY <1>2, <2>3, <2>4 DEF Registered, InUse
<1>4. CASE CloseSock
  <2>1. io.step = "close" /\ sockset' = sockset
    BY <1>4 DEF CloseSock
  <2>2. ASSUME NEW s \in Slots, InUse(s)
        PROVE  epoll'[sockset[s].fd] = epoll[sockset[s].fd]
    <3>1. Holds(slot) /\ Holds(s) /\ s # slot
      BY <2>1, <2>2 DEF Holds, Closing, RealSids
    <3>2. sockset[s].fd # sockset[slot].fd /\ sockset[s].fd \in Fds
      BY <1>1, <3>1 DEF OneHolder, IsOpenSocket
    <3> QED BY <1>4, <3>2 DEF CloseSock, Close
  <2> QED BY <1>2, <2>1, <2>2, RegisteredFrame
<1>5. CASE ResetSock
  <2>1. ~Strays(slot)
    BY <1>5 DEF ResetSock, Avoided
  <2>2. \A fd \in Fds : IsOpenSocket(fd) => epoll'[fd] = epoll[fd]
    BY <1>5, <2>1 DEF ResetSock, Close, Strays, IsOpenSocket, Free, File
  <2> QED BY <1>2, <1>5, <2>2, RegisteredClosing DEF ResetSock
<1> QED BY <1>3, <1>4, <1>5

LEMMA RegisteredStep ==
  ASSUME LoopTypeOK, SidInv, EventInv, OwnedInv, Registered, ELNext
  PROVE  Registered'
<1>1. CASE Avoided(Deafening)'
  <2>1. Avoided(Deafening)
    BY <1>1, LoopFaultsGrow
  <2>2. OneHolder /\ RealSids
    BY <2>1 DEF OwnedInv, Avoided, Deafening
  <2>3. CASE AddConnection
    BY <1>1, <2>1, <2>2, <2>3, RegisteredAcceptor
  <2>4. ASSUME NEW event \in batch, RequestArrives(event) \/ ResponseEnds(event)
        PROVE  Registered'
    BY <1>1, <2>1, <2>2, <2>4, RegisteredEvent
  <2>5. CASE UnlinkSock \/ CloseSock \/ ResetSock
    BY <1>1, <2>1, <2>2, <2>5, RegisteredTearDown
  <2>6. ASSUME UNCHANGED <<sockset, acceptor, epoll>>
        PROVE  Registered'
    BY <2>1, <2>6, RegisteredFrame
  <2>7. CASE EpollWait \/ UncountConn \/ CheckTimeout
    BY <2>6, <2>7 DEF EpollWait, UncountConn, CheckTimeout, loopVars
  <2>8. ASSUME NEW event \in batch, EventContinues(event) \/ EventFails(event)
        PROVE  Registered'
    BY <2>6, <2>8 DEF EventContinues, EventFails
  <2>9. ASSUME NEW sid \in Sids, TimeoutFires(sid)
        PROVE  Registered'
    BY <2>6, <2>9 DEF TimeoutFires
  <2> QED BY <2>3, <2>4, <2>5, <2>7, <2>8, <2>9 DEF ELNext, HandleEvent, TearDown
<1>2. CASE ~Avoided(Deafening)'
  BY <1>2 DEF Registered, Deafening
<1> QED BY <1>1, <1>2

-----------------------------------------------------------------------------
(***************************************************************************)
(* The number of connections.                                              *)
(***************************************************************************)

Miscounting == {"overload", "early_close", "lost_update", "truncated"}
SlotsInUse == {s \in Slots : InUse(s)}

LEMMA SlotsInUseFinite == IsFiniteSet(SlotsInUse) /\ Cardinality(SlotsInUse) \in Nat
<1>1. IsFiniteSet(Slots)
  BY MaxConnAssumption, FS_Interval DEF Slots
<1>2. IsFiniteSet(SlotsInUse)
  BY <1>1, FS_Subset DEF SlotsInUse
<1> QED BY <1>2, FS_CardinalityType

\* Admitted, one of its terms at a time.
LEMMA AdmittedTerms ==
  Admitted = Cardinality(SlotsInUse) + (IF acceptor.step = "counted" THEN 1 ELSE 0)
               + (IF io.step \in {"close", "reset", "uncount"} THEN 1 ELSE 0)
BY DEF Admitted, SlotsInUse

LEMMA CountInit ==
  ASSUME ELInit
  PROVE  CountExact
<1>1. SlotsInUse = {}
  BY DEF ELInit, SlotsInUse, InUse
<1>2. Admitted = 0
  BY <1>1, FS_EmptySet, AdmittedTerms DEF ELInit, AcceptorIdle, IoIdle
<1> QED BY <1>2 DEF ELInit, CountExact

\* The terms of Admitted stay what they are.
LEMMA CountFrame ==
  ASSUME CountExact, Avoided(Miscounting), UNCHANGED <<sockset, cur_conn, rejected>>,
         acceptor'.step = "counted" <=> acceptor.step = "counted",
         io'.step \in {"close", "reset", "uncount"} <=> io.step \in {"close", "reset", "uncount"}
  PROVE  CountExact'
<1>1. Admitted' = Admitted
  BY DEF Admitted, InUse
<1> QED BY <1>1 DEF CountExact, Miscounting

LEMMA CountAcceptor ==
  ASSUME LoopTypeOK, CountExact, AddConnection, Avoided(Miscounting), Avoided(Miscounting)'
  PROVE  CountExact'
<1> DEFINE teardown == IF io.step \in {"close", "reset", "uncount"} THEN 1 ELSE 0
<1>1. /\ Cardinality(SlotsInUse) \in Nat /\ IsFiniteSet(SlotsInUse) /\ rejected \in Nat /\ cur_conn \in Int
      /\ teardown \in {0, 1}
      /\ cur_conn = Cardinality(SlotsInUse) + (IF acceptor.step = "counted" THEN 1 ELSE 0) + teardown + rejected
  BY SlotsInUseFinite, AdmittedTerms DEF CountExact, Miscounting, LoopTypeOK
<1>2. CASE AcceptConn
  BY <1>2, CountFrame DEF AcceptConn, AcceptorIdle
<1>3. CASE CountConn
  <2>1. cur_conn = acceptor.seen /\ cur_conn' = acceptor.seen + 1 /\ acceptor.step = "loaded"
    BY <1>3 DEF CountConn, Fault, Avoided, Miscounting
  <2>2. Admitted' = Cardinality(SlotsInUse) + (IF acceptor'.step = "counted" THEN 1 ELSE 0) + teardown
    BY <1>3, AdmittedTerms DEF CountConn, Admitted, SlotsInUse, InUse
  <2>3. CASE TooMany(acceptor.seen)
    <3>1. acceptor'.step = "idle" /\ rejected' = rejected + 1
      BY <1>3, <2>3 DEF CountConn, AcceptorIdle
    <3> HIDE DEF teardown
    <3> QED BY <1>1, <2>1, <2>2, <3>1 DEF CountExact
  <2>4. CASE ~TooMany(acceptor.seen)
    <3>1. acceptor'.step = "counted" /\ rejected' = rejected
      BY <1>3, <2>4 DEF CountConn, LoopTypeOK
    <3> HIDE DEF teardown
    <3> QED BY <1>1, <2>1, <2>2, <3>1 DEF CountExact
  <2> QED BY <2>3, <2>4
<1>4. CASE PutSocket
  <2>1. PICK new \in Sids :
          /\ new = curr_sid' /\ Slot(new) \in Slots
          /\ acceptor.step = "counted" /\ acceptor'.step = "put"
          /\ sockset' = [sockset EXCEPT ![Slot(new)] = [sid |-> new, fd |-> acceptor.fd]]
          /\ UNCHANGED <<io, cur_conn, rejected>>
    BY <1>4, SidPut, AcceptorMoves DEF PutSocket
  <2>2. sockset[Slot(new)].sid = 0 /\ new # 0
    <3>1. sockset[Slot(curr_sid')].sid # 0 => Fault("overload", TRUE)
      BY <1>4, SidPut DEF PutSocket
    <3>2. curr_sid' > curr_sid /\ curr_sid \in Nat
      BY <1>4, SidPut, SidTypes
    <3> QED BY <2>1, <3>1, <3>2 DEF Avoided, Miscounting, Fault
  <2>3. SlotsInUse' = SlotsInUse \cup {Slot(new)} /\ Slot(new) \notin SlotsInUse
    BY <2>1, <2>2 DEF SlotsInUse, InUse, LoopTypeOK
  <2>4. Cardinality(SlotsInUse') = Cardinality(SlotsInUse) + 1
    BY <1>1, <2>3, FS_AddElement
  <2>5. Admitted' = Cardinality(SlotsInUse') + teardown
    BY <1>1, <2>1, <2>4 DEF Admitted, SlotsInUse, InUse
  <2> HIDE DEF teardown
  <2> QED BY <1>1, <2>1, <2>4, <2>5 DEF CountExact
<1>5. CASE AddToEpoll \/ InsertTimer
  <2>1. UNCHANGED <<sockset, cur_conn, rejected, io>>
    BY <1>5 DEF AddToEpoll, InsertTimer, loopVars
  <2>2. acceptor'.step = "counted" <=> acceptor.step = "counted"
    BY <1>5, AcceptorMoves DEF InsertTimer, loopVars, AcceptorIdle
  <2> QED BY <2>1, <2>2, CountFrame
<1> QED BY <1>2, <1>3, <1>4, <1>5 DEF AddConnection

LEMMA CountTearDown ==
  ASSUME LoopTypeOK, EventInv, CountExact, UnlinkSock \/ UncountConn, Avoided(Miscounting), Avoided(Miscounting)'
  PROVE  CountExact'
<1> DEFINE coming == IF acceptor.step = "counted" THEN 1 ELSE 0
<1>1. /\ Cardinality(SlotsInUse) \in Nat /\ IsFiniteSet(SlotsInUse) /\ rejected \in Nat /\ cur_conn \in Int
      /\ coming \in {0, 1}
      /\ cur_conn = Cardinality(SlotsInUse) + coming
                      + (IF io.step \in {"close", "reset", "uncount"} THEN 1 ELSE 0) + rejected
  BY SlotsInUseFinite, AdmittedTerms DEF CountExact, Miscounting, LoopTypeOK
<1>2. CASE UnlinkSock
  <2>1. Avoided({"overload", "early_close", "truncated"})
    BY DEF Avoided, Miscounting
  <2>2. InSlotWith(io.sid, io.fd) /\ io.step = "unlink" /\ Slot(io.sid) \in Slots
    BY <1>2, <2>1, SidTypes DEF UnlinkSock, EventInv, TearDownFinds
  <2>3. InSlot(io.sid) /\ Slot(io.sid) \in SlotsInUse
    BY <2>2 DEF InSlotWith, InSlot, SlotsInUse, InUse
  <2>4. io'.step = "close" /\ UNCHANGED <<acceptor, cur_conn, rejected>>
    BY <1>2, <2>3, TearDownMoves DEF UnlinkSock
  <2>5. SlotsInUse' = SlotsInUse \ {Slot(io.sid)}
    BY <1>2, <2>2, <2>3 DEF UnlinkSock, InSlot, SlotsInUse, InUse, LoopTypeOK
  <2>6. Cardinality(SlotsInUse') = Cardinality(SlotsInUse) - 1
    BY <1>1, <2>3, <2>5, FS_RemoveElement
  <2>7. Admitted' = Cardinality(SlotsInUse') + coming + 1
    BY <2>4 DEF Admitted, SlotsInUse, InUse
  <2> HIDE DEF coming
  <2> QED BY <1>1, <2>2, <2>4, <2>6, <2>7 DEF CountExact
<1>3. CASE UncountConn
  <2>1. /\ io.step = "uncount" /\ io'.step = "idle" /\ UNCHANGED <<sockset, acceptor, rejected>>
        /\ cur_conn' = cur_conn - 1
    BY <1>3 DEF UncountConn, IoIdle, Fault, Avoided, Miscounting
  <2>2. Admitted' = Cardinality(SlotsInUse) + coming
    BY <1>1, <2>1 DEF Admitted, SlotsInUse, InUse
  <2> HIDE DEF coming
  <2> QED BY <1>1, <2>1, <2>2 DEF CountExact
<1> QED BY <1>2, <1>3

LEMMA CountStep ==
  ASSUME LoopTypeOK, EventInv, CountExact, ELNext
  PROVE  CountExact'
<1>1. CASE Avoided(Miscounting)'
  <2>1. Avoided(Miscounting)
    BY <1>1, LoopFaultsGrow
  <2>2. CASE AddConnection
    BY <1>1, <2>1, <2>2, CountAcceptor
  <2>3. CASE UnlinkSock \/ UncountConn
    BY <1>1, <2>1, <2>3, CountTearDown
  <2>4. CASE EpollWait \/ CheckTimeout
    BY <2>1, <2>4, CountFrame DEF EpollWait, CheckTimeout, loopVars
  <2>5. ASSUME NEW event \in batch,
               EventContinues(event) \/ RequestArrives(event) \/ ResponseEnds(event) \/ EventFails(event)
        PROVE  CountExact'
    <3>1. UNCHANGED <<sockset, cur_conn, rejected, acceptor>>
      BY <2>5 DEF EventContinues, RequestArrives, ResponseEnds, EventFails
    <3>2. io = IoIdle /\ (io' = io \/ EventFails(event))
      BY <2>5 DEF EventContinues, RequestArrives, ResponseEnds, EventFails, TakeEvent
    <3>3. io.step = "idle" /\ (EventFails(event) => io'.step = "unlink")
      BY <3>2 DEF EventFails, IoIdle
    <3> QED BY <2>1, <3>1, <3>2, <3>3, CountFrame
  <2>6. ASSUME NEW sid \in Sids, TimeoutFires(sid)
        PROVE  CountExact'
    BY <2>1, <2>6, CountFrame DEF TimeoutFires, IoIdle
  <2>7. CASE CloseSock \/ ResetSock
    <3>1. io.step \in {"close", "reset"} /\ io'.step \in {"reset", "uncount"}
      BY <2>7, TearDownMoves
    <3> QED BY <2>1, <2>7, <3>1, CountFrame DEF CloseSock, ResetSock
  <2> QED BY <2>2, <2>3, <2>4, <2>5, <2>6, <2>7 DEF ELNext, HandleEvent, TearDown
<1>2. CASE ~Avoided(Miscounting)'
  BY <1>2 DEF CountExact, Miscounting
<1> QED BY <1>1, <1>2

-----------------------------------------------------------------------------
(***************************************************************************)
(* The invariant of the loop, and the four promises that follow from it.   *)
(***************************************************************************)

LEMMA LoopInvInit ==
  ASSUME ELInit
  PROVE  LoopInv
<1>1. EarlyInv
  BY EarlyInit DEF ELInit
<1>2. Registered
  BY DEF ELInit, Registered, InUse
<1> QED BY <1>1, <1>2, LoopTypeInit, SidInit, FreshInit, TimedInit, EventInit, OwnedInit, CountInit DEF LoopInv

LEMMA LoopInvStep ==
  ASSUME LoopInv, [ELNext]_elVars
  PROVE  LoopInv'
<1> USE DEF LoopInv
<1>1. EarlyInv'
  BY LoopTimerStep, EarlyStep
<1>2. LoopTypeOK'
  BY LoopTypeStep
<1>3. CASE ELNext
  <2>1. SidInv' /\ FreshInv'
    BY <1>3, SidStep, FreshAcceptor, FreshLoop DEF ELNext
  <2>2. TimedInv' /\ EventInv' /\ OwnedInv'
    BY <1>3, TimedStep, EventStep, OwnedStep
  <2>3. Registered' /\ CountExact'
    BY <1>3, RegisteredStep, CountStep
  <2> QED BY <1>1, <1>2, <2>1, <2>2, <2>3
<1>4. CASE UNCHANGED elVars
  <2> USE <1>4 DEF elVars, loopVars, timerVars, structVars
  <2>1. SidInv'
    BY DEF SidInv, InUse, Known, HasEntry, BeingInserted
  <2>2. FreshInv'
    BY DEF FreshInv, Known, HasEntry, BeingInserted
  <2>3. TimedInv'
    BY DEF TimedInv, Avoided, TimerOfEachSlot, SlotOfEachTimer, TimerIsRemoved, InUse, HasTimer,
           TimerUnderWay, InSlot, TearingDown
  <2>4. EventInv'
    BY DEF EventInv, Avoided, RegisteredInSlot, EventsOfSlots, PutUnannounced, TearDownFinds,
           InSlotWith, InSlot, TearingDown
  <2>5. OwnedInv'
    BY DEF OwnedInv, Avoided, OneHolder, RealSids, Holds, InUse, Closing, AcceptorHolds, IsOpenSocket
  <2>6. Registered' /\ CountExact'
    BY DEF Registered, CountExact, Avoided, Admitted, InUse
  <2> QED BY <1>1, <1>2, <2>1, <2>2, <2>3, <2>4, <2>5, <2>6
<1> QED BY <1>3, <1>4

\* What lmvs_el_add_connection and lmvs_el_io_loop know of each other, in every
\* reachable state.
THEOREM LoopInvariant == ELSpec => []LoopInv
BY LoopInvInit, LoopInvStep, PTL DEF ELSpec

\* lmvs_el_add_connection, lmvs_el_reset_sock and lmvs_el_check_timeout keep one
\* timer for each slot in use, unless a slot is taken over or a connection is torn
\* down before it has its timer.
THEOREM SlotsAreTimed == ELSpec => []Timed
<1>1. LoopInv => Timed
  <2> SUFFICES ASSUME LoopInv, Avoided({"overload", "early_close"})
               PROVE  /\ \A s \in Slots : InUse(s) => HasTimer(sockset[s].sid) \/ TimerUnderWay(sockset[s].sid)
                      /\ \A sid \in Sids : HasTimer(sid) =>
                           sockset[Slot(sid)].sid = sid \/ (io.step # "idle" /\ io.sid = sid)
    BY DEF Timed
  <2> QED BY DEF LoopInv, TimedInv, TimerOfEachSlot, SlotOfEachTimer, InSlot, TearingDown
<1> QED BY <1>1, LoopInvariant, PTL

\* el->cur_conn is the number of connections that lmvs_el_add_connection let in
\* and no teardown has counted out, and those it turned away.
THEOREM ConnectionsAreCounted == ELSpec => []CountExact
<1>1. LoopInv => CountExact
  BY DEF LoopInv
<1> QED BY <1>1, LoopInvariant, PTL

\* lmvs_sockset_put, lmvs_sockset_reset_sock and lmvs_request_reset leave every open
\* socket with one holder, until a slot is taken over, a request closes a stray
\* descriptor or an event loses bits of its sid.
THEOREM SocketsHaveOwners == ELSpec => []SocketsOwned
<1>1. LoopInv => SocketsOwned
  <2> SUFFICES ASSUME LoopInv, Avoided(Excused)
               PROVE  /\ \A fd \in Fds : IsOpenSocket(fd) =>
                           \/ acceptor.step \in {"loaded", "counted"} /\ acceptor.fd = fd
                           \/ Cardinality({s \in Slots : sockset[s].fd = fd /\ (InUse(s) \/ Closing(s))}) = 1
                      /\ \A s \in Slots : InUse(s) => IsOpenSocket(sockset[s].fd)
    BY DEF SocketsOwned, Excused
  <2>1. OneHolder
    BY DEF LoopInv, OwnedInv, Excused
  <2>2. ASSUME NEW fd \in Fds, IsOpenSocket(fd), ~AcceptorHolds(fd)
        PROVE  Cardinality({s \in Slots : sockset[s].fd = fd /\ (InUse(s) \/ Closing(s))}) = 1
    <3>1. PICK t \in Slots : Holds(t) /\ sockset[t].fd = fd
      BY <2>1, <2>2 DEF OneHolder
    <3>2. {s \in Slots : sockset[s].fd = fd /\ (InUse(s) \/ Closing(s))} = {t}
      BY <2>1, <3>1 DEF OneHolder, Holds
    <3> QED BY <3>2, FS_Singleton
  <2>3. \A s \in Slots : InUse(s) => IsOpenSocket(sockset[s].fd)
    BY <2>1 DEF OneHolder, Holds
  <2> QED BY <2>2, <2>3 DEF AcceptorHolds
<1> QED BY <1>1, LoopInvariant, PTL

\* The descriptor of a slot in use is registered with epoll under its sid, after
\* every lmvs_epoller_add, _mod_read, _mod_write and _del, under the same conditions
\* and if every connection had its timer when it was torn down.
THEOREM SlotsAreRegistered == ELSpec => []Registered
<1>1. LoopInv => Registered
  BY DEF LoopInv
<1> QED BY <1>1, LoopInvariant, PTL

=============================================================================
