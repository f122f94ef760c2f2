------------------------------ MODULE EventLoop ------------------------------
(***************************************************************************)
(* One event loop of the server (lmvs-el.c, lmvs-sockset.c) and the two    *)
(* threads that share it without a lock.  The acceptor thread runs         *)
(* lmvs_el_add_connection for each socket it accepts; the I/O thread runs  *)
(* lmvs_el_io_loop: it handles the events of its sockets, tears down those *)
(* that fail and, through the timer wheel, those that have timed out.      *)
(*                                                                         *)
(* Every access to state the other thread uses is a step of its own.  The  *)
(* history variable faults records which of the interleavings that the     *)
(* code does not exclude have happened, so that the properties can say     *)
(* exactly which of them each promise of the event loop depends on.        *)
(***************************************************************************)
EXTENDS Timer, FiniteSets

CONSTANTS
  MaxConn,      \* el->max_conn, the number of slots of the socket set
  Fds,          \* the file descriptors there are, for sockets and for files
  MaxAccepts,   \* how many connections the model accepts in all
  SidModulus,   \* an event carries its sid modulo this: 2^16 in the code
  Explored      \* the faults the model goes on from; others end a behaviour

ASSUME MaxConnAssumption == MaxConn \in Nat \ {0}
ASSUME FdsAssumption == 0 \notin Fds
ASSUME MaxAcceptsAssumption == MaxAccepts \in Nat
ASSUME SidModulusAssumption == SidModulus \in Nat \ {0}

VARIABLES
  sockset,    \* slot -> its lmvs_sock_t: sid (0: not in use) and fd
  curr_sid,   \* set->curr_sid, counted from start_sid
  cur_conn,   \* el->cur_conn
  requests,   \* slot -> its lmvs_request_t: fd of the file, still answering?
  epoll,      \* kernel: fd -> what the epoll instance knows of it
  owner,      \* kernel: fd -> what it refers to
  acceptor,   \* where the acceptor is inside lmvs_el_add_connection
  batch,      \* the events of epoll_wait that are still to be handled
  io,         \* where the I/O thread is inside the teardown of a socket
  accepted,   \* history: connections accepted
  rejected,   \* history: connections turned away
  faults      \* history: the unexcluded interleavings that have happened

loopVars == <<sockset, curr_sid, cur_conn, requests, epoll, owner, acceptor,
              batch, io, accepted, rejected, faults>>
elVars == <<timerVars, loopVars>>

Slots == 0 .. MaxConn - 1
Slot(sid) == sid % MaxConn
Conns == 1 .. MaxAccepts

Free == [kind |-> "free", id |-> 0]
Socket(c) == [kind |-> "socket", id |-> c]
File(slot) == [kind |-> "file", id |-> slot]

NotRegistered == [sid |-> -1, out |-> FALSE]
IsOpenSocket(fd) == fd \in Fds /\ owner[fd].kind = "socket"

\* lmvs_epoller_event_sid keeps the low bits of the sid an event carries.
EventSid(sid) == sid % SidModulus

AcceptorIdle == [step |-> "idle", fd |-> 0, sid |-> 0, seen |-> 0]
IoIdle == [step |-> "idle", sid |-> 0, fd |-> 0, cause |-> "event", seen |-> 0]

ELInit ==
  /\ TimerInit
  /\ sockset = [s \in Slots |-> [sid |-> 0, fd |-> 0]]
  /\ curr_sid = 0
  /\ cur_conn = 0
  /\ requests = [s \in Slots |-> [fd |-> 0, answering |-> FALSE]]
  /\ epoll = [fd \in Fds |-> NotRegistered]
  /\ owner = [fd \in Fds |-> Free]
  /\ acceptor = AcceptorIdle
  /\ batch = {}
  /\ io = IoIdle
  /\ accepted = 0
  /\ rejected = 0
  /\ faults = {}

\* The interleavings, and the overflow, that nothing in the code excludes.
Faults == {"overload",     \* a connection was put in a slot still in use
           "torn_reset",   \* a slot was taken between sid = 0 and close(fd)
           "early_close",  \* a connection was torn down before it had its timer
           "lost_update",  \* two threads changed cur_conn at the same time
           "stray_close",  \* a request closed a descriptor no longer its own
           "truncated"}    \* an event has come without the high bits of its sid

Fault(name, happened) == faults' = faults \cup (IF happened THEN {name} ELSE {})

\* close() of a set of descriptors; the kernel drops them from epoll as well.
Close(closed) ==
  /\ owner' = [fd \in Fds |-> IF fd \in closed THEN Free ELSE owner[fd]]
  /\ epoll' = [fd \in Fds |-> IF fd \in closed THEN NotRegistered ELSE epoll[fd]]

-----------------------------------------------------------------------------
(***************************************************************************)
(* The acceptor: _do_accept and lmvs_el_add_connection.                    *)
(***************************************************************************)

\* accept(), and the load of cur_conn++.
AcceptConn ==
  /\ acceptor = AcceptorIdle
  /\ inserting = Idle
  /\ accepted < MaxAccepts
  /\ \E fd \in Fds :
       /\ owner[fd] = Free
       /\ owner' = [owner EXCEPT ![fd] = Socket(accepted + 1)]
       /\ acceptor' = [AcceptorIdle EXCEPT !.step = "loaded", !.fd = fd, !.seen = cur_conn]
  /\ accepted' = accepted + 1
  /\ UNCHANGED <<timerVars, sockset, curr_sid, cur_conn, requests, epoll,
                 batch, io, rejected, faults>>

TooMany(seen) == seen > MaxConn

\* The store of cur_conn++ and the test: a connection too many is closed at
\* once, and stays counted.
CountConn ==
  /\ acceptor.step = "loaded"
  /\ cur_conn' = acceptor.seen + 1
  /\ Fault("lost_update", cur_conn # acceptor.seen)
  /\ IF TooMany(acceptor.seen)
       THEN /\ Close({acceptor.fd})
            /\ rejected' = rejected + 1
            /\ acceptor' = AcceptorIdle
       ELSE /\ acceptor' = [acceptor EXCEPT !.step = "counted"]
            /\ UNCHANGED <<owner, epoll, rejected>>
  /\ UNCHANGED <<timerVars, sockset, curr_sid, requests, batch, io, accepted>>

\* lmvs_sockset_put tries one slot after the other and takes the last one if
\* none is free.
SidsTried ==
  LET free == {n \in 1 .. MaxConn : sockset[Slot(curr_sid + n)].sid = 0}
  IN IF free = {} THEN MaxConn ELSE CHOOSE n \in free : \A m \in free : n <= m

PutSocket ==
  /\ acceptor.step = "counted"
  /\ LET sid == curr_sid + SidsTried
         slot == Slot(sid)
     IN /\ sid \in Sids
        /\ curr_sid' = sid
        /\ sockset' = [sockset EXCEPT ![slot] = [sid |-> sid, fd |-> acceptor.fd]]
        /\ acceptor' = [acceptor EXCEPT !.step = "put", !.sid = sid]
        /\ IF sockset[slot].sid # 0
             THEN Fault("overload", TRUE)
             ELSE Fault("torn_reset", io.step = "close" /\ Slot(io.sid) = slot)
  /\ UNCHANGED <<timerVars, cur_conn, requests, epoll, owner, batch, io,
                 accepted, rejected>>

\* lmvs_epoller_add; its failure (the descriptor is closed) goes unnoticed.
AddToEpoll ==
  /\ acceptor.step = "put"
  /\ epoll' = IF IsOpenSocket(acceptor.fd)
                THEN [epoll EXCEPT ![acceptor.fd] = [sid |-> acceptor.sid, out |-> FALSE]]
                ELSE epoll
  /\ acceptor' = [acceptor EXCEPT !.step = "added"]
  /\ UNCHANGED <<timerVars, sockset, curr_sid, cur_conn, requests, owner,
                 batch, io, accepted, rejected, faults>>

\* The three steps of lmvs_timer_insert.
InsertTimer ==
  \/ /\ acceptor.step = "added"
     /\ InsertEnter(acceptor.sid)
     /\ acceptor' = AcceptorIdle
     /\ UNCHANGED <<sockset, curr_sid, cur_conn, requests, epoll, owner,
                    batch, io, accepted, rejected, faults>>
  \/ InsertLink /\ UNCHANGED loopVars
  \/ InsertCount /\ UNCHANGED loopVars

-----------------------------------------------------------------------------
(***************************************************************************)
(* The I/O thread: one pass of lmvs_el_io_loop is epoll_wait, the events   *)
(* it returned, and lmvs_el_check_timeout.                                 *)
(***************************************************************************)

BetweenPasses == io = IoIdle /\ batch = {} /\ checking = "events"

\* epoll_wait: any sockets registered may be ready.  An event is captured here
\* and handled later.
EpollWait ==
  /\ BetweenPasses
  /\ \E ready \in SUBSET {fd \in Fds : epoll[fd] # NotRegistered} :
       /\ ready # {}
       /\ batch' = {[sid |-> EventSid(epoll[fd].sid), out |-> epoll[fd].out] : fd \in ready}
       /\ Fault("truncated", \E fd \in ready : EventSid(epoll[fd].sid) # epoll[fd].sid)
  /\ UNCHANGED <<timerVars, sockset, curr_sid, cur_conn, requests, epoll,
                 owner, acceptor, io, accepted, rejected>>

TakeEvent(event) == io = IoIdle /\ event \in batch /\ batch' = batch \ {event}

\* Mutant: the descriptor is registered without its sid.
ModEpollNoSid(table, fd, sid, out) ==
  IF fd \in Fds /\ table[fd] # NotRegistered
    THEN [table EXCEPT ![fd] = [sid |-> 0, out |-> out]]
    ELSE table

\* lmvs_epoller_mod_read and _mod_write; they fail on what is not registered.
ModEpoll(table, fd, sid, out) ==
  IF fd \in Fds /\ table[fd] # NotRegistered
    THEN [table EXCEPT ![fd] = [sid |-> sid, out |-> out]]
    ELSE table

\* Part of a request was received, or part of a response sent: wait for more.
EventContinues(event) ==
  /\ TakeEvent(event)
  /\ UNCHANGED <<timerVars, sockset, curr_sid, cur_conn, requests, epoll,
                 owner, acceptor, io, accepted, rejected, faults>>

\* lmvs_request_parse finds a whole request; it opens the file, or not (404).
RequestArrives(event) ==
  /\ TakeEvent(event)
  /\ ~event.out
  /\ LET slot == Slot(event.sid)
         fd == sockset[slot].fd
     IN /\ IsOpenSocket(fd)
        /\ \E file \in {f \in Fds : owner[f] = Free} \cup {0} :
             /\ requests' = [requests EXCEPT ![slot] = [fd |-> file, answering |-> TRUE]]
             /\ owner' = IF file = 0 THEN owner
                                     ELSE [owner EXCEPT ![file] = File(slot)]
        /\ epoll' = ModEpoll(epoll, fd, event.sid, TRUE)
  /\ UNCHANGED <<timerVars, sockset, curr_sid, cur_conn, acceptor, io,
                 accepted, rejected, faults>>

\* lmvs_request_reset closes the file of the request but keeps its number.
FileToClose(slot) == {requests[slot].fd} \ {0}
Strays(slot) == \E fd \in FileToClose(slot) : owner[fd] \notin {Free, File(slot)}
ResetRequest(slot) == requests' = [requests EXCEPT ![slot].answering = FALSE]

\* The last part of the response was sent: wait for the next request.  (Where
\* there is no response, no part of it is the last, unless a file is still named.)
ResponseEnds(event) ==
  /\ TakeEvent(event)
  /\ event.out
  /\ LET slot == Slot(event.sid)
         fd == sockset[slot].fd
         modified == ModEpoll(epoll, fd, event.sid, FALSE)
         closed == FileToClose(slot)
     IN /\ requests[slot].answering \/ requests[slot].fd = 0
        /\ owner' = [f \in Fds |-> IF f \in closed THEN Free ELSE owner[f]]
        /\ epoll' = [f \in Fds |-> IF f \in closed THEN NotRegistered ELSE modified[f]]
        /\ ResetRequest(slot)
        /\ Fault("stray_close", Strays(slot))
  /\ UNCHANGED <<timerVars, sockset, curr_sid, cur_conn, acceptor, io,
                 accepted, rejected>>

\* The peer has closed, or recv, send or sendfile failed: tear it down.
EventFails(event) ==
  /\ TakeEvent(event)
  /\ io' = [IoIdle EXCEPT !.step = "unlink", !.sid = event.sid,
                          !.fd = sockset[Slot(event.sid)].fd]
  /\ UNCHANGED <<timerVars, sockset, curr_sid, cur_conn, requests, epoll,
                 owner, acceptor, accepted, rejected, faults>>

\* lmvs_el_check_timeout comes to the next key of the expired wheel.
TimeoutFires(sid) ==
  /\ io = IoIdle
  /\ checking = "closing"
  /\ sid \in keys
  /\ \A other \in keys : sid <= other
  /\ io' = [IoIdle EXCEPT !.step = "unlink", !.sid = sid,
                          !.fd = sockset[Slot(sid)].fd, !.cause = "timeout"]
  /\ UNCHANGED <<timerVars, sockset, curr_sid, cur_conn, requests, epoll,
                 owner, acceptor, batch, accepted, rejected, faults>>

\* lmvs_epoller_del, and lmvs_sockset_reset_sock as far as sock->sid = 0.
UnlinkSock ==
  /\ io.step = "unlink"
  /\ epoll' = [fd \in Fds |-> IF fd = io.fd THEN NotRegistered ELSE epoll[fd]]
  /\ LET slot == Slot(io.sid)
     IN IF sockset[slot].sid = io.sid
          THEN /\ sockset' = [sockset EXCEPT ![slot].sid = 0]
               /\ io' = [io EXCEPT !.step = "close"]
          ELSE /\ io' = [io EXCEPT !.step = "reset"]
               /\ UNCHANGED sockset
  /\ UNCHANGED <<timerVars, curr_sid, cur_conn, requests, owner, acceptor,
                 batch, accepted, rejected, faults>>

\* Is the acceptor still on its way to linking the timer of sid?
TimerUnderWay(sid) ==
  (acceptor.step \in {"put", "added"} /\ acceptor.sid = sid) \/ inserting = Entered(sid)

\* Mutant: the slot is given back, the descriptor is not.
ForgetSock ==
  /\ io.step = "close"
  /\ io' = [io EXCEPT !.step = "reset"]
  /\ UNCHANGED <<timerVars, sockset, curr_sid, cur_conn, requests, acceptor,
                 batch, accepted, rejected, faults, owner, epoll>>

\* The rest of lmvs_sockset_reset_sock: close(sock->fd), whatever it is by now.
CloseSock ==
  /\ io.step = "close"
  /\ Close({sockset[Slot(io.sid)].fd})
  /\ io' = [io EXCEPT !.step = "reset"]
  /\ UNCHANGED <<timerVars, sockset, curr_sid, cur_conn, requests, acceptor,
                 batch, accepted, rejected, faults>>

\* Mutant: a connection closed by an event keeps its timer.
ResetSockKeepsTimer ==
  /\ io.step = "reset"
  /\ LET slot == Slot(io.sid)
     IN /\ Close(FileToClose(slot))
        /\ ResetRequest(slot)
        /\ faults' = faults
             \cup (IF Strays(slot) THEN {"stray_close"} ELSE {})
             \cup (IF io.cause = "event" /\ TimerUnderWay(io.sid) THEN {"early_close"} ELSE {})
  /\ io' = [io EXCEPT !.step = "uncount", !.seen = cur_conn]
  /\ UNCHANGED <<timerVars, sockset, curr_sid, cur_conn, acceptor, batch, accepted, rejected>>

\* lmvs_request_reset, after an event lmvs_timer_remove, the load of cur_conn--.
ResetSock ==
  /\ io.step = "reset"
  /\ LET slot == Slot(io.sid)
     IN /\ Close(FileToClose(slot))
        /\ ResetRequest(slot)
        /\ faults' = faults
             \cup (IF Strays(slot) THEN {"stray_close"} ELSE {})
             \cup (IF io.cause = "event" /\ TimerUnderWay(io.sid) THEN {"early_close"} ELSE {})
  /\ IF io.cause = "event" /\ io.sid \in Sids THEN RemoveOnEvent(io.sid)
                                              ELSE UNCHANGED timerVars
  /\ io' = [io EXCEPT !.step = "uncount", !.seen = cur_conn]
  /\ UNCHANGED <<sockset, curr_sid, cur_conn, acceptor, batch, accepted, rejected>>

\* Mutant: after a timeout the key is dropped and the timer left where it is.
UncountKeepsTimer ==
  /\ io.step = "uncount"
  /\ cur_conn' = io.seen - 1
  /\ Fault("lost_update", cur_conn # io.seen)
  /\ io' = IoIdle
  /\ keys' = IF io.cause = "timeout" THEN keys \ {io.sid} ELSE keys
  /\ UNCHANGED <<structVars, inserting, checking, age, stay, sockset, curr_sid,
                 requests, epoll, owner, acceptor, batch, accepted, rejected>>

\* Mutant: only a connection closed by an event is uncounted.
UncountEventsOnly ==
  /\ io.step = "uncount"
  /\ cur_conn' = IF io.cause = "timeout" THEN io.seen ELSE io.seen - 1
  /\ Fault("lost_update", cur_conn # io.seen)
  /\ io' = IoIdle
  /\ IF io.cause = "timeout" THEN CloseExpired(io.sid)
                             ELSE UNCHANGED timerVars
  /\ UNCHANGED <<sockset, curr_sid, requests, epoll, owner, acceptor, batch,
                 accepted, rejected>>

\* The store of cur_conn-- and, after a timeout, lmvs_timer_remove.
UncountConn ==
  /\ io.step = "uncount"
  /\ cur_conn' = io.seen - 1
  /\ Fault("lost_update", cur_conn # io.seen)
  /\ io' = IoIdle
  /\ IF io.cause = "timeout" THEN CloseExpired(io.sid)
                             ELSE UNCHANGED timerVars
  /\ UNCHANGED <<sockset, curr_sid, requests, epoll, owner, acceptor, batch,
                 accepted, rejected>>

\* The parts of lmvs_el_check_timeout that only the timer takes part in.
CheckTimeout ==
  /\ io = IoIdle
  /\ batch = {}
  /\ TurnWheel \/ GetAllKeys \/ CheckDone
  /\ UNCHANGED loopVars

-----------------------------------------------------------------------------
AddConnection == AcceptConn \/ CountConn \/ PutSocket \/ AddToEpoll \/ InsertTimer

HandleEvent ==
  \E event \in batch :
    \/ EventContinues(event)
    \/ RequestArrives(event)
    \/ ResponseEnds(event)
    \/ EventFails(event)

TearDown ==
  \/ \E sid \in Sids : TimeoutFires(sid)
  \/ UnlinkSock
  \/ CloseSock
  \/ ResetSock
  \/ UncountConn

\* An event whose sid has lost bits can be torn down in vain, and uncounted, for
\* ever: the model stops counting here (bound).
CountFloor == -2

ELNext ==
  /\ ~undefined
  /\ faults \subseteq Explored
  /\ cur_conn >= CountFloor
  /\ (AddConnection \/ EpollWait \/ HandleEvent \/ TearDown \/ CheckTimeout)

ELSpec == ELInit /\ [][ELNext]_elVars

\* The acceptor finishes what it has begun; the I/O thread handles its batch and
\* finishes a teardown.  Every pass of the loop ends in lmvs_el_check_timeout and
\* epoll_wait returns at least once a second, so of infinitely many passes
\* infinitely many find a second gone by.  Nothing is assumed of the clients.
ELFairness ==
  /\ WF_elVars(CountConn \/ PutSocket \/ AddToEpoll \/ InsertTimer)
  /\ WF_elVars(HandleEvent)
  /\ WF_elVars(TearDown)
  /\ SF_elVars(CheckTimeout)

FairELSpec == ELSpec /\ ELFairness

-----------------------------------------------------------------------------
(***************************************************************************)
(* Properties.  Avoided(F) marks the promises that the code keeps unless   *)
(* a fault of F has happened first.                                        *)
(***************************************************************************)

\* Types of the variables of the loop, and of its timer.
AcceptorSteps == {"idle", "loaded", "counted", "put", "added"}
IoSteps == {"idle", "unlink", "close", "reset", "uncount"}

LoopTypeOK ==
  /\ sockset \in [Slots -> [sid : Sids \cup {0}, fd : Fds \cup {0}]]
  /\ curr_sid \in Nat
  /\ cur_conn \in Int
  /\ requests \in [Slots -> [fd : Fds \cup {0}, answering : BOOLEAN]]
  /\ epoll \in [Fds -> {NotRegistered} \cup [sid : Nat, out : BOOLEAN]]
  /\ owner \in [Fds -> {Free} \cup {Socket(c) : c \in Conns} \cup {File(s) : s \in Slots}]
  /\ acceptor \in [step : AcceptorSteps, fd : Fds \cup {0}, sid : Sids \cup {0}, seen : Int]
  /\ acceptor.step \in {"put", "added"} => acceptor.sid \in Sids
  /\ acceptor.step # "idle" => acceptor.fd \in Fds
  /\ batch \subseteq [sid : Nat, out : BOOLEAN]
  /\ io \in [step : IoSteps, sid : Nat, fd : Fds \cup {0}, cause : {"event", "timeout"}, seen : Int]
  /\ io.cause = "timeout" => io.sid \in Sids
  /\ accepted \in 0 .. MaxAccepts
  /\ rejected \in Nat
  /\ faults \subseteq Faults

ELTypeOK == TypeOK /\ LoopTypeOK

Avoided(set) == faults \cap set = {}

InUse(slot) == sockset[slot].sid # 0

\* No descriptor is lost and no slot points to another's: as long as no slot was
\* taken over, no request closed a stray descriptor and no event lost bits of its
\* sid, an open socket is in the hands of the acceptor or in exactly one slot, in
\* use or about to be closed, and a slot in use holds an open socket.
Closing(slot) == io.step = "close" /\ Slot(io.sid) = slot

SocketsOwned ==
  Avoided({"overload", "torn_reset", "stray_close", "truncated"}) =>
    /\ \A fd \in Fds : IsOpenSocket(fd) =>
         \/ acceptor.step \in {"loaded", "counted"} /\ acceptor.fd = fd
         \/ Cardinality({s \in Slots : sockset[s].fd = fd /\ (InUse(s) \/ Closing(s))}) = 1
    /\ \A s \in Slots : InUse(s) => IsOpenSocket(sockset[s].fd)

\* Nobody is deaf: under the same conditions, and if no connection was torn down
\* before it had its timer, a slot in use is registered with epoll under its
\* sid, or is about to be, or is being torn down.
Registered ==
  Avoided({"overload", "torn_reset", "stray_close", "early_close", "truncated"}) =>
    \A s \in Slots : InUse(s) =>
      \/ epoll[sockset[s].fd].sid = sockset[s].sid
      \/ acceptor.step = "put" /\ acceptor.sid = sockset[s].sid

\* Nobody is forgotten and nobody is haunted: unless a connection was torn down
\* before it had its timer, or a slot was taken over, a slot in use has a timer
\* in the wheel or is about to get it, and a timer in the wheel belongs to a slot
\* in use or to the teardown in progress.
HasTimer(sid) == \E w \in Wheels : sid \in wheels_tbl[w]

Timed ==
  Avoided({"overload", "early_close"}) =>
    /\ \A s \in Slots : InUse(s) =>
         HasTimer(sockset[s].sid) \/ TimerUnderWay(sockset[s].sid)
    /\ \A sid \in Sids : HasTimer(sid) =>
         sockset[Slot(sid)].sid = sid \/ (io.step # "idle" /\ io.sid = sid)

\* cur_conn is the number of connections admitted and not yet torn down, plus
\* every connection ever turned away, unless two threads changed it at once or
\* a connection was torn down twice, never, or under the sid of another.
Admitted == Cardinality({s \in Slots : InUse(s)})
              + (IF acceptor.step = "counted" THEN 1 ELSE 0)
              + (IF io.step \in {"close", "reset", "uncount"} THEN 1 ELSE 0)

CountExact ==
  Avoided({"overload", "early_close", "lost_update", "truncated"}) => cur_conn = Admitted + rejected

\* The loop drives its timer as Timer says the timer is driven, so what is proved
\* of the timer holds in the loop.
DrivesTimer == TimerSpec

\* Every connection that is put in a slot is eventually taken out of it, whatever
\* its client does, because its timer comes round; only the faults excuse it.
EveryConnCloses ==
  \A sid \in Sids :
    (sockset[Slot(sid)].sid = sid)
      ~> (sockset[Slot(sid)].sid # sid \/ faults # {})

(***************************************************************************)
(* What the comments and messages of the code say, and the code does not.  *)
(***************************************************************************)

\* lmvs-el.c:46 says of a connection turned away "Too much connections": when
\* cur_conn is found too high, and no teardown is in progress, there are more
\* sockets open than the loop may have.
OpenSockets == {fd \in Fds : IsOpenSocket(fd)}

RejectedWhenFull ==
  acceptor.step = "loaded" /\ TooMany(acceptor.seen) /\ acceptor.seen = cur_conn /\ io = IoIdle
    => Cardinality(OpenSockets) > MaxConn

\* lmvs-el.c:84 says of a receive that fails "We clear a socket here": so does
\* this teardown.
FailureClears ==
  [][io.step = "unlink" /\ io'.step # "unlink" /\ io.cause = "event"
       => io'.step = "close"]_elVars
=============================================================================
