-------------------------------- MODULE Timer --------------------------------
(***************************************************************************)
(* The keep-alive timer wheel of one event loop (lmvs-timer.c) as its two  *)
(* callers drive it.  The acceptor thread calls lmvs_timer_insert; the I/O *)
(* thread calls lmvs_timer_remove, lmvs_timer_update and                   *)
(* lmvs_timer_book_keeping, and empties the wheel that has come round      *)
(* (lmvs_el_check_timeout).  Nothing but the atomicity of one operation of *)
(* lmvs_lfhash_t protects the two tables, so an insertion is three steps.  *)
(***************************************************************************)
EXTENDS Integers

CONSTANTS
  Sids,        \* the socket ids that are ever inserted
  Interval,    \* timer->interval: keep_alive of the configuration, in seconds
  CountCap,    \* where the model stops counting lmvs_lfhash_t.count
  CallsUpdate  \* does any caller call lmvs_timer_update?  None in src/ does

ASSUME SidsAssumption == Sids \subseteq Nat
ASSUME IntervalAssumption == Interval \in Nat
ASSUME CountCapAssumption == CountCap \in Nat \ {0}
ASSUME CallsUpdateAssumption == CallsUpdate \in BOOLEAN

VARIABLES
  prev_wheel,      \* timer->prev_wheel
  curr_wheel,      \* timer->curr_wheel
  which_wheel_tbl, \* sid -> the int its heap cell holds, or NoWheel: no entry
  freed_cells,     \* sids whose entry still points to a cell already freed
  wheels_tbl,      \* wheel -> the sids with a node in it
  count,           \* wheel -> lmvs_lfhash_t.count of its table, up to CountCap
  inserting,       \* where the acceptor is inside lmvs_timer_insert
  checking,        \* where the I/O thread is inside lmvs_el_check_timeout
  keys,            \* the list lmvs_lfhash_get_all_keys returned, as a set
  undefined,       \* a freed cell has been read: behaviour undefined from here
  age,             \* history: ticks since the deadline was last set
  stay             \* history: ticks since the node was counted in its wheel

structVars == <<prev_wheel, curr_wheel, which_wheel_tbl, freed_cells,
                wheels_tbl, count, undefined>>
timerVars == <<structVars, inserting, checking, keys, age, stay>>

Wheels == 0 .. Interval
NoWheel == -1
StayCap == Interval + 2   \* stay is counted up to one tick past its bound

\* The acceptor is outside, has made the entry of which_wheel_tbl, or has put
\* the node in the wheel and has yet to count it.
Idle == [step |-> "idle"]
Entered(sid) == [step |-> "entered", sid |-> sid]
Linked(sid, w) == [step |-> "linked", sid |-> sid, wheel |-> w]
InsertingStates ==
  {Idle} \cup {Entered(s) : s \in Sids}
         \cup {Linked(s, w) : s \in Sids, w \in Wheels}

\* The I/O thread is handling events, has been told of an expired wheel, or is
\* closing the keys it took from that wheel.
CheckingStates == {"events", "expired", "closing"}

TimerInit ==
  /\ prev_wheel = Interval
  /\ curr_wheel = 0
  /\ which_wheel_tbl = [s \in Sids |-> NoWheel]
  /\ freed_cells = {}
  /\ wheels_tbl = [w \in Wheels |-> {}]
  /\ count = [w \in Wheels |-> 0]
  /\ inserting = Idle
  /\ checking = "events"
  /\ keys = {}
  /\ undefined = FALSE
  /\ age = [s \in Sids |-> 0]
  /\ stay = [s \in Sids |-> 0]

-----------------------------------------------------------------------------
(***************************************************************************)
(* Helpers.  DEC_ONE_ATOMIC expands to the same fetch-and-add as           *)
(* INC_ONE_ATOMIC, so count never goes down; the code only compares it     *)
(* with zero, which is why it may be counted up to CountCap.               *)
(***************************************************************************)
\* Mutant: nothing is counted.
CountNothing(c) == c

INC_ONE_ATOMIC(c) == IF c < CountCap THEN c + 1 ELSE c
\* Mutant: the decrement that the name of the macro promises.
TrueDecrement(c) == c - 1

DEC_ONE_ATOMIC(c) == INC_ONE_ATOMIC(c)

NextWheel(w) == IF w + 1 > Interval THEN 0 ELSE w + 1

\* Mutant: the wheel that comes round next.
NearestWheel == NextWheel(curr_wheel)

\* The wheel that will come round last: a new deadline goes there.
FarthestWheel == prev_wheel

\* Mutant: the node is looked for in the current wheel.
UnlinkFromCurrent(w, sid) ==
  /\ wheels_tbl' = [wheels_tbl EXCEPT ![curr_wheel] = @ \ {sid}]
  /\ count' = [count EXCEPT ![w] = DEC_ONE_ATOMIC(@)]

\* lmvs_lfhash_delete of a sid that is in wheel w.
Unlink(w, sid) ==
  /\ wheels_tbl' = [wheels_tbl EXCEPT ![w] = @ \ {sid}]
  /\ count' = [count EXCEPT ![w] = DEC_ONE_ATOMIC(@)]

HasEntry(sid) == which_wheel_tbl[sid] # NoWheel

\* Dereferencing a cell that lmvs_timer_remove has freed.
ReadFreedCell ==
  /\ undefined' = TRUE
  /\ UNCHANGED <<prev_wheel, curr_wheel, which_wheel_tbl, freed_cells,
                 wheels_tbl, count, age, stay>>

-----------------------------------------------------------------------------
(***************************************************************************)
(* lmvs_timer_insert, by the acceptor thread.                              *)
(***************************************************************************)

\* Read prev_wheel into a new cell and enter it; a sid already there fails.
\* Nobody sees the cell before the entry, so a tick between the two is the same
\* as a tick after them.
InsertEnter(sid) ==
  /\ ~undefined
  /\ inserting = Idle
  /\ ~HasEntry(sid)
  /\ which_wheel_tbl' = [which_wheel_tbl EXCEPT ![sid] = FarthestWheel]
  /\ inserting' = [step |-> "entered", sid |-> sid]
  /\ age' = [age EXCEPT ![sid] = 0]
  /\ UNCHANGED <<prev_wheel, curr_wheel, freed_cells, wheels_tbl, count,
                 checking, keys, undefined, stay>>

\* Put the node in the wheel that the cell names.  Its key cannot be there
\* already (Tracked), so the second failure path of the code is never taken.
InsertLink ==
  /\ ~undefined
  /\ inserting.step = "entered"
  /\ LET sid == inserting.sid
         w == which_wheel_tbl[sid]
     IN IF sid \in freed_cells
          THEN /\ ReadFreedCell
               /\ UNCHANGED inserting
          ELSE /\ wheels_tbl' = [wheels_tbl EXCEPT ![w] = @ \cup {sid}]
               /\ inserting' = Linked(sid, w)
               /\ UNCHANGED <<prev_wheel, curr_wheel, which_wheel_tbl,
                              freed_cells, count, undefined, age, stay>>
  /\ UNCHANGED <<checking, keys>>

\* Count the node: the hash table is still the one it was linked into, even if
\* the I/O thread has moved or removed the node since.
InsertCount ==
  /\ ~undefined
  /\ inserting.step = "linked"
  /\ count' = [count EXCEPT ![inserting.wheel] = INC_ONE_ATOMIC(@)]
  /\ inserting' = Idle
  /\ stay' = [stay EXCEPT ![inserting.sid] = 0]
  /\ UNCHANGED <<prev_wheel, curr_wheel, which_wheel_tbl, freed_cells,
                 wheels_tbl, checking, keys, undefined, age>>

-----------------------------------------------------------------------------
(***************************************************************************)
(* lmvs_timer_remove and lmvs_timer_update, by the I/O thread.             *)
(***************************************************************************)

\* The cell is freed before the node is looked up: a sid whose node is not in
\* its wheel yet keeps an entry that points to freed memory.
RemoveTimer(sid) ==
  \/ /\ ~HasEntry(sid)
     /\ UNCHANGED <<structVars, age, stay>>
  \/ /\ HasEntry(sid)
     /\ sid \in freed_cells
     /\ ReadFreedCell
  \/ /\ HasEntry(sid)
     /\ sid \notin freed_cells
     /\ IF sid \in wheels_tbl[which_wheel_tbl[sid]]
          THEN /\ Unlink(which_wheel_tbl[sid], sid)
               /\ which_wheel_tbl' = [which_wheel_tbl EXCEPT ![sid] = NoWheel]
               /\ UNCHANGED freed_cells
          ELSE /\ freed_cells' = freed_cells \cup {sid}
               /\ UNCHANGED <<which_wheel_tbl, wheels_tbl, count>>
     /\ UNCHANGED <<prev_wheel, curr_wheel, undefined, age, stay>>

\* A connection is closed by an event: its timer is removed.
RemoveOnEvent(sid) ==
  /\ ~undefined
  /\ checking = "events"
  /\ RemoveTimer(sid)
  /\ UNCHANGED <<inserting, checking, keys>>

\* Move the node to the wheel that has just been emptied.
UpdateTimer(sid) ==
  /\ CallsUpdate
  /\ ~undefined
  /\ checking = "events"
  /\ HasEntry(sid)
  /\ IF sid \in freed_cells
       THEN ReadFreedCell
       ELSE /\ which_wheel_tbl[sid] # prev_wheel
            /\ sid \in wheels_tbl[which_wheel_tbl[sid]]
            /\ LET w == which_wheel_tbl[sid]
                   emptied == [wheels_tbl EXCEPT ![w] = @ \ {sid}]
                   deleted == [count EXCEPT ![w] = DEC_ONE_ATOMIC(@)]
               IN /\ wheels_tbl' = [emptied EXCEPT ![curr_wheel] = @ \cup {sid}]
                  /\ count' = [deleted EXCEPT ![curr_wheel] = INC_ONE_ATOMIC(@)]
            /\ which_wheel_tbl' = [which_wheel_tbl EXCEPT ![sid] = curr_wheel]
            /\ age' = [age EXCEPT ![sid] = 0]
            /\ stay' = [stay EXCEPT ![sid] = 0]
            /\ UNCHANGED <<prev_wheel, curr_wheel, freed_cells, undefined>>
  /\ UNCHANGED <<inserting, checking, keys>>

-----------------------------------------------------------------------------
(***************************************************************************)
(* lmvs_timer_book_keeping, once per pass of the event loop, and the rest  *)
(* of lmvs_el_check_timeout when it answers with a wheel.                  *)
(***************************************************************************)

OneMore(history, cap) ==
  [s \in Sids |-> IF history[s] < cap THEN history[s] + 1 ELSE history[s]]

\* A second has passed since the last turn (otherwise the call changes
\* nothing): turn the wheel and say whether anything is to be closed.
TurnWheel ==
  /\ ~undefined
  /\ checking = "events"
  /\ prev_wheel' = curr_wheel
  /\ curr_wheel' = NextWheel(curr_wheel)
  /\ checking' = IF count[curr_wheel'] <= 0 THEN "events" ELSE "expired"
  /\ age' = OneMore(age, Interval)
  /\ stay' = OneMore(stay, StayCap)
  /\ UNCHANGED <<which_wheel_tbl, freed_cells, wheels_tbl, count, inserting,
                 keys, undefined>>

\* lmvs_lfhash_get_all_keys(wheels_tbl[expired_wheel])
GetAllKeys ==
  /\ ~undefined
  /\ checking = "expired"
  /\ keys' = wheels_tbl[curr_wheel]
  /\ checking' = "closing"
  /\ UNCHANGED <<structVars, inserting, age, stay>>

\* The loop over the list, which lmvs_lflist_insert has put in key order.
CloseExpired(sid) ==
  /\ ~undefined
  /\ checking = "closing"
  /\ sid \in keys
  /\ \A other \in keys : sid <= other
  /\ RemoveTimer(sid)
  /\ keys' = keys \ {sid}
  /\ UNCHANGED <<inserting, checking>>

CheckDone ==
  /\ ~undefined
  /\ checking = "closing"
  /\ keys = {}
  /\ checking' = "events"
  /\ UNCHANGED <<structVars, inserting, keys, age, stay>>

AcceptorStep == (\E sid \in Sids : InsertEnter(sid)) \/ InsertLink \/ InsertCount

LoopStep ==
  \/ \E sid \in Sids : RemoveOnEvent(sid) \/ UpdateTimer(sid) \/ CloseExpired(sid)
  \/ TurnWheel
  \/ GetAllKeys
  \/ CheckDone

TimerNext == AcceptorStep \/ LoopStep

TimerSpec == TimerInit /\ [][TimerNext]_timerVars

\* Both threads keep running: the acceptor finishes a call it has begun, and
\* epoll_wait returns at least once a second, so the wheel keeps turning.
TimerFairness ==
  /\ WF_timerVars(InsertLink \/ InsertCount)
  /\ WF_timerVars(TurnWheel \/ GetAllKeys \/ CheckDone)
  /\ \A sid \in Sids : WF_timerVars(CloseExpired(sid))

FairTimerSpec == TimerSpec /\ TimerFairness

-----------------------------------------------------------------------------
(***************************************************************************)
(* Properties.                                                             *)
(***************************************************************************)

\* Types of all variables.
TypeOK ==
  /\ prev_wheel \in Wheels
  /\ curr_wheel \in Wheels
  /\ which_wheel_tbl \in [Sids -> Wheels \cup {NoWheel}]
  /\ freed_cells \in SUBSET Sids
  /\ wheels_tbl \in [Wheels -> SUBSET Sids]
  /\ count \in [Wheels -> 0 .. CountCap]
  /\ inserting \in InsertingStates
  /\ checking \in CheckingStates
  /\ keys \in SUBSET Sids
  /\ undefined \in BOOLEAN
  /\ age \in [Sids -> 0 .. Interval]
  /\ stay \in [Sids -> 0 .. StayCap]

\* The two tables agree although no lock covers both: a node in a wheel has an
\* entry that names that wheel through a cell still allocated, and an entry
\* without a node is one being inserted or one whose cell was freed too early.
Tracked ==
  /\ \A w \in Wheels : \A sid \in wheels_tbl[w] :
       which_wheel_tbl[sid] = w /\ sid \notin freed_cells
  /\ \A sid \in Sids :
       HasEntry(sid) => \/ sid \in wheels_tbl[which_wheel_tbl[sid]]
                        \/ inserting = Entered(sid)
                        \/ sid \in freed_cells

\* Ticks until wheel w comes round next.
TicksTo(w) ==
  IF w > curr_wheel THEN w - curr_wheel ELSE w + Interval + 1 - curr_wheel

\* A connection is never timed out early: every key the loop is about to close
\* had its deadline set at least Interval ticks of the wheel ago, whatever
\* wheel the acceptor read and however long it was held up before linking.
NeverEarly == \A sid \in keys : age[sid] >= Interval

\* A connection is never forgotten: from the moment its node is counted, the
\* wheel it is in comes round, and is reported, within Interval + 1 ticks.
\* (A node not counted yet can be passed over: see BeingInserted.)
BeingInserted(sid) == inserting # Idle /\ inserting.sid = sid

NeverLate ==
  \A w \in Wheels : \A sid \in wheels_tbl[w] :
    (checking = "events" \/ w # curr_wheel) /\ ~BeingInserted(sid)
      => stay[sid] + TicksTo(w) <= Interval + 1
=============================================================================
