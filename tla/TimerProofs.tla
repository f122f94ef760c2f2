----------------------------- MODULE TimerProofs -----------------------------
(***************************************************************************)
(* The safety properties of Timer, for every set of socket ids, every      *)
(* keep_alive interval and every interleaving of the two threads.          *)
(***************************************************************************)
EXTENDS Timer, TLAPS

(***************************************************************************)
(* The strengthening.  Each conjunct says what the code keeps true between *)
(* any two of its steps and the properties alone do not say.               *)
(***************************************************************************)

\* prev_wheel is the wheel before curr_wheel.
PrevBeforeCurr ==
  \/ curr_wheel = 0 /\ prev_wheel = Interval
  \/ curr_wheel > 0 /\ prev_wheel = curr_wheel - 1

\* A sid that has its entry but no node yet is in no wheel.
EnteredIsUnlinked ==
  \A sid \in Sids : inserting = Entered(sid) =>
    HasEntry(sid) /\ \A w \in Wheels : sid \notin wheels_tbl[w]

\* The ticks an entry has lived and those left until its wheel comes round
\* make up the interval; once its wheel has come round it has lived them all.
Deadlines ==
  \A sid \in Sids : HasEntry(sid) =>
    /\ age[sid] + TicksTo(which_wheel_tbl[sid]) >= Interval
    /\ checking # "events" /\ which_wheel_tbl[sid] = curr_wheel
         => age[sid] >= Interval

\* The keys still to be closed are in the wheel that has come round.
KeysInWheel ==
  /\ keys \subseteq wheels_tbl[curr_wheel]
  /\ checking # "closing" => keys = {}

\* A node in a wheel has been counted there, unless that is about to happen.
Counted ==
  \A w \in Wheels : \A sid \in wheels_tbl[w] :
    count[w] > 0 \/ inserting = Linked(sid, w)

\* What is left in the wheel being emptied was put there since it was listed.
LeftIsNew ==
  checking = "closing" =>
    \A sid \in wheels_tbl[curr_wheel] :
      sid \in keys \/ BeingInserted(sid) \/ stay[sid] = 0

EarlyInv == TypeOK /\ Tracked /\ PrevBeforeCurr /\ EnteredIsUnlinked
              /\ Deadlines /\ KeysInWheel
LateInv == Counted /\ LeftIsNew /\ NeverLate

-----------------------------------------------------------------------------
\* The wheel comes round at least once in Interval + 1 ticks.
LEMMA TicksToBounds ==
  ASSUME TypeOK, NEW w \in Wheels
  PROVE  TicksTo(w) \in 1 .. Interval + 1
BY IntervalAssumption DEF TypeOK, Wheels, TicksTo

\* A turn brings every wheel one tick nearer but the one that comes round.
LEMMA TicksToTurn ==
  ASSUME TypeOK, TurnWheel, NEW w \in Wheels
  PROVE  IF w = curr_wheel'
           THEN TicksTo(w) = 1 /\ TicksTo(w)' = Interval + 1
           ELSE TicksTo(w)' = TicksTo(w) - 1
<1>1. curr_wheel \in 0 .. Interval /\ curr_wheel' = NextWheel(curr_wheel)
  BY DEF TypeOK, TurnWheel, Wheels
<1> QED BY <1>1, IntervalAssumption DEF NextWheel, Wheels, TicksTo

\* A history one tick later: one more, up to its cap.
LEMMA OneMoreType ==
  ASSUME NEW cap \in Nat, NEW history \in [Sids -> 0 .. cap]
  PROVE  /\ OneMore(history, cap) \in [Sids -> 0 .. cap]
         /\ \A s \in Sids : /\ OneMore(history, cap)[s] >= history[s]
                            /\ OneMore(history, cap)[s] <= history[s] + 1
                            /\ \/ OneMore(history, cap)[s] = history[s] + 1
                               \/ OneMore(history, cap)[s] = cap
BY DEF OneMore

\* The three states the acceptor can be in are told apart by their step.
LEMMA InsertingTypes ==
  ASSUME inserting \in InsertingStates
  PROVE  /\ inserting.step \in {"idle", "entered", "linked"}
         /\ inserting.step = "idle" => inserting = Idle
         /\ inserting.step = "entered" =>
              inserting.sid \in Sids /\ inserting = Entered(inserting.sid)
         /\ inserting.step = "linked" =>
              /\ inserting.sid \in Sids
              /\ inserting.wheel \in Wheels
              /\ inserting = Linked(inserting.sid, inserting.wheel)
BY DEF InsertingStates, Idle, Entered, Linked

LEMMA CountTypes ==
  ASSUME NEW c \in 0 .. CountCap
  PROVE  /\ INC_ONE_ATOMIC(c) \in 1 .. CountCap
         /\ DEC_ONE_ATOMIC(c) \in 1 .. CountCap
BY CountCapAssumption DEF INC_ONE_ATOMIC, DEC_ONE_ATOMIC

-----------------------------------------------------------------------------
(***************************************************************************)
(* EarlyInv is inductive: one lemma for lmvs_timer_remove, which two of    *)
(* the actions make a call to, then one step per action.                   *)
(***************************************************************************)

LEMMA EarlyInit ==
  ASSUME TimerInit
  PROVE  EarlyInv
<1> USE DEF TimerInit
<1>1. TypeOK
  <2>1. prev_wheel \in Wheels /\ curr_wheel \in Wheels
    BY IntervalAssumption DEF Wheels
  <2>2. which_wheel_tbl \in [Sids -> Wheels \cup {NoWheel}]
    OBVIOUS
  <2>3. count \in [Wheels -> 0 .. CountCap]
    BY CountCapAssumption
  <2>4. age \in [Sids -> 0 .. Interval] /\ stay \in [Sids -> 0 .. StayCap]
    BY IntervalAssumption DEF StayCap
  <2>5. wheels_tbl \in [Wheels -> SUBSET Sids]
    OBVIOUS
  <2>6. inserting \in InsertingStates /\ checking \in CheckingStates
    BY DEF InsertingStates, CheckingStates
  <2> QED BY <2>1, <2>2, <2>3, <2>4, <2>5, <2>6 DEF TypeOK
<1>2. \A sid \in Sids : ~HasEntry(sid)
  BY DEF HasEntry
<1>3. Tracked /\ PrevBeforeCurr /\ Deadlines /\ KeysInWheel
  BY <1>2 DEF Tracked, PrevBeforeCurr, Deadlines, KeysInWheel, Wheels
<1>4. EnteredIsUnlinked
  BY DEF EnteredIsUnlinked, Idle, Entered
<1> QED BY <1>1, <1>3, <1>4 DEF EarlyInv

LEMMA EarlyRemove ==
  ASSUME EarlyInv, NEW sid \in Sids, RemoveTimer(sid),
         UNCHANGED <<inserting, checking>>, keys' = keys \ {sid}
  PROVE  EarlyInv'
<1> USE DEF EarlyInv
<1>1. CASE UNCHANGED structVars /\ UNCHANGED <<age, stay>>
  BY <1>1 DEF structVars, TypeOK, Tracked, PrevBeforeCurr, EnteredIsUnlinked,
       Deadlines, KeysInWheel, HasEntry, TicksTo
<1>2. CASE ReadFreedCell
  BY <1>2 DEF ReadFreedCell, TypeOK, Tracked, PrevBeforeCurr,
       EnteredIsUnlinked, Deadlines, KeysInWheel, HasEntry, TicksTo
<1>3. CASE /\ HasEntry(sid)
           /\ sid \in wheels_tbl[which_wheel_tbl[sid]]
           /\ Unlink(which_wheel_tbl[sid], sid)
           /\ which_wheel_tbl' = [which_wheel_tbl EXCEPT ![sid] = NoWheel]
           /\ UNCHANGED <<freed_cells, prev_wheel, curr_wheel, undefined, age, stay>>
  <2> USE <1>3 DEF Unlink
  <2>1. which_wheel_tbl[sid] \in Wheels
    BY DEF TypeOK, HasEntry
  <2>2. TypeOK'
    BY <2>1, CountTypes DEF TypeOK
  <2>3. Tracked'
    BY <2>1, IntervalAssumption DEF TypeOK, Tracked, HasEntry, Wheels, NoWheel
  <2>4. PrevBeforeCurr' /\ EnteredIsUnlinked'
    BY <2>1 DEF TypeOK, PrevBeforeCurr, EnteredIsUnlinked, HasEntry
  <2>5. Deadlines'
    BY DEF TypeOK, Deadlines, HasEntry, TicksTo
  <2>6. KeysInWheel'
    BY <2>1 DEF TypeOK, KeysInWheel
  <2> QED BY <2>2, <2>3, <2>4, <2>5, <2>6
<1>4. CASE /\ HasEntry(sid)
           /\ sid \notin wheels_tbl[which_wheel_tbl[sid]]
           /\ freed_cells' = freed_cells \cup {sid}
           /\ UNCHANGED <<which_wheel_tbl, wheels_tbl, count>>
           /\ UNCHANGED <<prev_wheel, curr_wheel, undefined, age, stay>>
  BY <1>4 DEF TypeOK, Tracked, PrevBeforeCurr, EnteredIsUnlinked, Deadlines,
       KeysInWheel, HasEntry, TicksTo
<1> QED BY <1>1, <1>2, <1>3, <1>4 DEF RemoveTimer

LEMMA EarlyInsertEnter ==
  ASSUME EarlyInv, NEW sid \in Sids, InsertEnter(sid)
  PROVE  EarlyInv'
<1> USE DEF EarlyInv, InsertEnter
<1>1. inserting' = Entered(sid) /\ FarthestWheel \in Wheels
  BY DEF Entered, FarthestWheel, TypeOK
<1>2. TypeOK'
  BY <1>1, IntervalAssumption DEF TypeOK, InsertingStates
<1>3. \A w \in Wheels : sid \notin wheels_tbl[w]
  BY IntervalAssumption DEF TypeOK, Tracked, HasEntry, Wheels, NoWheel
<1>4. Tracked'
  BY <1>1, <1>3 DEF TypeOK, Tracked, HasEntry, Idle, Entered
<1>5. PrevBeforeCurr' /\ EnteredIsUnlinked'
  BY <1>1, <1>3, IntervalAssumption
  DEF TypeOK, PrevBeforeCurr, EnteredIsUnlinked, HasEntry, Entered, Wheels, NoWheel
<1>6. sid \notin keys
  BY <1>3 DEF TypeOK, KeysInWheel
<1>7. Deadlines'
  BY IntervalAssumption
  DEF TypeOK, PrevBeforeCurr, Deadlines, HasEntry, TicksTo, FarthestWheel, Wheels
<1>8. KeysInWheel'
  BY DEF KeysInWheel
<1> QED BY <1>2, <1>4, <1>5, <1>7, <1>8

LEMMA EarlyInsertLink ==
  ASSUME EarlyInv, InsertLink
  PROVE  EarlyInv'
<1> DEFINE sid == inserting.sid
           w == which_wheel_tbl[sid]
<1> USE DEF EarlyInv, InsertLink
<1>1. sid \in Sids /\ inserting = Entered(sid)
  BY InsertingTypes DEF TypeOK
<1>2. w \in Wheels /\ \A v \in Wheels : sid \notin wheels_tbl[v]
  BY <1>1 DEF TypeOK, EnteredIsUnlinked, HasEntry
<1>3. CASE ReadFreedCell /\ UNCHANGED <<inserting, checking, keys>>
  BY <1>3 DEF ReadFreedCell, TypeOK, Tracked, PrevBeforeCurr,
       EnteredIsUnlinked, Deadlines, KeysInWheel, HasEntry, TicksTo
<1>4. CASE sid \notin freed_cells
  <2>1. TypeOK'
    BY <1>1, <1>2, <1>4 DEF TypeOK, InsertingStates, Linked
  <2>2. Tracked'
    BY <1>1, <1>2, <1>4 DEF TypeOK, Tracked, HasEntry, Entered, Linked
  <2>3. PrevBeforeCurr' /\ EnteredIsUnlinked'
    BY <1>1, <1>2, <1>4
    DEF TypeOK, PrevBeforeCurr, EnteredIsUnlinked, HasEntry, Entered, Linked
  <2>4. Deadlines'
    BY <1>4 DEF TypeOK, Deadlines, HasEntry, TicksTo
  <2>5. KeysInWheel'
    BY <1>2, <1>4 DEF TypeOK, KeysInWheel
  <2> QED BY <2>1, <2>2, <2>3, <2>4, <2>5
<1> QED BY <1>3, <1>4

LEMMA EarlyInsertCount ==
  ASSUME EarlyInv, InsertCount
  PROVE  EarlyInv'
<1> USE DEF EarlyInv, InsertCount
<1>1. inserting.sid \in Sids /\ inserting.wheel \in Wheels
  BY InsertingTypes DEF TypeOK
<1>2. TypeOK'
  BY <1>1, CountTypes, IntervalAssumption DEF TypeOK, InsertingStates, StayCap
<1>3. Tracked'
  BY InsertingTypes DEF TypeOK, Tracked, HasEntry, Entered, Linked
<1>4. PrevBeforeCurr' /\ EnteredIsUnlinked'
  BY DEF PrevBeforeCurr, EnteredIsUnlinked, Idle, Entered
<1>5. Deadlines' /\ KeysInWheel'
  BY DEF Deadlines, KeysInWheel, HasEntry, TicksTo
<1> QED BY <1>2, <1>3, <1>4, <1>5

LEMMA EarlyUpdate ==
  ASSUME EarlyInv, NEW sid \in Sids, UpdateTimer(sid)
  PROVE  EarlyInv'
<1> DEFINE w == which_wheel_tbl[sid]
<1> USE DEF EarlyInv, UpdateTimer
<1>1. CASE sid \in freed_cells
  BY <1>1 DEF ReadFreedCell, TypeOK, Tracked, PrevBeforeCurr,
       EnteredIsUnlinked, Deadlines, KeysInWheel, HasEntry, TicksTo
<1>2. CASE sid \notin freed_cells
  <2> USE <1>2
  <2>1. w \in Wheels /\ curr_wheel \in Wheels
    BY DEF TypeOK, HasEntry
  <2>2. TypeOK'
    <3>1. count' \in [Wheels -> 0 .. CountCap]
      BY <2>1, CountTypes DEF TypeOK
    <3>2. stay' \in [Sids -> 0 .. StayCap] /\ age' \in [Sids -> 0 .. Interval]
      BY IntervalAssumption DEF TypeOK, StayCap
    <3> QED BY <2>1, <3>1, <3>2 DEF TypeOK
  <2>3. Tracked'
    <3>1. \A v \in Wheels : wheels_tbl'[v] =
            IF v = curr_wheel THEN (wheels_tbl[v] \ {sid}) \cup {sid}
                              ELSE wheels_tbl[v] \ {sid}
      BY <2>1 DEF TypeOK, Tracked
    <3>2. \A s \in Sids : which_wheel_tbl'[s] =
            IF s = sid THEN curr_wheel ELSE which_wheel_tbl[s]
      BY DEF TypeOK
    <3>3. \A v \in Wheels : wheels_tbl[v] \subseteq Sids
      BY DEF TypeOK
    <3>4. \A v \in Wheels : \A s \in wheels_tbl'[v] :
            which_wheel_tbl'[s] = v /\ s \notin freed_cells'
      <4>1. Tracked /\ freed_cells' = freed_cells
        OBVIOUS
      <4> HIDE DEF EarlyInv, UpdateTimer
      <4> SUFFICES ASSUME NEW v \in Wheels, NEW s \in wheels_tbl'[v]
                   PROVE  which_wheel_tbl'[s] = v /\ s \notin freed_cells'
        OBVIOUS
      <4>2. (s = sid /\ v = curr_wheel) \/ (s # sid /\ s \in wheels_tbl[v])
        BY <3>1
      <4>3. s \in Sids
        BY <3>3, <4>2
      <4> QED BY <1>2, <3>2, <4>1, <4>2, <4>3 DEF Tracked
    <3>5. ASSUME NEW s \in Sids, which_wheel_tbl'[s] # NoWheel
          PROVE  \/ s \in wheels_tbl'[which_wheel_tbl'[s]]
                 \/ inserting' = Entered(s)
                 \/ s \in freed_cells'
      <4>1. CASE s = sid
        BY <2>1, <3>1, <3>2, <4>1
      <4>2. CASE s # sid
        <5>1. HasEntry(s) /\ which_wheel_tbl'[s] = which_wheel_tbl[s]
          BY <3>2, <3>5, <4>2 DEF HasEntry
        <5>2. which_wheel_tbl[s] \in Wheels
          BY <5>1 DEF TypeOK, HasEntry
        <5>3. Tracked /\ UNCHANGED <<freed_cells, inserting>>
          OBVIOUS
        <5> HIDE DEF EarlyInv, UpdateTimer
        <5> QED BY <3>1, <4>2, <5>1, <5>2, <5>3 DEF Tracked
      <4> QED BY <4>1, <4>2
    <3> QED BY <3>4, <3>5 DEF Tracked, HasEntry
  <2>4. PrevBeforeCurr' /\ EnteredIsUnlinked'
    BY <2>1 DEF TypeOK, PrevBeforeCurr, EnteredIsUnlinked, HasEntry
  <2>5. Deadlines'
    <3> SUFFICES ASSUME NEW s \in Sids, HasEntry(s)'
                 PROVE  age'[s] + TicksTo(which_wheel_tbl'[s]) >= Interval
      BY DEF Deadlines, TicksTo, HasEntry
    <3>1. CASE s = sid
      <4>1. which_wheel_tbl'[s] = curr_wheel /\ age'[s] = 0 /\ curr_wheel \in Nat
        BY <2>1, <3>1 DEF TypeOK, Wheels
      <4> QED BY <4>1, IntervalAssumption DEF TicksTo
    <3>2. CASE s # sid
      BY <3>2 DEF TypeOK, Deadlines, HasEntry
    <3> QED BY <3>1, <3>2
  <2>6. KeysInWheel'
    BY DEF KeysInWheel
  <2> QED BY <2>2, <2>3, <2>4, <2>5, <2>6
<1> QED BY <1>1, <1>2

LEMMA EarlyTurn ==
  ASSUME EarlyInv, TurnWheel
  PROVE  EarlyInv'
<1> USE DEF EarlyInv, TurnWheel
<1>1. /\ age' \in [Sids -> 0 .. Interval]
      /\ stay' \in [Sids -> 0 .. StayCap]
      /\ \A s \in Sids : age'[s] = age[s] + 1 \/ age'[s] = Interval
  BY OneMoreType, IntervalAssumption DEF TypeOK, StayCap
<1>2. TypeOK'
  BY <1>1, IntervalAssumption DEF TypeOK, CheckingStates, NextWheel, Wheels
<1>3. Tracked' /\ EnteredIsUnlinked'
  BY DEF Tracked, EnteredIsUnlinked, HasEntry
<1>4. PrevBeforeCurr'
  BY IntervalAssumption DEF TypeOK, PrevBeforeCurr, NextWheel, Wheels
<1>5. Deadlines'
  <2> SUFFICES ASSUME NEW sid \in Sids, HasEntry(sid)
               PROVE  /\ age'[sid] + TicksTo(which_wheel_tbl[sid])' >= Interval
                      /\ which_wheel_tbl[sid] = curr_wheel' => age'[sid] >= Interval
    BY DEF Deadlines, HasEntry
  <2>1. which_wheel_tbl[sid] \in Wheels
    BY DEF TypeOK, HasEntry
  <2>2. age[sid] + TicksTo(which_wheel_tbl[sid]) >= Interval
    BY DEF Deadlines
  <2>3. CASE which_wheel_tbl[sid] = curr_wheel'
    <3>1. TicksTo(which_wheel_tbl[sid]) = 1
      BY <2>1, <2>3, TicksToTurn
    <3>2. TicksTo(which_wheel_tbl[sid])' = Interval + 1
      BY <2>1, <2>3, TicksToTurn
    <3> QED BY <1>1, <2>2, <3>1, <3>2, IntervalAssumption DEF TypeOK
  <2>4. CASE which_wheel_tbl[sid] # curr_wheel'
    <3>1. TicksTo(which_wheel_tbl[sid])' = TicksTo(which_wheel_tbl[sid]) - 1
      BY <2>1, <2>4, TicksToTurn
    <3>2. TicksTo(which_wheel_tbl[sid]) \in 1 .. Interval + 1
      BY <2>1, TicksToBounds
    <3> QED BY <1>1, <2>2, <2>4, <3>1, <3>2, IntervalAssumption DEF TypeOK
  <2> QED BY <2>3, <2>4
<1>6. KeysInWheel'
  BY DEF KeysInWheel
<1> QED BY <1>2, <1>3, <1>4, <1>5, <1>6

LEMMA EarlyStep ==
  ASSUME EarlyInv, [TimerNext]_timerVars
  PROVE  EarlyInv'
<1>1. CASE UNCHANGED timerVars
  BY <1>1 DEF timerVars, structVars, EarlyInv, TypeOK, Tracked, PrevBeforeCurr,
       EnteredIsUnlinked, Deadlines, KeysInWheel, HasEntry, TicksTo
<1>2. CASE AcceptorStep
  BY <1>2, EarlyInsertEnter, EarlyInsertLink, EarlyInsertCount DEF AcceptorStep
<1>3. ASSUME NEW sid \in Sids, RemoveOnEvent(sid) \/ CloseExpired(sid)
      PROVE  EarlyInv'
  <2>1. keys' = keys \ {sid} /\ UNCHANGED <<inserting, checking>> /\ RemoveTimer(sid)
    BY <1>3 DEF RemoveOnEvent, CloseExpired, EarlyInv, KeysInWheel
  <2> QED BY <2>1, EarlyRemove
<1>4. ASSUME NEW sid \in Sids, UpdateTimer(sid)
      PROVE  EarlyInv'
  BY <1>4, EarlyUpdate
<1>5. CASE TurnWheel
  BY <1>5, EarlyTurn
<1>6. CASE GetAllKeys \/ CheckDone
  <2>1. wheels_tbl[curr_wheel] \in SUBSET Sids /\ UNCHANGED <<structVars, inserting, age, stay>>
    BY <1>6 DEF EarlyInv, TypeOK, GetAllKeys, CheckDone
  <2>2. TypeOK' /\ KeysInWheel'
    BY <1>6, <2>1 DEF structVars, EarlyInv, TypeOK, KeysInWheel, CheckingStates,
         GetAllKeys, CheckDone
  <2>3. Tracked' /\ PrevBeforeCurr' /\ EnteredIsUnlinked'
    BY <2>1 DEF structVars, EarlyInv, Tracked, PrevBeforeCurr,
         EnteredIsUnlinked, HasEntry
  <2>4. Deadlines'
    BY <1>6, <2>1 DEF structVars, EarlyInv, Deadlines, HasEntry, TicksTo,
         GetAllKeys, CheckDone
  <2> QED BY <2>2, <2>3, <2>4 DEF EarlyInv
<1> QED BY <1>1, <1>2, <1>3, <1>4, <1>5, <1>6 DEF TimerNext, LoopStep

(***************************************************************************)
(* The types, the agreement of the two tables and the lower bound.         *)
(***************************************************************************)
THEOREM EarlyInvariant == TimerSpec => []EarlyInv
BY EarlyInit, EarlyStep, PTL DEF TimerSpec

\* Types of the state of lmvs_timer_t and of its two callers.
THEOREM TypeCorrect == TimerSpec => []TypeOK
<1>1. EarlyInv => TypeOK
  BY DEF EarlyInv
<1> QED BY <1>1, EarlyInvariant, PTL

\* lmvs_timer_insert, _remove and _update keep the two tables in agreement
\* although no lock covers both.
THEOREM TablesAgree == TimerSpec => []Tracked
<1>1. EarlyInv => Tracked
  BY DEF EarlyInv
<1> QED BY <1>1, EarlyInvariant, PTL

\* lmvs_el_check_timeout never closes a connection before its keep-alive.
THEOREM NoneEarly == TimerSpec => []NeverEarly
<1>1. ASSUME EarlyInv, NEW sid \in keys
      PROVE  age[sid] >= Interval
  <2>1. sid \in Sids /\ checking = "closing" /\ sid \in wheels_tbl[curr_wheel]
    BY <1>1 DEF EarlyInv, TypeOK, KeysInWheel
  <2>2. which_wheel_tbl[sid] = curr_wheel /\ curr_wheel # NoWheel
    BY <1>1, <2>1, IntervalAssumption DEF EarlyInv, TypeOK, Tracked, Wheels, NoWheel
  <2> QED BY <1>1, <2>1, <2>2 DEF EarlyInv, Deadlines, HasEntry
<1>2. EarlyInv => NeverEarly
  BY <1>1 DEF NeverEarly
<1> QED BY <1>2, EarlyInvariant, PTL

-----------------------------------------------------------------------------
(***************************************************************************)
(* The upper bound.  count must stay positive while a node is in the wheel *)
(* (Counted), and the loop that empties a wheel must leave nothing old in  *)
(* it (LeftIsNew).  DEC_ONE_ATOMIC adds, so a count never falls: with a    *)
(* true decrement Counted would not be inductive, because a node removed   *)
(* before it is counted would take away the count of another.              *)
(***************************************************************************)

LEMMA LateInit ==
  ASSUME TimerInit
  PROVE  LateInv
BY DEF TimerInit, LateInv, Counted, LeftIsNew, NeverLate

\* What a call of lmvs_timer_remove does to the wheels.
LEMMA RemoveEffect ==
  ASSUME EarlyInv, NEW sid \in Sids, RemoveTimer(sid)
  PROVE  /\ \A w \in Wheels : /\ wheels_tbl'[w] \subseteq wheels_tbl[w]
                              /\ sid \notin wheels_tbl'[w]
                              /\ count[w] > 0 => count'[w] > 0
         /\ UNCHANGED <<curr_wheel, stay>>
<1> USE DEF EarlyInv
<1>1. CASE ~HasEntry(sid)
  BY <1>1, IntervalAssumption
  DEF RemoveTimer, structVars, TypeOK, Tracked, HasEntry, Wheels, NoWheel
<1>2. CASE sid \in freed_cells
  BY <1>2 DEF RemoveTimer, ReadFreedCell, structVars, TypeOK, Tracked
<1>3. CASE HasEntry(sid) /\ sid \notin freed_cells
  <2> DEFINE w == which_wheel_tbl[sid]
  <2>1. w \in Wheels /\ \A v \in Wheels \ {w} : sid \notin wheels_tbl[v]
    BY <1>3 DEF TypeOK, Tracked, HasEntry
  <2>2. CASE sid \in wheels_tbl[w]
    <3>1. Unlink(w, sid) /\ UNCHANGED <<curr_wheel, stay>>
      BY <1>3, <2>2 DEF RemoveTimer
    <3>2. \A v \in Wheels : wheels_tbl'[v] \subseteq wheels_tbl[v] /\ sid \notin wheels_tbl'[v]
      BY <2>1, <3>1 DEF Unlink, TypeOK
    <3>3. \A v \in Wheels : count[v] > 0 => count'[v] > 0
      BY <2>1, <3>1, CountTypes DEF Unlink, TypeOK
    <3> QED BY <3>1, <3>2, <3>3
  <2>3. CASE sid \notin wheels_tbl[w]
    BY <1>3, <2>1, <2>3 DEF RemoveTimer
  <2> QED BY <2>2, <2>3
<1> QED BY <1>1, <1>2, <1>3

LEMMA LateRemove ==
  ASSUME EarlyInv, LateInv, NEW sid \in Sids, RemoveTimer(sid),
         UNCHANGED <<inserting, checking>>, keys' = keys \ {sid}
  PROVE  LateInv'
<1>1. curr_wheel \in Wheels
  BY DEF EarlyInv, TypeOK
<1>2. Counted'
  BY RemoveEffect DEF LateInv, Counted
<1>3. LeftIsNew'
  BY <1>1, RemoveEffect DEF LateInv, LeftIsNew, BeingInserted
<1>4. NeverLate'
  BY RemoveEffect DEF LateInv, NeverLate, BeingInserted, TicksTo
<1> QED BY <1>2, <1>3, <1>4 DEF LateInv

LEMMA LateInsert ==
  ASSUME EarlyInv, LateInv, AcceptorStep
  PROVE  LateInv'
<1>1. ASSUME NEW sid \in Sids, InsertEnter(sid)
      PROVE  LateInv'
  BY <1>1 DEF InsertEnter, LateInv, Counted, LeftIsNew, NeverLate,
       BeingInserted, TicksTo, Idle, Linked
<1>2. CASE InsertLink
  <2> DEFINE sid == inserting.sid
             w == which_wheel_tbl[sid]
  <2>1. sid \in Sids /\ inserting = Entered(sid) /\ w \in Wheels
    BY <1>2, InsertingTypes DEF EarlyInv, TypeOK, EnteredIsUnlinked, HasEntry, InsertLink
  <2>2. CASE ReadFreedCell /\ UNCHANGED <<inserting, checking, keys>>
    BY <2>2 DEF ReadFreedCell, LateInv, Counted, LeftIsNew, NeverLate,
         BeingInserted, TicksTo
  <2>3. CASE sid \notin freed_cells
    <3>1. /\ inserting' = Linked(sid, w)
          /\ \A v \in Wheels : wheels_tbl'[v] =
               IF v = w THEN wheels_tbl[v] \cup {sid} ELSE wheels_tbl[v]
          /\ UNCHANGED <<curr_wheel, count, checking, keys, stay>>
      BY <1>2, <2>1, <2>3 DEF InsertLink, EarlyInv, TypeOK
    <3>2. curr_wheel \in Wheels
      BY DEF EarlyInv, TypeOK
    <3>3. \A s \in Sids : BeingInserted(s) <=> s = sid
      BY <2>1 DEF BeingInserted, Idle, Entered
    <3>4. \A s \in Sids : BeingInserted(s)' <=> s = sid
      BY <3>1 DEF BeingInserted, Idle, Linked
    <3>5. \A v \in Wheels : wheels_tbl[v] \subseteq Sids
      BY DEF EarlyInv, TypeOK
    <3>6. Counted'
      <4>1. \A v \in Wheels, s \in Sids : inserting # Linked(s, v)
        BY <2>1 DEF Entered, Linked
      <4>2. \A v \in Wheels : \A s \in wheels_tbl[v] : count[v] > 0
        BY <4>1, <3>5 DEF LateInv, Counted
      <4> QED BY <3>1, <4>2 DEF Counted
    <3>7. LeftIsNew'
      <4> SUFFICES ASSUME checking = "closing", NEW s \in wheels_tbl'[curr_wheel], s # sid
                   PROVE  s \in keys \/ stay[s] = 0
        BY <2>1, <3>1, <3>4 DEF LeftIsNew
      <4>1. s \in wheels_tbl[curr_wheel] /\ s \in Sids
        BY <3>1, <3>2, <3>5
      <4> QED BY <3>3, <4>1 DEF LateInv, LeftIsNew
    <3>8. NeverLate'
      <4>1. \A v \in Wheels : TicksTo(v)' = TicksTo(v)
        BY <3>1 DEF TicksTo
      <4>2. \A v \in Wheels : \A s \in wheels_tbl'[v] : s # sid => s \in Sids /\ s \in wheels_tbl[v]
        BY <3>1, <3>5
      <4> SUFFICES ASSUME NEW v \in Wheels, NEW s \in wheels_tbl'[v], ~BeingInserted(s)',
                          checking = "events" \/ v # curr_wheel
                   PROVE  stay[s] + TicksTo(v) <= Interval + 1
        BY <3>1, <4>1 DEF NeverLate
      <4>3. s # sid
        BY <2>1, <3>4
      <4> QED BY <3>3, <4>2, <4>3 DEF LateInv, NeverLate
    <3> QED BY <3>6, <3>7, <3>8 DEF LateInv
  <2> QED BY <1>2, <2>2, <2>3 DEF InsertLink
<1>3. CASE InsertCount
  <2> DEFINE sid == inserting.sid
             w == inserting.wheel
  <2>1. sid \in Sids /\ w \in Wheels /\ inserting = Linked(sid, w)
    BY <1>3, InsertingTypes DEF EarlyInv, TypeOK, InsertCount
  <2>2. /\ inserting' = Idle
        /\ count'[w] > 0
        /\ \A v \in Wheels \ {w} : count'[v] = count[v]
        /\ \A s \in Sids : stay'[s] = IF s = sid THEN 0 ELSE stay[s]
        /\ UNCHANGED <<curr_wheel, wheels_tbl, checking, keys>>
    BY <1>3, <2>1, CountTypes DEF InsertCount, EarlyInv, TypeOK
  <2>3. \A s \in Sids : (BeingInserted(s) <=> s = sid) /\ ~BeingInserted(s)'
    BY <2>1, <2>2 DEF BeingInserted, Idle, Linked
  <2>4. \A v \in Wheels : wheels_tbl[v] \subseteq Sids /\ TicksTo(v) \in 1 .. Interval + 1
    BY TicksToBounds DEF EarlyInv, TypeOK
  <2>5. Counted'
    <3>1. \A v \in Wheels : \A s \in wheels_tbl[v] : count[v] > 0 \/ v = w
      <4>1. \A v \in Wheels, s \in Sids : Linked(sid, w) = Linked(s, v) => v = w
        BY DEF Linked
      <4> QED BY <2>1, <2>4, <4>1 DEF LateInv, Counted
    <3> QED BY <2>2, <3>1 DEF Counted
  <2>6. LeftIsNew'
    BY <2>2, <2>3, <2>4 DEF LateInv, LeftIsNew, EarlyInv, TypeOK
  <2>7. NeverLate'
    <3> SUFFICES ASSUME NEW v \in Wheels, NEW s \in wheels_tbl[v],
                        checking = "events" \/ v # curr_wheel
                 PROVE  stay'[s] + TicksTo(v)' <= Interval + 1
      BY <2>2 DEF NeverLate
    <3>1. s \in Sids /\ TicksTo(v)' = TicksTo(v) /\ TicksTo(v) \in 1 .. Interval + 1
      BY <2>2, <2>4 DEF TicksTo
    <3>2. CASE s = sid
      BY <2>2, <3>1, <3>2, IntervalAssumption
    <3>3. CASE s # sid
      BY <2>2, <2>3, <3>1, <3>3 DEF LateInv, NeverLate
    <3> QED BY <3>2, <3>3
  <2> QED BY <2>5, <2>6, <2>7 DEF LateInv
<1> QED BY <1>1, <1>2, <1>3 DEF AcceptorStep

LEMMA LateUpdate ==
  ASSUME EarlyInv, LateInv, NEW sid \in Sids, UpdateTimer(sid)
  PROVE  LateInv'
<1> DEFINE w == which_wheel_tbl[sid]
<1>1. CASE sid \in freed_cells
  BY <1>1 DEF UpdateTimer, ReadFreedCell, LateInv, Counted, LeftIsNew,
       NeverLate, BeingInserted, TicksTo
<1>2. CASE sid \notin freed_cells
  <2>1. w \in Wheels /\ curr_wheel \in Wheels
    BY <1>2 DEF UpdateTimer, EarlyInv, TypeOK, HasEntry
  <2>2. \A v \in Wheels : wheels_tbl[v] \subseteq Sids /\ TicksTo(v) \in 1 .. Interval + 1
    BY TicksToBounds DEF EarlyInv, TypeOK
  <2>3. /\ \A v \in Wheels : wheels_tbl'[v] =
             IF v = curr_wheel THEN (wheels_tbl[v] \ {sid}) \cup {sid}
                               ELSE wheels_tbl[v] \ {sid}
        /\ \A s \in Sids : stay'[s] = IF s = sid THEN 0 ELSE stay[s]
        /\ checking = "events"
        /\ UNCHANGED <<curr_wheel, checking, inserting, keys>>
    BY <1>2, <2>1 DEF UpdateTimer, EarlyInv, TypeOK, Tracked
  <2>4. \A v \in Wheels : IF v = curr_wheel THEN count'[v] > 0
                          ELSE count'[v] = count[v] \/ count'[v] > 0
    <3> DEFINE deleted == [count EXCEPT ![w] = DEC_ONE_ATOMIC(@)]
    <3>1. deleted[curr_wheel] \in 0 .. CountCap
      BY <2>1, CountTypes DEF EarlyInv, TypeOK
    <3>2. INC_ONE_ATOMIC(deleted[curr_wheel]) > 0
      BY <3>1, CountTypes
    <3>3. \A v \in Wheels : deleted[v] = count[v] \/ deleted[v] > 0
      BY <2>1, CountTypes DEF EarlyInv, TypeOK
    <3>4. count' = [deleted EXCEPT ![curr_wheel] = INC_ONE_ATOMIC(@)]
      BY <1>2 DEF UpdateTimer
    <3>5. count \in [Wheels -> 0 .. CountCap]
      BY DEF EarlyInv, TypeOK
    <3> QED BY <2>1, <3>2, <3>3, <3>4, <3>5
  <2>5. Counted'
    <3> SUFFICES ASSUME NEW v \in Wheels, NEW s \in wheels_tbl'[v]
                 PROVE  count'[v] > 0 \/ inserting' = Linked(s, v)
      BY DEF Counted
    <3>1. CASE v = curr_wheel
      BY <2>4, <3>1
    <3>2. CASE v # curr_wheel
      BY <2>3, <2>4, <3>2 DEF LateInv, Counted
    <3> QED BY <3>1, <3>2
  <2>6. LeftIsNew'
    BY <2>3 DEF LeftIsNew
  <2>7. NeverLate'
    <3> SUFFICES ASSUME NEW v \in Wheels, NEW s \in wheels_tbl'[v],
                        ~BeingInserted(s)
                 PROVE  stay'[s] + TicksTo(v)' <= Interval + 1
      BY <2>3 DEF NeverLate, BeingInserted
    <3>1. TicksTo(v)' = TicksTo(v) /\ TicksTo(v) \in 1 .. Interval + 1
      BY <2>2, <2>3 DEF TicksTo
    <3>2. CASE s = sid
      BY <2>3, <3>1, <3>2, IntervalAssumption
    <3>3. CASE s # sid
      <4>1. s \in wheels_tbl[v] /\ s \in Sids
        BY <2>2, <2>3, <3>3
      <4> QED BY <2>3, <3>1, <3>3, <4>1 DEF LateInv, NeverLate
    <3> QED BY <3>2, <3>3
  <2> QED BY <2>5, <2>6, <2>7 DEF LateInv
<1> QED BY <1>1, <1>2

LEMMA LateTurn ==
  ASSUME EarlyInv, LateInv, TurnWheel
  PROVE  LateInv'
<1>1. TypeOK /\ curr_wheel' \in Wheels /\ checking = "events"
  BY IntervalAssumption DEF EarlyInv, TypeOK, TurnWheel, NextWheel, Wheels
<1>2. \A w \in Wheels : wheels_tbl[w] \subseteq Sids
  BY <1>1 DEF TypeOK
<1>3. /\ \A s \in Sids : stay'[s] <= stay[s] + 1 /\ stay'[s] \in Nat /\ stay[s] \in Nat
      /\ UNCHANGED <<wheels_tbl, count, inserting, keys>>
  BY <1>1, OneMoreType, IntervalAssumption DEF TypeOK, StayCap, TurnWheel
<1>4. Counted'
  BY <1>3 DEF LateInv, Counted
<1>5. LeftIsNew'
  BY DEF TurnWheel, LeftIsNew
<1>6. NeverLate'
  <2> SUFFICES ASSUME NEW w \in Wheels, NEW s \in wheels_tbl[w],
                      checking' = "events" \/ w # curr_wheel',
                      ~BeingInserted(s)
               PROVE  stay'[s] + TicksTo(w)' <= Interval + 1
    BY <1>3 DEF NeverLate, BeingInserted
  <2>1. s \in Sids /\ stay[s] + TicksTo(w) <= Interval + 1
    BY <1>1, <1>2 DEF LateInv, NeverLate
  <2>2. count[w] > 0
    BY DEF LateInv, Counted, BeingInserted, Idle, Linked
  <2>3. w # curr_wheel'
    BY <1>1, <2>2 DEF TypeOK, TurnWheel
  <2>4. TicksTo(w)' = TicksTo(w) - 1 /\ TicksTo(w) \in 1 .. Interval + 1
    BY <1>1, <2>3, TicksToTurn, TicksToBounds
  <2> QED BY <1>3, <2>1, <2>4, IntervalAssumption
<1> QED BY <1>4, <1>5, <1>6 DEF LateInv

LEMMA LateStep ==
  ASSUME EarlyInv, LateInv, [TimerNext]_timerVars
  PROVE  LateInv'
<1>1. CASE UNCHANGED timerVars
  BY <1>1 DEF timerVars, structVars, LateInv, Counted, LeftIsNew, NeverLate,
       BeingInserted, TicksTo
<1>2. CASE AcceptorStep
  BY <1>2, LateInsert
<1>3. ASSUME NEW sid \in Sids, RemoveOnEvent(sid) \/ CloseExpired(sid)
      PROVE  LateInv'
  <2>1. keys' = keys \ {sid} /\ UNCHANGED <<inserting, checking>> /\ RemoveTimer(sid)
    BY <1>3 DEF RemoveOnEvent, CloseExpired, EarlyInv, KeysInWheel
  <2> QED BY <2>1, LateRemove
<1>4. ASSUME NEW sid \in Sids, UpdateTimer(sid)
      PROVE  LateInv'
  BY <1>4, LateUpdate
<1>5. CASE TurnWheel
  BY <1>5, LateTurn
<1>6. CASE GetAllKeys
  BY <1>6 DEF GetAllKeys, structVars, LateInv, Counted, LeftIsNew, NeverLate,
       BeingInserted, TicksTo
<1>7. CASE CheckDone
  <2>1. /\ keys = {} /\ checking = "closing" /\ checking' = "events"
        /\ UNCHANGED <<curr_wheel, wheels_tbl, count, inserting, keys, stay>>
    BY <1>7 DEF CheckDone, structVars
  <2>2. Counted' /\ LeftIsNew'
    BY <2>1 DEF LateInv, Counted, LeftIsNew
  <2>3. \A w \in Wheels : TicksTo(w) \in 1 .. Interval + 1
    BY TicksToBounds DEF EarlyInv
  <2>4. NeverLate'
    <3> SUFFICES ASSUME NEW w \in Wheels, NEW s \in wheels_tbl[w], ~BeingInserted(s)
                 PROVE  stay[s] + TicksTo(w) <= Interval + 1
      BY <2>1 DEF NeverLate, BeingInserted, TicksTo
    <3>1. CASE w = curr_wheel
      BY <2>1, <2>3, <3>1, IntervalAssumption DEF LateInv, LeftIsNew
    <3>2. CASE w # curr_wheel
      BY <3>2 DEF LateInv, NeverLate
    <3> QED BY <3>1, <3>2
  <2> QED BY <2>2, <2>4 DEF LateInv
<1> QED BY <1>1, <1>2, <1>3, <1>4, <1>5, <1>6, <1>7 DEF TimerNext, LoopStep

THEOREM LateInvariant == TimerSpec => [](EarlyInv /\ LateInv)
<1>1. TimerInit => EarlyInv /\ LateInv
  BY EarlyInit, LateInit
<1>2. (EarlyInv /\ LateInv) /\ [TimerNext]_timerVars => (EarlyInv /\ LateInv)'
  BY EarlyStep, LateStep
<1> QED BY <1>1, <1>2, PTL DEF TimerSpec

\* lmvs_timer_book_keeping never passes over a node that has been counted: every
\* connection is closed within one tick of its keep-alive.
THEOREM NoneLate == TimerSpec => []NeverLate
<1>1. EarlyInv /\ LateInv => NeverLate
  BY DEF LateInv
<1> QED BY <1>1, LateInvariant, PTL

=============================================================================
