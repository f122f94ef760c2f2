----------------------------- MODULE LfHashProofs -----------------------------
(***************************************************************************)
(* Proofs about LfHash, for lists of any length: what the flag and the     *)
(* spinlock achieve, that the list is well formed and its nodes are freed  *)
(* when they should be, that the operations answer the truth, and that the *)
(* list is a set, KeySet.                                                  *)
(***************************************************************************)
EXTENDS MCLfHash, FiniteSetTheorems, TLAPS

\* The locals of a call are in a record, whatever their values.
IsCall(call) ==
  call = [op |-> call.op, key |-> call.key, step |-> call.step, t |-> call.t,
          ahead |-> call.ahead, left |-> call.left, leftNext |-> call.leftNext,
          right |-> call.right, result |-> call.result]

CallsAreRecords ==
  /\ calls = [th \in Threads |-> calls[th]]
  /\ \A th \in Threads : IsCall(calls[th])

ListSteps == {"start", "walk", "unlink", "check", "link", "load", "mark", "detach", "free"}

\* At most one thread holds the lock, unless it was once released by one that did
\* not; the thread that collects is the one that holds it.
Owned ==
  /\ Avoided({"stray_unlock"}) =>
       /\ lock <=> holders # {}
       /\ \A a, b \in holders : a = b
  /\ At("io", "collect") \/ At("io", "unlock") => "io" \in holders

\* Released by the end of an operation or collection, unless it was kept.
Released ==
  /\ Avoided({"kept"}) => \A th \in holders : ~At(th, "idle")
  /\ At("io", "clear") => "io" \notin holders

LockInv == holders \subseteq Threads /\ CallsAreRecords /\ Owned /\ Released

-----------------------------------------------------------------------------
(***************************************************************************)
(* Steps of the list leave the flag and the lock alone.                    *)
(***************************************************************************)

LEMMA CallIsCall ==
  ASSUME NEW op, NEW key, NEW step
  PROVE  IsCall(Call(op, key, step)) /\ Call(op, key, step).step = step
BY DEF Call, IsCall

\* The records that differ from a call in fields that are a or b now.
Near(call, a, b) ==
  [op : {call.op, a, b}, key : {call.key, a, b}, step : {call.step, a, b}, t : {call.t, a, b},
   ahead : {call.ahead, a, b}, left : {call.left, a, b}, leftNext : {call.leftNext, a, b},
   right : {call.right, a, b}, result : {call.result, a, b}]

LEMMA NearIsCall ==
  ASSUME NEW call, IsCall(call), NEW a, NEW b
  PROVE  call \in Near(call, a, b) /\ \A r \in Near(call, a, b) : IsCall(r)
<1>1. call \in Near(call, a, b)
  BY DEF IsCall, Near
<1>2. \A r \in Near(call, a, b) : IsCall(r)
  BY DEF IsCall, Near
<1> QED BY <1>1, <1>2

\* A record in which fields are set is one, with the step that was set.
LEMMA StepSet ==
  ASSUME NEW call, IsCall(call), NEW a
  PROVE  IsCall([call EXCEPT !.step = a]) /\ [call EXCEPT !.step = a].step = a
<1> DEFINE new == [call EXCEPT !.step = a]
<1>1. call \in Near(call, a, a)
  BY NearIsCall
<1>2. new \in Near(call, a, a) /\ new.step = a
  BY <1>1 DEF Near
<1>3. IsCall(new)
  <2> HIDE DEF new
  <2> QED BY <1>2, NearIsCall
<1> QED BY <1>2, <1>3

LEMMA AheadSet ==
  ASSUME NEW call, IsCall(call), NEW a
  PROVE  IsCall([call EXCEPT !.ahead = a]) /\ [call EXCEPT !.ahead = a].step = call.step
<1> DEFINE new == [call EXCEPT !.ahead = a]
<1>1. call \in Near(call, a, a)
  BY NearIsCall
<1>2. new \in Near(call, a, a) /\ new.step = call.step
  BY <1>1 DEF Near
<1>3. IsCall(new)
  <2> HIDE DEF new
  <2> QED BY <1>2, NearIsCall
<1> QED BY <1>2, <1>3

LEMMA StepAheadSet ==
  ASSUME NEW call, IsCall(call), NEW a, NEW b
  PROVE  IsCall([call EXCEPT !.step = a, !.ahead = b]) /\ [call EXCEPT !.step = a, !.ahead = b].step = a
<1> DEFINE new == [call EXCEPT !.step = a, !.ahead = b]
<1>1. call \in Near(call, a, b)
  BY NearIsCall
<1>2. new \in Near(call, a, b) /\ new.step = a
  BY <1>1 DEF Near
<1>3. IsCall(new)
  <2> HIDE DEF new
  <2> QED BY <1>2, NearIsCall
<1> QED BY <1>2, <1>3

LEMMA EndSet ==
  ASSUME NEW call, IsCall(call), NEW a, NEW b
  PROVE  IsCall([call EXCEPT !.step = a, !.result = b]) /\ [call EXCEPT !.step = a, !.result = b].step = a
<1> DEFINE new == [call EXCEPT !.step = a, !.result = b]
<1>1. call \in Near(call, a, b)
  BY NearIsCall
<1>2. new \in Near(call, a, b) /\ new.step = a
  BY <1>1 DEF Near
<1>3. IsCall(new)
  <2> HIDE DEF new
  <2> QED BY <1>2, NearIsCall
<1> QED BY <1>2, <1>3

LEMMA TAheadSet ==
  ASSUME NEW call, IsCall(call), NEW a, NEW b
  PROVE  IsCall([call EXCEPT !.t = a, !.ahead = b]) /\ [call EXCEPT !.t = a, !.ahead = b].step = call.step
<1> DEFINE new == [call EXCEPT !.t = a, !.ahead = b]
<1>1. call \in Near(call, a, b)
  BY NearIsCall
<1>2. new \in Near(call, a, b) /\ new.step = call.step
  BY <1>1 DEF Near
<1>3. IsCall(new)
  <2> HIDE DEF new
  <2> QED BY <1>2, NearIsCall
<1> QED BY <1>2, <1>3

LEMMA LeftSet ==
  ASSUME NEW call, IsCall(call), NEW a, NEW b
  PROVE  IsCall([call EXCEPT !.left = a, !.leftNext = b]) /\ [call EXCEPT !.left = a, !.leftNext = b].step = call.step
<1> DEFINE new == [call EXCEPT !.left = a, !.leftNext = b]
<1>1. call \in Near(call, a, b)
  BY NearIsCall
<1>2. new \in Near(call, a, b) /\ new.step = call.step
  BY <1>1 DEF Near
<1>3. IsCall(new)
  <2> HIDE DEF new
  <2> QED BY <1>2, NearIsCall
<1> QED BY <1>2, <1>3

LEMMA ReachedSet ==
  ASSUME NEW call, IsCall(call), NEW right
  PROVE  IsCall(Reached(call, right)) /\ Reached(call, right).step \in {"check", "unlink"}
<1>1. CASE call.leftNext = right
  <2>1. call \in Near(call, right, "check")
    BY NearIsCall
  <2>2. Reached(call, right) \in Near(call, right, "check") /\ Reached(call, right).step = "check"
    BY <1>1, <2>1 DEF Near, Reached
  <2> QED BY <2>2, NearIsCall
<1>2. CASE call.leftNext # right
  <2>1. call \in Near(call, right, "unlink")
    BY NearIsCall
  <2>2. Reached(call, right) \in Near(call, right, "unlink") /\ Reached(call, right).step = "unlink"
    BY <1>2, <2>1 DEF Near, Reached
  <2> QED BY <2>2, NearIsCall
<1> QED BY <1>1, <1>2

LEMMA GoKeepsRecords ==
  ASSUME CallsAreRecords, NEW th \in Threads, NEW call, IsCall(call), Go(th, call)
  PROVE  /\ CallsAreRecords'
         /\ calls'[th] = call
         /\ \A other \in Threads \ {th} : calls'[other] = calls[other]
BY DEF CallsAreRecords, Go

\* Of a step of the list: it takes one thread from a step of the list to another,
\* or to its end, and adds no fault of the lock.
Confined(th) ==
  /\ calls[th].step \in ListSteps
  /\ \E call : IsCall(call) /\ call.step \in ListSteps \cup {"return"} /\ Go(th, call)
  /\ \E new \in SUBSET {"misfree", "freed_under"} : faults' = faults \cup new

LEMMA SearchConfined ==
  ASSUME CallsAreRecords, NEW th \in Threads, InnerSearch(th)
  PROVE  Confined(th)
<1> DEFINE call == calls[th]
<1>1. IsCall(call)
  BY DEF CallsAreRecords
<1>2. IsCall(Passed(call))
  BY <1>1, LeftSet DEF Passed
<1>3. UNCHANGED faults => \E new \in SUBSET {"misfree", "freed_under"} : faults' = faults \cup new
  <2>1. {} \in SUBSET {"misfree", "freed_under"} /\ faults = faults \cup {}
    OBVIOUS
  <2> QED BY <2>1
<1>4. CASE SearchStart(th)
  <2> DEFINE new == [Call(call.op, call.key, "walk") EXCEPT !.ahead = Load(Head)]
  <2>1. IsCall(new) /\ new.step = "walk"
    BY CallIsCall, AheadSet
  <2>2. Go(th, new) /\ call.step = "start" /\ UNCHANGED faults
    BY <1>4 DEF SearchStart, At
  <2> HIDE DEF new
  <2> QED BY <1>3, <2>1, <2>2 DEF Confined, ListSteps
<1>5. CASE SearchWalk(th)
  <2> DEFINE passed == Passed(call)
             t      == passed.ahead.to
             end    == Reached(passed, t)
             on     == [passed EXCEPT !.t = t, !.ahead = Load(t)]
  <2>1. IsCall(end) /\ end.step \in {"check", "unlink"}
    <3> HIDE DEF passed, t
    <3>1. IsCall(passed)
      BY <1>2 DEF passed
    <3> QED BY <3>1, ReachedSet
  <2>2. IsCall(on) /\ on.step = "walk"
    <3>1. call.step = "walk"
      BY <1>5 DEF SearchWalk, At
    <3>2. passed.step = call.step
      BY <1>1, LeftSet DEF Passed
    <3> HIDE DEF passed, t
    <3>3. IsCall(passed)
      BY <1>2 DEF passed
    <3> DEFINE new == Load(t)
    <3>4. IsCall([passed EXCEPT !.t = t, !.ahead = new])
      <4> HIDE DEF new
      <4> QED BY <3>3, TAheadSet
    <3>5. [passed EXCEPT !.t = t, !.ahead = new].step = passed.step
      <4> HIDE DEF new
      <4> QED BY <3>3, TAheadSet
    <3> HIDE DEF call
    <3> QED BY <3>1, <3>2, <3>4, <3>5, Zenon
  <2>3. (Go(th, end) \/ Go(th, on)) /\ call.step = "walk" /\ UNCHANGED faults
    BY <1>5 DEF SearchWalk, At
  <2> HIDE DEF end, on
  <2> QED BY <1>3, <2>1, <2>2, <2>3 DEF Confined, ListSteps
<1>6. CASE SearchUnlink(th)
  <2> DEFINE end  == [call EXCEPT !.step = "check"]
             back == [call EXCEPT !.step = "start"]
  <2>1. IsCall(end) /\ end.step = "check" /\ IsCall(back) /\ back.step = "start"
    BY <1>1, StepSet
  <2>2. (Go(th, end) \/ Go(th, back)) /\ call.step = "unlink" /\ UNCHANGED faults
    BY <1>6 DEF SearchUnlink, At
  <2> HIDE DEF end, back
  <2> QED BY <1>3, <2>1, <2>2 DEF Confined, ListSteps
<1>7. CASE SearchCheck(th)
  <2> DEFINE end  == AfterSearch(call)
             back == [call EXCEPT !.step = "start"]
  <2>1. IsCall(back) /\ back.step = "start"
    BY <1>1, StepSet
  <2>2. IsCall(end) /\ end.step \in {"link", "load", "free", "return"}
    <3> DEFINE found == Found(call)
    <3>1. /\ IsCall([call EXCEPT !.step = "return", !.result = found])
          /\ [call EXCEPT !.step = "return", !.result = found].step = "return"
      <4> HIDE DEF found, call
      <4> QED BY <1>1, EndSet
    <3>2. ASSUME NEW step PROVE IsCall([call EXCEPT !.step = step]) /\ [call EXCEPT !.step = step].step = step
      BY <1>1, StepSet
    <3>3. \/ end = [call EXCEPT !.step = "return", !.result = found]
          \/ \E step \in {"link", "load", "free"} : end = [call EXCEPT !.step = step]
      BY DEF AfterSearch
    <3> HIDE DEF end
    <3> QED BY <3>1, <3>2, <3>3
  <2>3. (Go(th, end) \/ Go(th, back)) /\ call.step = "check" /\ UNCHANGED faults
    BY <1>7 DEF SearchCheck, At
  <2> HIDE DEF end, back
  <2> QED BY <1>3, <2>1, <2>2, <2>3 DEF Confined, ListSteps
<1> QED BY <1>4, <1>5, <1>6, <1>7 DEF InnerSearch

LEMMA ListConfined ==
  ASSUME CallsAreRecords, NEW th \in Threads, ListStep(th)
  PROVE  Confined(th)
<1> DEFINE call == calls[th]
           Step(step) == [call EXCEPT !.step = step]
           Ends == [call EXCEPT !.step = "return", !.result = TRUE]
<1>1. IsCall(call)
  BY DEF CallsAreRecords
<1>2. \A step : IsCall(Step(step)) /\ Step(step).step = step
  BY <1>1, StepSet
<1>3. IsCall(Ends) /\ Ends.step = "return"
  BY <1>1, EndSet
<1>4. UNCHANGED faults => \E new \in SUBSET {"misfree", "freed_under"} : faults' = faults \cup new
  <2>1. {} \in SUBSET {"misfree", "freed_under"} /\ faults = faults \cup {}
    OBVIOUS
  <2> QED BY <2>1
<1>5. CASE InnerSearch(th)
  BY <1>5, SearchConfined
<1>6. CASE InsertLink(th)
  <2>1. (Go(th, Ends) \/ Go(th, Step("start"))) /\ call.step = "link" /\ UNCHANGED faults
    BY <1>6 DEF InsertLink, At
  <2> HIDE DEF Step, Ends
  <2> QED BY <1>2, <1>3, <1>4, <2>1 DEF Confined, ListSteps
<1>7. CASE DeleteLoad(th)
  <2> DEFINE on == [call EXCEPT !.step = "mark", !.ahead = Load(call.right)]
  <2>1. IsCall(on) /\ on.step = "mark"
    BY <1>1, StepAheadSet
  <2>2. (Go(th, on) \/ Go(th, Step("start"))) /\ call.step = "load" /\ UNCHANGED faults
    BY <1>7 DEF DeleteLoad, At
  <2> HIDE DEF Step, on
  <2> QED BY <1>2, <1>4, <2>1, <2>2 DEF Confined, ListSteps
<1>8. CASE DeleteMark(th)
  <2>1. (Go(th, Step("detach")) \/ Go(th, Step("start"))) /\ call.step = "mark" /\ UNCHANGED faults
    BY <1>8 DEF DeleteMark, At
  <2> HIDE DEF Step
  <2> QED BY <1>2, <1>4, <2>1 DEF Confined, ListSteps
<1>9. CASE DeleteDetach(th)
  <2> DEFINE again == SearchAgain(call)
  <2>1. IsCall(again) /\ again.step = "start"
    BY CallIsCall DEF SearchAgain
  <2>2. (Go(th, Step("free")) \/ Go(th, again)) /\ call.step = "detach" /\ UNCHANGED faults
    BY <1>9 DEF DeleteDetach, At
  <2> HIDE DEF Step, again
  <2> QED BY <1>2, <1>4, <2>1, <2>2 DEF Confined, ListSteps
<1>10. CASE DeleteFree(th)
  <2>1. Go(th, Ends) /\ call.step = "free"
    BY <1>10 DEF DeleteFree, At
  <2>2. \E new \in SUBSET {"misfree", "freed_under"} : faults' = faults \cup new
    <3> DEFINE wrong == IF call.right # call.key THEN {"misfree"} ELSE {}
               under == IF \E other \in Threads \ {th} : call.right \in Held(other)
                          THEN {"freed_under"} ELSE {}
    <3>1. faults' = faults \cup wrong \cup under
      BY <1>10 DEF DeleteFree
    <3>2. wrong \cup under \in SUBSET {"misfree", "freed_under"}
      OBVIOUS
    <3> HIDE DEF wrong, under
    <3>3. faults' = faults \cup (wrong \cup under)
      BY <3>1
    <3> QED BY <3>2, <3>3
  <2> HIDE DEF Ends
  <2> QED BY <1>3, <2>1, <2>2 DEF Confined, ListSteps
<1> QED BY <1>5, <1>6, <1>7, <1>8, <1>9, <1>10 DEF ListStep

LEMMA ListOperationKeeps ==
  ASSUME LockInv, NEW th \in Threads, ListOperation(th)
  PROVE  LockInv'
<1>1. Confined(th) /\ UNCHANGED flagVars
  BY ListConfined DEF LockInv, ListOperation
<1>2. PICK call : IsCall(call) /\ call.step \in ListSteps \cup {"return"} /\ Go(th, call)
  BY <1>1 DEF Confined
<1>3. /\ CallsAreRecords' /\ calls'[th] = call
      /\ \A other \in Threads \ {th} : calls'[other] = calls[other]
  BY <1>2, GoKeepsRecords DEF LockInv
<1>4. /\ Avoided({"stray_unlock"})' <=> Avoided({"stray_unlock"})
      /\ Avoided({"kept"})' <=> Avoided({"kept"})
  BY <1>1 DEF Confined, Avoided
<1>5. \A other \in Threads, step \in {"idle", "collect", "unlock", "clear"} :
        At(other, step)' => At(other, step)
  BY <1>2, <1>3 DEF At, ListSteps
<1>6. "io" \in Threads /\ holders' = holders /\ lock' = lock /\ holders \subseteq Threads
  BY <1>1 DEF flagVars, LockInv, Threads
<1>7. Owned'
  BY <1>4, <1>5, <1>6 DEF LockInv, Owned
<1>8. Released'
  BY <1>4, <1>5, <1>6 DEF LockInv, Released
<1> QED BY <1>3, <1>6, <1>7, <1>8 DEF LockInv

-----------------------------------------------------------------------------
(***************************************************************************)
(* The steps that look at the flag or the lock.                            *)
(***************************************************************************)

LEMMA EnterKeeps ==
  ASSUME LockInv, NEW th \in Threads, NEW op, NEW key, Enter(th, op, key)
  PROVE  LockInv'
<1> DEFINE call == Call(op, key, IF locked THEN "lock" ELSE "start")
<1>1. IsCall(call) /\ call.step \in {"lock", "start"}
  BY CallIsCall
<1>2. Go(th, call) /\ UNCHANGED <<lock, holders, faults>>
  BY DEF Enter, flagVars
<1> HIDE DEF call
<1>3. /\ CallsAreRecords' /\ calls'[th] = call
      /\ \A other \in Threads \ {th} : calls'[other] = calls[other]
  BY <1>1, <1>2, GoKeepsRecords DEF LockInv
<1>4. \A other \in Threads, step \in {"idle", "collect", "unlock", "clear"} :
        At(other, step)' => At(other, step)
  BY <1>1, <1>3 DEF At
<1>5. "io" \in Threads /\ holders \subseteq Threads
  BY DEF LockInv, Threads
<1>6. Avoided({"stray_unlock"})' = Avoided({"stray_unlock"}) /\ Avoided({"kept"})' = Avoided({"kept"})
  BY <1>2 DEF Avoided
<1>7. Owned'
  BY <1>2, <1>4, <1>5, <1>6 DEF LockInv, Owned
<1>8. Released'
  BY <1>2, <1>4, <1>5, <1>6 DEF LockInv, Released
<1> QED BY <1>2, <1>3, <1>5, <1>7, <1>8 DEF LockInv

LEMMA EnterCollectKeeps ==
  ASSUME LockInv, EnterCollect
  PROVE  LockInv'
<1> DEFINE call == Call("collect", 0, "lock")
<1>1. IsCall(call) /\ call.step = "lock"
  BY CallIsCall
<1>2. Go("io", call) /\ UNCHANGED <<lock, holders, faults>> /\ "io" \in Threads
  BY DEF EnterCollect, Threads
<1> HIDE DEF call
<1>3. /\ CallsAreRecords' /\ calls'["io"] = call
      /\ \A other \in Threads \ {"io"} : calls'[other] = calls[other]
  BY <1>1, <1>2, GoKeepsRecords DEF LockInv
<1>4. \A other \in Threads, step \in {"idle", "collect", "unlock", "clear"} :
        At(other, step)' => At(other, step)
  BY <1>1, <1>3 DEF At
<1>5. Avoided({"stray_unlock"})' = Avoided({"stray_unlock"}) /\ Avoided({"kept"})' = Avoided({"kept"})
  BY <1>2 DEF Avoided
<1>6. Owned'
  BY <1>2, <1>4, <1>5 DEF LockInv, Owned
<1>7. Released'
  BY <1>2, <1>4, <1>5 DEF LockInv, Released
<1> QED BY <1>2, <1>3, <1>6, <1>7 DEF LockInv

LEMMA SpinlockLockKeeps ==
  ASSUME LockInv, NEW th \in Threads, SpinlockLock(th)
  PROVE  LockInv'
<1> DEFINE to   == IF calls[th].op = "collect" THEN "collect" ELSE "start"
           call == [calls[th] EXCEPT !.step = to]
<1>1. IsCall(call) /\ call.step = to
  <2>1. IsCall(calls[th])
    BY DEF LockInv, CallsAreRecords
  <2> HIDE DEF to
  <2> QED BY <2>1, StepSet
<1>2. /\ ~lock /\ lock' = TRUE /\ holders' = holders \cup {th} /\ UNCHANGED faults
      /\ Go(th, call) /\ At(th, "lock")
  BY DEF SpinlockLock, TestAndSet
<1>3. to \in {"collect", "start"}
  OBVIOUS
<1> HIDE DEF call, to
<1>4. /\ CallsAreRecords' /\ calls'[th] = call
      /\ \A other \in Threads \ {th} : calls'[other] = calls[other]
  BY <1>1, <1>2, GoKeepsRecords DEF LockInv
<1>5. Avoided({"stray_unlock"})' = Avoided({"stray_unlock"}) /\ Avoided({"kept"})' = Avoided({"kept"})
  BY <1>2 DEF Avoided
<1>6. \A other \in Threads \ {th} : \A step : At(other, step)' = At(other, step)
  BY <1>4 DEF At
<1>7. \A step \in {"idle", "unlock", "clear"} : ~At(th, step)'
  BY <1>1, <1>3, <1>4 DEF At
<1>8. "io" \in Threads /\ holders' \subseteq Threads
  BY <1>2 DEF LockInv, Threads
<1>9. Owned'
  <2>1. ASSUME Avoided({"stray_unlock"}) PROVE holders = {}
    BY <1>2, <2>1 DEF LockInv, Owned
  <2>2. Avoided({"stray_unlock"})' => lock' /\ holders' # {} /\ \A a, b \in holders' : a = b
    BY <1>2, <1>5, <2>1
  <2>3. ASSUME At("io", "collect")' \/ At("io", "unlock")' PROVE "io" \in holders'
    BY <1>2, <1>6, <1>7, <1>8, <2>3 DEF LockInv, Owned
  <2> QED BY <2>2, <2>3 DEF Owned
<1>10. Released'
  <2>1. ASSUME Avoided({"kept"})', NEW other \in holders' PROVE ~At(other, "idle")'
    BY <1>2, <1>5, <1>6, <1>7, <2>1 DEF LockInv, Released
  <2>2. ASSUME At("io", "clear")' PROVE "io" \notin holders'
    BY <1>2, <1>6, <1>7, <1>8, <2>2 DEF LockInv, Released
  <2> QED BY <2>1, <2>2 DEF Released
<1> QED BY <1>4, <1>8, <1>9, <1>10 DEF LockInv

LEMMA LeaveKeeps ==
  ASSUME LockInv, NEW th \in Threads, Leave(th)
  PROVE  LockInv'
<1>1. IsCall(NoCall) /\ NoCall.step = "idle"
  BY CallIsCall DEF NoCall
<1>2. Go(th, NoCall) /\ At(th, "return")
  BY DEF Leave
<1>3. /\ CallsAreRecords' /\ calls'[th] = NoCall
      /\ \A other \in Threads \ {th} : calls'[other] = calls[other]
  BY <1>1, <1>2, GoKeepsRecords DEF LockInv
<1>4. \A other \in Threads \ {th} : \A step : At(other, step)' = At(other, step)
  BY <1>3 DEF At
<1>5. \A step \in {"collect", "unlock", "clear"} : ~At(th, step)' /\ ~At(th, step)
  BY <1>1, <1>2, <1>3 DEF At
<1>6. "io" \in Threads /\ holders \subseteq Threads
  BY DEF LockInv, Threads
<1>7. CASE Unlocks
  <2>1. /\ lock' = FALSE /\ holders' = holders \ {th}
        /\ faults' = faults \cup (IF th \notin holders THEN {"stray_unlock"} ELSE {})
    BY <1>7 DEF Leave, Fault
  <2>2. Avoided({"kept"})' => Avoided({"kept"})
    BY <2>1 DEF Avoided
  <2>3. Avoided({"stray_unlock"})' => Avoided({"stray_unlock"}) /\ th \in holders
    BY <2>1 DEF Avoided
  <2>4. Avoided({"stray_unlock"})' => holders' = {}
    BY <2>1, <2>3 DEF LockInv, Owned
  <2>5. At("io", "collect")' \/ At("io", "unlock")' => "io" \in holders'
    BY <1>4, <1>5, <1>6, <2>1 DEF LockInv, Owned
  <2>6. Owned'
    BY <2>1, <2>4, <2>5 DEF Owned
  <2>7. ASSUME Avoided({"kept"})', NEW other \in holders' PROVE ~At(other, "idle")'
    BY <1>4, <1>6, <2>1, <2>2, <2>7 DEF LockInv, Released
  <2>8. At("io", "clear")' => "io" \notin holders'
    BY <1>4, <1>5, <1>6, <2>1 DEF LockInv, Released
  <2>9. Released'
    BY <2>7, <2>8 DEF Released
  <2> QED BY <1>3, <1>6, <2>1, <2>6, <2>9 DEF LockInv
<1>8. CASE ~Unlocks
  <2>1. /\ UNCHANGED <<lock, holders>> /\ ~locked
        /\ faults' = faults \cup (IF th \in holders THEN {"kept"} ELSE {})
    BY <1>8 DEF Leave, Fault, Unlocks
  <2>2. Avoided({"kept"})' => Avoided({"kept"}) /\ th \notin holders
    BY <2>1 DEF Avoided
  <2>3. Avoided({"stray_unlock"})' => Avoided({"stray_unlock"})
    BY <2>1 DEF Avoided
  <2>4. At("io", "collect")' \/ At("io", "unlock")' => "io" \in holders'
    BY <1>4, <1>5, <1>6, <2>1 DEF LockInv, Owned
  <2>5. Owned'
    BY <2>1, <2>3, <2>4 DEF LockInv, Owned
  <2>6. ASSUME Avoided({"kept"})', NEW other \in holders' PROVE ~At(other, "idle")'
    BY <1>4, <1>6, <2>1, <2>2, <2>6 DEF LockInv, Released
  <2>7. At("io", "clear")' => "io" \notin holders'
    BY <1>4, <1>5, <1>6, <2>1 DEF LockInv, Released
  <2>8. Released'
    BY <2>6, <2>7 DEF Released
  <2> QED BY <1>3, <1>6, <2>1, <2>5, <2>8 DEF LockInv
<1> QED BY <1>7, <1>8

LEMMA CollectKeeps ==
  ASSUME LockInv, Collect
  PROVE  LockInv'
<1> DEFINE call == calls["io"]
           node == next[call.t]
           end  == [call EXCEPT !.step = "unlock"]
           on   == [call EXCEPT !.t = node]
<1>1. IsCall(call) /\ "io" \in Threads
  BY DEF LockInv, CallsAreRecords, Threads
<1>2. IsCall(end) /\ end.step = "unlock"
  BY <1>1, StepSet
<1>3. IsCall(on) /\ on.step = call.step
  <2> HIDE DEF call, node
  <2>1. call \in Near(call, node, node)
    BY <1>1, NearIsCall
  <2>2. on \in Near(call, node, node) /\ on.step = call.step
    BY <2>1 DEF Near
  <2> HIDE DEF on
  <2> QED BY <1>1, <2>2, NearIsCall
<1>4. (Go("io", end) \/ Go("io", on)) /\ call.step = "collect"
  BY DEF Collect, At
<1>5. UNCHANGED <<lock, holders, faults>>
  BY DEF Collect, flagVars
<1> HIDE DEF end, on
<1>6. /\ CallsAreRecords' /\ calls'["io"].step \in {"collect", "unlock"}
      /\ \A other \in Threads \ {"io"} : calls'[other] = calls[other]
  BY <1>1, <1>2, <1>3, <1>4, GoKeepsRecords DEF LockInv
<1>7. "io" \in holders /\ ~At("io", "idle")' /\ ~At("io", "clear")'
  BY <1>4, <1>6 DEF LockInv, Owned, At
<1>8. \A other \in Threads \ {"io"} : \A step : At(other, step)' = At(other, step)
  BY <1>6 DEF At
<1>9. Avoided({"stray_unlock"})' = Avoided({"stray_unlock"}) /\ Avoided({"kept"})' = Avoided({"kept"})
  BY <1>5 DEF Avoided
<1>10. Owned'
  BY <1>5, <1>7, <1>9 DEF LockInv, Owned
<1>11. Released'
  <2>1. ASSUME Avoided({"kept"})', NEW other \in holders' PROVE ~At(other, "idle")'
    BY <1>5, <1>7, <1>8, <1>9, <2>1 DEF LockInv, Released
  <2> QED BY <1>7, <2>1 DEF Released
<1> QED BY <1>5, <1>6, <1>10, <1>11 DEF LockInv

LEMMA LeaveCollectKeeps ==
  ASSUME LockInv, LeaveCollect
  PROVE  LockInv'
<1>1. "io" \in Threads /\ holders \subseteq Threads
  BY DEF LockInv, Threads
<1>2. CASE At("io", "unlock")
  <2> DEFINE call == Call("collect", 0, "clear")
  <2>1. IsCall(call) /\ call.step = "clear"
    BY CallIsCall
  <2>2. /\ lock' = FALSE /\ holders' = holders \ {"io"} /\ UNCHANGED faults
        /\ Go("io", call)
    BY <1>2 DEF LeaveCollect, At
  <2> HIDE DEF call
  <2>3. /\ CallsAreRecords' /\ calls'["io"] = call
        /\ \A other \in Threads \ {"io"} : calls'[other] = calls[other]
    BY <1>1, <2>1, <2>2, GoKeepsRecords DEF LockInv
  <2>4. \A other \in Threads \ {"io"} : \A step : At(other, step)' = At(other, step)
    BY <2>3 DEF At
  <2>5. ~At("io", "collect")' /\ ~At("io", "unlock")'
    BY <2>1, <2>3 DEF At
  <2>6. Avoided({"stray_unlock"})' = Avoided({"stray_unlock"}) /\ Avoided({"kept"})' = Avoided({"kept"})
    BY <2>2 DEF Avoided
  <2>7. Avoided({"stray_unlock"}) => holders' = {}
    BY <1>2, <2>2 DEF LockInv, Owned
  <2>8. Owned'
    BY <2>2, <2>5, <2>6, <2>7 DEF Owned
  <2>9. ASSUME Avoided({"kept"})', NEW other \in holders' PROVE ~At(other, "idle")'
    BY <1>1, <2>2, <2>4, <2>6, <2>9 DEF LockInv, Released
  <2>10. Released'
    BY <2>2, <2>9 DEF Released
  <2> QED BY <1>1, <2>2, <2>3, <2>8, <2>10 DEF LockInv
<1>3. CASE At("io", "clear")
  <2>1. IsCall(NoCall) /\ NoCall.step = "idle"
    BY CallIsCall DEF NoCall
  <2>2. UNCHANGED <<lock, holders, faults>> /\ Go("io", NoCall) /\ "io" \notin holders
    BY <1>3 DEF LeaveCollect, At, LockInv, Released
  <2>3. /\ CallsAreRecords' /\ calls'["io"] = NoCall
        /\ \A other \in Threads \ {"io"} : calls'[other] = calls[other]
    BY <1>1, <2>1, <2>2, GoKeepsRecords DEF LockInv
  <2>4. \A other \in Threads \ {"io"} : \A step : At(other, step)' = At(other, step)
    BY <2>3 DEF At
  <2>5. ~At("io", "collect")' /\ ~At("io", "unlock")'
    BY <2>1, <2>3 DEF At
  <2>6. Avoided({"stray_unlock"})' = Avoided({"stray_unlock"}) /\ Avoided({"kept"})' = Avoided({"kept"})
    BY <2>2 DEF Avoided
  <2>7. Owned'
    BY <2>2, <2>5, <2>6 DEF LockInv, Owned
  <2>8. ASSUME Avoided({"kept"})', NEW other \in holders' PROVE ~At(other, "idle")'
    BY <1>1, <2>2, <2>4, <2>6, <2>8 DEF LockInv, Released
  <2>9. Released'
    BY <2>2, <2>8 DEF Released
  <2> QED BY <1>1, <2>2, <2>3, <2>7, <2>9 DEF LockInv
<1> QED BY <1>2, <1>3 DEF LeaveCollect

LEMMA LockStutterKeeps ==
  ASSUME LockInv, UNCHANGED hashVars
  PROVE  LockInv'
<1>1. UNCHANGED <<lock, holders, calls, faults>>
  BY DEF hashVars, listVars, flagVars
<1>2. CallsAreRecords' /\ holders' \subseteq Threads
  BY <1>1 DEF LockInv, CallsAreRecords
<1>3. Owned'
  BY <1>1 DEF LockInv, Owned, Avoided, At
<1>4. Released'
  BY <1>1 DEF LockInv, Released, Avoided, At
<1> QED BY <1>2, <1>3, <1>4 DEF LockInv

LEMMA LockInductive == LockInv /\ [HashNext]_hashVars => LockInv'
<1> SUFFICES ASSUME LockInv, [HashNext]_hashVars PROVE LockInv'
  OBVIOUS
<1>1. "acceptor" \in Threads /\ "io" \in Threads
  BY DEF Threads
<1>2. CASE Begin
  BY <1>1, <1>2, EnterKeeps, EnterCollectKeeps DEF Begin, EnterInsert, EnterOnIoThread
<1>3. CASE \E th \in Threads : SpinlockLock(th) \/ ListOperation(th) \/ Leave(th)
  BY <1>3, SpinlockLockKeeps, ListOperationKeeps, LeaveKeeps
<1>4. CASE Collect
  BY <1>4, CollectKeeps
<1>5. CASE LeaveCollect
  BY <1>5, LeaveCollectKeeps
<1>6. CASE UNCHANGED hashVars
  BY <1>6, LockStutterKeeps
<1> QED BY <1>2, <1>3, <1>4, <1>5, <1>6 DEF HashNext

LEMMA LockInitially == HashInit => LockInv
<1> SUFFICES ASSUME HashInit PROVE LockInv
  OBVIOUS
<1>1. /\ calls = [th \in Threads |-> NoCall] /\ lock = FALSE /\ holders = {}
  BY DEF HashInit, ListInit
<1>2. IsCall(NoCall) /\ NoCall.step = "idle"
  BY CallIsCall DEF NoCall
<1>3. CallsAreRecords
  BY <1>1, <1>2 DEF CallsAreRecords
<1>4. "io" \in Threads /\ ~At("io", "collect") /\ ~At("io", "unlock") /\ ~At("io", "clear")
  BY <1>1, <1>2 DEF At, Threads
<1>5. Owned /\ Released
  BY <1>1, <1>4 DEF Owned, Released
<1> QED BY <1>1, <1>3, <1>5 DEF LockInv

-----------------------------------------------------------------------------
(***************************************************************************)
(* What follows.                                                           *)
(***************************************************************************)

\* Every reachable state of the table satisfies the invariant of the lock.
THEOREM LockInvariant == HashSpec => []LockInv
BY LockInitially, LockInductive, PTL DEF HashSpec

\* The spinlock of the table is what it says and has one owner at most, for lists
\* of any length, until an operation that has not taken it releases it: the one
\* way to that is the second look of the operation at the flag.
THEOREM LockHasOneOwner == HashSpec => []LockIsOwned
<1>1. LockInv => LockIsOwned
  <2> SUFFICES ASSUME LockInv, Avoided({"stray_unlock"})
               PROVE  (lock <=> holders # {}) /\ Cardinality(holders) <= 1
    BY DEF LockIsOwned
  <2>1. (lock <=> holders # {}) /\ \A a, b \in holders : a = b
    BY DEF LockInv, Owned
  <2>2. CASE holders = {}
    BY <2>1, <2>2, FS_EmptySet
  <2>3. CASE holders # {}
    <3>1. PICK th \in holders : TRUE
      BY <2>3
    <3>2. holders = {th}
      BY <2>1, <3>1
    <3>3. Cardinality({th}) = 1
      BY FS_Singleton
    <3> QED BY <2>1, <3>2, <3>3
  <2> QED BY <2>2, <2>3
<1> QED BY <1>1, LockInvariant, PTL

\* No thread holds the lock outside an operation, unless the flag was cleared
\* between its two looks: a collection leaves the lock before it clears the flag.
THEOREM LockIsLeft == HashSpec => []LockIsReleased
<1>1. LockInv => LockIsReleased
  BY DEF LockInv, Released, LockIsReleased
<1> QED BY <1>1, LockInvariant, PTL

-----------------------------------------------------------------------------
(***************************************************************************)
(* The nodes that a walk from the head comes to: what it takes to link one *)
(* and to unlink one.                                                      *)
(***************************************************************************)

Pointers == {nx \in [Keys \cup {Head} -> Keys \cup {Tail}] :
               \A node \in Keys \cup {Head} : node < nx[node]}

\* Closed and Linked, of any pointers.
Leads(nx, set) == \A node \in set \cup {Head} : nx[node] \in set \cup {Tail}
Walk(nx) == {key \in Keys : \A set \in SUBSET Keys : Leads(nx, set) => key \in set}

LEMMA LinkedIsWalk == Linked = Walk(next) /\ Linked' = Walk(next')
<1>1. Linked = Walk(next)
  BY DEF Linked, Walk, Closed, Leads
<1>2. Linked' = Walk(next')
  BY DEF Linked, Walk, Closed, Leads
<1> QED BY <1>1, <1>2

LEMMA Nodes ==
  /\ Keys \subseteq Nat /\ Head \in Nat /\ Tail \in Nat
  /\ Head \notin Keys /\ Tail \notin Keys /\ Head # Tail /\ Head < Tail
  /\ \A key \in Keys : Head < key /\ key < Tail
BY LastKeyAssumption DEF Keys, Head, Tail

LEMMA WalkIsClosed ==
  ASSUME NEW nx \in Pointers
  PROVE  Walk(nx) \subseteq Keys /\ Leads(nx, Walk(nx))
<1>1. SUFFICES ASSUME NEW node \in Walk(nx) \cup {Head}, nx[node] # Tail
               PROVE  nx[node] \in Walk(nx)
  BY DEF Leads, Walk
<1>2. nx[node] \in Keys
  BY <1>1 DEF Pointers, Walk
<1>3. ASSUME NEW set \in SUBSET Keys, Leads(nx, set) PROVE nx[node] \in set
  <2>1. node \in set \cup {Head}
    BY <1>3 DEF Walk
  <2> QED BY <1>1, <1>3, <2>1 DEF Leads
<1> QED BY <1>2, <1>3 DEF Walk

LEMMA WalkIsLeast ==
  ASSUME NEW nx, NEW set \in SUBSET Keys, Leads(nx, set)
  PROVE  Walk(nx) \subseteq set
BY DEF Walk

\* Nothing in the list lies between a node and the next one.
LEMMA WalkIsInOrder ==
  ASSUME NEW nx \in Pointers, NEW a \in Walk(nx) \cup {Head}, NEW b \in Walk(nx), a < b
  PROVE  nx[a] <= b
<1> DEFINE W == Walk(nx)
           S == {n \in W : \A m \in W \cup {Head} : m < n => nx[m] <= n}
<1>1. W \subseteq Keys /\ Leads(nx, W)
  BY WalkIsClosed
<1>2. \A n \in W \cup {Head} : n \in Nat /\ nx[n] \in Nat /\ n < nx[n] /\ nx[n] \in W \cup {Tail}
  BY <1>1, Nodes DEF Pointers, Leads
<1> HIDE DEF W
<1>3. ASSUME NEW x \in S \cup {Head}, nx[x] # Tail PROVE nx[x] \in S
  <2>1. x \in W \cup {Head} /\ nx[x] \in W
    BY <1>2, <1>3
  <2>2. \A m \in W \cup {Head} : m < x => nx[m] <= x
    BY <1>2, Nodes, <1>1
  <2> DEFINE T == {z \in W : z <= x \/ nx[x] <= z}
  <2>3. ASSUME NEW z \in T \cup {Head}, nx[z] # Tail PROVE nx[z] \in T
    <3>1. nx[z] \in W /\ z \in W \cup {Head}
      BY <1>2, <2>3
    <3>2. z <= x \/ nx[x] <= z
      BY <2>1, <1>2, Nodes, <1>1
    <3>3. nx[z] <= x \/ nx[x] <= nx[z]
      BY <3>1, <3>2, <2>1, <2>2, <1>2
    <3> QED BY <3>1, <3>3
  <2>4. Leads(nx, T) /\ T \in SUBSET Keys
    BY <2>3, <1>1 DEF Leads
  <2>5. W \subseteq T
    BY <2>4, WalkIsLeast DEF W
  <2>6. ASSUME NEW m \in W \cup {Head}, m < nx[x] PROVE nx[m] <= nx[x]
    <3>1. m <= x
      BY <2>5, <2>6, <2>1, <1>2, Nodes, <1>1
    <3>2. CASE m = x
      BY <3>2, <1>2, <2>1
    <3>3. CASE m # x
      BY <3>1, <3>3, <2>2, <1>2, <2>1
    <3> QED BY <3>2, <3>3
  <2> QED BY <2>1, <2>6
<1>4. Leads(nx, S) /\ S \in SUBSET Keys
  BY <1>3, <1>1 DEF Leads
<1>5. W \subseteq S
  BY <1>4, WalkIsLeast DEF W
<1> QED BY <1>5 DEF W

LEMMA WalkGains ==
  ASSUME NEW nx \in Pointers, NEW left \in Walk(nx) \cup {Head}, NEW key \in Keys \ Walk(nx),
         left < key, key < nx[left],
         NEW nx2 \in [Keys \cup {Head} -> Keys \cup {Tail}], nx2[left] = key, nx2[key] = nx[left],
         \A node \in (Keys \cup {Head}) \ {left, key} : nx2[node] = nx[node]
  PROVE  nx2 \in Pointers /\ Walk(nx2) = Walk(nx) \cup {key}
<1>1. /\ Walk(nx) \subseteq Keys /\ nx \in [Keys \cup {Head} -> Keys \cup {Tail}]
      /\ \A n \in Walk(nx) \cup {Head} : nx[n] \in Walk(nx) \cup {Tail}
  BY WalkIsClosed DEF Pointers, Leads
<1>2. left # key /\ key # Tail /\ key # Head
  BY <1>1, Nodes
<1>3. /\ nx2 \in [Keys \cup {Head} -> Keys \cup {Tail}]
      /\ nx2[left] = key /\ nx2[key] = nx[left]
      /\ \A n \in (Keys \cup {Head}) \ {left, key} : nx2[n] = nx[n]
  OBVIOUS
<1>4. nx2 \in Pointers
  BY <1>1, <1>3 DEF Pointers
<1>5. Leads(nx2, Walk(nx) \cup {key})
  BY <1>1, <1>3 DEF Leads
<1>6. Walk(nx2) \subseteq Walk(nx) \cup {key}
  BY <1>1, <1>5, WalkIsLeast
<1>7. /\ Walk(nx2) \subseteq Keys
      /\ \A n \in Walk(nx2) \cup {Head} : nx2[n] \in Walk(nx2) \cup {Tail}
  BY <1>4, WalkIsClosed DEF Leads
<1>8. Leads(nx, Walk(nx2) \cap Walk(nx))
  <2> SUFFICES ASSUME NEW n \in (Walk(nx2) \cap Walk(nx)) \cup {Head}
               PROVE  nx[n] \in Walk(nx2) \cup {Tail}
    BY <1>1 DEF Leads
  <2>1. CASE n = left
    BY <2>1, <1>2, <1>3, <1>7
  <2>2. CASE n # left
    BY <2>2, <1>1, <1>2, <1>3, <1>7
  <2> QED BY <2>1, <2>2
<1>9. Walk(nx) \subseteq Walk(nx2)
  BY <1>1, <1>8, WalkIsLeast
<1>10. key \in Walk(nx2)
  BY <1>9, <1>3, <1>7, <1>2
<1> QED BY <1>4, <1>6, <1>9, <1>10

LEMMA WalkLoses ==
  ASSUME NEW nx \in Pointers, NEW left \in Walk(nx) \cup {Head}, NEW node \in Walk(nx),
         nx[left] = node,
         NEW nx2, nx2 = [nx EXCEPT ![left] = nx[node]]
  PROVE  nx2 \in Pointers /\ Walk(nx2) = Walk(nx) \ {node}
<1>1. /\ Walk(nx) \subseteq Keys /\ nx \in [Keys \cup {Head} -> Keys \cup {Tail}]
      /\ \A n \in Walk(nx) \cup {Head} :
           n \in Nat /\ nx[n] \in Nat /\ n < nx[n] /\ nx[n] \in Walk(nx) \cup {Tail}
  BY WalkIsClosed, Nodes DEF Pointers, Leads
<1>2. /\ nx2 \in [Keys \cup {Head} -> Keys \cup {Tail}]
      /\ nx2[left] = nx[node]
      /\ \A n \in (Keys \cup {Head}) \ {left} : nx2[n] = nx[n]
  BY <1>1
<1>3. nx2 \in Pointers
  <2>1. left < nx[node]
    BY <1>1
  <2> QED BY <1>2, <2>1 DEF Pointers
<1>4. \A n \in Walk(nx) \cup {Head} : nx[n] = node => n = left
  <2> SUFFICES ASSUME NEW n \in Walk(nx) \cup {Head}, nx[n] = node, n # left PROVE FALSE
    OBVIOUS
  <2>1. n < left \/ left < n
    BY <1>1
  <2>2. CASE n < left
    <3>1. left \in Walk(nx)
      BY <2>2, <1>1, Nodes
    <3> QED BY <2>2, <3>1, <1>1, WalkIsInOrder
  <2>3. CASE left < n
    <3>1. n \in Walk(nx)
      BY <2>3, <1>1, Nodes
    <3> QED BY <2>3, <3>1, <1>1, WalkIsInOrder
  <2> QED BY <2>1, <2>2, <2>3
<1>5. Leads(nx2, Walk(nx) \ {node})
  <2> SUFFICES ASSUME NEW n \in (Walk(nx) \ {node}) \cup {Head}
               PROVE  nx2[n] \in (Walk(nx) \ {node}) \cup {Tail}
    BY DEF Leads
  <2>1. CASE n = left
    BY <2>1, <1>1, <1>2
  <2>2. CASE n # left
    BY <2>2, <1>1, <1>2, <1>4
  <2> QED BY <2>1, <2>2
<1>6. Walk(nx2) \subseteq Walk(nx) \ {node}
  <2>1. Walk(nx) \ {node} \in SUBSET Keys
    BY <1>1
  <2> QED BY <2>1, <1>5, WalkIsLeast
<1>7. /\ Walk(nx2) \subseteq Keys
      /\ \A n \in Walk(nx2) \cup {Head} : nx2[n] \in Walk(nx2) \cup {Tail}
  BY <1>3, WalkIsClosed DEF Leads
<1>8. left \in Walk(nx2) \cup {Head}
  <2> SUFFICES ASSUME left \notin Walk(nx2) \cup {Head} PROVE FALSE
    OBVIOUS
  <2>1. Leads(nx, Walk(nx2))
    BY <1>1, <1>2, <1>7, <1>6 DEF Leads
  <2>2. Walk(nx) \subseteq Walk(nx2)
    BY <2>1, <1>7, WalkIsLeast
  <2> QED BY <2>2
<1>9. Leads(nx, Walk(nx2) \cup {node})
  <2> SUFFICES ASSUME NEW n \in Walk(nx2) \cup {node} \cup {Head}
               PROVE  nx[n] \in Walk(nx2) \cup {node} \cup {Tail}
    BY DEF Leads
  <2>1. nx[node] \in Walk(nx2) \cup {Tail}
    BY <1>2, <1>7, <1>8
  <2>2. CASE n \notin {left, node}
    BY <2>2, <1>1, <1>2, <1>6, <1>7
  <2> QED BY <2>1, <2>2
<1>10. Walk(nx) \subseteq Walk(nx2) \cup {node}
  <2>1. Walk(nx2) \cup {node} \in SUBSET Keys
    BY <1>1, <1>7
  <2> QED BY <2>1, <1>9, WalkIsLeast
<1> QED BY <1>3, <1>6, <1>10

-----------------------------------------------------------------------------
(***************************************************************************)
(* The invariant of the list, and of what the two threads know of it.      *)
(***************************************************************************)

Acc == calls["acceptor"]
Io == calls["io"]

\* The key whose node the thread of this call is about to link.
Inserting(c) == IF c.op = "insert" /\ c.step # "return" THEN {c.key} ELSE {}

\* The keys whose nodes have been linked, at any time.
Inserted == used \ Inserting(Acc)

\* The node that has been marked and not freed.
Deleting(c) ==
  {key \in Keys : key = c.key /\ \/ c.step = "detach"
                                 \/ c.op = "delete" /\ c.step = "free"
                                 \/ c.op = "free" /\ c.step # "return"}

Searching == {"start", "walk", "unlink", "check"}

StepsOf(op) ==
  CASE op = "none" -> {"idle"}
    [] op = "insert" -> Searching \cup {"lock", "link", "return"}
    [] op = "search" -> Searching \cup {"lock", "return"}
    [] op = "delete" -> Searching \cup {"lock", "load", "mark", "detach", "free", "return"}
    [] op = "free" -> Searching \cup {"free", "return"}
    [] op = "collect" -> {"lock", "collect", "unlock", "clear"}
    [] OTHER -> {}

OpsOf(th) == IF th = "io" THEN {"none", "search", "delete", "free", "collect"} ELSE {"none", "insert"}

OpOK(th, c) ==
  /\ c.op \in OpsOf(th) /\ c.step \in StepsOf(c.op)
  /\ c.op \notin {"none", "collect"} => c.key \in Keys

\* What a call knows of the pointers nx and the marks mk, of nodes that have been
\* inserted: on its walk, when it has found its place, when it has nodes to unlink.
WalkOK(c, nx, mk, ins) ==
  /\ c.t \in ins \cup {Head} /\ c.left \in ins \cup {Head} /\ c.ahead.to \in ins \cup {Tail}
  /\ c.left < c.key
  /\ ~c.ahead.mark => c.t < c.key
  /\ c.ahead.mark => /\ c.t \in mk /\ c.ahead.to = nx[c.t] /\ c.leftNext \in mk
                     /\ c.t = c.leftNext \/ nx[c.leftNext] \in mk

FoundOK(c, ins) ==
  c.left \in ins \cup {Head} /\ c.right \in ins \cup {Tail} /\ c.left < c.key /\ c.key <= c.right

UnlinkOK(c, nx, mk) ==
  c.leftNext \in mk /\ (nx[c.leftNext] = c.right \/ nx[c.leftNext] \in mk)

LocalOK(c, nx, mk, ins) ==
  /\ c.step = "lock" => c.t = Head
  /\ c.step = "walk" => WalkOK(c, nx, mk, ins)
  /\ c.step \in {"unlink", "check", "link", "load", "mark", "detach", "free"} => FoundOK(c, ins)
  /\ c.step = "unlink" => UnlinkOK(c, nx, mk)
  /\ c.step \in {"load", "mark", "detach"} => c.right = c.key
  /\ c.step = "mark" => ~c.ahead.mark
  /\ c.step = "detach" => c.key \in mk /\ c.ahead.to = nx[c.key]
  /\ c.step = "free" /\ c.op = "delete" => c.right = c.key /\ c.key \in mk
  /\ c.op = "free" => c.key \in mk
  /\ c.step = "free" /\ c.op = "free" => c.right # c.key

\* The nodes that a call will dereference without looking at the list again.
Holds(c) ==
  CASE c.step = "walk" -> {c.ahead.to, IF c.ahead.mark THEN c.left ELSE c.t}
    [] c.step \in {"unlink", "check", "link", "load", "mark", "detach"} -> {c.left, c.right}
    [] OTHER -> {}

ListTypes ==
  /\ next \in Pointers /\ used \subseteq Keys /\ freed \subseteq used \cup {Tail}
  /\ calls \in [Threads -> Calls]

OpsOK == \A th \in Threads : OpOK(th, calls[th])

LocalsOK == \A th \in Threads : LocalOK(calls[th], next, marked, Inserted)

ListOK ==
  /\ \A node \in Inserted \cup {Head} : next[node] \in Inserted \cup {Tail}
  /\ marked \subseteq Inserted /\ Inserted \ marked \subseteq Linked
  /\ Acc.op = "insert" => Acc.key \in used
  /\ Io.op = "free" /\ Io.step = "return" => ~Avoided({"misfree"})
  /\ Io.op = "delete" /\ Io.step = "free" => Io.key \notin Linked
  /\ Io.step = "collect" => Io.t \in (Inserted \ marked) \cup {Head}

FreedOK ==
  Avoided({"misfree"}) =>
    /\ freed \cap Linked = {}
    /\ marked = freed \cup Deleting(Io) /\ freed \cap Deleting(Io) = {}
    /\ \A node \in Deleting(Io) : next[node] \notin freed

HoldOK ==
  Avoided({"misfree", "freed_under"}) =>
    ~undefined /\ \A th \in Threads : Holds(calls[th]) \cap freed = {}

TableInv == ListTypes /\ OpsOK /\ LocalsOK /\ ListOK /\ FreedOK /\ HoldOK

LEMMA CallSet ==
  ASSUME NEW c \in Calls
  PROVE  /\ \A step \in {"idle", "lock", "start", "walk", "unlink", "check", "link", "load", "mark",
                         "detach", "free", "return", "collect", "unlock", "clear"} :
              [c EXCEPT !.step = step] \in Calls
         /\ \A node \in Keys \cup {Head} : [c EXCEPT !.t = node] \in Calls
BY DEF Calls

LEMMA NewCall ==
  ASSUME NEW op \in {"none", "insert", "search", "delete", "free", "collect"},
         NEW key \in Keys \cup {0},
         NEW step \in {"idle", "lock", "start", "walk", "unlink", "check", "link", "load", "mark",
                       "detach", "free", "return", "collect", "unlock", "clear"}
  PROVE  /\ Call(op, key, step) \in Calls
         /\ Call(op, key, step).op = op /\ Call(op, key, step).key = key
         /\ Call(op, key, step).step = step /\ Call(op, key, step).t = Head
<1>1. Head \in Keys \cup {Head} /\ Tail \in Keys \cup {Tail}
  OBVIOUS
<1> QED BY <1>1 DEF Call, Calls, Unmarked

LEMMA InsertedNodes ==
  ASSUME ListTypes
  PROVE  /\ Inserted \subseteq Keys /\ Tail \notin Inserted /\ Head \notin Inserted
         /\ Acc \in Calls /\ Io \in Calls /\ next \in [Keys \cup {Head} -> Keys \cup {Tail}]
         /\ "io" \in Threads /\ "acceptor" \in Threads /\ Threads = {"io", "acceptor"}
<1>1. "io" \in Threads /\ "acceptor" \in Threads /\ Threads = {"io", "acceptor"}
  BY DEF Threads
<1>2. Acc \in Calls /\ Io \in Calls
  BY <1>1 DEF ListTypes, Acc, Io
<1>3. Inserted \subseteq Keys
  BY DEF Inserted, ListTypes
<1> QED BY <1>1, <1>2, <1>3, Nodes DEF ListTypes, Pointers

\* What a running program can rely on.
LEMMA Reliable ==
  ASSUME TableInv, Running
  PROVE  /\ Linked \subseteq Inserted /\ Linked = Walk(next) /\ Leads(next, Linked)
         /\ Avoided({"misfree"}) /\ ~undefined
         /\ freed \subseteq marked /\ Head \notin freed /\ Tail \notin freed
         /\ \A node \in (Inserted \ freed) \cup {Head} : next[node] \notin freed
         /\ \A node \in (Inserted \cup {Head}) \ marked :
              node \in Linked \cup {Head} /\ next[node] \in Linked \cup {Tail}
         /\ \A node \in Linked \cap marked : node \in Deleting(Io)
<1>1. /\ ListTypes /\ ListOK /\ FreedOK
  BY DEF TableInv
<1>2. Leads(next, Inserted)
  BY <1>1 DEF ListOK, Leads
<1>3. Linked = Walk(next) /\ Linked \subseteq Inserted /\ Leads(next, Linked)
  BY <1>1, <1>2, LinkedIsWalk, WalkIsLeast, WalkIsClosed, InsertedNodes DEF ListTypes
<1>4. Avoided({"misfree"}) /\ ~undefined
  BY DEF Running, Avoided
<1>5. /\ freed \cap Linked = {}
      /\ marked = freed \cup Deleting(Io) /\ freed \cap Deleting(Io) = {}
      /\ \A node \in Deleting(Io) : next[node] \notin freed
  BY <1>1, <1>4 DEF FreedOK
<1>6. marked \subseteq Inserted /\ Inserted \ marked \subseteq Linked
  BY <1>1 DEF ListOK
<1>7. freed \subseteq marked /\ Head \notin freed /\ Tail \notin freed
  BY <1>1, <1>5, <1>6, InsertedNodes
<1>8. \A node \in (Inserted \cup {Head}) \ marked :
         node \in Linked \cup {Head} /\ next[node] \in Linked \cup {Tail}
  BY <1>3, <1>6 DEF Leads
<1>9. \A node \in (Inserted \ freed) \cup {Head} : next[node] \notin freed
  <2> SUFFICES ASSUME NEW node \in (Inserted \ freed) \cup {Head} PROVE next[node] \notin freed
    OBVIOUS
  <2>1. CASE node \in marked
    <3>1. node \in Deleting(Io)
      BY <2>1, <1>5, <1>6, <1>1, InsertedNodes
    <3> QED BY <3>1, <1>5
  <2>2. CASE node \notin marked
    BY <2>2, <1>8, <1>5, <1>7
  <2> QED BY <2>1, <2>2
<1>10. \A node \in Linked \cap marked : node \in Deleting(Io)
  BY <1>5
<1> QED BY <1>3, <1>4, <1>7, <1>8, <1>9, <1>10

\* Knowledge does not get old: marks stay, and marked pointers do not change.
LEMMA LocalStays ==
  ASSUME NEW c, NEW nx, NEW mk, NEW ins, NEW nx2, NEW mk2, NEW ins2,
         LocalOK(c, nx, mk, ins), mk \subseteq mk2, ins \subseteq ins2,
         \A node \in mk : nx2[node] = nx[node]
  PROVE  LocalOK(c, nx2, mk2, ins2)
<1>1. WalkOK(c, nx, mk, ins) => WalkOK(c, nx2, mk2, ins2)
  BY DEF WalkOK
<1>2. FoundOK(c, ins) => FoundOK(c, ins2)
  BY DEF FoundOK
<1>3. UnlinkOK(c, nx, mk) => UnlinkOK(c, nx2, mk2)
  BY DEF UnlinkOK
<1> QED BY <1>1, <1>2, <1>3 DEF LocalOK

LEMMA CallsChange ==
  ASSUME TableInv, NEW th \in Threads, NEW c \in Calls, Go(th, c), OpOK(th, c),
         marked \subseteq marked', Inserted \subseteq Inserted',
         \A node \in marked : next'[node] = next[node],
         LocalOK(c, next', marked', Inserted')
  PROVE  /\ calls' \in [Threads -> Calls] /\ calls'[th] = c
         /\ \A other \in Threads \ {th} : calls'[other] = calls[other]
         /\ OpsOK' /\ LocalsOK'
<1>1. /\ calls' \in [Threads -> Calls] /\ calls'[th] = c
      /\ \A other \in Threads \ {th} : calls'[other] = calls[other]
  BY DEF TableInv, ListTypes, Go
<1>2. OpsOK'
  BY <1>1 DEF TableInv, OpsOK
<1>3. ASSUME NEW other \in Threads \ {th} PROVE LocalOK(calls'[other], next', marked', Inserted')
  <2>1. LocalOK(calls[other], next, marked, Inserted)
    BY DEF TableInv, LocalsOK
  <2> QED BY <2>1, <1>1, LocalStays
<1>4. \A other \in Threads : LocalOK(calls'[other], next', marked', Inserted')
  BY <1>1, <1>3
<1>5. LocalsOK'
  BY <1>4 DEF LocalsOK
<1> QED BY <1>1, <1>2, <1>5

\* A step that changes no node.
LEMMA QuietKeeps ==
  ASSUME TableInv, Running, NEW th \in Threads, NEW c \in Calls, Go(th, c), OpOK(th, c),
         LocalOK(c, next, marked, Inserted),
         UNCHANGED <<next, marked, freed>>, used \subseteq used', used' \subseteq Keys,
         Avoided({"misfree"})', Avoided({"misfree", "freed_under"})' => Avoided({"misfree", "freed_under"}),
         th = "acceptor" => used' \ Inserting(c) = Inserted /\ (c.op = "insert" => c.key \in used'),
         th = "io" => /\ used' = used /\ Deleting(c) = Deleting(Io)
                      /\ c.step = "return" => c.op # "free"
                      /\ c.step = "free" => c.op # "delete"
                      /\ c.step = "collect" => c.t \in (Inserted \ marked) \cup {Head},
         Avoided({"misfree", "freed_under"}) => ~undefined' /\ Holds(c) \cap freed = {}
  PROVE  TableInv'
<1>1. Threads = {"io", "acceptor"} /\ ListTypes /\ ListOK /\ FreedOK /\ HoldOK
  BY InsertedNodes DEF TableInv
<1>2. /\ calls' = [calls EXCEPT ![th] = c] /\ calls \in [Threads -> Calls]
  BY <1>1 DEF Go, ListTypes
<1>3. th = "acceptor" => Acc' = c /\ Io' = Io
  BY <1>1, <1>2 DEF Acc, Io
<1>4. th = "io" => Io' = c /\ Acc' = Acc
  BY <1>1, <1>2 DEF Acc, Io
<1>5. Inserted' = Inserted
  BY <1>1, <1>3, <1>4 DEF Inserted
<1>6. /\ calls' \in [Threads -> Calls] /\ calls'[th] = c
      /\ \A other \in Threads \ {th} : calls'[other] = calls[other]
      /\ OpsOK' /\ LocalsOK'
  BY <1>5, CallsChange
<1>7. ListTypes'
  BY <1>1, <1>6 DEF ListTypes
<1>8. Linked' = Linked
  BY LinkedIsWalk
<1>9. ListOK'
  <2>1. /\ \A node \in Inserted' \cup {Head} : next'[node] \in Inserted' \cup {Tail}
        /\ marked' \subseteq Inserted' /\ Inserted' \ marked' \subseteq Linked'
    BY <1>1, <1>5, <1>8 DEF ListOK
  <2>2. Acc'.op = "insert" => Acc'.key \in used'
    BY <1>1, <1>3, <1>4 DEF ListOK
  <2>3. Io'.op = "free" /\ Io'.step = "return" => ~Avoided({"misfree"})
    BY <1>1, <1>3, <1>4 DEF ListOK
  <2>4. ~Avoided({"misfree"})' <=> ~Avoided({"misfree"})
    BY Reliable
  <2>5. Io'.op = "delete" /\ Io'.step = "free" => Io'.key \notin Linked'
    BY <1>1, <1>3, <1>4, <1>8 DEF ListOK
  <2>6. Io'.step = "collect" => Io'.t \in (Inserted' \ marked') \cup {Head}
    BY <1>1, <1>3, <1>4, <1>5 DEF ListOK
  <2> QED BY <2>1, <2>2, <2>3, <2>4, <2>5, <2>6 DEF ListOK
<1>10. FreedOK'
  <2>1. Deleting(Io') = Deleting(Io)
    BY <1>1, <1>3, <1>4
  <2> QED BY <1>1, <1>8, <2>1, Reliable DEF FreedOK
<1>11. HoldOK'
  <2> SUFFICES ASSUME Avoided({"misfree", "freed_under"})'
               PROVE  ~undefined' /\ \A other \in Threads : Holds(calls'[other]) \cap freed' = {}
    BY DEF HoldOK
  <2> QED BY <1>1, <1>6 DEF HoldOK
<1> QED BY <1>6, <1>7, <1>9, <1>10, <1>11 DEF TableInv

-----------------------------------------------------------------------------
(***************************************************************************)
(* The steps of a search.                                                  *)
(***************************************************************************)

\* A step of a search, or of a call that is looking at what its search has found.
LEMMA SearchGoesOn ==
  ASSUME TableInv, Running, NEW th \in Threads, NEW c \in Calls, Go(th, c),
         c.op = calls[th].op, c.key = calls[th].key, c.step \in StepsOf(c.op),
         calls[th].step \in Searching \cup {"link", "load", "mark"},
         c.step \in Searching \cup {"link", "load", "mark", "free", "return"},
         c.step = "free" => c.op = "free", c.step = "return" => c.op \in {"search", "delete"},
         LocalOK(c, next, marked, Inserted),
         UNCHANGED <<next, marked, freed, used, faults>>,
         Avoided({"misfree", "freed_under"}) => ~undefined' /\ Holds(c) \cap freed = {}
  PROVE  TableInv'
<1>1. OpOK(th, c) /\ OpOK(th, calls[th])
  BY DEF TableInv, OpsOK, OpOK
<1>2. Threads = {"io", "acceptor"} /\ used \subseteq Keys
  BY InsertedNodes DEF TableInv, ListTypes
<1>3. Avoided({"misfree"})' /\ (Avoided({"misfree", "freed_under"})' => Avoided({"misfree", "freed_under"}))
  BY Reliable DEF Avoided
<1>4. th = "acceptor" => used' \ Inserting(c) = Inserted /\ (c.op = "insert" => c.key \in used')
  <2> SUFFICES ASSUME th = "acceptor" PROVE used' \ Inserting(c) = Inserted /\ (c.op = "insert" => c.key \in used')
    OBVIOUS
  <2>1. calls[th] = Acc
    BY DEF Acc
  <2>2. Inserting(c) = Inserting(Acc)
    <3>1. c.op \in {"none", "insert"}
      BY <1>1 DEF OpOK, OpsOf
    <3>2. Acc.step # "return" /\ c.step # "return"
      BY <2>1, <3>1 DEF Searching
    <3> QED BY <2>1, <3>2 DEF Inserting
  <2>3. c.op = "insert" => c.key \in used
    BY <2>1 DEF TableInv, ListOK
  <2> QED BY <2>2, <2>3 DEF Inserted
<1>5. th = "io" => /\ used' = used /\ Deleting(c) = Deleting(Io)
                   /\ c.step = "return" => c.op # "free"
                   /\ c.step = "free" => c.op # "delete"
                   /\ c.step = "collect" => c.t \in (Inserted \ marked) \cup {Head}
  <2> SUFFICES ASSUME th = "io" PROVE Deleting(c) = Deleting(Io) /\ c.step # "collect"
    OBVIOUS
  <2>1. calls[th] = Io
    BY DEF Io
  <2>2. c.step # "collect" /\ c.step # "detach" /\ Io.step # "detach" /\ Io.step # "return" /\ Io.step # "free"
    BY <2>1 DEF Searching
  <2>3. Deleting(c) = {key \in Keys : key = c.key /\ c.op = "free"}
    BY <2>2 DEF Deleting
  <2>4. Deleting(Io) = {key \in Keys : key = Io.key /\ Io.op = "free"}
    BY <2>2 DEF Deleting
  <2> QED BY <2>1, <2>2, <2>3, <2>4
<1> QED BY <1>1, <1>2, <1>3, <1>4, <1>5, QuietKeeps

\* A compare-and-swap has failed or a node has turned out to be marked.
LEMMA RetryKeeps ==
  ASSUME TableInv, Running, NEW th \in Threads, Go(th, [calls[th] EXCEPT !.step = "start"]),
         calls[th].step \in {"unlink", "check", "link", "load", "mark"},
         UNCHANGED <<next, marked, freed, used, faults>>,
         Avoided({"misfree", "freed_under"}) => ~undefined'
  PROVE  TableInv'
<1> DEFINE c == [calls[th] EXCEPT !.step = "start"]
<1>1. calls[th] \in Calls /\ OpOK(th, calls[th]) /\ LocalOK(calls[th], next, marked, Inserted)
  BY DEF TableInv, ListTypes, OpsOK, LocalsOK
<1>2. c \in Calls
  BY <1>1, CallSet
<1>3. c.op = calls[th].op /\ c.key = calls[th].key /\ c.step = "start"
  BY <1>1 DEF Calls
<1>4. Go(th, c)
  OBVIOUS
<1> HIDE DEF c
<1>5. c.step \in StepsOf(c.op)
  <2>1. calls[th].op \in {"insert", "search", "delete", "free"}
    BY <1>1 DEF OpOK, StepsOf, Searching, Calls
  <2> QED BY <1>3, <2>1 DEF StepsOf, Searching
<1>6. LocalOK(c, next, marked, Inserted) /\ Holds(c) = {}
  BY <1>1, <1>3 DEF LocalOK, Holds
<1>7. calls[th].step \in Searching \cup {"link", "load", "mark"} /\ c.step \in Searching
  BY <1>3 DEF Searching
<1>8. c.step # "free" /\ c.step # "return"
  BY <1>3
<1> QED BY <1>2, <1>3, <1>4, <1>5, <1>6, <1>7, <1>8, SearchGoesOn

LEMMA StartKeeps ==
  ASSUME TableInv, Running, NEW th \in Threads, SearchStart(th)
  PROVE  TableInv'
<1> DEFINE call == calls[th]
           c    == [Call(call.op, call.key, "walk") EXCEPT !.ahead = Load(Head)]
<1>1. call \in Calls /\ OpOK(th, call) /\ LocalOK(call, next, marked, Inserted) /\ call.step = "start"
  BY DEF TableInv, ListTypes, OpsOK, LocalsOK, SearchStart, At
<1>2. call.op \in {"insert", "search", "delete", "free"} /\ call.key \in Keys
  BY <1>1 DEF OpOK, StepsOf, Searching, Calls
<1>3. /\ Inserted \subseteq Keys /\ Head \notin Inserted /\ marked \subseteq Inserted
      /\ next[Head] \in Inserted \cup {Tail} /\ next[Head] \notin freed
  BY Reliable, InsertedNodes DEF TableInv, ListOK
<1>4. Load(Head) = [to |-> next[Head], mark |-> FALSE] /\ next[Head] \in Keys \cup {Tail}
  <2>1. (Head \in marked) = FALSE
    BY <1>3
  <2> QED BY <1>3, <2>1 DEF Load
<1>5. /\ c \in Calls /\ c.op = call.op /\ c.key = call.key /\ c.step = "walk"
      /\ c.t = Head /\ c.left = Head /\ c.ahead.to = next[Head] /\ c.ahead.mark = FALSE
  <2>1. Call(call.op, call.key, "walk") \in Calls
    BY <1>1, <1>2, NewCall DEF Calls
  <2> DEFINE new == [to |-> next[Head], mark |-> FALSE]
             old == Call(call.op, call.key, "walk")
  <2>2. new \in [to : Keys \cup {Tail}, mark : BOOLEAN] /\ new.to = next[Head] /\ new.mark = FALSE
    BY <1>4
  <2>3. old.op = call.op /\ old.key = call.key /\ old.step = "walk" /\ old.t = Head /\ old.left = Head
    BY DEF Call
  <2>4. c = [old EXCEPT !.ahead = new]
    BY <1>4
  <2> HIDE DEF new, old, c
  <2> QED BY <2>1, <2>2, <2>3, <2>4 DEF Calls, old
<1>6. Go(th, c) /\ UNCHANGED <<next, marked, freed, used, undefined, faults>>
  BY DEF SearchStart
<1> HIDE DEF c, call
<1>7. LocalOK(c, next, marked, Inserted)
  <2>1. Head < c.key
    BY <1>2, <1>5, Nodes
  <2>2. WalkOK(c, next, marked, Inserted)
    BY <1>3, <1>5, <2>1 DEF WalkOK
  <2> QED BY <1>1, <1>5, <2>2 DEF LocalOK
<1>8. c.step \in StepsOf(c.op) /\ c.step \in Searching /\ call.step \in Searching
  BY <1>1, <1>2, <1>5 DEF StepsOf, Searching
<1>9. Holds(c) \cap freed = {} /\ ~undefined'
  BY <1>3, <1>5, <1>6, Reliable DEF Holds
<1> QED BY <1>1, <1>5, <1>6, <1>7, <1>8, <1>9, SearchGoesOn DEF call

LEMMA PassedIs ==
  ASSUME NEW c \in Calls, c.ahead.mark \/ c.t \in Keys \cup {Head}
  PROVE  /\ Passed(c) \in Calls
         /\ Passed(c).op = c.op /\ Passed(c).key = c.key /\ Passed(c).step = c.step
         /\ Passed(c).t = c.t /\ Passed(c).ahead = c.ahead
         /\ c.ahead.mark => Passed(c).left = c.left /\ Passed(c).leftNext = c.leftNext
         /\ ~c.ahead.mark => Passed(c).left = c.t /\ Passed(c).leftNext = c.ahead.to
<1>1. CASE c.ahead.mark
  BY <1>1 DEF Passed
<1>2. CASE ~c.ahead.mark
  <2> DEFINE t == c.t
             to == c.ahead.to
  <2>1. t \in Keys \cup {Head} /\ to \in Keys \cup {Tail}
    BY DEF Calls
  <2>2. Passed(c) = [c EXCEPT !.left = t, !.leftNext = to]
    BY <1>2 DEF Passed
  <2> HIDE DEF t, to
  <2>3. /\ Passed(c) \in Calls
        /\ Passed(c).op = c.op /\ Passed(c).key = c.key /\ Passed(c).step = c.step
        /\ Passed(c).t = c.t /\ Passed(c).ahead = c.ahead
        /\ Passed(c).left = t /\ Passed(c).leftNext = to
    BY <2>1, <2>2 DEF Calls
  <2> QED BY <1>2, <2>3 DEF t, to
<1> QED BY <1>1, <1>2

LEMMA ReachedIs ==
  ASSUME NEW c \in Calls, NEW right \in Keys \cup {Tail}
  PROVE  /\ Reached(c, right) \in Calls
         /\ Reached(c, right).op = c.op /\ Reached(c, right).key = c.key
         /\ Reached(c, right).left = c.left /\ Reached(c, right).leftNext = c.leftNext
         /\ Reached(c, right).right = right
         /\ Reached(c, right).step = IF c.leftNext = right THEN "check" ELSE "unlink"
<1> DEFINE to == IF c.leftNext = right THEN "check" ELSE "unlink"
<1>1. to \in {"check", "unlink"} /\ Reached(c, right) = [c EXCEPT !.right = right, !.step = to]
  BY DEF Reached
<1> HIDE DEF to
<1>2. /\ Reached(c, right) \in Calls
      /\ Reached(c, right).op = c.op /\ Reached(c, right).key = c.key
      /\ Reached(c, right).left = c.left /\ Reached(c, right).leftNext = c.leftNext
      /\ Reached(c, right).right = right
      /\ Reached(c, right).step = to
  BY <1>1 DEF Calls
<1> QED BY <1>2 DEF to

LEMMA WalkKeeps ==
  ASSUME TableInv, Running, NEW th \in Threads, SearchWalk(th)
  PROVE  TableInv'
<1> DEFINE call == calls[th]
           p    == Passed(call)
           t    == call.ahead.to
           end  == Reached(p, t)
           on   == [p EXCEPT !.t = t, !.ahead = Load(t)]
<1>1. /\ call \in Calls /\ OpOK(th, call) /\ call.step = "walk"
      /\ LocalOK(call, next, marked, Inserted) /\ WalkOK(call, next, marked, Inserted)
  BY DEF TableInv, ListTypes, OpsOK, LocalsOK, SearchWalk, At, LocalOK
<1>2. call.op \in {"insert", "search", "delete", "free"} /\ call.key \in Keys
  BY <1>1 DEF OpOK, StepsOf, Searching, Calls
<1>3. /\ Inserted \subseteq Keys /\ Head \notin Inserted /\ Tail \notin Inserted /\ marked \subseteq Inserted
      /\ next \in [Keys \cup {Head} -> Keys \cup {Tail}] /\ Tail \notin freed
      /\ \A node \in Inserted : next[node] \in Inserted \cup {Tail}
  BY Reliable, InsertedNodes DEF TableInv, ListOK
<1>4. /\ p \in Calls /\ p.op = call.op /\ p.key = call.key /\ p.step = "walk"
      /\ p.t = call.t /\ p.ahead = call.ahead
      /\ call.ahead.mark => p.left = call.left /\ p.leftNext = call.leftNext
      /\ ~call.ahead.mark => p.left = call.t /\ p.leftNext = t
  <2>1. call.t \in Keys \cup {Head}
    BY <1>1 DEF Calls
  <2> QED BY <1>1, <2>1, PassedIs
<1>5. p.left \in Inserted \cup {Head} /\ p.left < call.key /\ t \in Inserted \cup {Tail}
  BY <1>1, <1>4 DEF WalkOK
<1>6. Avoided({"misfree", "freed_under"}) => p.left \notin freed /\ t \notin freed
  <2>1. Avoided({"misfree", "freed_under"}) => Holds(call) \cap freed = {}
    BY DEF TableInv, HoldOK
  <2>2. Holds(call) = {t, p.left}
    BY <1>1, <1>4 DEF Holds
  <2> QED BY <2>1, <2>2
<1>7. /\ UNCHANGED <<next, marked, freed, used, faults>>
      /\ \/ t = Tail /\ Go(th, end) /\ UNCHANGED undefined
         \/ /\ t # Tail /\ undefined' = (t \in freed)
            /\ \/ (t \in marked \/ t < call.key) /\ Go(th, on)
               \/ t \notin marked /\ ~(t < call.key) /\ Go(th, end)
  <2>1. UNCHANGED <<next, marked, freed, used, faults>>
    BY DEF SearchWalk
  <2>2. p.ahead.to = t /\ p.key = call.key
    BY <1>4
  <2> QED BY <2>1, <2>2 DEF SearchWalk, Touch, InFront
<1>8. Avoided({"misfree", "freed_under"}) => ~undefined'
  BY <1>6, <1>7, Reliable
<1>9. ASSUME Go(th, end), t = Tail \/ (t \notin marked /\ ~(t < call.key)) PROVE TableInv'
  <2>1. t \in Keys \cup {Tail}
    BY <1>3, <1>5
  <2>2. /\ end \in Calls /\ end.op = call.op /\ end.key = call.key /\ end.left = p.left
        /\ end.leftNext = p.leftNext /\ end.right = t
        /\ end.step = IF p.leftNext = t THEN "check" ELSE "unlink"
    <3> HIDE DEF p, t
    <3> QED BY <1>4, <2>1, ReachedIs
  <2> HIDE DEF end, p
  <2>3. FoundOK(end, Inserted)
    <3>1. call.key <= t
      <4>1. CASE t = Tail
        <5>1. call.key \in Nat /\ Tail \in Nat /\ call.key < Tail
          BY <1>2, Nodes
        <5>2. call.key <= Tail
          BY <5>1
        <5> QED BY <5>2, <4>1
      <4>2. CASE t # Tail
        <5>1. t \in Nat /\ call.key \in Nat /\ ~(t < call.key)
          BY <4>2, <1>9, <2>1, <1>2, Nodes
        <5> QED BY <5>1
      <4> QED BY <4>1, <4>2
    <3> QED BY <1>5, <2>2, <3>1 DEF FoundOK
  <2>4. end.step = "unlink" => UnlinkOK(end, next, marked)
    <3>1. end.step = "unlink" => call.ahead.mark
      BY <1>4, <2>2
    <3> QED BY <3>1, <1>1, <1>4, <2>2 DEF WalkOK, UnlinkOK
  <2>5. LocalOK(end, next, marked, Inserted)
    BY <1>1, <2>2, <2>3, <2>4 DEF LocalOK
  <2>6. Holds(end) = {p.left, t}
    BY <2>2 DEF Holds
  <2>7. end.step \in StepsOf(end.op) /\ end.step \in Searching /\ call.step \in Searching
    BY <1>1, <1>2, <2>2 DEF StepsOf, Searching
  <2>8. end.step # "free" /\ end.step # "return"
    BY <2>2
  <2> HIDE DEF t, call
  <2> QED BY <1>6, <1>7, <1>8, <1>9, <2>2, <2>5, <2>6, <2>7, <2>8, SearchGoesOn DEF call
<1>10. ASSUME Go(th, on), t # Tail, t \in marked \/ t < call.key PROVE TableInv'
  <2>1. t \in Inserted /\ t \in Keys /\ next[t] \in Inserted \cup {Tail} /\ next[t] \in Keys \cup {Tail}
    BY <1>3, <1>5, <1>10
  <2>2. /\ on \in Calls /\ on.op = call.op /\ on.key = call.key /\ on.step = "walk"
        /\ on.t = t /\ on.ahead.to = next[t] /\ on.ahead.mark = (t \in marked)
        /\ on.left = p.left /\ on.leftNext = p.leftNext
    <3> DEFINE new == Load(t)
    <3>1. new \in [to : Keys \cup {Tail}, mark : BOOLEAN] /\ new.to = next[t] /\ new.mark = (t \in marked)
      BY <2>1 DEF Load
    <3>2. on = [p EXCEPT !.t = t, !.ahead = new]
      OBVIOUS
    <3> HIDE DEF new, p, t, on, call
    <3> QED BY <1>4, <2>1, <3>1, <3>2 DEF Calls
  <2> HIDE DEF on, p
  <2>3. WalkOK(on, next, marked, Inserted)
    <3>1. on.ahead.mark => on.leftNext \in marked /\ (on.t = on.leftNext \/ next[on.leftNext] \in marked)
      BY <1>1, <1>4, <2>2 DEF WalkOK
    <3>2. ~on.ahead.mark => t < call.key
      BY <1>10, <2>2
    <3> HIDE DEF t, call
    <3> QED BY <1>5, <2>1, <2>2, <3>1, <3>2 DEF WalkOK
  <2>4. LocalOK(on, next, marked, Inserted)
    BY <1>1, <2>2, <2>3 DEF LocalOK
  <2>5. Avoided({"misfree", "freed_under"}) => Holds(on) \cap freed = {}
    <3>1. Holds(on) = {next[t], IF t \in marked THEN p.left ELSE t}
      BY <2>2 DEF Holds
    <3>2. t \notin freed => next[t] \notin freed
      BY <2>1, Reliable
    <3> HIDE DEF t
    <3> QED BY <1>6, <3>1, <3>2
  <2>6. on.step \in StepsOf(on.op) /\ on.step \in Searching /\ call.step \in Searching
    BY <1>1, <1>2, <2>2 DEF StepsOf, Searching
  <2>7. on.step # "free" /\ on.step # "return"
    BY <2>2
  <2> HIDE DEF t, call
  <2> QED BY <1>7, <1>8, <1>10, <2>2, <2>4, <2>5, <2>6, <2>7, SearchGoesOn DEF call
<1> QED BY <1>7, <1>9, <1>10

LEMMA StepIs ==
  ASSUME NEW c \in Calls,
         NEW s \in {"start", "check", "link", "load", "mark", "detach", "free", "return", "unlock", "collect"}
  PROVE  LET d == [c EXCEPT !.step = s]
         IN /\ d \in Calls /\ d.step = s /\ d.op = c.op /\ d.key = c.key /\ d.t = c.t
            /\ d.ahead = c.ahead /\ d.left = c.left /\ d.leftNext = c.leftNext
            /\ d.right = c.right /\ d.result = c.result
BY DEF Calls

LEMMA ResultIs ==
  ASSUME NEW c \in Calls, NEW s \in {"return"}, NEW result \in BOOLEAN
  PROVE  LET d == [c EXCEPT !.step = s, !.result = result]
         IN d \in Calls /\ d.step = s /\ d.op = c.op /\ d.key = c.key /\ d.result = result
BY DEF Calls

LEMMA CheckKeeps ==
  ASSUME TableInv, Running, NEW th \in Threads, SearchCheck(th)
  PROVE  TableInv'
<1> DEFINE call == calls[th]
<1>1. /\ call \in Calls /\ OpOK(th, call) /\ call.step = "check"
      /\ LocalOK(call, next, marked, Inserted) /\ FoundOK(call, Inserted)
  BY DEF TableInv, ListTypes, OpsOK, LocalsOK, SearchCheck, At, LocalOK
<1>2. call.op \in {"insert", "search", "delete", "free"}
  BY <1>1 DEF OpOK, StepsOf, Searching, Calls
<1>3. /\ UNCHANGED <<next, marked, freed, used, faults>> /\ undefined' = (call.right \in freed)
      /\ Go(th, IF call.right \in marked THEN [call EXCEPT !.step = "start"] ELSE AfterSearch(call))
  BY DEF SearchCheck, Touch
<1>4. Avoided({"misfree", "freed_under"}) => call.left \notin freed /\ call.right \notin freed /\ ~undefined'
  <2>1. Avoided({"misfree", "freed_under"}) => Holds(call) \cap freed = {}
    BY DEF TableInv, HoldOK
  <2>2. Holds(call) = {call.left, call.right}
    BY <1>1 DEF Holds
  <2> QED BY <1>3, <2>1, <2>2
<1>5. CASE call.right \in marked
  BY <1>1, <1>3, <1>4, <1>5, RetryKeeps
<1>6. CASE call.right \notin marked
  <2> DEFINE c == AfterSearch(call)
  <2>1. Go(th, c)
    BY <1>3, <1>6
  <2>2. /\ c \in Calls /\ c.op = call.op /\ c.key = call.key
        /\ \/ call.op = "insert" /\ c.step = "link"
           \/ call.op = "delete" /\ c.step = "load" /\ call.right = call.key
           \/ call.op = "free" /\ c.step = "free"
           \/ call.op \in {"search", "delete"} /\ c.step = "return"
        /\ c.step # "return" => c.left = call.left /\ c.right = call.right
    <3>1. CASE call.op = "insert"
      <4>1. c = [call EXCEPT !.step = "link"]
        BY <3>1 DEF AfterSearch
      <4> HIDE DEF c, call
      <4> QED BY <1>1, <3>1, <4>1, StepIs
    <3>2. CASE call.op = "delete" /\ Found(call)
      <4>1. c = [call EXCEPT !.step = "load"] /\ call.right = call.key
        BY <3>2 DEF AfterSearch, Found
      <4> HIDE DEF c, call
      <4> QED BY <1>1, <3>2, <4>1, StepIs
    <3>3. CASE call.op = "free"
      <4>1. c = [call EXCEPT !.step = "free"]
        BY <3>3 DEF AfterSearch
      <4> HIDE DEF c, call
      <4> QED BY <1>1, <3>3, <4>1, StepIs
    <3>4. CASE call.op \in {"search", "delete"} /\ ~(call.op = "delete" /\ Found(call))
      <4> DEFINE found == Found(call)
      <4>1. c = [call EXCEPT !.step = "return", !.result = found] /\ found \in BOOLEAN
        BY <3>4 DEF AfterSearch, Found
      <4> HIDE DEF c, call, found
      <4> QED BY <1>1, <3>4, <4>1, ResultIs
    <3> QED BY <1>2, <3>1, <3>2, <3>3, <3>4
  <2> HIDE DEF c, call
  <2>3. LocalOK(c, next, marked, Inserted)
    <3>1. c.step # "return" => FoundOK(c, Inserted)
      BY <1>1, <2>2 DEF FoundOK
    <3>2. c.op = "free" => c.key \in marked
      BY <1>1, <2>2 DEF LocalOK
    <3>3. c.op = "free" /\ c.step = "free" => c.right # c.key
      BY <1>6, <2>2, <3>2
    <3>4. c.step = "load" => c.right = c.key
      BY <2>2
    <3>5. c.step \in {"link", "load", "free", "return"} /\ (c.step = "free" => c.op # "delete")
      BY <2>2
    <3> QED BY <3>1, <3>2, <3>3, <3>4, <3>5 DEF LocalOK
  <2>4. Avoided({"misfree", "freed_under"}) => Holds(c) \cap freed = {}
    <3>1. CASE c.step \in {"link", "load"}
      <4>1. Holds(c) = {call.left, call.right}
        BY <2>2, <3>1 DEF Holds
      <4> QED BY <1>4, <4>1
    <3>2. CASE c.step \in {"free", "return"}
      BY <3>2 DEF Holds
    <3> QED BY <2>2, <3>1, <3>2
  <2>5. c.step \in StepsOf(c.op)
    BY <2>2 DEF StepsOf
  <2>6. call.step \in Searching
    BY <1>1 DEF Searching
  <2>7. c.step = "free" => c.op = "free"
    BY <2>2
  <2>8. c.step = "return" => c.op \in {"search", "delete"}
    BY <2>2
  <2>9. c.step \in {"link", "load", "free", "return"}
    BY <2>2
  <2> QED BY <1>3, <1>4, <2>1, <2>2, <2>3, <2>4, <2>5, <2>6, <2>7, <2>8, <2>9, SearchGoesOn DEF call
<1> QED BY <1>5, <1>6

LEMMA LoadKeeps ==
  ASSUME TableInv, Running, NEW th \in Threads, DeleteLoad(th)
  PROVE  TableInv'
<1> DEFINE call == calls[th]
           c    == [call EXCEPT !.step = "mark", !.ahead = Load(call.right)]
<1>1. /\ call \in Calls /\ OpOK(th, call) /\ call.step = "load"
      /\ LocalOK(call, next, marked, Inserted) /\ FoundOK(call, Inserted) /\ call.right = call.key
  BY DEF TableInv, ListTypes, OpsOK, LocalsOK, DeleteLoad, At, LocalOK
<1>2. call.op = "delete" /\ call.key \in Keys
  BY <1>1 DEF OpOK, StepsOf, Searching, Calls
<1>3. /\ UNCHANGED <<next, marked, freed, used, faults>> /\ undefined' = (call.right \in freed)
      /\ Go(th, IF call.right \in marked THEN [call EXCEPT !.step = "start"] ELSE c)
  BY DEF DeleteLoad, Touch
<1>4. Avoided({"misfree", "freed_under"}) => call.left \notin freed /\ call.right \notin freed /\ ~undefined'
  <2>1. Avoided({"misfree", "freed_under"}) => Holds(call) \cap freed = {}
    BY DEF TableInv, HoldOK
  <2>2. Holds(call) = {call.left, call.right}
    BY <1>1 DEF Holds
  <2> QED BY <1>3, <2>1, <2>2
<1>5. CASE call.right \in marked
  BY <1>1, <1>3, <1>4, <1>5, RetryKeeps
<1>6. CASE call.right \notin marked
  <2>1. Go(th, c)
    BY <1>3, <1>6
  <2>2. /\ c \in Calls /\ c.op = call.op /\ c.key = call.key /\ c.step = "mark"
        /\ c.left = call.left /\ c.right = call.right /\ c.ahead.mark = FALSE
    <3> DEFINE new == Load(call.right)
    <3>1. new \in [to : Keys \cup {Tail}, mark : BOOLEAN] /\ new.mark = FALSE
      <4>1. call.right \in Keys /\ next[call.right] \in Keys \cup {Tail}
        BY <1>1, <1>2, InsertedNodes DEF TableInv
      <4>2. (call.right \in marked) = FALSE
        BY <1>6
      <4> QED BY <4>1, <4>2 DEF Load
    <3>2. c = [call EXCEPT !.step = "mark", !.ahead = new]
      OBVIOUS
    <3> HIDE DEF new, c, call
    <3> QED BY <1>1, <3>1, <3>2 DEF Calls
  <2> HIDE DEF c, call
  <2>3. LocalOK(c, next, marked, Inserted)
    <3>1. FoundOK(c, Inserted)
      BY <1>1, <2>2 DEF FoundOK
    <3> QED BY <1>1, <1>2, <2>2, <3>1 DEF LocalOK
  <2>4. Holds(c) = {call.left, call.right}
    BY <2>2 DEF Holds
  <2>5. c.step \in StepsOf(c.op)
    BY <1>2, <2>2 DEF StepsOf
  <2> QED BY <1>1, <1>3, <1>4, <2>1, <2>2, <2>3, <2>4, <2>5, SearchGoesOn DEF call
<1> QED BY <1>5, <1>6

-----------------------------------------------------------------------------
(***************************************************************************)
(* The steps that change the list: unlinking, linking, marking, freeing.   *)
(***************************************************************************)

\* Whoever unlinks a marked node unlinks the one that is being deleted.
LEMMA UnlinkEffect ==
  ASSUME TableInv, Running, NEW left \in (Inserted \cup {Head}) \ marked, next[left] \in marked,
         next' = [next EXCEPT ![left] = next[next[left]]]
  PROVE  /\ next[left] \in Deleting(Io) /\ next' \in Pointers
         /\ Linked' = Linked \ {next[left]}
         /\ \A node \in marked : next'[node] = next[node]
         /\ \A node \in Inserted \cup {Head} : next'[node] \in Inserted \cup {Tail}
<1> DEFINE node == next[left]
<1>1. /\ ListTypes /\ marked \subseteq Inserted
      /\ \A n \in Inserted \cup {Head} : next[n] \in Inserted \cup {Tail}
  BY DEF TableInv, ListOK
<1>2. /\ Inserted \subseteq Keys /\ Tail \notin Inserted /\ next \in Pointers
      /\ next \in [Keys \cup {Head} -> Keys \cup {Tail}]
  BY <1>1, InsertedNodes DEF ListTypes
<1>3. left \in Linked \cup {Head} /\ node \in Linked /\ Linked = Walk(next)
  BY <1>1, <1>2, Reliable
<1>4. node \in Deleting(Io)
  BY <1>3, Reliable
<1>5. next' \in Pointers /\ Walk(next') = Walk(next) \ {node}
  BY <1>2, <1>3, WalkLoses
<1>6. Linked' = Linked \ {node}
  BY <1>3, <1>5, LinkedIsWalk
<1>7. \A n \in (Inserted \cup {Head}) \ {left} : next'[n] = next[n]
  BY <1>2
<1>8. next'[left] = next[node]
  BY <1>2
<1> QED BY <1>1, <1>4, <1>5, <1>6, <1>7, <1>8

LEMMA UnlinkingKeeps ==
  ASSUME TableInv, Running, NEW th \in Threads, NEW c \in Calls, Go(th, c), OpOK(th, c),
         c.op = calls[th].op, c.key = calls[th].key, calls[th].step \in {"unlink", "detach"},
         th = "acceptor" => c.step # "return",
         th = "io" => /\ Deleting(c) = Deleting(Io) /\ c.step \notin {"return", "collect"}
                      /\ c.step = "free" => c.key \notin Linked',
         NEW left \in (Inserted \cup {Head}) \ marked, next[left] \in marked,
         next' = [next EXCEPT ![left] = next[next[left]]],
         LocalOK(c, next', marked, Inserted), Holds(c) \subseteq Holds(calls[th]),
         UNCHANGED <<marked, freed, used, faults>>, Avoided({"misfree", "freed_under"}) => ~undefined'
  PROVE  TableInv'
<1>1. Threads = {"io", "acceptor"} /\ ListTypes /\ ListOK /\ FreedOK /\ HoldOK
  BY InsertedNodes DEF TableInv
<1>2. calls' = [calls EXCEPT ![th] = c] /\ calls \in [Threads -> Calls]
  BY <1>1 DEF Go, ListTypes
<1>3. th = "acceptor" => Acc' = c /\ Io' = Io /\ Acc = calls[th]
  BY <1>1, <1>2 DEF Acc, Io
<1>4. th = "io" => Io' = c /\ Acc' = Acc /\ Io = calls[th]
  BY <1>1, <1>2 DEF Acc, Io
<1>5. Inserted' = Inserted
  BY <1>1, <1>3, <1>4 DEF Inserted, Inserting
<1>6. /\ next' \in Pointers /\ Linked' = Linked \ {next[left]}
      /\ \A node \in marked : next'[node] = next[node]
      /\ \A node \in Inserted \cup {Head} : next'[node] \in Inserted \cup {Tail}
  BY UnlinkEffect
<1>7. /\ calls' \in [Threads -> Calls] /\ calls'[th] = c
      /\ \A other \in Threads \ {th} : calls'[other] = calls[other]
      /\ OpsOK' /\ LocalsOK'
  BY <1>5, <1>6, CallsChange
<1>8. ListTypes'
  BY <1>1, <1>6, <1>7 DEF ListTypes
<1>9. \A set : Avoided(set)' = Avoided(set)
  BY DEF Avoided
<1>10. ListOK'
  <2>1. /\ \A node \in Inserted' \cup {Head} : next'[node] \in Inserted' \cup {Tail}
        /\ marked' \subseteq Inserted' /\ Inserted' \ marked' \subseteq Linked'
    BY <1>1, <1>5, <1>6 DEF ListOK
  <2>2. Acc'.op = "insert" => Acc'.key \in used'
    BY <1>1, <1>3, <1>4 DEF ListOK
  <2>3. Io'.op = "free" /\ Io'.step = "return" => ~Avoided({"misfree"})'
    BY <1>1, <1>3, <1>4, <1>9 DEF ListOK
  <2>4. Io'.op = "delete" /\ Io'.step = "free" => Io'.key \notin Linked'
    BY <1>1, <1>3, <1>4, <1>6 DEF ListOK
  <2>5. Io'.step = "collect" => Io'.t \in (Inserted' \ marked') \cup {Head}
    BY <1>1, <1>3, <1>4, <1>5 DEF ListOK
  <2> QED BY <2>1, <2>2, <2>3, <2>4, <2>5 DEF ListOK
<1>11. FreedOK'
  <2>1. Deleting(Io') = Deleting(Io) /\ Deleting(Io) \subseteq marked
    BY <1>1, <1>3, <1>4, Reliable DEF FreedOK
  <2> QED BY <1>1, <1>6, <2>1, Reliable DEF FreedOK
<1>12. HoldOK'
  <2> SUFFICES ASSUME Avoided({"misfree", "freed_under"})'
               PROVE  ~undefined' /\ \A other \in Threads : Holds(calls'[other]) \cap freed' = {}
    BY DEF HoldOK
  <2>1. Avoided({"misfree", "freed_under"})
    BY DEF Avoided
  <2> QED BY <1>1, <1>7, <2>1 DEF HoldOK
<1> QED BY <1>7, <1>8, <1>10, <1>11, <1>12 DEF TableInv

LEMMA SearchUnlinkKeeps ==
  ASSUME TableInv, Running, NEW th \in Threads, SearchUnlink(th)
  PROVE  TableInv'
<1> DEFINE call == calls[th]
           c    == [call EXCEPT !.step = "check"]
<1>1. /\ call \in Calls /\ OpOK(th, call) /\ call.step = "unlink"
      /\ LocalOK(call, next, marked, Inserted) /\ FoundOK(call, Inserted) /\ UnlinkOK(call, next, marked)
  BY DEF TableInv, ListTypes, OpsOK, LocalsOK, SearchUnlink, At, LocalOK
<1>2. call.op \in {"insert", "search", "delete", "free"}
  BY <1>1 DEF OpOK, StepsOf, Searching, Calls
<1>3. UNCHANGED <<marked, freed, used, faults>> /\ undefined' = (call.left \in freed)
  BY DEF SearchUnlink, Touch
<1>4. Holds(call) = {call.left, call.right}
  BY <1>1 DEF Holds
<1>5. Avoided({"misfree", "freed_under"}) => ~undefined'
  BY <1>3, <1>4 DEF TableInv, HoldOK
<1>6. CASE ~CAS(call.left, Unmarked(call.leftNext))
  <2>1. Go(th, [call EXCEPT !.step = "start"]) /\ UNCHANGED next
    BY <1>6 DEF SearchUnlink
  <2> QED BY <1>1, <1>3, <1>5, <2>1, RetryKeeps
<1>7. CASE CAS(call.left, Unmarked(call.leftNext))
  <2>1. Go(th, c) /\ next' = [next EXCEPT ![call.left] = call.right]
    BY <1>7 DEF SearchUnlink
  <2>2. next[call.left] = call.leftNext /\ call.left \notin marked
    BY <1>7 DEF CAS, Load, Unmarked
  <2>3. /\ c \in Calls /\ c.op = call.op /\ c.key = call.key /\ c.step = "check"
        /\ c.left = call.left /\ c.right = call.right
    <3> HIDE DEF call
    <3> QED BY <1>1, StepIs
  <2> HIDE DEF c, call
  <2>4. call.left \in (Inserted \cup {Head}) \ marked /\ next[call.left] \in marked
    BY <1>1, <2>2 DEF FoundOK, UnlinkOK
  <2>5. next[call.leftNext] = call.right
    <3>1. /\ Linked \subseteq Inserted /\ Linked = Walk(next) /\ Leads(next, Linked)
          /\ \A node \in (Inserted \cup {Head}) \ marked : next[node] \in Linked \cup {Tail}
          /\ \A node \in Linked \cap marked : node \in Deleting(Io)
      BY Reliable
    <3>2. marked \subseteq Inserted /\ Inserted \subseteq Keys /\ Tail \notin Inserted /\ next \in Pointers
      BY InsertedNodes DEF TableInv, ListOK, ListTypes
    <3>3. call.leftNext \in Linked /\ call.leftNext \in marked
      BY <2>2, <2>4, <3>1, <3>2
    <3>4. call.leftNext < next[call.leftNext] /\ call.leftNext \in Keys
      BY <3>2, <3>3 DEF Pointers
    <3>5. ASSUME next[call.leftNext] \in marked PROVE FALSE
      <4>1. next[call.leftNext] \in Linked
        BY <3>1, <3>2, <3>3, <3>5 DEF Leads
      <4>2. next[call.leftNext] \in Deleting(Io) /\ call.leftNext \in Deleting(Io)
        BY <3>1, <3>3, <3>5, <4>1
      <4>3. next[call.leftNext] = call.leftNext
        BY <4>2 DEF Deleting
      <4>4. call.leftNext \in Nat
        BY <3>4, Nodes
      <4> QED BY <3>4, <4>3, <4>4
    <3> QED BY <1>1, <3>5 DEF UnlinkOK
  <2>6. next' = [next EXCEPT ![call.left] = next[next[call.left]]]
    BY <2>1, <2>2, <2>5
  <2>7. LocalOK(c, next', marked, Inserted)
    <3>1. FoundOK(c, Inserted)
      BY <1>1, <2>3 DEF FoundOK
    <3>2. c.op = "free" => c.key \in marked
      BY <1>1, <2>3 DEF LocalOK
    <3> QED BY <2>3, <3>1, <3>2 DEF LocalOK
  <2>8. Holds(c) \subseteq Holds(call)
    BY <1>4, <2>3 DEF Holds
  <2>9. OpOK(th, c)
    <3>1. c.step \in StepsOf(c.op)
      BY <1>2, <2>3 DEF StepsOf, Searching
    <3> QED BY <1>1, <2>3, <3>1 DEF OpOK
  <2>10. th = "io" => /\ Deleting(c) = Deleting(Io) /\ c.step \notin {"return", "collect"}
                      /\ c.step = "free" => c.key \notin Linked'
    BY <1>1, <2>3 DEF Deleting, Io, call
  <2> QED BY <1>1, <1>3, <1>5, <2>1, <2>3, <2>4, <2>6, <2>7, <2>8, <2>9, <2>10, UnlinkingKeeps DEF call
<1> QED BY <1>6, <1>7

LEMMA DetachKeeps ==
  ASSUME TableInv, Running, NEW th \in Threads, DeleteDetach(th)
  PROVE  TableInv'
<1> DEFINE call == calls[th]
           c    == [call EXCEPT !.step = "free"]
           d    == SearchAgain(call)
<1>1. /\ call \in Calls /\ OpOK(th, call) /\ call.step = "detach"
      /\ LocalOK(call, next, marked, Inserted) /\ FoundOK(call, Inserted)
      /\ call.right = call.key /\ call.key \in marked /\ call.ahead.to = next[call.key]
  BY DEF TableInv, ListTypes, OpsOK, LocalsOK, DeleteDetach, At, LocalOK
<1>2. call.op = "delete" /\ call.key \in Keys /\ th = "io"
  BY <1>1, InsertedNodes DEF OpOK, StepsOf, OpsOf, Searching, Calls, TableInv
<1>3. UNCHANGED <<marked, freed, used, faults>> /\ undefined' = (call.left \in freed)
  BY DEF DeleteDetach, Touch
<1>4. Holds(call) = {call.left, call.right}
  BY <1>1 DEF Holds
<1>5. Avoided({"misfree", "freed_under"}) => ~undefined'
  BY <1>3, <1>4 DEF TableInv, HoldOK
<1>6. CASE ~CAS(call.left, Unmarked(call.right))
  <2>1. Go(th, d) /\ UNCHANGED next
    BY <1>6 DEF DeleteDetach
  <2>2. d \in Calls /\ d.op = "free" /\ d.key = call.key /\ d.step = "start"
    BY <1>2, NewCall DEF SearchAgain
  <2> HIDE DEF call, d
  <2>3. OpOK(th, d)
    BY <1>2, <2>2 DEF OpOK, OpsOf, StepsOf, Searching
  <2>4. LocalOK(d, next, marked, Inserted)
    BY <1>1, <2>2 DEF LocalOK
  <2>5. Holds(d) = {}
    BY <2>2 DEF Holds
  <2>6. Deleting(d) = Deleting(Io)
    BY <1>1, <1>2, <2>2 DEF Deleting, Io, call
  <2>7. Avoided({"misfree"})' /\ (Avoided({"misfree", "freed_under"})' => Avoided({"misfree", "freed_under"}))
    BY <1>3, Reliable DEF Avoided
  <2>8. used \subseteq Keys
    BY DEF TableInv, ListTypes
  <2> QED BY <1>2, <1>3, <1>5, <2>1, <2>2, <2>3, <2>4, <2>5, <2>6, <2>7, <2>8, QuietKeeps
<1>7. CASE CAS(call.left, Unmarked(call.right))
  <2>1. Go(th, c) /\ next' = [next EXCEPT ![call.left] = call.ahead.to]
    BY <1>7 DEF DeleteDetach
  <2>2. next[call.left] = call.right /\ call.left \notin marked
    BY <1>7 DEF CAS, Load, Unmarked
  <2>3. /\ c \in Calls /\ c.op = call.op /\ c.key = call.key /\ c.step = "free"
        /\ c.left = call.left /\ c.right = call.right
    <3> HIDE DEF call
    <3> QED BY <1>1, StepIs
  <2> HIDE DEF c, call
  <2>4. call.left \in (Inserted \cup {Head}) \ marked /\ next[call.left] \in marked
    BY <1>1, <2>2 DEF FoundOK
  <2>5. next' = [next EXCEPT ![call.left] = next[next[call.left]]]
    BY <1>1, <2>1, <2>2
  <2>6. LocalOK(c, next', marked, Inserted)
    <3>1. FoundOK(c, Inserted)
      BY <1>1, <2>3 DEF FoundOK
    <3> QED BY <1>1, <1>2, <2>3, <3>1 DEF LocalOK
  <2>7. Holds(c) = {}
    BY <2>3 DEF Holds
  <2>8. OpOK(th, c)
    <3>1. c.step \in StepsOf(c.op)
      BY <1>2, <2>3 DEF StepsOf
    <3> QED BY <1>1, <2>3, <3>1 DEF OpOK
  <2>9. c.key \notin Linked'
    BY <1>1, <2>2, <2>3, <2>4, <2>5, UnlinkEffect
  <2>10. Deleting(c) = Deleting(Io)
    BY <1>1, <1>2, <2>3 DEF Deleting, Io, call
  <2> QED BY <1>1, <1>2, <1>3, <1>5, <2>1, <2>3, <2>4, <2>5, <2>6, <2>7, <2>8, <2>9, <2>10, UnlinkingKeeps DEF call
<1> QED BY <1>6, <1>7

LEMMA LinkKeeps ==
  ASSUME TableInv, Running, NEW th \in Threads, InsertLink(th)
  PROVE  TableInv'
<1> DEFINE call == calls[th]
           c    == [call EXCEPT !.step = "return", !.result = TRUE]
<1>1. /\ call \in Calls /\ OpOK(th, call) /\ call.step = "link"
      /\ LocalOK(call, next, marked, Inserted) /\ FoundOK(call, Inserted)
  BY DEF TableInv, ListTypes, OpsOK, LocalsOK, InsertLink, At, LocalOK
<1>2. call.op = "insert" /\ call.key \in Keys /\ th = "acceptor"
  BY <1>1, InsertedNodes DEF OpOK, StepsOf, OpsOf, Searching, Calls, TableInv
<1>3. UNCHANGED <<marked, freed, used, faults>> /\ undefined' = (call.left \in freed)
  BY DEF InsertLink, Touch
<1>4. Holds(call) = {call.left, call.right}
  BY <1>1 DEF Holds
<1>5. Avoided({"misfree", "freed_under"}) => ~undefined'
  BY <1>3, <1>4 DEF TableInv, HoldOK
<1>6. CASE ~CAS(call.left, Unmarked(call.right))
  <2>1. Go(th, [call EXCEPT !.step = "start"]) /\ UNCHANGED next
    BY <1>6 DEF InsertLink
  <2> QED BY <1>1, <1>3, <1>5, <2>1, RetryKeeps
<1>7. CASE CAS(call.left, Unmarked(call.right))
  <2>1. Go(th, c) /\ next' = [next EXCEPT ![call.left] = call.key, ![call.key] = call.right]
    BY <1>7 DEF InsertLink
  <2>2. next[call.left] = call.right /\ call.left \notin marked
    BY <1>7 DEF CAS, Load, Unmarked
  <2>3. c \in Calls /\ c.op = "insert" /\ c.key = call.key /\ c.step = "return"
    <3> HIDE DEF call
    <3> QED BY <1>1, <1>2, ResultIs
  <2> DEFINE key == call.key
             left == call.left
  <2> HIDE DEF c, call
  <2>4. /\ Threads = {"io", "acceptor"} /\ ListTypes /\ ListOK /\ FreedOK /\ HoldOK
        /\ Inserted \subseteq Keys /\ Tail \notin Inserted /\ next \in Pointers
        /\ next \in [Keys \cup {Head} -> Keys \cup {Tail}] /\ Head \notin Inserted
    BY InsertedNodes DEF TableInv, ListTypes
  <2>5. Acc = call /\ key \in used /\ key \notin Inserted
    <3>1. Acc = call
      BY <1>2 DEF Acc, call
    <3>2. key \in Inserting(Acc)
      BY <1>1, <1>2, <3>1 DEF Inserting
    <3> QED BY <1>2, <2>4, <3>1, <3>2 DEF Inserted, ListOK
  <2>6. /\ calls' \in [Threads -> Calls] /\ calls' = [calls EXCEPT ![th] = c]
        /\ Acc' = c /\ Io' = Io
    BY <1>2, <2>1, <2>3, <2>4 DEF Go, ListTypes, Acc, Io
  <2>7. Inserted' = Inserted \cup {key}
    <3>1. Inserting(Acc) = {key} /\ Inserting(Acc') = {}
      BY <1>1, <1>2, <2>3, <2>5, <2>6 DEF Inserting
    <3>2. Inserted' = used \ Inserting(Acc')
      BY <1>3 DEF Inserted
    <3> QED BY <2>5, <3>1, <3>2 DEF Inserted
  <2>8. left \in Linked \cup {Head} /\ key \notin Linked /\ Linked = Walk(next) /\ freed \subseteq marked
    BY <1>1, <2>2, <2>5, Reliable DEF FoundOK
  <2>9. key < next[left] /\ left < key
    <3>1. call.right # key /\ call.right \in Keys \cup {Tail}
      BY <1>1, <1>2, <2>4, <2>5, Nodes DEF FoundOK
    <3>2. key \in Nat /\ call.right \in Nat
      BY <1>2, <3>1, Nodes
    <3> QED BY <1>1, <2>2, <3>1, <3>2 DEF FoundOK
  <2>10. next' = [next EXCEPT ![left] = key, ![key] = next[left]]
    BY <2>1, <2>2
  <2>11. /\ \A node \in (Keys \cup {Head}) \ {left, key} : next'[node] = next[node]
         /\ next'[left] = key /\ left # key
         /\ next'[key] = next[left] /\ next' \in [Keys \cup {Head} -> Keys \cup {Tail}]
    <3>1. key \in Keys /\ key \in Nat /\ left \in Keys \cup {Head} /\ left \in Nat
      BY <1>1, <1>2, <2>4, Nodes DEF FoundOK
    <3>2. left # key
      BY <2>9, <3>1
    <3> HIDE DEF left, key
    <3> QED BY <2>4, <2>10, <3>1, <3>2
  <2>12. next' \in Pointers /\ Walk(next') = Walk(next) \cup {key}
    <3>1. left \in Walk(next) \cup {Head} /\ key \in Keys \ Walk(next)
      BY <1>2, <2>8
    <3> HIDE DEF left, key
    <3> QED BY <2>4, <2>9, <2>11, <3>1, WalkGains
  <2>13. Linked' = Linked \cup {key}
    BY <2>8, <2>12, LinkedIsWalk
  <2>14. marked \subseteq Inserted /\ left \notin marked /\ key \notin marked
    BY <2>2, <2>4, <2>5 DEF ListOK
  <2>15. \A node \in marked : next'[node] = next[node]
    BY <2>4, <2>11, <2>14
  <2>16. LocalOK(c, next', marked', Inserted')
    BY <2>3 DEF LocalOK
  <2>17. OpOK(th, c)
    <3>1. c.step \in StepsOf(c.op)
      BY <2>3 DEF StepsOf
    <3> QED BY <1>1, <1>2, <2>3, <3>1 DEF OpOK
  <2>18. /\ calls'[th] = c
         /\ \A other \in Threads \ {th} : calls'[other] = calls[other]
         /\ OpsOK' /\ LocalsOK'
    BY <1>3, <2>1, <2>3, <2>7, <2>15, <2>16, <2>17, CallsChange
  <2>19. ListTypes'
    BY <1>3, <2>4, <2>6, <2>12 DEF ListTypes
  <2>20. ListOK'
    <3>1. \A node \in Inserted' \cup {Head} : next'[node] \in Inserted' \cup {Tail}
      <4> SUFFICES ASSUME NEW node \in Inserted \cup {key, Head}
                   PROVE  next'[node] \in Inserted \cup {key, Tail}
        BY <2>7
      <4>1. CASE node \notin {left, key}
        BY <4>1, <2>4, <2>11 DEF ListOK
      <4>2. CASE node = key
        BY <4>2, <1>1, <2>2, <2>11 DEF FoundOK
      <4>3. CASE node = left /\ left # key
        BY <4>3, <2>11
      <4> QED BY <4>1, <4>2, <4>3
    <3>2. marked' \subseteq Inserted' /\ Inserted' \ marked' \subseteq Linked'
      BY <1>3, <2>4, <2>7, <2>13 DEF ListOK
    <3>3. Acc'.key \in used'
      BY <1>3, <2>3, <2>5, <2>6
    <3>4. Io'.op = "free" /\ Io'.step = "return" => ~Avoided({"misfree"})'
      BY <1>3, <2>4, <2>6 DEF ListOK, Avoided
    <3>5. Io'.op = "delete" /\ Io'.step = "free" => Io'.key \notin Linked'
      <4>1. Io.op = "delete" /\ Io.step = "free" => Io.key \in marked
        BY <2>4 DEF TableInv, LocalsOK, LocalOK, Io
      <4> QED BY <4>1, <2>4, <2>6, <2>13, <2>14 DEF ListOK
    <3>6. Io'.step = "collect" => Io'.t \in (Inserted' \ marked') \cup {Head}
      BY <1>3, <2>4, <2>6, <2>7, <2>14 DEF ListOK
    <3> QED BY <3>1, <3>2, <3>3, <3>4, <3>5, <3>6 DEF ListOK
  <2>21. FreedOK'
    <3>1. Deleting(Io') = Deleting(Io) /\ Deleting(Io) \subseteq marked
      BY <2>4, <2>6, Reliable DEF FreedOK
    <3>2. Avoided({"misfree"})
      BY Reliable
    <3> QED BY <1>3, <2>4, <2>8, <2>13, <2>14, <2>15, <3>1, <3>2 DEF FreedOK
  <2>22. HoldOK'
    <3> SUFFICES ASSUME Avoided({"misfree", "freed_under"})'
                 PROVE  ~undefined' /\ \A other \in Threads : Holds(calls'[other]) \cap freed' = {}
      BY DEF HoldOK
    <3>1. Avoided({"misfree", "freed_under"})
      BY <1>3 DEF Avoided
    <3>2. Holds(c) = {}
      BY <2>3 DEF Holds
    <3> QED BY <1>3, <1>5, <2>4, <2>18, <3>1, <3>2 DEF HoldOK
  <2> QED BY <2>18, <2>19, <2>20, <2>21, <2>22 DEF TableInv
<1> QED BY <1>6, <1>7

LEMMA MarkKeeps ==
  ASSUME TableInv, Running, NEW th \in Threads, DeleteMark(th)
  PROVE  TableInv'
<1> DEFINE call == calls[th]
           c    == [call EXCEPT !.step = "detach"]
<1>1. /\ call \in Calls /\ OpOK(th, call) /\ call.step = "mark"
      /\ LocalOK(call, next, marked, Inserted) /\ FoundOK(call, Inserted)
      /\ call.right = call.key /\ ~call.ahead.mark
  BY DEF TableInv, ListTypes, OpsOK, LocalsOK, DeleteMark, At, LocalOK
<1>2. call.op = "delete" /\ call.key \in Keys /\ th = "io"
  BY <1>1, InsertedNodes DEF OpOK, StepsOf, OpsOf, Searching, Calls, TableInv
<1>3. UNCHANGED <<next, freed, used, faults>> /\ undefined' = (call.right \in freed)
  BY DEF DeleteMark, Touch
<1>4. Holds(call) = {call.left, call.right}
  BY <1>1 DEF Holds
<1>5. Avoided({"misfree", "freed_under"}) => ~undefined'
  BY <1>3, <1>4 DEF TableInv, HoldOK
<1>6. CASE ~CAS(call.right, call.ahead)
  <2>1. Go(th, [call EXCEPT !.step = "start"]) /\ UNCHANGED marked
    BY <1>6 DEF DeleteMark
  <2> QED BY <1>1, <1>3, <1>5, <2>1, RetryKeeps
<1>7. CASE CAS(call.right, call.ahead)
  <2>1. Go(th, c) /\ marked' = marked \cup {call.key}
    BY <1>1, <1>7 DEF DeleteMark
  <2>2. call.ahead.to = next[call.key] /\ call.key \notin marked
    <3>1. call.ahead = [to |-> next[call.key], mark |-> call.key \in marked]
      BY <1>1, <1>7 DEF CAS, Load
    <3>2. call.ahead.to = next[call.key] /\ call.ahead.mark = (call.key \in marked)
      BY <3>1
    <3> QED BY <1>1, <3>2
  <2>3. /\ c \in Calls /\ c.op = call.op /\ c.key = call.key /\ c.step = "detach"
        /\ c.left = call.left /\ c.right = call.right /\ c.ahead = call.ahead
    <3> HIDE DEF call
    <3> QED BY <1>1, StepIs
  <2> DEFINE key == call.key
  <2> HIDE DEF c, call
  <2>4. /\ Threads = {"io", "acceptor"} /\ ListTypes /\ ListOK /\ FreedOK /\ HoldOK
        /\ Inserted \subseteq Keys /\ Tail \notin Inserted
    BY InsertedNodes DEF TableInv
  <2>5. /\ calls' \in [Threads -> Calls] /\ calls' = [calls EXCEPT ![th] = c]
        /\ Acc' = Acc /\ Io' = c /\ Io = call
    BY <1>2, <2>1, <2>3, <2>4 DEF Go, ListTypes, Acc, Io, call
  <2>6. Inserted' = Inserted
    BY <1>3, <2>5 DEF Inserted
  <2>7. key \in Inserted
    BY <1>1, <1>2, Nodes DEF FoundOK
  <2>8. LocalOK(c, next', marked', Inserted')
    <3>1. FoundOK(c, Inserted')
      BY <1>1, <2>3, <2>6 DEF FoundOK
    <3> QED BY <1>1, <1>2, <1>3, <2>1, <2>2, <2>3, <3>1 DEF LocalOK
  <2>9. OpOK(th, c)
    <3>1. c.step \in StepsOf(c.op)
      BY <1>2, <2>3 DEF StepsOf
    <3> QED BY <1>1, <2>3, <3>1 DEF OpOK
  <2>10. /\ calls'[th] = c
         /\ \A other \in Threads \ {th} : calls'[other] = calls[other]
         /\ OpsOK' /\ LocalsOK'
    BY <1>3, <2>1, <2>3, <2>6, <2>8, <2>9, CallsChange
  <2>11. ListTypes'
    BY <1>3, <2>4, <2>5 DEF ListTypes
  <2>12. Linked' = Linked
    BY <1>3, LinkedIsWalk
  <2>13. ListOK'
    <3>1. /\ \A node \in Inserted' \cup {Head} : next'[node] \in Inserted' \cup {Tail}
          /\ marked' \subseteq Inserted' /\ Inserted' \ marked' \subseteq Linked'
      BY <1>3, <2>1, <2>4, <2>6, <2>7, <2>12 DEF ListOK
    <3>2. Acc'.op = "insert" => Acc'.key \in used'
      BY <1>3, <2>4, <2>5 DEF ListOK
    <3>3. Io'.step = "detach"
      BY <2>3, <2>5
    <3> QED BY <3>1, <3>2, <3>3 DEF ListOK
  <2>14. FreedOK'
    <3>1. Deleting(Io) = {} /\ Deleting(Io') = {key}
      BY <1>1, <1>2, <2>3, <2>5 DEF Deleting
    <3>2. Avoided({"misfree"}) /\ key \notin freed /\ next[key] \notin freed
      BY <2>2, <2>7, Reliable
    <3> QED BY <1>3, <2>1, <2>4, <2>12, <3>1, <3>2 DEF FreedOK
  <2>15. HoldOK'
    <3> SUFFICES ASSUME Avoided({"misfree", "freed_under"})'
                 PROVE  ~undefined' /\ \A other \in Threads : Holds(calls'[other]) \cap freed' = {}
      BY DEF HoldOK
    <3>1. Avoided({"misfree", "freed_under"})
      BY <1>3 DEF Avoided
    <3>2. Holds(c) = Holds(call)
      BY <1>4, <2>3 DEF Holds
    <3> QED BY <1>3, <1>5, <2>4, <2>10, <3>1, <3>2 DEF HoldOK, call
  <2> QED BY <2>10, <2>11, <2>13, <2>14, <2>15 DEF TableInv
<1> QED BY <1>6, <1>7

LEMMA FreeKeeps ==
  ASSUME TableInv, Running, NEW th \in Threads, DeleteFree(th)
  PROVE  TableInv'
<1> DEFINE call == calls[th]
           node == call.right
           c    == [call EXCEPT !.step = "return", !.result = TRUE]
<1>1. /\ call \in Calls /\ OpOK(th, call) /\ call.step = "free"
      /\ LocalOK(call, next, marked, Inserted) /\ FoundOK(call, Inserted)
  BY DEF TableInv, ListTypes, OpsOK, LocalsOK, DeleteFree, At, LocalOK
<1>2. call.op \in {"delete", "free"} /\ call.key \in Keys /\ th = "io" /\ Io = call
  BY <1>1, InsertedNodes DEF OpOK, StepsOf, OpsOf, Searching, Calls, TableInv, Io
<1>3. /\ UNCHANGED <<next, marked, used>> /\ freed' = freed \cup {node}
      /\ undefined' = (node = Tail \/ node \in freed) /\ Go(th, c)
      /\ faults' = faults
           \cup (IF node # call.key THEN {"misfree"} ELSE {})
           \cup (IF \E other \in Threads \ {th} : node \in Held(other) THEN {"freed_under"} ELSE {})
  BY DEF DeleteFree
<1>4. c \in Calls /\ c.op = call.op /\ c.key = call.key /\ c.step = "return"
  <2> HIDE DEF call
  <2> QED BY <1>1, ResultIs
<1> HIDE DEF c, call
<1>5. /\ Threads = {"io", "acceptor"} /\ ListTypes /\ ListOK /\ FreedOK /\ HoldOK
      /\ Inserted \subseteq Keys /\ Tail \notin Inserted
  BY InsertedNodes DEF TableInv
<1>6. /\ calls' \in [Threads -> Calls] /\ calls' = [calls EXCEPT ![th] = c]
      /\ Acc' = Acc /\ Io' = c
  BY <1>2, <1>3, <1>4, <1>5 DEF Go, ListTypes, Acc, Io
<1>7. Inserted' = Inserted
  BY <1>3, <1>6 DEF Inserted
<1>8. LocalOK(c, next', marked', Inserted')
  <2>1. c.op = "free" => c.key \in marked
    BY <1>1, <1>4 DEF LocalOK
  <2> QED BY <1>3, <1>4, <2>1 DEF LocalOK
<1>9. OpOK(th, c)
  <2>1. c.step \in StepsOf(c.op)
    BY <1>2, <1>4 DEF StepsOf
  <2> QED BY <1>1, <1>4, <2>1 DEF OpOK
<1>10. /\ calls'[th] = c
       /\ \A other \in Threads \ {th} : calls'[other] = calls[other]
       /\ OpsOK' /\ LocalsOK'
  BY <1>3, <1>4, <1>7, <1>8, <1>9, CallsChange
<1>11. ListTypes'
  <2>1. node \in used \cup {Tail}
    BY <1>1 DEF FoundOK, Inserted
  <2> QED BY <1>3, <1>5, <1>6, <2>1 DEF ListTypes
<1>12. Linked' = Linked
  BY <1>3, LinkedIsWalk
<1>13. call.op = "free" => ~Avoided({"misfree"})'
  <2>1. call.op = "free" => node # call.key
    BY <1>1 DEF LocalOK
  <2>2. call.op = "free" => "misfree" \in faults'
    BY <1>3, <2>1
  <2> QED BY <2>2 DEF Avoided
<1>14. ListOK'
  <2>1. /\ \A n \in Inserted' \cup {Head} : next'[n] \in Inserted' \cup {Tail}
        /\ marked' \subseteq Inserted' /\ Inserted' \ marked' \subseteq Linked'
    BY <1>3, <1>5, <1>7, <1>12 DEF ListOK
  <2>2. Acc'.op = "insert" => Acc'.key \in used'
    BY <1>3, <1>5, <1>6 DEF ListOK
  <2>3. Io'.step = "return" /\ (Io'.op = "free" => ~Avoided({"misfree"})')
    BY <1>4, <1>6, <1>13
  <2> QED BY <2>1, <2>2, <2>3 DEF ListOK
<1>15. CASE call.op = "free"
  <2>1. ~Avoided({"misfree"})' /\ ~Avoided({"misfree", "freed_under"})'
    BY <1>13, <1>15 DEF Avoided
  <2>2. FreedOK' /\ HoldOK'
    BY <2>1 DEF FreedOK, HoldOK
  <2> QED BY <1>10, <1>11, <1>14, <2>2 DEF TableInv
<1>16. CASE call.op = "delete"
  <2>1. node = call.key /\ node \in marked /\ node \notin Linked
    BY <1>1, <1>2, <1>5, <1>16 DEF LocalOK, ListOK
  <2>2. Deleting(Io) = {node} /\ Deleting(Io') = {}
    BY <1>1, <1>2, <1>4, <1>6, <1>16, <2>1 DEF Deleting
  <2>3. FreedOK'
    BY <1>3, <1>5, <1>12, <2>1, <2>2, Reliable DEF FreedOK
  <2>4. HoldOK'
    <3> SUFFICES ASSUME Avoided({"misfree", "freed_under"})'
                 PROVE  ~undefined' /\ \A other \in Threads : Holds(calls'[other]) \cap freed' = {}
      BY DEF HoldOK
    <3>1. Avoided({"misfree", "freed_under"}) /\ ~\E other \in Threads \ {th} : node \in Held(other)
      BY <1>3 DEF Avoided
    <3>2. ~undefined'
      BY <1>2, <1>3, <1>5, <2>1, <2>2, Nodes, Reliable DEF FreedOK
    <3>3. Holds(c) = {}
      BY <1>4 DEF Holds
    <3>4. ASSUME NEW other \in Threads \ {th} PROVE Holds(calls[other]) \cap freed' = {}
      <4>1. calls[other] = Acc /\ Acc.step # "load"
        <5>1. calls[other] = Acc
          BY <1>2, <1>5 DEF Acc
        <5>2. OpOK("acceptor", Acc)
          BY <1>5 DEF TableInv, OpsOK, Acc
        <5>3. Acc.op \in {"none", "insert"} /\ Acc.step \in StepsOf(Acc.op)
          BY <5>2 DEF OpOK, OpsOf
        <5>4. Acc.step # "load"
          <6>1. CASE Acc.op = "none"
            BY <6>1, <5>3 DEF StepsOf
          <6>2. CASE Acc.op = "insert"
            BY <6>2, <5>3 DEF StepsOf, Searching
          <6> QED BY <5>3, <6>1, <6>2
        <5> QED BY <5>1, <5>4
      <4>2. Holds(calls[other]) = Held(other)
        <5>1. CASE calls[other].step = "walk"
          BY <5>1 DEF Holds, Held
        <5>2. CASE calls[other].step \in {"unlink", "check", "link", "mark", "detach"}
          BY <5>2 DEF Holds, Held
        <5>3. CASE calls[other].step \notin {"walk", "unlink", "check", "link", "load", "mark", "detach"}
          BY <5>3 DEF Holds, Held
        <5> QED BY <4>1, <5>1, <5>2, <5>3
      <4>3. Holds(calls[other]) \cap freed = {}
        BY <1>5, <3>1 DEF HoldOK
      <4> QED BY <1>3, <3>1, <4>2, <4>3
    <3> QED BY <1>10, <3>2, <3>3, <3>4
  <2> QED BY <1>10, <1>11, <1>14, <2>3, <2>4 DEF TableInv
<1> QED BY <1>2, <1>15, <1>16

-----------------------------------------------------------------------------
(***************************************************************************)
(* The steps of the table outside its list.                                *)
(***************************************************************************)

\* A step of the table outside the list: of a call that has not begun to search
\* or has nothing to do any more.
LEMMA OutsideKeeps ==
  ASSUME TableInv, Running, NEW th \in Threads, NEW c \in Calls, Go(th, c), OpOK(th, c),
         UNCHANGED <<next, marked, freed>>,
         calls[th].step \in {"idle", "lock", "return", "collect", "unlock", "clear"},
         c.step \in {"idle", "lock", "start", "collect", "unlock", "clear"}, c.op # "free",
         c.step = "lock" => c.t = Head,
         calls[th].op = "free" => calls[th].step = "return",
         Avoided({"misfree"})', Avoided({"misfree", "freed_under"})' => Avoided({"misfree", "freed_under"}),
         used \subseteq used', used' \subseteq Keys,
         th = "acceptor" => used' \ Inserting(c) = Inserted /\ (c.op = "insert" => c.key \in used'),
         th = "io" => used' = used /\ (c.step = "collect" => c.t \in (Inserted \ marked) \cup {Head}),
         Avoided({"misfree", "freed_under"}) => ~undefined'
  PROVE  TableInv'
<1>1. LocalOK(c, next, marked, Inserted) /\ Holds(c) = {}
  BY DEF LocalOK, Holds
<1>2. th = "io" => Deleting(c) = Deleting(Io)
  BY DEF Deleting, Io
<1>3. c.step # "return" /\ c.step # "free"
  OBVIOUS
<1> QED BY <1>1, <1>2, <1>3, QuietKeeps

LEMMA NoFault ==
  ASSUME TableInv, Running, UNCHANGED faults
  PROVE  Avoided({"misfree"})' /\ (Avoided({"misfree", "freed_under"})' => Avoided({"misfree", "freed_under"}))
BY Reliable DEF Avoided

LEMMA StepOfCall ==
  ASSUME TableInv, NEW th \in Threads
  PROVE  /\ calls[th] \in Calls /\ OpOK(th, calls[th]) /\ used \subseteq Keys
         /\ calls[th].step = "idle" => calls[th].op = "none"
         /\ calls[th].step = "lock" => calls[th].op \in {"insert", "search", "delete", "collect"}
         /\ calls[th].step \in {"collect", "unlock", "clear"} => calls[th].op = "collect"
         /\ calls[th].op \in {"none", "insert", "search", "delete", "free", "collect"}
<1>1. calls[th] \in Calls /\ OpOK(th, calls[th]) /\ used \subseteq Keys
  BY DEF TableInv, ListTypes, OpsOK
<1>2. calls[th].op \in {"none", "insert", "search", "delete", "free", "collect"}
  BY <1>1 DEF Calls
<1>3. calls[th].step \in StepsOf(calls[th].op)
  BY <1>1 DEF OpOK
<1>4. CASE calls[th].op = "none"
  BY <1>1, <1>2, <1>3, <1>4 DEF StepsOf
<1>5. CASE calls[th].op = "insert"
  BY <1>1, <1>2, <1>3, <1>5 DEF StepsOf, Searching
<1>6. CASE calls[th].op = "search"
  BY <1>1, <1>2, <1>3, <1>6 DEF StepsOf, Searching
<1>7. CASE calls[th].op = "delete"
  BY <1>1, <1>2, <1>3, <1>7 DEF StepsOf, Searching
<1>8. CASE calls[th].op = "free"
  BY <1>1, <1>2, <1>3, <1>8 DEF StepsOf, Searching
<1>9. CASE calls[th].op = "collect"
  BY <1>1, <1>2, <1>3, <1>9 DEF StepsOf
<1> QED BY <1>2, <1>4, <1>5, <1>6, <1>7, <1>8, <1>9

LEMMA EnterInsertKeeps ==
  ASSUME TableInv, Running, NEW key \in Keys, EnterInsert(key)
  PROVE  TableInv'
<1> DEFINE to == IF locked THEN "lock" ELSE "start"
           c  == Call("insert", key, to)
<1>1. /\ Go("acceptor", c) /\ calls["acceptor"].step = "idle" /\ key \notin used
      /\ used' = used \cup {key} /\ UNCHANGED <<next, marked, freed, undefined, faults>>
  BY DEF EnterInsert, Enter, At
<1>2. to \in {"lock", "start"}
  OBVIOUS
<1> HIDE DEF to
<1>3. c \in Calls /\ c.op = "insert" /\ c.key = key /\ c.step = to /\ c.t = Head
  BY <1>2, NewCall
<1> HIDE DEF c
<1>4. "acceptor" \in Threads
  BY DEF Threads
<1>5. calls["acceptor"].op = "none" /\ used \subseteq Keys
  BY <1>1, <1>4, StepOfCall
<1>6. OpOK("acceptor", c)
  BY <1>2, <1>3 DEF OpOK, OpsOf, StepsOf, Searching
<1>7. used' \ Inserting(c) = Inserted /\ c.key \in used'
  BY <1>1, <1>2, <1>3, <1>5 DEF Inserting, Inserted, Acc
<1>8. ~undefined'
  BY <1>1, Reliable
<1> QED BY <1>1, <1>2, <1>3, <1>4, <1>5, <1>6, <1>7, <1>8, NoFault, OutsideKeeps

LEMMA EnterOnIoThreadKeeps ==
  ASSUME TableInv, Running, NEW key \in Keys, NEW op \in {"search", "delete"}, EnterOnIoThread(op, key)
  PROVE  TableInv'
<1> DEFINE to == IF locked THEN "lock" ELSE "start"
           c  == Call(op, key, to)
<1>1. /\ Go("io", c) /\ calls["io"].step = "idle"
      /\ UNCHANGED <<next, marked, freed, used, undefined, faults>>
  BY DEF EnterOnIoThread, Enter, At
<1>2. to \in {"lock", "start"}
  OBVIOUS
<1> HIDE DEF to
<1>3. c \in Calls /\ c.op = op /\ c.key = key /\ c.step = to /\ c.t = Head
  BY <1>2, NewCall
<1> HIDE DEF c
<1>4. "io" \in Threads
  BY DEF Threads
<1>5. calls["io"].op = "none" /\ used \subseteq Keys
  BY <1>1, <1>4, StepOfCall
<1>6. OpOK("io", c)
  BY <1>2, <1>3 DEF OpOK, OpsOf, StepsOf, Searching
<1>7. ~undefined'
  BY <1>1, Reliable
<1> QED BY <1>1, <1>2, <1>3, <1>4, <1>5, <1>6, <1>7, NoFault, OutsideKeeps

\* A collection: where it begins, takes the lock, walks, leaves the lock and ends.
LEMMA CollectionKeeps ==
  ASSUME TableInv, Running, NEW c \in Calls, Go("io", c),
         c.op \in {"none", "collect"}, c.step \in {"idle", "lock", "collect", "unlock", "clear"},
         c.op = "none" <=> c.step = "idle", c.step = "lock" => c.t = Head,
         calls["io"].step \in {"idle", "lock", "collect", "unlock", "clear"},
         c.step = "collect" => c.t \in (Inserted \ marked) \cup {Head},
         UNCHANGED <<next, marked, freed, used, faults>>, ~undefined'
  PROVE  TableInv'
<1>1. "io" \in Threads
  BY DEF Threads
<1>2. used \subseteq Keys /\ calls["io"].op # "free"
  BY <1>1, StepOfCall
<1>3. OpOK("io", c)
  BY DEF OpOK, OpsOf, StepsOf
<1> QED BY <1>1, <1>2, <1>3, NoFault, OutsideKeeps

LEMMA LockingKeeps ==
  ASSUME TableInv, Running, NEW th \in Threads, SpinlockLock(th)
  PROVE  TableInv'
<1> DEFINE call == calls[th]
           to   == IF call.op = "collect" THEN "collect" ELSE "start"
           c    == [call EXCEPT !.step = to]
<1>1. /\ Go(th, c) /\ call.step = "lock"
      /\ UNCHANGED <<next, marked, freed, used, undefined, faults>>
  BY DEF SpinlockLock, At
<1>2. /\ call \in Calls /\ OpOK(th, call) /\ used \subseteq Keys
      /\ call.op \in {"insert", "search", "delete", "collect"}
  BY <1>1, StepOfCall
<1>3. to \in {"collect", "start"} /\ (to = "collect" <=> call.op = "collect")
  OBVIOUS
<1> HIDE DEF to
<1>4. c \in Calls /\ c.op = call.op /\ c.key = call.key /\ c.step = to /\ c.t = call.t
  <2> HIDE DEF call
  <2>1. call \in Calls /\ to \in {"collect", "start"}
    BY <1>2, <1>3
  <2> QED BY <2>1 DEF Calls
<1> HIDE DEF c
<1>5. OpOK(th, c)
  <2>1. c.step \in StepsOf(c.op)
    BY <1>2, <1>3, <1>4 DEF StepsOf, Searching
  <2> QED BY <1>2, <1>4, <2>1 DEF OpOK
<1>6. th = "acceptor" => used' \ Inserting(c) = Inserted /\ (c.op = "insert" => c.key \in used')
  <2>1. th = "acceptor" => Acc = call
    BY DEF Acc
  <2>2. th = "acceptor" => Inserting(c) = Inserting(Acc)
    BY <1>1, <1>3, <1>4, <2>1 DEF Inserting
  <2> QED BY <1>1, <1>4, <2>1, <2>2 DEF TableInv, ListOK, Inserted
<1>7. c.t = Head
  <2>1. call.step = "lock" => call.t = Head
    BY DEF TableInv, LocalsOK, LocalOK
  <2> QED BY <1>1, <1>4, <2>1
<1>8. ~undefined'
  BY <1>1, Reliable
<1> QED BY <1>1, <1>2, <1>3, <1>4, <1>5, <1>6, <1>7, <1>8, NoFault, OutsideKeeps DEF call

LEMMA LeavingKeeps ==
  ASSUME TableInv, Running, NEW th \in Threads, Leave(th)
  PROVE  TableInv'
<1>1. /\ Go(th, NoCall) /\ calls[th].step = "return"
      /\ UNCHANGED <<next, marked, freed, used, undefined>>
      /\ faults' \subseteq faults \cup {"stray_unlock", "kept"} /\ faults \subseteq faults'
  BY DEF Leave, Fault, At
<1>2. NoCall \in Calls /\ NoCall.op = "none" /\ NoCall.step = "idle"
  BY NewCall DEF NoCall
<1> HIDE DEF NoCall
<1>3. OpOK(th, NoCall) /\ used \subseteq Keys
  BY <1>2, StepOfCall DEF OpOK, OpsOf, StepsOf
<1>4. Avoided({"misfree"})' /\ (Avoided({"misfree", "freed_under"})' => Avoided({"misfree", "freed_under"}))
  BY <1>1, Reliable DEF Avoided
<1>5. th = "acceptor" => used' \ Inserting(NoCall) = Inserted
  BY <1>1, <1>2 DEF Inserting, Inserted, Acc
<1>6. ~undefined'
  BY <1>1, Reliable
<1> QED BY <1>1, <1>2, <1>3, <1>4, <1>5, <1>6, OutsideKeeps

LEMMA BeginCollectKeeps ==
  ASSUME TableInv, Running, EnterCollect
  PROVE  TableInv'
<1> DEFINE c == Call("collect", 0, "lock")
<1>1. /\ Go("io", c) /\ calls["io"].step = "idle"
      /\ UNCHANGED <<next, marked, freed, used, undefined, faults>>
  BY DEF EnterCollect, At
<1>2. c \in Calls /\ c.op = "collect" /\ c.step = "lock" /\ c.t = Head
  BY NewCall
<1>3. ~undefined'
  BY <1>1, Reliable
<1> HIDE DEF c
<1> QED BY <1>1, <1>2, <1>3, CollectionKeeps

\* The walk of a collection stays in the list, where no node is marked: the I/O
\* thread is the one that marks nodes.
LEMMA CollectingFacts ==
  ASSUME TableInv, Running, Collect
  PROVE  LET t == Io.t
         IN /\ Io \in Calls /\ Io.op = "collect" /\ Io.step = "collect"
            /\ t \in Linked \cup {Head} /\ t \notin marked /\ t \notin freed
            /\ next[t] \in (Linked \ marked) \cup {Tail} /\ ~undefined'
            /\ UNCHANGED <<next, marked, freed, used, faults, before>>
            /\ \/ next[t] = Tail /\ Go("io", [Io EXCEPT !.step = "unlock"]) /\ UNCHANGED collected
               \/ /\ next[t] # Tail /\ Go("io", [Io EXCEPT !.t = next[Io.t]])
                  /\ collected' = collected \cup {next[t]}
<1> DEFINE t == Io.t
<1>1. Io = calls["io"] /\ "io" \in Threads /\ Io.step = "collect"
  BY DEF Io, Threads, Collect, At
<1>2. Io \in Calls /\ Io.op = "collect"
  BY <1>1, StepOfCall
<1>3. Deleting(Io) = {}
  BY <1>1, <1>2 DEF Deleting
<1>4. t \in (Inserted \ marked) \cup {Head}
  BY <1>1 DEF TableInv, ListOK
<1>5. marked \subseteq Inserted /\ Head \notin Inserted
  BY InsertedNodes DEF TableInv, ListOK
<1>6. t \in (Inserted \cup {Head}) \ marked
  BY <1>4, <1>5
<1>7. t \in Linked \cup {Head} /\ next[t] \in Linked \cup {Tail} /\ t \notin freed
  BY <1>6, Reliable
<1>8. next[t] \in (Linked \ marked) \cup {Tail}
  BY <1>3, <1>7, Reliable
<1>9. ~undefined'
  BY <1>1, <1>6, <1>7 DEF Collect
<1> QED BY <1>1, <1>2, <1>6, <1>7, <1>8, <1>9 DEF Collect

LEMMA CollectingKeeps ==
  ASSUME TableInv, Running, Collect
  PROVE  TableInv'
<1> DEFINE t   == Io.t
           end == [Io EXCEPT !.step = "unlock"]
           on  == [Io EXCEPT !.t = next[t]]
<1>1. /\ Io \in Calls /\ Io.op = "collect" /\ Io.step = "collect"
      /\ next[t] \in (Linked \ marked) \cup {Tail} /\ ~undefined'
      /\ UNCHANGED <<next, marked, freed, used, faults>>
      /\ (next[t] = Tail /\ Go("io", end)) \/ (next[t] # Tail /\ Go("io", on))
  BY CollectingFacts
<1>2. Io = calls["io"]
  BY DEF Io
<1>3. CASE Go("io", end)
  <2>1. end \in Calls /\ end.op = "collect" /\ end.step = "unlock"
    BY <1>1, StepIs
  <2> HIDE DEF end
  <2> QED BY <1>1, <1>2, <1>3, <2>1, CollectionKeeps
<1>4. CASE next[t] # Tail /\ Go("io", on)
  <2> DEFINE node == next[t]
  <2>1. node \in (Inserted \ marked) /\ node \in Keys
    BY <1>1, <1>4, Reliable, InsertedNodes DEF TableInv
  <2>2. on \in Calls /\ on.op = "collect" /\ on.step = "collect" /\ on.t = node
    <3> HIDE DEF node
    <3>1. on = [Io EXCEPT !.t = node]
      BY DEF node
    <3> QED BY <1>1, <2>1, <3>1 DEF Calls
  <2> HIDE DEF on, node
  <2> QED BY <1>1, <1>2, <1>4, <2>1, <2>2, CollectionKeeps
<1> QED BY <1>1, <1>3, <1>4

LEMMA EndCollectKeeps ==
  ASSUME TableInv, Running, LeaveCollect
  PROVE  TableInv'
<1>1. /\ calls["io"].step \in {"unlock", "clear"}
      /\ UNCHANGED <<next, marked, freed, used, undefined, faults>>
      /\ Go("io", Call("collect", 0, "clear")) \/ Go("io", NoCall)
  BY DEF LeaveCollect, At
<1>2. ~undefined'
  BY <1>1, Reliable
<1>3. NoCall \in Calls /\ NoCall.op = "none" /\ NoCall.step = "idle"
  BY NewCall DEF NoCall
<1> DEFINE c == Call("collect", 0, "clear")
<1>4. c \in Calls /\ c.op = "collect" /\ c.step = "clear"
  BY NewCall
<1> HIDE DEF NoCall, c
<1>5. CASE Go("io", c)
  BY <1>1, <1>2, <1>4, <1>5, CollectionKeeps
<1>6. CASE Go("io", NoCall)
  BY <1>1, <1>2, <1>3, <1>6, CollectionKeeps
<1> QED BY <1>1, <1>5, <1>6 DEF c

LEMMA TableStutterKeeps ==
  ASSUME TableInv, UNCHANGED hashVars
  PROVE  TableInv'
<1>1. UNCHANGED <<next, marked, freed, used, calls, undefined, faults>>
  BY DEF hashVars, listVars
<1>2. Inserted' = Inserted /\ Acc' = Acc /\ Io' = Io
  BY <1>1 DEF Inserted, Acc, Io
<1>3. Linked' = Linked
  BY <1>1, LinkedIsWalk
<1>4. ListTypes' /\ OpsOK'
  BY <1>1 DEF TableInv, ListTypes, OpsOK
<1>5. LocalsOK'
  BY <1>1, <1>2 DEF TableInv, LocalsOK
<1>6. ListOK'
  BY <1>1, <1>2, <1>3 DEF TableInv, ListOK, Avoided
<1>7. FreedOK'
  BY <1>1, <1>2, <1>3 DEF TableInv, FreedOK, Avoided
<1>8. HoldOK'
  BY <1>1 DEF TableInv, HoldOK, Avoided
<1> QED BY <1>4, <1>5, <1>6, <1>7, <1>8 DEF TableInv

LEMMA ListStepKeeps ==
  ASSUME TableInv, Running, NEW th \in Threads, ListStep(th)
  PROVE  TableInv'
BY StartKeeps, WalkKeeps, SearchUnlinkKeeps, CheckKeeps, LinkKeeps, LoadKeeps, MarkKeeps,
   DetachKeeps, FreeKeeps DEF ListStep, InnerSearch

LEMMA TableInductive == TableInv /\ [HashNext]_hashVars => TableInv'
<1> SUFFICES ASSUME TableInv, [HashNext]_hashVars PROVE TableInv'
  OBVIOUS
<1>1. CASE UNCHANGED hashVars
  BY <1>1, TableStutterKeeps
<1>2. CASE HashNext
  <2>1. Running
    BY <1>2 DEF HashNext
  <2>2. CASE Begin
    BY <2>1, <2>2, EnterInsertKeeps, EnterOnIoThreadKeeps, BeginCollectKeeps DEF Begin
  <2>3. CASE \E th \in Threads : SpinlockLock(th) \/ ListOperation(th) \/ Leave(th)
    BY <2>1, <2>3, LockingKeeps, ListStepKeeps, LeavingKeeps DEF ListOperation
  <2>4. CASE Collect \/ LeaveCollect
    BY <2>1, <2>4, CollectingKeeps, EndCollectKeeps
  <2> QED BY <1>2, <2>2, <2>3, <2>4 DEF HashNext
<1> QED BY <1>1, <1>2

LEMMA TableInitially == HashInit => TableInv
<1> SUFFICES ASSUME HashInit PROVE TableInv
  OBVIOUS
<1>1. /\ next = [node \in {Head} \cup Keys |-> Tail] /\ marked = {} /\ freed = {} /\ used = {}
      /\ calls = [th \in Threads |-> NoCall] /\ ~undefined /\ faults = {}
  BY DEF HashInit, ListInit
<1>2. NoCall \in Calls /\ NoCall.op = "none" /\ NoCall.step = "idle"
  BY NewCall DEF NoCall
<1> HIDE DEF NoCall
<1>3. Acc = NoCall /\ Io = NoCall /\ \A th \in Threads : calls[th] = NoCall
  BY <1>1 DEF Acc, Io, Threads
<1>4. Inserted = {}
  BY <1>1 DEF Inserted
<1>5. ListTypes
  BY <1>1, <1>2, Nodes DEF ListTypes, Pointers
<1>6. OpsOK
  BY <1>2, <1>3 DEF OpsOK, OpOK, OpsOf, StepsOf
<1>7. LocalsOK
  BY <1>2, <1>3 DEF LocalsOK, LocalOK
<1>8. ListOK
  BY <1>1, <1>2, <1>3, <1>4 DEF ListOK
<1>9. FreedOK
  <2>1. Deleting(Io) = {}
    BY <1>2, <1>3 DEF Deleting
  <2> QED BY <1>1, <2>1 DEF FreedOK
<1>10. HoldOK
  BY <1>1 DEF HoldOK
<1> QED BY <1>5, <1>6, <1>7, <1>8, <1>9, <1>10 DEF TableInv

-----------------------------------------------------------------------------
(***************************************************************************)
(* What the operations of the I/O thread answer.                           *)
(***************************************************************************)

LockTypes ==
  /\ undefined \in BOOLEAN /\ locked \in BOOLEAN /\ lock \in BOOLEAN
  /\ faults \subseteq {"misfree", "freed_under", "stray_unlock", "kept"}
  /\ holders \subseteq Threads /\ collected \subseteq Keys /\ before \subseteq Keys

\* What the call of the I/O thread has found out.  Before it deletes a key itself,
\* the keys that were there when it began are there; and while no thread has used
\* freed memory, its search meets no marked node, and so passes none of them.
Knows(c, bef, there) ==
  /\ c.step = "walk" => ~c.ahead.mark /\ (c.key \in bef => c.ahead.to <= c.key)
  /\ c.step \in {"unlink", "check"} => (c.key \in bef => c.right = c.key)
  /\ c.step = "return" /\ c.op = "search" => (c.key \in bef => c.result) /\ (c.result => c.key \in there)

SearchOK == ~undefined /\ Io.op \in {"search", "delete"} => Knows(Io, before, Inserted \ marked)

BeforeOK ==
  Io.op # "free" /\ Io.step \notin {"detach", "free", "return", "idle"} => before \subseteq Inserted \ marked

CollectOK ==
  /\ Io.step \notin {"collect", "unlock"} => collected = {}
  /\ Io.step \in {"collect", "unlock"} => collected \subseteq Inserted \ marked
  /\ Io.step = "collect" => \A key \in before : key <= Io.t => key \in collected
  /\ Io.step = "unlock" => before \subseteq collected

DeleteOK ==
  ~undefined /\ Io.step = "return" /\ Io.op \in {"delete", "free"} =>
    Io.key \in marked \/ (Io.key \notin before /\ ~Io.result)

AnswersInv == LockTypes /\ SearchOK /\ BeforeOK /\ CollectOK /\ DeleteOK

LEMMA TypesKept ==
  ASSUME TableInv, Running, LockTypes, HashNext
  PROVE  LockTypes'
<1>1. Present \subseteq Keys
  BY DEF Present, Linked
<1>2. "io" \in Threads /\ \A th \in Threads : th = "io" \/ th = "acceptor"
  BY DEF Threads
<1>3. CASE Begin
  BY <1>1, <1>3 DEF LockTypes, Begin, EnterInsert, EnterOnIoThread, EnterCollect, Enter, flagVars
<1>4. ASSUME NEW th \in Threads, SpinlockLock(th) PROVE LockTypes'
  BY <1>4 DEF LockTypes, SpinlockLock
<1>5. ASSUME NEW th \in Threads, Leave(th) PROVE LockTypes'
  BY <1>5 DEF LockTypes, Leave, Fault
<1>6. ASSUME NEW th \in Threads, ListStep(th), UNCHANGED <<flagVars, collected, before>> PROVE LockTypes'
  <2>1. undefined' \in BOOLEAN
    <3>1. undefined \in BOOLEAN /\ \A node : Touch(node) => undefined' \in BOOLEAN
      <4>1. \A node : (node \in freed) \in BOOLEAN
        OBVIOUS
      <4>2. \A node : Touch(node) => undefined' \in BOOLEAN
        BY <4>1, Zenon DEF Touch
      <4> QED BY <4>2 DEF LockTypes
    <3>2. CASE SearchStart(th)
      BY <3>1, <3>2 DEF SearchStart
    <3>3. CASE SearchWalk(th)
      BY <3>1, <3>3 DEF SearchWalk
    <3>4. CASE SearchUnlink(th) \/ SearchCheck(th)
      BY <3>1, <3>4 DEF SearchUnlink, SearchCheck
    <3>5. CASE InsertLink(th) \/ DeleteLoad(th) \/ DeleteMark(th) \/ DeleteDetach(th)
      BY <3>1, <3>5 DEF InsertLink, DeleteLoad, DeleteMark, DeleteDetach
    <3>6. CASE DeleteFree(th)
      BY <3>6 DEF DeleteFree
    <3> QED BY <1>6, <3>2, <3>3, <3>4, <3>5, <3>6 DEF ListStep, InnerSearch
  <2>2. faults' \subseteq faults \cup {"misfree", "freed_under"}
    BY <1>6 DEF ListStep, InnerSearch, SearchStart, SearchWalk, SearchUnlink, SearchCheck,
                InsertLink, DeleteLoad, DeleteMark, DeleteDetach, DeleteFree
  <2> QED BY <1>6, <2>1, <2>2 DEF LockTypes, flagVars
<1>7. CASE Collect
  <2>1. collected' \subseteq Keys /\ ~undefined'
    <3>1. Linked \subseteq Keys
      BY DEF Linked
    <3> QED BY <1>7, <3>1, CollectingFacts DEF LockTypes
  <2> QED BY <1>7, <2>1 DEF LockTypes, Collect, flagVars
<1>8. CASE LeaveCollect
  BY <1>8 DEF LockTypes, LeaveCollect
<1> QED BY <1>3, <1>4, <1>5, <1>6, <1>7, <1>8 DEF HashNext, ListOperation

\* Steps of the acceptor, to the I/O thread.
LEMMA AnswersStay ==
  ASSUME AnswersInv, LockTypes', Io' = Io, marked' = marked, Inserted \subseteq Inserted',
         UNCHANGED <<before, collected>>, ~undefined' => ~undefined
  PROVE  AnswersInv'
<1>1. SearchOK'
  BY DEF AnswersInv, SearchOK, Knows
<1>2. BeforeOK'
  BY DEF AnswersInv, BeforeOK
<1>3. CollectOK'
  BY DEF AnswersInv, CollectOK
<1>4. DeleteOK'
  BY DEF AnswersInv, DeleteOK
<1> QED BY <1>1, <1>2, <1>3, <1>4 DEF AnswersInv

\* A step of a search or a deletion.
LEMMA AnswersGoOn ==
  ASSUME TableInv, Running, AnswersInv, LockTypes', NEW c \in Calls, Go("io", c),
         UNCHANGED <<used, before, collected>>, marked \subseteq marked',
         Io.step \notin {"collect", "unlock"}, c.step \notin {"collect", "unlock"},
         ~undefined' /\ c.op \in {"search", "delete"} => Knows(c, before, Inserted \ marked'),
         c.op # "free" /\ c.step \notin {"detach", "free", "return", "idle"} =>
           marked' = marked /\ Io.op # "free" /\ Io.step \notin {"detach", "free", "return", "idle"},
         ~undefined' /\ c.step = "return" /\ c.op \in {"delete", "free"} =>
           c.key \in marked' \/ (c.key \notin before /\ ~c.result)
  PROVE  AnswersInv'
<1>1. Io' = c /\ Acc' = Acc
  BY DEF TableInv, ListTypes, Go, Io, Acc, Threads
<1>2. Inserted' = Inserted
  BY <1>1 DEF Inserted
<1>3. SearchOK'
  BY <1>1, <1>2 DEF SearchOK
<1>4. BeforeOK'
  BY <1>1, <1>2 DEF AnswersInv, BeforeOK
<1>5. CollectOK'
  BY <1>1 DEF AnswersInv, CollectOK
<1>6. DeleteOK'
  BY <1>1 DEF DeleteOK
<1> QED BY <1>3, <1>4, <1>5, <1>6 DEF AnswersInv

\* A key that was there when the search began is not passed by.
LEMMA NotPassed ==
  ASSUME TableInv, Running, AnswersInv, NEW node \in (Inserted \cup {Head}) \ marked,
         Io.op \in {"search", "delete"}, Io.step \in Searching, Io.key \in before, node < Io.key
  PROVE  next[node] <= Io.key
<1>1. Io.op # "free" /\ Io.step \notin {"detach", "free", "return", "idle"}
  BY DEF Searching
<1>2. Io.key \in (Inserted \cup {Head}) \ marked /\ Io.key \in Inserted
  BY <1>1 DEF AnswersInv, BeforeOK
<1>3. node \in Linked \cup {Head} /\ Io.key \in Linked
  BY <1>2, Reliable, InsertedNodes DEF TableInv
<1>4. Linked = Walk(next) /\ next \in Pointers
  BY Reliable DEF TableInv, ListTypes
<1> QED BY <1>3, <1>4, WalkIsInOrder

\* A try that begins anew, of a search, a deletion or the search after it.
LEMMA RetryAnswers ==
  ASSUME TableInv, Running, AnswersInv, LockTypes', Go("io", [Io EXCEPT !.step = "start"]),
         UNCHANGED <<marked, used, before, collected>>,
         Io.step \in {"unlink", "check", "load", "mark"}
  PROVE  AnswersInv'
<1> DEFINE c == [Io EXCEPT !.step = "start"]
<1>1. Io \in Calls
  BY InsertedNodes DEF TableInv
<1>2. c \in Calls /\ c.op = Io.op /\ c.key = Io.key /\ c.step = "start"
  BY <1>1, StepIs
<1>3. Go("io", c)
  OBVIOUS
<1> HIDE DEF c
<1>4. Knows(c, before, Inserted \ marked')
  BY <1>2 DEF Knows
<1> QED BY <1>2, <1>3, <1>4, AnswersGoOn

LEMMA StartAnswers ==
  ASSUME TableInv, Running, AnswersInv, LockTypes', SearchStart("io"), UNCHANGED <<before, collected>>
  PROVE  AnswersInv'
<1> DEFINE new == Load(Head)
           old == Call(Io.op, Io.key, "walk")
           c   == [old EXCEPT !.ahead = new]
<1>1. /\ Io = calls["io"] /\ Io.step = "start" /\ Go("io", c)
      /\ UNCHANGED <<next, marked, freed, used, undefined, faults>>
  BY DEF SearchStart, At, Io
<1>2. /\ Io \in Calls /\ Head \notin marked
      /\ next[Head] \in Keys \cup {Tail} /\ Io.op \in {"none", "insert", "search", "delete", "free", "collect"}
      /\ Io.key \in Keys \cup {0}
  BY InsertedNodes DEF TableInv, ListOK, Calls
<1>3. new \in [to : Keys \cup {Tail}, mark : BOOLEAN] /\ new.to = next[Head] /\ ~new.mark
  <2>1. (Head \in marked) = FALSE
    BY <1>2
  <2> QED BY <1>2, <2>1 DEF Load
<1>4. old \in Calls /\ old.op = Io.op /\ old.key = Io.key /\ old.step = "walk"
  BY <1>2, NewCall
<1>5. c \in Calls /\ c.op = Io.op /\ c.key = Io.key /\ c.step = "walk" /\ c.ahead = new
  <2> HIDE DEF old, new
  <2> QED BY <1>3, <1>4 DEF Calls
<1> HIDE DEF c, old, new
<1>6. c.op \in {"search", "delete"} => Knows(c, before, Inserted \ marked')
  <2> SUFFICES ASSUME c.op \in {"search", "delete"}, c.key \in before PROVE next[Head] <= c.key
    BY <1>3, <1>5 DEF Knows
  <2>1. Io.step \in Searching
    BY <1>1 DEF Searching
  <2>2. Head < Io.key
    BY <1>5, Nodes DEF AnswersInv, LockTypes
  <2> QED BY <1>2, <1>5, <2>1, <2>2, NotPassed
<1> QED BY <1>1, <1>5, <1>6, AnswersGoOn

LEMMA WalkAnswers ==
  ASSUME TableInv, Running, AnswersInv, LockTypes', SearchWalk("io"), UNCHANGED <<before, collected>>
  PROVE  AnswersInv'
<1> DEFINE p   == Passed(Io)
           t   == Io.ahead.to
           new == Load(t)
           end == Reached(p, t)
           on  == [p EXCEPT !.t = t, !.ahead = new]
<1>1. Io = calls["io"] /\ Io.step = "walk" /\ Io \in Calls /\ "io" \in Threads
  BY InsertedNodes DEF SearchWalk, At, Io, TableInv
<1>2. WalkOK(Io, next, marked, Inserted)
  BY <1>1 DEF TableInv, LocalsOK, LocalOK
<1>3. /\ p \in Calls /\ p.op = Io.op /\ p.key = Io.key /\ p.step = "walk" /\ p.ahead = Io.ahead
  <2>1. Io.t \in Keys \cup {Head}
    BY <1>1 DEF Calls
  <2> QED BY <1>1, <2>1, PassedIs
<1>4. /\ UNCHANGED <<next, marked, freed, used, faults>>
      /\ \/ t = Tail /\ Go("io", end) /\ UNCHANGED undefined
         \/ /\ t # Tail /\ undefined' = (t \in freed)
            /\ \/ (t \in marked \/ t < Io.key) /\ Go("io", on)
               \/ t \notin marked /\ ~(t < Io.key) /\ Go("io", end)
  <2>1. UNCHANGED <<next, marked, freed, used, faults>>
    BY DEF SearchWalk
  <2>2. p.ahead.to = t /\ p.key = Io.key /\ p = Passed(calls["io"])
    BY <1>1, <1>3
  <2> HIDE DEF p
  <2> QED BY <2>1, <2>2 DEF SearchWalk, Touch, InFront
<1>5. t \in Keys \cup {Tail} /\ t \in Inserted \cup {Tail}
  BY <1>1, <1>2 DEF WalkOK, Calls
<1>6. Io.op \in {"search", "delete"} => ~Io.ahead.mark /\ (Io.key \in before => t <= Io.key)
  BY <1>1, Reliable DEF AnswersInv, SearchOK, Knows
<1>7. Io.op \in {"search", "delete"} => marked = freed
  <2>1. Io.op \in {"search", "delete"} => Deleting(Io) = {}
    BY <1>1 DEF Deleting
  <2> QED BY <2>1, Reliable DEF TableInv, FreedOK
<1>8. Io.key \in before => Io.key \in Nat /\ Io.key < Tail
  BY Nodes DEF AnswersInv, LockTypes
<1>9. /\ end \in Calls /\ end.op = Io.op /\ end.key = Io.key /\ end.right = t
      /\ end.step \in {"check", "unlink"}
  <2> HIDE DEF p, t
  <2>1. /\ end \in Calls /\ end.op = p.op /\ end.key = p.key /\ end.right = t
        /\ end.step = IF p.leftNext = t THEN "check" ELSE "unlink"
    BY <1>3, <1>5, ReachedIs
  <2>2. end.step \in {"check", "unlink"}
    BY <2>1
  <2> QED BY <1>3, <2>1, <2>2
<1>10. t # Tail => /\ on \in Calls /\ on.op = Io.op /\ on.key = Io.key /\ on.step = "walk"
                   /\ on.ahead.to = next[t] /\ on.ahead.mark = (t \in marked)
  <2> SUFFICES ASSUME t # Tail
               PROVE  /\ on \in Calls /\ on.op = Io.op /\ on.key = Io.key /\ on.step = "walk"
                      /\ on.ahead.to = next[t] /\ on.ahead.mark = (t \in marked)
    OBVIOUS
  <2>1. t \in Keys /\ next[t] \in Keys \cup {Tail}
    BY <1>5, InsertedNodes DEF TableInv
  <2>2. new \in [to : Keys \cup {Tail}, mark : BOOLEAN] /\ new.to = next[t] /\ new.mark = (t \in marked)
    BY <2>1 DEF Load
  <2> HIDE DEF new, t, p
  <2> QED BY <1>3, <2>1, <2>2 DEF Calls
<1> HIDE DEF p, new, end, on
<1>11. ASSUME Go("io", end), t = Tail \/ ~(t < Io.key) PROVE AnswersInv'
  <2>1. end.op \in {"search", "delete"} => (end.key \in before => end.right = end.key)
    <3> SUFFICES ASSUME Io.op \in {"search", "delete"}, Io.key \in before PROVE t = Io.key
      BY <1>9
    <3>1. t \in Nat /\ t <= Io.key /\ Io.key \in Nat /\ Io.key < Tail
      BY <1>5, <1>6, <1>8, Nodes
    <3>2. t # Tail
      BY <3>1
    <3> HIDE DEF t
    <3> QED BY <1>11, <3>1, <3>2
  <2>2. end.op \in {"search", "delete"} => Knows(end, before, Inserted \ marked')
    BY <1>9, <2>1 DEF Knows
  <2>3. end.step \notin {"return", "detach", "free", "idle", "collect", "unlock"}
    BY <1>9
  <2> QED BY <1>1, <1>4, <1>9, <1>11, <2>2, <2>3, AnswersGoOn
<1>12. ASSUME Go("io", on), t # Tail, undefined' = (t \in freed), t \in marked \/ t < Io.key PROVE AnswersInv'
  <2>1. ASSUME ~undefined', on.op \in {"search", "delete"} PROVE Knows(on, before, Inserted \ marked')
    <3>1. t \notin marked /\ t < Io.key /\ t \in Inserted
      BY <1>5, <1>7, <1>10, <1>12, <2>1
    <3>2. Io.step \in Searching
      BY <1>1 DEF Searching
    <3>3. Io.key \in before => next[t] <= Io.key
      BY <1>10, <1>12, <2>1, <3>1, <3>2, NotPassed
    <3>4. ~on.ahead.mark /\ on.ahead.to = next[t] /\ on.key = Io.key /\ on.step = "walk"
      BY <1>10, <1>12, <3>1
    <3> HIDE DEF t
    <3> QED BY <3>3, <3>4 DEF Knows
  <2> QED BY <1>1, <1>4, <1>10, <1>12, <2>1, AnswersGoOn
<1> QED BY <1>4, <1>11, <1>12

LEMMA UnlinkAnswers ==
  ASSUME TableInv, Running, AnswersInv, LockTypes', SearchUnlink("io"), UNCHANGED <<before, collected>>
  PROVE  AnswersInv'
<1> DEFINE c == [Io EXCEPT !.step = "check"]
<1>1. Io = calls["io"] /\ Io.step = "unlink" /\ Io \in Calls
  BY InsertedNodes DEF SearchUnlink, At, Io, TableInv
<1>2. UNCHANGED <<marked, used>> /\ (Go("io", c) \/ Go("io", [Io EXCEPT !.step = "start"]))
  BY <1>1 DEF SearchUnlink
<1>3. c \in Calls /\ c.op = Io.op /\ c.key = Io.key /\ c.step = "check" /\ c.right = Io.right
  BY <1>1 DEF Calls
<1> HIDE DEF c
<1>4. CASE Go("io", c)
  <2>1. c.op \in {"search", "delete"} => Knows(c, before, Inserted \ marked')
    BY <1>1, <1>3, Reliable DEF AnswersInv, SearchOK, Knows
  <2> QED BY <1>1, <1>2, <1>3, <1>4, <2>1, AnswersGoOn
<1>5. CASE Go("io", [Io EXCEPT !.step = "start"])
  BY <1>1, <1>2, <1>5, RetryAnswers
<1> QED BY <1>2, <1>4, <1>5

LEMMA CheckAnswers ==
  ASSUME TableInv, Running, AnswersInv, LockTypes', SearchCheck("io"), UNCHANGED <<before, collected>>
  PROVE  AnswersInv'
<1>1. Io = calls["io"] /\ Io.step = "check" /\ Io \in Calls /\ "io" \in Threads
  BY InsertedNodes DEF SearchCheck, At, Io, TableInv
<1>2. /\ UNCHANGED <<marked, used>>
      /\ Go("io", IF Io.right \in marked THEN [Io EXCEPT !.step = "start"] ELSE AfterSearch(Io))
  BY <1>1 DEF SearchCheck
<1>3. CASE Io.right \in marked
  BY <1>1, <1>2, <1>3, RetryAnswers
<1>4. CASE Io.right \notin marked
  <2> DEFINE c     == AfterSearch(Io)
             found == Found(Io)
  <2>1. Go("io", c)
    BY <1>2, <1>4
  <2>2. FoundOK(Io, Inserted) /\ OpOK("io", Io)
    BY <1>1 DEF TableInv, LocalsOK, LocalOK, OpsOK
  <2>3. Io.op \in {"search", "delete", "free"}
    BY <1>1, <2>2 DEF OpOK, OpsOf, StepsOf
  <2>4. Io.op \in {"search", "delete"} => (Io.key \in before => Io.right = Io.key)
    BY <1>1, Reliable DEF AnswersInv, SearchOK, Knows
  <2>5. CASE Io.op = "free"
    <3>1. c = [Io EXCEPT !.step = "free"]
      BY <2>5 DEF AfterSearch
    <3>2. c \in Calls /\ c.op = Io.op /\ c.key = Io.key /\ c.step = "free"
      <4> HIDE DEF c
      <4> QED BY <1>1, <3>1, StepIs
    <3> HIDE DEF c
    <3> QED BY <1>1, <1>2, <2>1, <2>5, <3>2, AnswersGoOn
  <2>6. CASE Io.op = "delete" /\ found
    <3>1. c = [Io EXCEPT !.step = "load"]
      BY <2>6 DEF AfterSearch
    <3>2. c \in Calls /\ c.op = Io.op /\ c.key = Io.key /\ c.step = "load"
      <4> HIDE DEF c
      <4> QED BY <1>1, <3>1, StepIs
    <3> HIDE DEF c
    <3>3. Knows(c, before, Inserted \ marked')
      BY <3>2 DEF Knows
    <3> QED BY <1>1, <1>2, <2>1, <2>6, <3>2, <3>3, AnswersGoOn
  <2>7. CASE Io.op = "search" \/ (Io.op = "delete" /\ ~found)
    <3>1. c = [Io EXCEPT !.step = "return", !.result = found] /\ found = (Io.right = Io.key)
      BY <2>7 DEF AfterSearch, Found
    <3>2. c \in Calls /\ c.op = Io.op /\ c.key = Io.key /\ c.step = "return" /\ c.result = found
      <4>1. found \in BOOLEAN
        BY <3>1
      <4> HIDE DEF c, found
      <4> QED BY <1>1, <3>1, <4>1, ResultIs
    <3> HIDE DEF c
    <3>3. c.op = "search" => Knows(c, before, Inserted \ marked')
      <4> SUFFICES ASSUME Io.op = "search"
                   PROVE  (Io.key \in before => found) /\ (found => Io.key \in Inserted \ marked)
        BY <1>2, <3>2 DEF Knows
      <4>1. found => Io.right \in Inserted
        <5>1. Io.key \in Keys
          BY <2>2, <2>3 DEF OpOK
        <5> QED BY <2>2, <3>1, <5>1, Nodes DEF FoundOK
      <4> QED BY <1>4, <2>4, <3>1, <4>1
    <3>4. c.op = "delete" => Knows(c, before, Inserted \ marked') /\ c.key \notin before /\ ~c.result
      BY <2>4, <2>7, <3>1, <3>2 DEF Knows
    <3> QED BY <1>1, <1>2, <2>1, <2>7, <3>2, <3>3, <3>4, AnswersGoOn
  <2> QED BY <2>3, <2>5, <2>6, <2>7
<1> QED BY <1>3, <1>4

LEMMA DeleteAnswers ==
  ASSUME TableInv, Running, AnswersInv, LockTypes', UNCHANGED <<before, collected>>,
         DeleteLoad("io") \/ DeleteMark("io") \/ DeleteDetach("io")
  PROVE  AnswersInv'
<1>1. Io = calls["io"] /\ Io \in Calls /\ "io" \in Threads
  BY InsertedNodes DEF Io, TableInv
<1>2. CASE DeleteLoad("io")
  <2> DEFINE new == Load(Io.right)
             c   == [Io EXCEPT !.step = "mark", !.ahead = new]
  <2>1. /\ Io.step = "load" /\ UNCHANGED <<marked, used>>
        /\ (Io.right \notin marked /\ Go("io", c)) \/ Go("io", [Io EXCEPT !.step = "start"])
    BY <1>1, <1>2 DEF DeleteLoad, At
  <2>2. c \in Calls /\ c.op = Io.op /\ c.key = Io.key /\ c.step = "mark"
    <3>1. Io.right = Io.key /\ Io.op = "delete" /\ Io.key \in Keys
      BY <1>1, <2>1 DEF TableInv, LocalsOK, LocalOK, OpsOK, OpOK, OpsOf, StepsOf, Searching
    <3>2. new \in [to : Keys \cup {Tail}, mark : BOOLEAN]
      <4>1. next[Io.right] \in Keys \cup {Tail} /\ (Io.right \in marked) \in BOOLEAN
        BY <3>1, InsertedNodes DEF TableInv
      <4> QED BY <4>1 DEF Load
    <3> HIDE DEF new
    <3> QED BY <1>1, <3>2 DEF Calls
  <2> HIDE DEF c, new
  <2>3. CASE Go("io", c)
    <3>1. Knows(c, before, Inserted \ marked')
      BY <2>2 DEF Knows
    <3> QED BY <1>1, <2>1, <2>2, <2>3, <3>1, AnswersGoOn
  <2>4. CASE Go("io", [Io EXCEPT !.step = "start"])
    BY <2>1, <2>4, RetryAnswers
  <2> QED BY <2>1, <2>3, <2>4
<1>3. CASE DeleteMark("io")
  <2> DEFINE c == [Io EXCEPT !.step = "detach"]
  <2>1. /\ Io.step = "mark" /\ UNCHANGED used /\ marked \subseteq marked'
        /\ Go("io", c) \/ (Go("io", [Io EXCEPT !.step = "start"]) /\ UNCHANGED marked)
    BY <1>1, <1>3 DEF DeleteMark, At
  <2>2. c \in Calls /\ c.op = Io.op /\ c.key = Io.key /\ c.step = "detach"
    BY <1>1 DEF Calls
  <2> HIDE DEF c
  <2>3. CASE Go("io", c)
    <3>1. Knows(c, before, Inserted \ marked')
      BY <2>2 DEF Knows
    <3> QED BY <1>1, <2>1, <2>2, <2>3, <3>1, AnswersGoOn
  <2>4. CASE Go("io", [Io EXCEPT !.step = "start"]) /\ UNCHANGED marked
    BY <2>1, <2>4, RetryAnswers
  <2> QED BY <2>1, <2>3, <2>4
<1>4. CASE DeleteDetach("io")
  <2> DEFINE c == [Io EXCEPT !.step = "free"]
             d == SearchAgain(Io)
  <2>1. Io.step = "detach" /\ UNCHANGED <<marked, used>> /\ (Go("io", c) \/ Go("io", d))
    BY <1>1, <1>4 DEF DeleteDetach, At
  <2>2. c \in Calls /\ c.op = Io.op /\ c.key = Io.key /\ c.step = "free"
    BY <1>1 DEF Calls
  <2>3. d \in Calls /\ d.op = "free" /\ d.step = "start"
    <3>1. Io.key \in Keys \cup {0}
      BY <1>1 DEF Calls
    <3> QED BY <3>1, NewCall DEF SearchAgain
  <2> HIDE DEF c, d
  <2>4. Knows(c, before, Inserted \ marked')
    BY <2>2 DEF Knows
  <2>5. CASE Go("io", c)
    BY <1>1, <2>1, <2>2, <2>4, <2>5, AnswersGoOn
  <2>6. CASE Go("io", d)
    BY <1>1, <2>1, <2>3, <2>6, AnswersGoOn
  <2> QED BY <2>1, <2>5, <2>6
<1> QED BY <1>2, <1>3, <1>4

LEMMA FreeAnswers ==
  ASSUME TableInv, Running, AnswersInv, LockTypes', DeleteFree("io"), UNCHANGED <<before, collected>>
  PROVE  AnswersInv'
<1> DEFINE c == [Io EXCEPT !.step = "return", !.result = TRUE]
<1>1. Io = calls["io"] /\ Io.step = "free" /\ Io \in Calls /\ "io" \in Threads
  BY InsertedNodes DEF DeleteFree, At, Io, TableInv
<1>2. Go("io", c) /\ UNCHANGED <<marked, used>>
  BY <1>1 DEF DeleteFree
<1>3. c \in Calls /\ c.op = Io.op /\ c.key = Io.key /\ c.step = "return"
  BY <1>1 DEF Calls
<1>4. LocalOK(Io, next, marked, Inserted) /\ OpOK("io", Io)
  BY <1>1 DEF TableInv, LocalsOK, OpsOK
<1>5. Io.op \in {"delete", "free"}
  BY <1>1, <1>4 DEF OpOK, OpsOf, StepsOf, Searching
<1>6. Io.key \in marked
  BY <1>1, <1>4, <1>5 DEF LocalOK
<1> HIDE DEF c
<1>7. Knows(c, before, Inserted \ marked')
  BY <1>3, <1>5 DEF Knows
<1> QED BY <1>1, <1>2, <1>3, <1>5, <1>6, <1>7, AnswersGoOn

LEMMA KeyStays ==
  ASSUME NEW th \in Threads, calls \in [Threads -> Calls],
         SearchStart(th) \/ SearchWalk(th) \/ SearchUnlink(th) \/ SearchCheck(th) \/ InsertLink(th)
  PROVE  calls'[th].key = calls[th].key
<1> DEFINE call == calls[th]
<1>1. call \in Calls /\ \A c : Go(th, c) => calls'[th] = c
  BY DEF Go
<1>2. \A s : [call EXCEPT !.step = s].key = call.key
  BY <1>1 DEF Calls
<1>3. CASE SearchStart(th)
  <2>1. calls'[th] = [Call(call.op, call.key, "walk") EXCEPT !.ahead = Load(Head)]
    BY <1>1, <1>3 DEF SearchStart
  <2> DEFINE new == Load(Head)
             key == call.key
             op  == call.op
  <2>2. [Call(op, key, "walk") EXCEPT !.ahead = new].key = key
    <3> HIDE DEF new, key, op
    <3> QED BY DEF Call
  <2> QED BY <2>1, <2>2
<1>4. CASE SearchWalk(th)
  <2> DEFINE p   == Passed(call)
             t   == p.ahead.to
             new == Load(t)
  <2>1. p \in Calls /\ p.key = call.key
    <3>1. call.t \in Keys \cup {Head}
      BY <1>1 DEF Calls
    <3> QED BY <1>1, <3>1, PassedIs
  <2>2. t \in Keys \cup {Tail}
    BY <2>1 DEF Calls
  <2>3. calls'[th] = Reached(p, t) \/ calls'[th] = [p EXCEPT !.t = t, !.ahead = new]
    <3>1. Go(th, Reached(p, t)) \/ Go(th, [p EXCEPT !.t = t, !.ahead = new])
      BY <1>4 DEF SearchWalk
    <3> HIDE DEF p, t, new
    <3> QED BY <1>1, <3>1
  <2> HIDE DEF p, t, new
  <2>4. Reached(p, t).key = p.key
    BY <2>1, <2>2, ReachedIs
  <2>5. [p EXCEPT !.t = t, !.ahead = new].key = p.key
    BY <2>1 DEF Calls
  <2> QED BY <2>1, <2>3, <2>4, <2>5
<1>5. CASE SearchUnlink(th)
  BY <1>1, <1>2, <1>5 DEF SearchUnlink
<1>6. CASE SearchCheck(th)
  <2> DEFINE found == Found(call)
  <2>1. AfterSearch(call).key = call.key
    <3>1. [call EXCEPT !.step = "return", !.result = found].key = call.key
      <4> HIDE DEF found, call
      <4> QED BY <1>1 DEF Calls
    <3> QED BY <1>2, <3>1 DEF AfterSearch
  <2> QED BY <1>1, <1>2, <1>6, <2>1 DEF SearchCheck
<1>7. CASE InsertLink(th)
  <2>1. [call EXCEPT !.step = "return", !.result = TRUE].key = call.key
    BY <1>1 DEF Calls
  <2> QED BY <1>1, <1>2, <1>7, <2>1 DEF InsertLink
<1> QED BY <1>3, <1>4, <1>5, <1>6, <1>7

LEMMA AcceptorInserts ==
  ASSUME TableInv, Running, ListStep("acceptor")
  PROVE  Io' = Io /\ marked' = marked /\ Inserted \subseteq Inserted'
<1>1. "acceptor" \in Threads /\ "io" \in Threads /\ Acc = calls["acceptor"] /\ Acc \in Calls
  BY InsertedNodes DEF TableInv, Acc
<1>2. OpOK("acceptor", Acc)
  BY <1>1 DEF TableInv, OpsOK
<1>3. Acc.step \notin {"load", "mark", "detach", "free", "idle"} => Acc.op = "insert"
  BY <1>2 DEF OpOK, OpsOf, StepsOf, Searching
<1>4. Acc.step \notin {"load", "mark", "detach", "free"}
  <2>1. CASE Acc.op = "none"
    BY <1>2, <2>1 DEF OpOK, StepsOf
  <2>2. CASE Acc.op = "insert"
    BY <1>2, <2>2 DEF OpOK, StepsOf, Searching
  <2> QED BY <1>2, <2>1, <2>2 DEF OpOK, OpsOf
<1>5. SearchStart("acceptor") \/ SearchWalk("acceptor") \/ SearchUnlink("acceptor")
      \/ SearchCheck("acceptor") \/ InsertLink("acceptor")
  BY <1>1, <1>4 DEF ListStep, InnerSearch, DeleteLoad, DeleteMark, DeleteDetach, DeleteFree, At
<1>6. /\ UNCHANGED <<marked, used>> /\ \E c : Go("acceptor", c)
  BY <1>5, Zenon DEF SearchStart, SearchWalk, SearchUnlink, SearchCheck, InsertLink
<1>7. Io' = Io
  BY <1>1, <1>6 DEF Go, Io, TableInv, ListTypes
<1>8. Inserting(Acc') \subseteq Inserting(Acc)
  <2>1. Acc.op = "insert"
    BY <1>1, <1>3, <1>4, <1>5 DEF SearchStart, SearchWalk, SearchUnlink, SearchCheck, InsertLink, At
  <2>2. Acc.step # "return"
    BY <1>1, <1>5 DEF SearchStart, SearchWalk, SearchUnlink, SearchCheck, InsertLink, At
  <2>3. Acc'.key = Acc.key
    BY <1>1, <1>5, KeyStays DEF TableInv, ListTypes, Acc
  <2> QED BY <2>1, <2>2, <2>3 DEF Inserting
<1> QED BY <1>6, <1>7, <1>8 DEF Inserted

LEMMA OutsideAnswers ==
  ASSUME TableInv, Running, LockTypes', NEW c \in Calls, Go("io", c), UNCHANGED <<marked, used>>,
         c.step \in {"idle", "lock", "start", "clear"}, collected' = {},
         c.step = "idle" \/ before' \subseteq Inserted \ marked
  PROVE  AnswersInv'
<1>1. Io' = c /\ Acc' = Acc
  BY DEF TableInv, ListTypes, Go, Io, Acc, Threads
<1>2. Inserted' = Inserted
  BY <1>1 DEF Inserted
<1>3. SearchOK'
  BY <1>1 DEF SearchOK, Knows
<1>4. BeforeOK'
  BY <1>1, <1>2 DEF BeforeOK
<1>5. CollectOK'
  BY <1>1 DEF CollectOK
<1>6. DeleteOK'
  BY <1>1 DEF DeleteOK
<1> QED BY <1>3, <1>4, <1>5, <1>6 DEF AnswersInv

LEMMA EnterAnswers ==
  ASSUME TableInv, Running, AnswersInv, LockTypes',
         EnterCollect \/ \E key \in Keys, op \in {"search", "delete"} : EnterOnIoThread(op, key)
  PROVE  AnswersInv'
<1>1. Present \subseteq Inserted \ marked
  BY Reliable DEF Present
<1>2. Io = calls["io"]
  BY DEF Io
<1>3. CASE EnterCollect
  <2> DEFINE c == Call("collect", 0, "lock")
  <2>1. Go("io", c) /\ UNCHANGED <<marked, used, collected>> /\ before' = Present /\ Io.step = "idle"
    BY <1>2, <1>3 DEF EnterCollect, At
  <2>2. c \in Calls /\ c.step = "lock"
    BY NewCall
  <2>3. collected' = {}
    BY <2>1 DEF AnswersInv, CollectOK
  <2> HIDE DEF c
  <2> QED BY <1>1, <2>1, <2>2, <2>3, OutsideAnswers
<1>4. ASSUME NEW key \in Keys, NEW op \in {"search", "delete"}, EnterOnIoThread(op, key) PROVE AnswersInv'
  <2> DEFINE to == IF locked THEN "lock" ELSE "start"
             c  == Call(op, key, to)
  <2>1. Go("io", c) /\ UNCHANGED <<marked, used, collected>> /\ before' = Present /\ Io.step = "idle"
    BY <1>2, <1>4 DEF EnterOnIoThread, Enter, At
  <2>2. to \in {"lock", "start"}
    OBVIOUS
  <2> HIDE DEF to
  <2>3. c \in Calls /\ c.step = to
    BY <2>2, NewCall
  <2>4. collected' = {}
    BY <2>1 DEF AnswersInv, CollectOK
  <2> HIDE DEF c
  <2> QED BY <1>1, <2>1, <2>2, <2>3, <2>4, OutsideAnswers
<1> QED BY <1>3, <1>4

LEMMA LockingAnswers ==
  ASSUME TableInv, Running, AnswersInv, LockTypes', SpinlockLock("io")
  PROVE  AnswersInv'
<1> DEFINE to == IF Io.op = "collect" THEN "collect" ELSE "start"
           c  == [Io EXCEPT !.step = to]
<1>1. /\ Io = calls["io"] /\ "io" \in Threads /\ Io.step = "lock" /\ Io \in Calls
      /\ Go("io", c) /\ UNCHANGED <<marked, used, collected, before>>
  BY InsertedNodes DEF SpinlockLock, At, Io, TableInv
<1>2. Io.t = Head /\ Io.op # "free"
  BY <1>1, StepOfCall DEF TableInv, LocalsOK, LocalOK
<1>3. collected = {} /\ before \subseteq Inserted \ marked
  BY <1>1, <1>2 DEF AnswersInv, CollectOK, BeforeOK
<1>4. to \in {"collect", "start"}
  OBVIOUS
<1> HIDE DEF to
<1>5. c \in Calls /\ c.step = to /\ c.t = Head /\ c.op = Io.op
  BY <1>1, <1>2, <1>4 DEF Calls
<1> HIDE DEF c
<1>6. CASE to = "start"
  BY <1>1, <1>3, <1>5, <1>6, OutsideAnswers
<1>7. CASE to = "collect"
  <2>1. Io' = c /\ Acc' = Acc
    BY <1>1 DEF TableInv, ListTypes, Go, Io, Acc, Threads
  <2>2. Inserted' = Inserted
    BY <1>1, <2>1 DEF Inserted
  <2>3. SearchOK'
    BY <1>5, <1>7, <2>1 DEF SearchOK, Knows
  <2>4. BeforeOK'
    BY <1>1, <1>3, <2>1, <2>2 DEF BeforeOK
  <2>5. CollectOK'
    <3>1. \A key \in before : ~(key <= Head)
      <4>1. \A key \in Keys : key \in Nat /\ Head \in Nat /\ Head < key
        BY Nodes
      <4> QED BY <4>1 DEF AnswersInv, LockTypes
    <3> QED BY <1>1, <1>3, <1>5, <1>7, <2>1, <3>1 DEF CollectOK
  <2>6. DeleteOK'
    BY <1>5, <1>7, <2>1 DEF DeleteOK
  <2> QED BY <2>3, <2>4, <2>5, <2>6 DEF AnswersInv
<1> QED BY <1>4, <1>6, <1>7

LEMMA LeavingAnswers ==
  ASSUME TableInv, Running, AnswersInv, LockTypes', Leave("io") \/ LeaveCollect
  PROVE  AnswersInv'
<1>1. Io = calls["io"]
  BY DEF Io
<1>2. NoCall \in Calls /\ NoCall.step = "idle"
  BY NewCall DEF NoCall
<1> DEFINE c == Call("collect", 0, "clear")
<1>3. c \in Calls /\ c.step = "clear"
  BY NewCall
<1>4. /\ UNCHANGED <<marked, used>>
      /\ \/ Go("io", NoCall) /\ Io.step \in {"return", "clear"} /\ UNCHANGED collected
         \/ Go("io", c) /\ collected' = {} /\ before' = {}
  BY <1>1 DEF Leave, LeaveCollect, At
<1> HIDE DEF c, NoCall
<1>5. CASE Go("io", NoCall) /\ Io.step \in {"return", "clear"} /\ UNCHANGED collected
  <2>1. collected' = {}
    BY <1>5 DEF AnswersInv, CollectOK
  <2> QED BY <1>2, <1>4, <1>5, <2>1, OutsideAnswers
<1>6. CASE Go("io", c) /\ collected' = {} /\ before' = {}
  BY <1>3, <1>4, <1>6, OutsideAnswers
<1> QED BY <1>4, <1>5, <1>6

LEMMA CollectingAnswers ==
  ASSUME TableInv, Running, AnswersInv, LockTypes', Collect
  PROVE  AnswersInv'
<1> DEFINE t    == Io.t
           node == next[t]
           end  == [Io EXCEPT !.step = "unlock"]
           on   == [Io EXCEPT !.t = node]
<1>1. /\ Io \in Calls /\ Io.op = "collect" /\ Io.step = "collect"
      /\ t \in Linked \cup {Head} /\ node \in (Linked \ marked) \cup {Tail}
      /\ UNCHANGED <<marked, used, before>>
      /\ \/ node = Tail /\ Go("io", end) /\ UNCHANGED collected
         \/ node # Tail /\ Go("io", on) /\ collected' = collected \cup {node}
  BY CollectingFacts
<1>2. /\ \A key \in before : key <= t => key \in collected
      /\ collected \subseteq Inserted \ marked /\ before \subseteq Inserted \ marked
      /\ before \subseteq Keys
  BY <1>1 DEF AnswersInv, CollectOK, BeforeOK, LockTypes
<1>3. Linked \subseteq Inserted /\ Inserted \subseteq Keys /\ Linked = Walk(next) /\ next \in Pointers
  BY Reliable, InsertedNodes DEF TableInv, ListTypes
<1>4. \A key \in before : key <= t \/ node <= key
  <2> SUFFICES ASSUME NEW key \in before, ~(key <= t) PROVE node <= key
    OBVIOUS
  <2>1. key \in Linked
    BY <1>2, Reliable, InsertedNodes DEF TableInv
  <2>2. t < key
    <3>1. t \in Nat /\ key \in Nat
      BY <1>1, <1>2, <1>3, Nodes
    <3> HIDE DEF t
    <3> QED BY <3>1
  <2> QED BY <1>1, <1>3, <2>1, <2>2, WalkIsInOrder
<1>5. \A key \in before : key \in Nat /\ key < Tail /\ Tail \in Nat
  BY <1>2, Nodes
<1>6. CASE node = Tail /\ Go("io", end) /\ UNCHANGED collected
  <2>1. end \in Calls /\ end.op = "collect" /\ end.step = "unlock"
    BY <1>1 DEF Calls
  <2> HIDE DEF end
  <2>2. Io' = end /\ Acc' = Acc
    BY <1>6 DEF TableInv, ListTypes, Go, Io, Acc, Threads
  <2>3. Inserted' = Inserted
    BY <1>1, <2>2 DEF Inserted
  <2>4. before \subseteq collected
    <3>1. \A key \in before : ~(Tail <= key)
      BY <1>5
    <3> QED BY <1>2, <1>4, <1>6, <3>1
  <2>5. SearchOK' /\ DeleteOK'
    BY <2>1, <2>2 DEF SearchOK, DeleteOK
  <2>6. BeforeOK'
    BY <1>1, <1>2, <2>2, <2>3 DEF BeforeOK
  <2>7. CollectOK'
    BY <1>1, <1>2, <1>6, <2>1, <2>2, <2>3, <2>4 DEF CollectOK
  <2> QED BY <2>5, <2>6, <2>7 DEF AnswersInv
<1>7. CASE node # Tail /\ Go("io", on) /\ collected' = collected \cup {node}
  <2>1. on \in Calls /\ on.op = "collect" /\ on.step = "collect" /\ on.t = node
    <3>1. node \in Keys
      BY <1>1, <1>3, <1>7
    <3> HIDE DEF node
    <3> QED BY <1>1, <3>1 DEF Calls
  <2> HIDE DEF on
  <2>2. Io' = on /\ Acc' = Acc
    BY <1>7 DEF TableInv, ListTypes, Go, Io, Acc, Threads
  <2>3. Inserted' = Inserted
    BY <1>1, <2>2 DEF Inserted
  <2>4. collected' \subseteq Inserted \ marked
    BY <1>1, <1>2, <1>3, <1>7
  <2>5. \A key \in before : key <= node => key \in collected'
    <3> SUFFICES ASSUME NEW key \in before, key <= node PROVE key \in collected'
      OBVIOUS
    <3>1. CASE key <= t
      BY <1>2, <1>7, <3>1
    <3>2. CASE node <= key
      <4>1. node \in Nat /\ key \in Nat
        BY <1>1, <1>3, <1>5, <1>7, Nodes
      <4>2. node = key
        <5> HIDE DEF node
        <5> QED BY <3>2, <4>1
      <4> QED BY <1>7, <4>2
    <3> QED BY <1>4, <3>1, <3>2
  <2>6. SearchOK' /\ DeleteOK'
    BY <2>1, <2>2 DEF SearchOK, DeleteOK
  <2>7. BeforeOK'
    BY <1>1, <1>2, <2>2, <2>3 DEF BeforeOK
  <2>8. CollectOK'
    <3> HIDE DEF node
    <3> QED BY <1>1, <2>1, <2>2, <2>3, <2>4, <2>5 DEF CollectOK
  <2> QED BY <2>6, <2>7, <2>8 DEF AnswersInv
<1> QED BY <1>1, <1>6, <1>7

\* The steps of the acceptor outside the list.
LEMMA AcceptorWaits ==
  ASSUME TableInv, Running,
         SpinlockLock("acceptor") \/ Leave("acceptor") \/ \E key \in Keys : EnterInsert(key)
  PROVE  Io' = Io /\ UNCHANGED <<marked, before, collected, undefined>> /\ Inserted \subseteq Inserted'
<1>1. "acceptor" \in Threads /\ "io" \in Threads /\ Acc = calls["acceptor"] /\ Acc \in Calls
  BY InsertedNodes DEF TableInv, Acc
<1>2. \A c : Go("acceptor", c) => Io' = Io /\ Acc' = c
  BY DEF TableInv, ListTypes, Go, Io, Acc, Threads
<1>3. CASE SpinlockLock("acceptor")
  <2>1. /\ UNCHANGED <<marked, used, before, collected, undefined>> /\ Acc.step = "lock"
        /\ Go("acceptor", [Acc EXCEPT !.step = IF Acc.op = "collect" THEN "collect" ELSE "start"])
    BY <1>1, <1>3 DEF SpinlockLock, At
  <2>2. Inserting(Acc) = IF Acc.op = "insert" THEN {Acc.key} ELSE {}
    BY <2>1 DEF Inserting
  <2>3. Acc'.op = Acc.op /\ Acc'.key = Acc.key
    BY <1>1, <1>2, <2>1 DEF Calls
  <2>4. Inserting(Acc') \subseteq Inserting(Acc)
    BY <2>2, <2>3 DEF Inserting
  <2> QED BY <1>2, <2>1, <2>4 DEF Inserted
<1>4. CASE Leave("acceptor")
  <2>1. UNCHANGED <<marked, used, collected, undefined>> /\ before' = before /\ Go("acceptor", NoCall)
    BY <1>4 DEF Leave
  <2>2. Inserting(NoCall) = {}
    <3>1. NoCall.op = "none"
      BY NewCall DEF NoCall
    <3> QED BY <3>1 DEF Inserting
  <2>3. Inserting(Acc') = {}
    BY <1>2, <2>1, <2>2
  <2> QED BY <1>2, <2>1, <2>3 DEF Inserted
<1>5. ASSUME NEW key \in Keys, EnterInsert(key)
      PROVE  Io' = Io /\ UNCHANGED <<marked, before, collected, undefined>> /\ Inserted \subseteq Inserted'
  <2> DEFINE to == IF locked THEN "lock" ELSE "start"
             c  == Call("insert", key, to)
  <2>1. /\ UNCHANGED <<marked, before, collected, undefined>> /\ used' = used \cup {key}
        /\ key \notin used /\ Go("acceptor", c)
    BY <1>5 DEF EnterInsert, Enter
  <2>2. c.key = key
    <3> HIDE DEF to
    <3> QED BY DEF Call
  <2>3. Inserting(c) \subseteq {key}
    <3> HIDE DEF c
    <3> QED BY <2>2 DEF Inserting
  <2>4. Acc' = c /\ Io' = Io
    BY <1>2, <2>1
  <2>5. Inserted' = used' \ Inserting(Acc')
    BY DEF Inserted
  <2> HIDE DEF c
  <2> QED BY <2>1, <2>3, <2>4, <2>5 DEF Inserted
<1> QED BY <1>3, <1>4, <1>5

LEMMA AnswersInductive ==
  TableInv /\ AnswersInv /\ [HashNext]_hashVars => AnswersInv'
<1> SUFFICES ASSUME TableInv, AnswersInv, [HashNext]_hashVars PROVE AnswersInv'
  OBVIOUS
<1>1. CASE UNCHANGED hashVars
  <2>1. /\ UNCHANGED <<marked, used, calls, undefined, faults, locked, lock, holders, before, collected>>
    BY <1>1 DEF hashVars, listVars, flagVars
  <2>2. Io' = Io /\ Inserted' = Inserted
    BY <2>1 DEF Io, Inserted, Acc
  <2>3. LockTypes'
    BY <2>1 DEF AnswersInv, LockTypes
  <2> QED BY <2>1, <2>2, <2>3, AnswersStay
<1>2. CASE HashNext
  <2>1. Running /\ ~undefined
    BY <1>2 DEF HashNext, Running
  <2>2. LockTypes'
    BY <1>2, <2>1, TypesKept DEF AnswersInv
  <2>3. CASE \E key \in Keys : EnterInsert(key)
    BY <2>1, <2>2, <2>3, AcceptorWaits, AnswersStay
  <2>4. CASE EnterCollect \/ \E key \in Keys, op \in {"search", "delete"} : EnterOnIoThread(op, key)
    BY <2>1, <2>2, <2>4, EnterAnswers
  <2>5. CASE \E th \in Threads : SpinlockLock(th) \/ Leave(th)
    <3>1. PICK th \in Threads : SpinlockLock(th) \/ Leave(th)
      BY <2>5
    <3>2. CASE th = "acceptor"
      BY <2>1, <2>2, <3>1, <3>2, AcceptorWaits, AnswersStay
    <3>3. CASE th = "io"
      BY <2>1, <2>2, <3>1, <3>3, LockingAnswers, LeavingAnswers
    <3> QED BY <3>2, <3>3 DEF Threads
  <2>6. CASE \E th \in Threads : ListOperation(th)
    <3>1. PICK th \in Threads : ListStep(th) /\ UNCHANGED <<before, collected>>
      BY <2>6 DEF ListOperation
    <3>2. CASE th = "acceptor"
      BY <2>1, <2>2, <3>1, <3>2, AcceptorInserts, AnswersStay
    <3>3. CASE th = "io"
      <4>1. ~InsertLink("io")
        BY StepOfCall DEF InsertLink, At, OpOK, OpsOf, StepsOf, Searching, Threads
      <4> QED BY <2>1, <2>2, <3>1, <3>3, <4>1, StartAnswers, WalkAnswers, UnlinkAnswers, CheckAnswers,
                 DeleteAnswers, FreeAnswers DEF ListStep, InnerSearch
    <3> QED BY <3>2, <3>3 DEF Threads
  <2>7. CASE Collect \/ LeaveCollect
    BY <2>1, <2>2, <2>7, CollectingAnswers, LeavingAnswers
  <2> QED BY <1>2, <2>3, <2>4, <2>5, <2>6, <2>7 DEF HashNext, Begin
<1> QED BY <1>1, <1>2

LEMMA AnswersInitially == HashInit => AnswersInv
<1> SUFFICES ASSUME HashInit PROVE AnswersInv
  OBVIOUS
<1>1. /\ calls = [th \in Threads |-> NoCall] /\ ~undefined /\ faults = {} /\ collected = {} /\ before = {}
  BY DEF HashInit, ListInit
<1>2. NoCall.op = "none" /\ NoCall.step = "idle"
  BY NewCall DEF NoCall
<1> HIDE DEF NoCall
<1>3. Io = NoCall
  BY <1>1 DEF Io, Threads
<1>4. LockTypes
  BY DEF HashInit, ListInit, LockTypes
<1> QED BY <1>1, <1>2, <1>3, <1>4 DEF AnswersInv, SearchOK, BeforeOK, CollectOK, DeleteOK

LEMMA PresentIs == TableInv => Present = Inserted \ marked
<1> SUFFICES ASSUME TableInv PROVE Present = Inserted \ marked
  OBVIOUS
<1>1. ListOK /\ Inserted \subseteq Keys /\ next \in Pointers
  BY InsertedNodes DEF TableInv, ListTypes
<1>2. Leads(next, Inserted)
  BY <1>1 DEF ListOK, Leads
<1>3. Linked \subseteq Inserted
  BY <1>1, <1>2, LinkedIsWalk, WalkIsLeast
<1> QED BY <1>1, <1>3 DEF ListOK, Present

LEMMA PresentWillBe == TableInv' => Present' = Inserted' \ marked'
<1>1. TableInv => Present = Inserted \ marked
  BY PresentIs
<1>2. (TableInv => Present = Inserted \ marked)'
  BY <1>1, PTL
<1> QED BY <1>2

-----------------------------------------------------------------------------
(***************************************************************************)
(* What follows for the list.                                              *)
(***************************************************************************)

\* Every reachable state of the table satisfies the invariants of its list.
THEOREM TableInvariant == HashSpec => [](TableInv /\ AnswersInv)
<1>1. HashInit => TableInv /\ AnswersInv
  BY TableInitially, AnswersInitially
<1>2. TableInv /\ AnswersInv /\ [HashNext]_hashVars => (TableInv /\ AnswersInv)'
  BY TableInductive, AnswersInductive
<1> QED BY <1>1, <1>2, PTL DEF HashSpec

\* The table keeps its types and its list stays in order of the keys, however the
\* two threads link and unlink at once: every walk comes to the tail.
THEOREM ListStaysInOrder == HashSpec => []HashTypeOK
<1>1. TableInv /\ AnswersInv => HashTypeOK
  <2> SUFFICES ASSUME TableInv, AnswersInv PROVE HashTypeOK
    OBVIOUS
  <2>1. next \in [Keys \cup {Head} -> Keys \cup {Tail}] /\ \A node \in DOMAIN next : node < next[node]
    BY DEF TableInv, ListTypes, Pointers
  <2>2. marked \subseteq used /\ used \subseteq Keys /\ freed \subseteq used \cup {Tail} /\ calls \in [Threads -> Calls]
    BY DEF TableInv, ListTypes, ListOK, Inserted
  <2> QED BY <2>1, <2>2 DEF HashTypeOK, AnswersInv, LockTypes
<1> QED BY <1>1, TableInvariant, PTL

\* Freed memory is used only after lmvs_lflist_delete has freed a node under the
\* other thread or another node than the one it unlinked; nodes that are unlinked
\* and not freed, and the walk of a collection, never lead to it.
THEOREM NodesDoNotDangle == HashSpec => []NoDanglingNode
<1>1. TableInv /\ AnswersInv => NoDanglingNode
  BY DEF TableInv, HoldOK, NoDanglingNode
<1> QED BY <1>1, TableInvariant, PTL

\* lmvs_lflist_delete frees the node it has deleted, no other, and only when
\* nothing in the list leads to it, until the search it starts over has made it
\* free a wrong node.
THEOREM DeletedNodesAreFreed == HashSpec => []FreesWhatItDeletes
<1>1. TableInv /\ AnswersInv => FreesWhatItDeletes
  <2> SUFFICES ASSUME TableInv, Avoided({"misfree"})
               PROVE  /\ freed \cap Linked = {}
                      /\ Io.step \in {"idle", "lock", "collect", "return"} => marked = freed
    BY DEF FreesWhatItDeletes, Io
  <2>1. freed \cap Linked = {} /\ marked = freed \cup Deleting(Io)
    BY DEF TableInv, FreedOK
  <2>2. Io.step \in {"idle", "lock", "collect", "return"} => Io.step = "return" \/ Io.op # "free"
    <3>1. "io" \in Threads /\ Io = calls["io"]
      BY DEF Threads, Io
    <3>2. /\ Io.step = "idle" => Io.op = "none"
          /\ Io.step = "lock" => Io.op \in {"insert", "search", "delete", "collect"}
          /\ Io.step = "collect" => Io.op = "collect"
      BY <3>1, StepOfCall
    <3> QED BY <3>2
  <2>3. Io.step \in {"idle", "lock", "collect", "return"} => Deleting(Io) = {}
    BY <2>2 DEF Deleting
  <2> QED BY <2>1, <2>3
<1> QED BY <1>1, TableInvariant, PTL

\* What lmvs_lfhash_search, _delete and _get_all_keys answer was so while they
\* ran, for any number of keys that the acceptor inserts meanwhile.
THEOREM AnswersHold == HashSpec => []AnswersAreTrue
<1>1. TableInv /\ AnswersInv => AnswersAreTrue
  <2> SUFFICES ASSUME TableInv, AnswersInv, ~undefined
               PROVE  /\ Io.step = "return" /\ Io.op = "search" =>
                           (Io.key \in before => Io.result) /\ (Io.result => Io.key \in Present)
                      /\ Io.step = "return" /\ Io.op \in {"delete", "free"} =>
                           Io.key \notin before \cap Present /\ (Io.result => Io.key \notin Present)
                      /\ Io.step = "unlock" => before \subseteq collected /\ collected \subseteq Present
    BY DEF AnswersAreTrue, Io
  <2>1. Present = Inserted \ marked
    BY PresentIs
  <2>2. Io.step = "return" /\ Io.op = "search" =>
          (Io.key \in before => Io.result) /\ (Io.result => Io.key \in Present)
    BY <2>1 DEF AnswersInv, SearchOK, Knows
  <2>3. Io.step = "return" /\ Io.op \in {"delete", "free"} =>
          Io.key \notin before \cap Present /\ (Io.result => Io.key \notin Present)
    BY <2>1 DEF AnswersInv, DeleteOK
  <2>4. Io.step = "unlock" => before \subseteq collected /\ collected \subseteq Present
    BY <2>1 DEF AnswersInv, CollectOK
  <2> QED BY <2>2, <2>3, <2>4
<1> QED BY <1>1, TableInvariant, PTL

-----------------------------------------------------------------------------
(***************************************************************************)
(* The list is a set.                                                      *)
(***************************************************************************)

\* A step of the acceptor adds the key it inserts, or nothing.
LEMMA AcceptorAdds ==
  ASSUME TableInv, TableInv', Running, marked' = marked, Inserted \subseteq Inserted', used' = used
  PROVE  [Set!KeySetNext]_<<Present, marked>>
<1>1. Present = Inserted \ marked /\ Present' = Inserted' \ marked' /\ marked \subseteq Inserted
  BY PresentIs, PresentWillBe DEF TableInv, ListOK
<1>2. Inserted' \subseteq Inserted \cup {Acc.key}
  BY DEF Inserted, Inserting
<1>3. CASE Inserted' = Inserted
  BY <1>1, <1>3
<1>4. CASE Inserted' # Inserted
  <2>1. Inserted' = Inserted \cup {Acc.key} /\ Acc.key \notin Inserted
    BY <1>2, <1>4
  <2>2. Acc.key \in Keys
    <3>1. Inserted' \subseteq Keys
      BY DEF TableInv, ListTypes, Inserted
    <3> QED BY <2>1, <3>1
  <2>3. Set!Add(Acc.key)
    BY <1>1, <2>1 DEF Set!Add
  <2> QED BY <2>2, <2>3 DEF Set!KeySetNext
<1> QED BY <1>3, <1>4

\* A step of the I/O thread removes the key it deletes, or nothing.
LEMMA IoRemoves ==
  ASSUME TableInv, TableInv', Inserted' = Inserted, marked' = marked \/ marked' = marked \cup {Io.key}
  PROVE  [Set!KeySetNext]_<<Present, marked>>
<1>1. Present = Inserted \ marked /\ Present' = Inserted' \ marked'
  BY PresentIs, PresentWillBe
<1>2. marked' \subseteq Inserted' /\ Inserted' \subseteq Keys
  BY DEF TableInv, ListOK, ListTypes, Inserted
<1>3. CASE marked' = marked
  BY <1>1, <1>3
<1>4. CASE marked' # marked
  <2>1. marked' = marked \cup {Io.key} /\ Io.key \notin marked /\ Io.key \in Inserted /\ Io.key \in Keys
    BY <1>2, <1>4
  <2>2. Set!Remove(Io.key)
    BY <1>1, <2>1 DEF Set!Remove
  <2> QED BY <2>1, <2>2 DEF Set!KeySetNext
<1> QED BY <1>3, <1>4

LEMMA EnterInsertAddsNothing ==
  ASSUME TableInv, Running, NEW key \in Keys, EnterInsert(key)
  PROVE  Inserted' = Inserted /\ marked' = marked
<1> DEFINE to == IF locked THEN "lock" ELSE "start"
           c  == Call("insert", key, to)
<1>1. /\ Go("acceptor", c) /\ calls["acceptor"].step = "idle" /\ key \notin used
      /\ used' = used \cup {key} /\ UNCHANGED marked /\ "acceptor" \in Threads
  BY DEF EnterInsert, Enter, At, Threads
<1>2. to \in {"lock", "start"}
  OBVIOUS
<1> HIDE DEF to
<1>3. c.op = "insert" /\ c.key = key /\ c.step = to
  BY <1>2, NewCall
<1>4. Acc' = c
  BY <1>1 DEF TableInv, ListTypes, Go, Acc
<1>5. Acc.op = "none"
  BY <1>1, StepOfCall DEF Acc
<1> HIDE DEF c
<1>6. Inserting(Acc) = {} /\ Inserting(Acc') = {key}
  BY <1>2, <1>3, <1>4, <1>5 DEF Inserting
<1>7. Inserted' = used' \ Inserting(Acc')
  BY DEF Inserted
<1> QED BY <1>1, <1>6, <1>7 DEF Inserted

LEMMA StepsOfASet ==
  TableInv /\ TableInv' /\ [HashNext]_hashVars => [Set!KeySetNext]_<<Present, marked>>
<1> SUFFICES ASSUME TableInv, TableInv', [HashNext]_hashVars PROVE [Set!KeySetNext]_<<Present, marked>>
  OBVIOUS
<1>1. CASE UNCHANGED hashVars
  <2>1. UNCHANGED <<next, marked>>
    BY <1>1 DEF hashVars, listVars
  <2>2. Linked' = Linked
    BY <2>1, LinkedIsWalk
  <2>3. Present' = Present
    BY <2>1, <2>2 DEF Present
  <2> QED BY <2>1, <2>3
<1>2. CASE HashNext
  <2>1. Running /\ "io" \in Threads /\ "acceptor" \in Threads
    BY <1>2 DEF HashNext, Threads
  <2>2. \A c : Go("io", c) /\ used' = used => Inserted' = Inserted
    BY DEF TableInv, ListTypes, Go, Acc, Inserted, Threads
  <2>3. CASE \E key \in Keys : EnterInsert(key)
    BY <2>1, <2>3, EnterInsertAddsNothing, IoRemoves
  <2>4. CASE EnterCollect \/ \E key \in Keys, op \in {"search", "delete"} : EnterOnIoThread(op, key)
    BY <2>2, <2>4, IoRemoves DEF EnterCollect, EnterOnIoThread, Enter
  <2>5. CASE Collect \/ LeaveCollect \/ SpinlockLock("io") \/ Leave("io")
    <3>1. marked' = marked /\ used' = used /\ \E c : Go("io", c)
      BY <2>5, Zenon DEF Collect, LeaveCollect, SpinlockLock, Leave
    <3> QED BY <2>2, <3>1, IoRemoves
  <2>6. CASE SpinlockLock("acceptor") \/ Leave("acceptor")
    <3>1. used' = used
      BY <2>6 DEF SpinlockLock, Leave
    <3> QED BY <2>1, <2>6, <3>1, AcceptorWaits, AcceptorAdds
  <2>7. CASE ListStep("acceptor")
    <3>1. used' = used
      BY <2>7 DEF ListStep, InnerSearch, SearchStart, SearchWalk, SearchUnlink, SearchCheck,
                  InsertLink, DeleteLoad, DeleteMark, DeleteDetach, DeleteFree
    <3> QED BY <2>1, <2>7, <3>1, AcceptorInserts, AcceptorAdds
  <2>8. CASE ListStep("io")
    <3>1. used' = used
      BY <2>8 DEF ListStep, InnerSearch, SearchStart, SearchWalk, SearchUnlink, SearchCheck,
                  InsertLink, DeleteLoad, DeleteMark, DeleteDetach, DeleteFree
    <3>2. \E c : Go("io", c)
      BY <2>8, Zenon DEF ListStep, InnerSearch, SearchStart, SearchWalk, SearchUnlink, SearchCheck,
                  InsertLink, DeleteLoad, DeleteMark, DeleteDetach, DeleteFree
    <3>3. marked' = marked \/ marked' = marked \cup {Io.key}
      <4>1. CASE DeleteMark("io")
        <5>1. LocalOK(Io, next, marked, Inserted) /\ Io = calls["io"]
          BY <2>1 DEF TableInv, LocalsOK, Io
        <5>2. Io.step = "mark" => Io.right = Io.key
          BY <5>1 DEF LocalOK
        <5> QED BY <4>1, <5>1, <5>2 DEF DeleteMark, At
      <4>2. CASE ~DeleteMark("io")
        BY <2>8, <4>2 DEF ListStep, InnerSearch, SearchStart, SearchWalk, SearchUnlink, SearchCheck,
                  InsertLink, DeleteLoad, DeleteDetach, DeleteFree
      <4> QED BY <4>1, <4>2
    <3> QED BY <2>2, <3>1, <3>2, <3>3, IoRemoves
  <2> QED BY <1>2, <2>3, <2>4, <2>5, <2>6, <2>7, <2>8 DEF HashNext, Begin, ListOperation, Threads
<1> QED BY <1>1, <1>2

\* The list is a set of keys that two threads change without a lock: each step of
\* either adds one key that has not been there, removes one, or changes nothing,
\* for lists of any length.
THEOREM TableIsASet == HashSpec => ActsAsSet
<1>1. HashInit => Set!KeySetInit
  <2> SUFFICES ASSUME HashInit PROVE Set!KeySetInit
    OBVIOUS
  <2>1. TableInv /\ marked = {} /\ used = {}
    BY TableInitially DEF HashInit, ListInit
  <2>2. Present = {}
    BY <2>1, PresentIs DEF Inserted
  <2> QED BY <2>1, <2>2 DEF Set!KeySetInit
<1> QED BY <1>1, StepsOfASet, TableInvariant, PTL DEF HashSpec, ActsAsSet, Set!KeySetSpec, Set!keySetVars
=============================================================================
