-------------------------------- MODULE LfList --------------------------------
(***************************************************************************)
(* The lock-free list of lmvs-lflist.c, with the loads and compare-and-    *)
(* swaps of its operations as steps.  The acceptor thread inserts, the I/O *)
(* thread searches and deletes.  A node that is deleted is first marked in *)
(* its next pointer, then unlinked, by whoever comes past, and freed at    *)
(* once by the thread that marked it.                                      *)
(*                                                                         *)
(* A key is a sid, which is inserted once, so a node is named by its key   *)
(* and the two sentinels by keys below and above all others.  What the     *)
(* program does after it has used freed memory is undefined: the model     *)
(* records that and stops.                                                 *)
(***************************************************************************)
EXTENDS Naturals, FiniteSets

CONSTANT LastKey    \* the keys are 1 .. LastKey

ASSUME LastKeyAssumption == LastKey \in Nat

VARIABLES
  next,       \* node -> the node its next pointer leads to
  marked,     \* the nodes whose next pointer is marked
  freed,      \* the nodes that have been freed
  used,       \* history: the keys whose insertion has begun
  calls,      \* thread -> where it is inside its operation, with its locals
  undefined,  \* history: has freed memory been used?
  faults      \* history: what has gone wrong before that

listVars == <<next, marked, freed, used, calls, undefined, faults>>

Keys == 1 .. LastKey
Head == 0
Tail == LastKey + 1
Threads == {"acceptor", "io"}

Fault(name, happened) == faults' = faults \cup (IF happened THEN {name} ELSE {})

\* A next pointer as a thread loads it: where it leads, and is it marked?
Load(node) == [to |-> next[node], mark |-> node \in marked]
Unmarked(node) == [to |-> node, mark |-> FALSE]

\* A call of op with key (0 where there is none) whose next step is step.
Call(op, key, step) ==
  [op |-> op, key |-> key, step |-> step, t |-> Head, ahead |-> Unmarked(Tail),
   left |-> Head, leftNext |-> Tail, right |-> Tail, result |-> FALSE]

NoCall == Call("none", 0, "idle")

ListInit ==
  /\ next = [node \in {Head} \cup Keys |-> Tail]
  /\ marked = {}
  /\ freed = {}
  /\ used = {}
  /\ calls = [th \in Threads |-> NoCall]
  /\ undefined = FALSE
  /\ faults = {}

At(th, step) == calls[th].step = step
Go(th, call) == calls' = [calls EXCEPT ![th] = call]

\* Mutant: the comparison leaves out the mark.
CASWithoutMark(node, old) == next[node] = old.to

\* Would a compare-and-swap of the next pointer of node find old there?
CAS(node, old) == Load(node) = old

\* A dereference of node.
Touch(node) == undefined' = (node \in freed)

-----------------------------------------------------------------------------
(***************************************************************************)
(* inner_search: finds the first unmarked node at or behind key, and the   *)
(* last unmarked one before it, and unlinks the marked ones in between.    *)
(***************************************************************************)

\* Each try begins with a load of l->head->next.
SearchStart(th) ==
  /\ At(th, "start")
  /\ LET call == calls[th]
     IN Go(th, [Call(call.op, call.key, "walk") EXCEPT !.ahead = Load(Head)])
  /\ UNCHANGED <<next, marked, freed, used, undefined, faults>>

\* Having come to the node right, the search ends or has nodes to unlink.
Reached(call, right) ==
  [call EXCEPT !.right = right,
               !.step = IF call.leftNext = right THEN "check" ELSE "unlink"]

\* Mutant: a marked node is taken for the left one.
PassedAny(call) == [call EXCEPT !.left = call.t, !.leftNext = call.ahead.to]

\* The left node is the last one whose next pointer was not marked.
Passed(call) ==
  IF call.ahead.mark THEN call
                     ELSE [call EXCEPT !.left = call.t, !.leftNext = call.ahead.to]

\* Mutant: the walk ends at the key only.
NotAt(node, key) == node # key

\* The keys at which the walk goes on.
InFront(node, key) == node < key

\* One node on: the next pointer of t is loaded, unless t is the tail.
SearchWalk(th) ==
  /\ At(th, "walk")
  /\ LET call == Passed(calls[th])
         t    == call.ahead.to
     IN IF t = Tail
          THEN Go(th, Reached(call, t)) /\ UNCHANGED undefined
          ELSE /\ Touch(t)
               /\ Go(th, IF t \in marked \/ InFront(t, call.key)
                           THEN [call EXCEPT !.t = t, !.ahead = Load(t)]
                           ELSE Reached(call, t))
  /\ UNCHANGED <<next, marked, freed, used, faults>>

\* CAS(&(*left_node)->next, left_node_next, right_node).
SearchUnlink(th) ==
  /\ At(th, "unlink")
  /\ LET call == calls[th]
     IN /\ Touch(call.left)
        /\ IF CAS(call.left, Unmarked(call.leftNext))
             THEN /\ next' = [next EXCEPT ![call.left] = call.right]
                  /\ Go(th, [call EXCEPT !.step = "check"])
             ELSE /\ Go(th, [call EXCEPT !.step = "start"])
                  /\ UNCHANGED next
  /\ UNCHANGED <<marked, freed, used, faults>>

\* Mutant: the key of the right node is not looked at.
FoundAny(call) == call.right # Tail

Found(call) == call.right = call.key

\* Is the right node still unmarked?  Then the search returns to its caller,
\* which looks at the key; the reads of the one node are one step.
AfterSearch(call) ==
  CASE call.op = "insert" -> [call EXCEPT !.step = "link"]
    [] call.op = "delete" /\ Found(call) -> [call EXCEPT !.step = "load"]
    [] call.op = "free" -> [call EXCEPT !.step = "free"]
    [] OTHER -> [call EXCEPT !.step = "return", !.result = Found(call)]

SearchCheck(th) ==
  /\ At(th, "check")
  /\ LET call == calls[th]
     IN /\ Touch(call.right)
        /\ Go(th, IF call.right \in marked THEN [call EXCEPT !.step = "start"]
                                           ELSE AfterSearch(call))
  /\ UNCHANGED <<next, marked, freed, used, faults>>

InnerSearch(th) ==
  SearchStart(th) \/ SearchWalk(th) \/ SearchUnlink(th) \/ SearchCheck(th)

-----------------------------------------------------------------------------
(***************************************************************************)
(* The rest of lmvs_lflist_insert and lmvs_lflist_delete.                  *)
(***************************************************************************)

\* CAS(&(left_node->next), right_node, new_node), after new_node->next is set.
InsertLink(th) ==
  /\ At(th, "link")
  /\ LET call == calls[th]
     IN /\ Touch(call.left)
        /\ IF CAS(call.left, Unmarked(call.right))
             THEN /\ next' = [next EXCEPT ![call.left] = call.key, ![call.key] = call.right]
                  /\ Go(th, [call EXCEPT !.step = "return", !.result = TRUE])
             ELSE /\ Go(th, [call EXCEPT !.step = "start"])
                  /\ UNCHANGED next
  /\ UNCHANGED <<marked, freed, used, faults>>

\* right_node_next = right_node->next.
DeleteLoad(th) ==
  /\ At(th, "load")
  /\ LET call == calls[th]
     IN /\ Touch(call.right)
        /\ Go(th, IF call.right \in marked
                    THEN [call EXCEPT !.step = "start"]
                    ELSE [call EXCEPT !.step = "mark", !.ahead = Load(call.right)])
  /\ UNCHANGED <<next, marked, freed, used, faults>>

\* The compare-and-swap that marks the node: from here on the key is deleted.
DeleteMark(th) ==
  /\ At(th, "mark")
  /\ LET call == calls[th]
     IN /\ Touch(call.right)
        /\ IF CAS(call.right, call.ahead)
             THEN /\ marked' = marked \cup {call.right}
                  /\ Go(th, [call EXCEPT !.step = "detach"])
             ELSE /\ Go(th, [call EXCEPT !.step = "start"])
                  /\ UNCHANGED marked
  /\ UNCHANGED <<next, freed, used, faults>>

\* Mutant: nobody looks whether the node has been unlinked.
FreeAnyway(call) == [call EXCEPT !.step = "free"]

\* inner_search is called once more, and right_node becomes what it returns.
SearchAgain(call) == Call("free", call.key, "start")

\* The one that unlinks it.  If it fails, somebody has linked a node in front or
\* has unlinked the node already.
DeleteDetach(th) ==
  /\ At(th, "detach")
  /\ LET call == calls[th]
     IN /\ Touch(call.left)
        /\ IF CAS(call.left, Unmarked(call.right))
             THEN /\ next' = [next EXCEPT ![call.left] = call.ahead.to]
                  /\ Go(th, [call EXCEPT !.step = "free"])
             ELSE /\ Go(th, SearchAgain(call))
                  /\ UNCHANGED next
  /\ UNCHANGED <<marked, freed, used, faults>>

\* The nodes that a thread in the middle of an operation may yet dereference.
Held(th) ==
  LET call == calls[th]
  IN CASE call.step = "walk" -> {call.ahead.to, IF call.ahead.mark THEN call.left ELSE call.t}
       [] call.step \in {"unlink", "check", "link", "mark", "detach"} -> {call.left, call.right}
       [] OTHER -> {}

\* lmvs_lflist_node_free(right_node).  Freeing the tail, whose address the list
\* goes on comparing with, or a node twice, is undefined as well.
DeleteFree(th) ==
  /\ At(th, "free")
  /\ LET call == calls[th]
         node == call.right
     IN /\ undefined' = (node = Tail \/ node \in freed)
        /\ freed' = freed \cup {node}
        /\ faults' = faults
             \cup (IF node # call.key THEN {"misfree"} ELSE {})
             \cup (IF \E other \in Threads \ {th} : node \in Held(other)
                     THEN {"freed_under"} ELSE {})
        /\ Go(th, [call EXCEPT !.step = "return", !.result = TRUE])
  /\ UNCHANGED <<next, marked, used>>

ListStep(th) ==
  \/ InnerSearch(th)
  \/ InsertLink(th)
  \/ DeleteLoad(th)
  \/ DeleteMark(th)
  \/ DeleteDetach(th)
  \/ DeleteFree(th)

-----------------------------------------------------------------------------
(***************************************************************************)
(* What the list holds.                                                    *)
(***************************************************************************)

\* A walk from the head does not leave the nodes of these keys before its end.
Closed(set) == \A node \in set \cup {Head} : next[node] \in set \cup {Tail}

\* The keys of the nodes that a walk from the head comes to: the least such set.
Linked == {key \in Keys : \A set \in SUBSET Keys : Closed(set) => key \in set}

\* The keys in the list: those of the nodes that are linked and not marked.
Present == Linked \ marked
=============================================================================
