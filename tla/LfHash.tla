-------------------------------- MODULE LfHash --------------------------------
(***************************************************************************)
(* A table of lmvs-lfhash.c, as one wheel of the timer is used: one bucket *)
(* of it, an LfList, and the flag and spinlock with which                  *)
(* lmvs_lfhash_get_all_keys, on the I/O thread, means to keep the other    *)
(* operations out.  They look at the flag before they begin, and again     *)
(* before they unlock.                                                     *)
(***************************************************************************)
EXTENDS LfList

VARIABLES
  locked,     \* ht->locked
  lock,       \* ht->lock
  holders,    \* history: the threads that have taken the lock, not released it
  collected,  \* the keys lmvs_lfhash_get_all_keys has put in its new list
  before      \* history: the keys present when the I/O thread began its call

flagVars == <<locked, lock, holders>>
hashVars == <<listVars, flagVars, collected, before>>

HashInit ==
  /\ ListInit
  /\ locked = FALSE
  /\ lock = FALSE
  /\ holders = {}
  /\ collected = {}
  /\ before = {}

\* The first look at the flag.
Enter(th, op, key) ==
  /\ At(th, "idle")
  /\ Go(th, Call(op, key, IF locked THEN "lock" ELSE "start"))
  /\ UNCHANGED <<next, marked, freed, undefined, faults, flagVars, collected>>

\* lmvs_lfhash_insert, with a sid that has not been there.
EnterInsert(key) ==
  /\ key \notin used
  /\ Enter("acceptor", "insert", key)
  /\ used' = used \cup {key}
  /\ UNCHANGED before

\* lmvs_lfhash_search and lmvs_lfhash_delete.
EnterOnIoThread(op, key) ==
  /\ Enter("io", op, key)
  /\ before' = Present
  /\ UNCHANGED used

\* The beginning of lmvs_lfhash_get_all_keys: locked = 1.
EnterCollect ==
  /\ At("io", "idle")
  /\ locked' = TRUE
  /\ Go("io", Call("collect", 0, "lock"))
  /\ before' = Present
  /\ UNCHANGED <<next, marked, freed, used, undefined, faults, lock, holders, collected>>

\* Mutant: a store where lmvs_spinlock_lock has a test-and-set.
StoreOnly == TRUE

\* __sync_lock_test_and_set returns 0.
TestAndSet == ~lock

\* lmvs_spinlock_lock: the test-and-set that finds the lock free.
SpinlockLock(th) ==
  /\ At(th, "lock")
  /\ TestAndSet
  /\ lock' = TRUE
  /\ holders' = holders \cup {th}
  /\ Go(th, [calls[th] EXCEPT !.step = IF calls[th].op = "collect" THEN "collect" ELSE "start"])
  /\ UNCHANGED <<next, marked, freed, used, undefined, faults, locked, collected, before>>

\* Mutant: the lock is for the collection to release.
NeverUnlocks == FALSE

\* The second look at the flag.
Unlocks == locked

\* The unlock depends on it, not on whether the lock was taken.
Leave(th) ==
  /\ At(th, "return")
  /\ IF Unlocks
       THEN /\ lock' = FALSE
            /\ holders' = holders \ {th}
            /\ Fault("stray_unlock", th \notin holders)
       ELSE /\ Fault("kept", ~locked /\ th \in holders)
            /\ UNCHANGED <<lock, holders>>
  /\ Go(th, NoCall)
  /\ before' = IF th = "io" THEN {} ELSE before
  /\ UNCHANGED <<next, marked, freed, used, undefined, locked, collected>>

\* tmp_node = tmp_node->next, and its key goes into the new list.  The walk does
\* not look for marks: a marked pointer leads it beside the node.
Collect ==
  /\ At("io", "collect")
  /\ LET call == calls["io"]
         node == next[call.t]
     IN /\ undefined' = (call.t \in freed \/ call.t \in marked)
        /\ IF node = Tail
             THEN Go("io", [call EXCEPT !.step = "unlock"]) /\ UNCHANGED collected
             ELSE /\ Go("io", [call EXCEPT !.t = node])
                  /\ collected' = collected \cup {node}
  /\ UNCHANGED <<next, marked, freed, used, faults, flagVars, before>>

\* lmvs_spinlock_unlock, then locked = 0; the caller uses and frees the list.
LeaveCollect ==
  \/ /\ At("io", "unlock")
     /\ lock' = FALSE
     /\ holders' = holders \ {"io"}
     /\ Go("io", Call("collect", 0, "clear"))
     /\ collected' = {} /\ before' = {}
     /\ UNCHANGED <<next, marked, freed, used, undefined, faults, locked>>
  \/ /\ At("io", "clear")
     /\ locked' = FALSE
     /\ Go("io", NoCall)
     /\ UNCHANGED <<next, marked, freed, used, undefined, faults, lock, holders,
                    collected, before>>

ListOperation(th) == ListStep(th) /\ UNCHANGED <<flagVars, collected, before>>

Begin ==
  \/ \E key \in Keys : EnterInsert(key)
  \/ \E key \in Keys, op \in {"search", "delete"} : EnterOnIoThread(op, key)
  \/ EnterCollect

\* Once a node has been freed that is still linked, the list may lead anywhere
\* as soon as its memory is given out again: the model goes no further.
Running == ~undefined /\ "misfree" \notin faults

HashNext ==
  /\ Running
  /\ \/ Begin
     \/ \E th \in Threads : SpinlockLock(th) \/ ListOperation(th) \/ Leave(th)
     \/ Collect
     \/ LeaveCollect

HashSpec == HashInit /\ [][HashNext]_hashVars

\* A thread in the middle of a call keeps running.  The spinlock is not fair, but
\* a wheel is collected once in a round: a thread that spins finds the lock free
\* again and again, and has all the time there is to take it.
HashFairness ==
  /\ \A th \in Threads :
       /\ WF_hashVars(Running /\ (ListOperation(th) \/ Leave(th)))
       /\ SF_hashVars(Running /\ SpinlockLock(th))
  /\ WF_hashVars(Running /\ (Collect \/ LeaveCollect))

FairHashSpec == HashSpec /\ HashFairness

-----------------------------------------------------------------------------
(***************************************************************************)
(* Properties.                                                             *)
(***************************************************************************)

Avoided(set) == faults \cap set = {}

Calls ==
  [op : {"none", "insert", "search", "delete", "free", "collect"}, key : Keys \cup {0},
   step : {"idle", "lock", "start", "walk", "unlink", "check", "link", "load", "mark",
           "detach", "free", "return", "collect", "unlock", "clear"},
   t : Keys \cup {Head}, ahead : [to : Keys \cup {Tail}, mark : BOOLEAN],
   left : Keys \cup {Head}, leftNext : Keys \cup {Tail}, right : Keys \cup {Tail},
   result : BOOLEAN]

\* The variables have their types, and the list is in order, so that a walk ends.
HashTypeOK ==
  /\ next \in [Keys \cup {Head} -> Keys \cup {Tail}]
  /\ \A node \in DOMAIN next : node < next[node]
  /\ marked \subseteq used /\ used \subseteq Keys
  /\ freed \subseteq used \cup {Tail}
  /\ calls \in [Threads -> Calls]
  /\ undefined \in BOOLEAN /\ locked \in BOOLEAN /\ lock \in BOOLEAN
  /\ faults \subseteq {"misfree", "freed_under", "stray_unlock", "kept"}
  /\ holders \subseteq Threads
  /\ collected \subseteq Keys /\ before \subseteq Keys

\* Freed memory is used only after lmvs_lflist_delete has freed a node that
\* another thread was standing on, or another node than the one it unlinked;
\* there is no third way to it, through nodes unlinked but not freed or through
\* the walk of a collection, which takes no notice of marks.
NoDanglingNode == undefined => ~Avoided({"misfree", "freed_under"})

\* Unless the wrong node was freed, no node is freed that can be reached from
\* the head, and no deleted node is left behind, linked or leaked, by the end of
\* lmvs_lflist_delete, whatever the acceptor has linked or unlinked meanwhile.
FreesWhatItDeletes ==
  Avoided({"misfree"}) =>
    /\ freed \cap Linked = {}
    /\ calls["io"].step \in {"idle", "lock", "collect", "return"} => marked = freed

\* What an operation of the I/O thread answers was so while it ran, although the
\* acceptor inserts at the same time: a key that was there from the beginning is
\* found, and nothing is found that is not there; a collection has all keys that
\* were there when it began and no others than are there when it ends.
AnswersAreTrue ==
  ~undefined =>
    LET call == calls["io"]
    IN /\ call.step = "return" /\ call.op = "search" =>
            (call.key \in before => call.result) /\ (call.result => call.key \in Present)
       /\ call.step = "return" /\ call.op \in {"delete", "free"} =>
            call.key \notin before \cap Present /\ (call.result => call.key \notin Present)
       /\ call.step = "unlock" => before \subseteq collected /\ collected \subseteq Present

\* The lock is what it says, and keeps a collection and the operations that have
\* seen its flag apart, until an operation has released a lock it never took.
LockIsOwned ==
  Avoided({"stray_unlock"}) => (lock <=> holders # {}) /\ Cardinality(holders) <= 1

\* An operation leaves the lock to others when it ends, unless the flag was
\* cleared under it.
LockIsReleased ==
  Avoided({"kept"}) => \A th \in holders : ~At(th, "idle")

\* Every operation and every collection ends, unless a lock was kept: then the
\* next collection spins for ever, and with it the I/O thread.
EveryCallEnds ==
  \A th \in Threads :
    ~At(th, "idle") ~> (At(th, "idle") \/ undefined \/ ~Avoided({"misfree", "kept"}))
=============================================================================
