-------------------------------- MODULE KeySet --------------------------------
(***************************************************************************)
(* What a list of keys promises: it is a set, to which a key is added once *)
(* and from which it is removed once, each by a single step.               *)
(***************************************************************************)
CONSTANT Keys

VARIABLES keys, removed

keySetVars == <<keys, removed>>

KeySetInit == keys = {} /\ removed = {}

Add(key) ==
  /\ key \notin keys \cup removed
  /\ keys' = keys \cup {key}
  /\ UNCHANGED removed

Remove(key) ==
  /\ key \in keys
  /\ keys' = keys \ {key}
  /\ removed' = removed \cup {key}

KeySetNext == \E key \in Keys : Add(key) \/ Remove(key)

KeySetSpec == KeySetInit /\ [][KeySetNext]_keySetVars
=============================================================================
