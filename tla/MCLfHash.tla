------------------------------- MODULE MCLfHash -------------------------------
(***************************************************************************)
(* The refinement mapping to KeySet, for TLC.                              *)
(***************************************************************************)
EXTENDS LfHash

Set == INSTANCE KeySet WITH keys <- Present, removed <- marked

\* The table is a set of keys: to whoever looks at the nodes that are linked and
\* not marked, each compare-and-swap adds one key, removes one, or does nothing,
\* whatever nodes it links past or unlinks.
ActsAsSet == Set!KeySetSpec
=============================================================================
