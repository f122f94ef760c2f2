------------------------------- MODULE MCTimer -------------------------------
(* Three connections on a wheel of three slots, driven by both threads. *)
EXTENDS Timer

MCSids == 1 .. 3
MCTwoSids == 1 .. 2
=============================================================================
