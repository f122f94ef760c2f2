------------------------------ MODULE MCExchange ------------------------------
(***************************************************************************)
(* Constants for TLC.                                                      *)
(***************************************************************************)
EXTENDS Exchange

MCFileLengths == {0, 1, 3, 6}
MCFullFiles == {1, 6}
=============================================================================
