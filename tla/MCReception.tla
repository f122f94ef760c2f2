------------------------------ MODULE MCReception ------------------------------
(* Constants for TLC: requests without and with a header.                  *)
EXTENDS Reception

MCLengths == {5, 7}
=============================================================================
