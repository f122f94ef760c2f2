------------------------------ MODULE MCServer ------------------------------
(* Machines of two and of five CPUs; up to two lines that count, of which a *)
(* later one may be for the same name; both names share a bucket.           *)
EXTENDS Server

MCNames == {"maxconn", "threadcount"}
MCHash == [name \in MCNames |-> "bucket"]
=============================================================================
