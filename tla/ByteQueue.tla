------------------------------ MODULE ByteQueue ------------------------------
(***************************************************************************)
(* What a read buffer promises: the bytes that arrive on a connection, in  *)
(* the order in which they arrive, until they are taken or the connection  *)
(* is given up.  A piece may be refused, as a whole, but only if with it   *)
(* more than Promised bytes would be waiting.                              *)
(***************************************************************************)
EXTENDS Naturals, Sequences

CONSTANTS
  Pieces,     \* how many bytes may arrive at a time
  Promised    \* how many bytes may wait at least

VARIABLES
  arrived,    \* how many bytes have arrived; the n-th of them is n
  queue       \* the bytes that wait

queueVars == <<arrived, queue>>

QueueInit == arrived = 0 /\ queue = << >>

Arrive(len) ==
  /\ arrived' = arrived + len
  /\ queue' = queue \o [i \in 1 .. len |-> arrived + i]

Refuse(len) ==
  /\ Len(queue) + len > Promised
  /\ arrived' = arrived + len
  /\ UNCHANGED queue

Take(len) ==
  /\ len <= Len(queue)
  /\ queue' = SubSeq(queue, len + 1, Len(queue))
  /\ UNCHANGED arrived

QueueNext ==
  \/ \E len \in Pieces : Arrive(len) \/ Refuse(len)
  \/ \E len \in 1 .. Len(queue) : Take(len)

QueueSpec == QueueInit /\ [][QueueNext]_queueVars
=============================================================================
