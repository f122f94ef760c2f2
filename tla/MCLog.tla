-------------------------------- MODULE MCLog --------------------------------
(***************************************************************************)
(* A ring of three buffers that hold two messages of length one each, and  *)
(* the refinement mapping to LogQueue: the queue is what the buffers hold, *)
(* in the order of appending.                                              *)
(***************************************************************************)
EXTENDS Log, FiniteSets

MCLengths == {1, 2}

\* The messages in the ring.
Waiting == {m \in 1 .. appended : \E b \in Buffers : \E i \in 1 .. Len(data[b]) : data[b][i] = m}

\* The numbers of a set, in ascending order.
InOrder(set) ==
  [i \in 1 .. Cardinality(set) |-> CHOOSE m \in set : Cardinality({k \in set : k <= m}) = i]

Queue == INSTANCE LogQueue WITH
  accepted <- appended,
  pending  <- InOrder(Waiting),
  written  <- file,
  given_up <- lapped \/ process # "running"

\* The log is a queue, in spite of the timed wait that makes the flusher
\* overtake tail and the buffers it empties whatever became of the write.
ActsAsQueue == Queue!QueueSpec
=============================================================================
