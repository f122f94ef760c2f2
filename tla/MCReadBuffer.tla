---------------------------- MODULE MCReadBuffer ----------------------------
(***************************************************************************)
(* Constants for TLC, and the refinement mapping to ByteQueue.             *)
(***************************************************************************)
EXTENDS ReadBuffer

Contents == [i \in 1 .. data_len |-> buffer[seek + i - 1]]

Bytes == INSTANCE ByteQueue WITH
  Pieces   <- 1 .. ReadSize,
  Promised <- MaxBufferLen \div 2,
  queue    <- Contents

\* The buffer is a queue of bytes that refuses a piece only when more than half
\* of MAX_BUFFER_LEN would wait in it.
ActsAsByteQueue == Bytes!QueueSpec
=============================================================================
