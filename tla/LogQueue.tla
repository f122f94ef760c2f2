------------------------------ MODULE LogQueue ------------------------------
(***************************************************************************)
(* What the log promises its callers, without its ring of buffers: the     *)
(* messages accepted wait in a queue and go to the log files in the order  *)
(* in which they were accepted, none twice.  Each time the queue is served *)
(* messages leave it from the front; they are all written if the write     *)
(* succeeds, and a tail end of them is lost if it does not.  The promise   *)
(* ends when the queue is overrun, or the process gives up.                *)
(***************************************************************************)
EXTENDS Naturals, Sequences

VARIABLES
  accepted,  \* how many messages have been accepted: they are numbered from 1
  pending,   \* the messages waiting, oldest first
  written,   \* the messages in the log files
  given_up   \* the queue was overrun, or the process is exiting

queueVars == <<accepted, pending, written, given_up>>

QueueInit ==
  /\ accepted = 0
  /\ pending = <<>>
  /\ written = <<>>
  /\ given_up = FALSE

Accept ==
  /\ accepted' = accepted + 1
  /\ pending' = Append(pending, accepted')
  /\ UNCHANGED <<written, given_up>>

Serve ==
  /\ \E taken \in 1 .. Len(pending) : \E kept \in 0 .. taken :
       /\ pending' = SubSeq(pending, taken + 1, Len(pending))
       /\ written' = written \o SubSeq(pending, 1, kept)
  /\ UNCHANGED <<accepted, given_up>>

\* From here on anything may happen.
GiveUp == given_up'

QueueNext == Accept \/ Serve \/ GiveUp

QueueSpec == QueueInit /\ [][QueueNext]_queueVars
=============================================================================
