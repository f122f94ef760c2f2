--------------------------------- MODULE Log ---------------------------------
(***************************************************************************)
(* The asynchronous log (lmvs-log.c).  Any thread of the server appends    *)
(* messages to the buffer at tail of a ring of buffers, and moves tail on  *)
(* when the message does not fit; one flusher thread writes the buffer at  *)
(* head to the file, empties it and moves head on, and changes to a new    *)
(* file when the old one has grown to the configured size.                 *)
(*                                                                         *)
(* A spinlock makes lmvs_log_log, lmvs_log_fatal and one flush atomic; the *)
(* flusher compares head with tail without it.  Nothing keeps tail from    *)
(* being moved onto head: the history variable lapped records that it was. *)
(***************************************************************************)
EXTENDS Integers, Sequences

CONSTANTS
  NElements,    \* N_ELEMENTS: the buffers in the ring
  BufferSize,   \* BUFFER_SIZE: what fits in one of them
  Lengths,      \* the lengths messages may have
  RotateSize,   \* log->rotate_size: logsize of the configuration
  MaxMessages,  \* how many messages the model logs in all
  MaxFailures   \* how many writes and opens of a file may fail in all

ASSUME NElementsAssumption == NElements \in Nat /\ NElements >= 2
ASSUME BufferSizeAssumption == BufferSize \in Nat \ {0}
ASSUME LengthsAssumption == \A len \in Lengths : len \in 1 .. BufferSize
ASSUME RotateSizeAssumption == RotateSize \in Nat \ {0}
ASSUME BoundsAssumption == MaxMessages \in Nat /\ MaxFailures \in Nat

VARIABLES
  head,      \* log->head: the buffer to be written next
  tail,      \* log->tail: the buffer appended to
  seek,      \* buffer -> log_buffer_t.seek, the bytes in it (remain is the rest)
  data,      \* buffer -> the messages in it, as numbers in order of appending
  fseek,     \* log->fseek: the bytes the code thinks are in the file
  fd,        \* log->fd: "open", or "none" after a failed open
  flusher,   \* where thread_flush is: "top", "waiting" or "ready"
  process,   \* "running", "exiting" in lmvs_log_fatal, or "exited"
  file,      \* the messages in the log files, all files together
  filesize,  \* history: the bytes in the file that is open
  appended,  \* history: how many messages were appended
  failures,  \* history: how many writes and opens have failed
  lapped     \* history: tail has been moved onto head

logVars == <<head, tail, seek, data, fseek, fd, flusher, process, file,
             filesize, appended, failures, lapped>>

Buffers == 0 .. NElements - 1
FatalMessage == 0

LogInit ==
  /\ head = 0
  /\ tail = 0
  /\ seek = [b \in Buffers |-> 0]
  /\ data = [b \in Buffers |-> <<>>]
  /\ fseek = 0
  /\ fd = "open"
  /\ flusher = "top"
  /\ process = "running"
  /\ file = <<>>
  /\ filesize = 0
  /\ appended = 0
  /\ failures = 0
  /\ lapped = FALSE

\* log_buffer_t.next: the buffers are linked into a ring.
NextBuffer(b) == IF b = NElements - 1 THEN 0 ELSE b + 1

-----------------------------------------------------------------------------
(***************************************************************************)
(* The callers.                                                            *)
(***************************************************************************)

Remain(b) == BufferSize - seek[b]
\* Mutant: there is room, but not for the message.
FitsSomething(b, len) == Remain(b) > 0

Fits(b, len) == Remain(b) > len

\* lmvs_log_log: append at tail, or move tail on and append there unasked.
LogMessage(len) ==
  /\ process # "exited"
  /\ appended < MaxMessages
  /\ LET b == IF Fits(tail, len) THEN tail ELSE NextBuffer(tail)
     IN /\ tail' = b
        /\ data' = [data EXCEPT ![b] = Append(@, appended + 1)]
        /\ seek' = [seek EXCEPT ![b] = @ + len]
        /\ lapped' = (lapped \/ (b # tail /\ b = head))
  /\ appended' = appended + 1
  /\ UNCHANGED <<head, fseek, fd, flusher, process, file, filesize, failures>>

\* lmvs_log_fatal: write the buffer at head and the message, whatever becomes of
\* either, leave the ring as it is and call exit.  (A second call, before the
\* exit of the first, is left out.)
LogFatal(len) ==
  /\ process = "running"
  /\ \E n \in 0 .. Len(data[head]) : \E whole \in BOOLEAN :
       /\ fd = "none" => n = 0 /\ ~whole
       /\ failures' = IF fd = "none" \/ (n = Len(data[head]) /\ whole)
                        THEN failures ELSE failures + 1
       /\ failures' <= MaxFailures
       /\ file' = file \o SubSeq(data[head], 1, n)
                       \o (IF whole THEN <<FatalMessage>> ELSE <<>>)
       /\ filesize' = IF fd = "none" THEN filesize ELSE filesize + seek[head] + len
  /\ process' = "exiting"
  /\ UNCHANGED <<head, tail, seek, data, fseek, fd, flusher, appended, lapped>>

\* exit has run: every thread is gone, and what is in the ring with them.
Exit ==
  /\ process = "exiting"
  /\ process' = "exited"
  /\ UNCHANGED <<head, tail, seek, data, fseek, fd, flusher, file, filesize,
                 appended, failures, lapped>>

-----------------------------------------------------------------------------
(***************************************************************************)
(* thread_flush.                                                           *)
(***************************************************************************)

\* The comparison of head with tail, outside the lock.
CompareHeadTail ==
  /\ flusher = "top"
  /\ flusher' = IF head = tail THEN "waiting" ELSE "ready"
  /\ UNCHANGED <<head, tail, seek, data, fseek, fd, process, file, filesize,
                 appended, failures, lapped>>

\* Mutant: a wait without a timeout, which only a signal ends.
WakeUpBySignal ==
  /\ flusher = "waiting"
  /\ head # tail
  /\ flusher' = "ready"
  /\ UNCHANGED <<head, tail, seek, data, fseek, fd, process, file, filesize,
                 appended, failures, lapped>>

\* lmvs_cond_wait_sec returns: signalled by a caller, or after one second.
WakeUp ==
  /\ flusher = "waiting"
  /\ flusher' = "ready"
  /\ UNCHANGED <<head, tail, seek, data, fseek, fd, process, file, filesize,
                 appended, failures, lapped>>

\* Mutant: a file that has just reached the size is kept.
RotateBeyond(newseek, newsize, failed) ==
  IF newseek <= RotateSize
    THEN /\ fseek' = newseek
         /\ filesize' = newsize
         /\ failures' = failed
         /\ UNCHANGED fd
    ELSE /\ fd' = "open"
         /\ fseek' = 0
         /\ filesize' = 0
         /\ failures' = failed

\* _create_new_file, when the file has grown to the configured size; if it
\* cannot be opened the log is left without a file, and fseek as it is.
Rotate(newseek, newsize, failed) ==
  IF newseek < RotateSize
    THEN /\ fseek' = newseek
         /\ filesize' = newsize
         /\ failures' = failed
         /\ UNCHANGED fd
    ELSE \/ /\ fd' = "open"
            /\ fseek' = 0
            /\ filesize' = 0
            /\ failures' = failed
         \/ /\ failed < MaxFailures
            /\ fd' = "none"
            /\ fseek' = newseek
            /\ filesize' = 0
            /\ failures' = failed + 1

\* write() of the whole buffer, of some messages of it and part of the rest, or
\* of nothing, with -1 as its answer.
WriteAll ==
  /\ fd = "open"
  /\ file' = file \o data[head]
  /\ Rotate(fseek + seek[head], filesize + seek[head], failures)

WriteSome ==
  /\ fd = "open"
  /\ failures < MaxFailures
  /\ data[head] # <<>>
  /\ \E n \in 0 .. Len(data[head]) - 1 : \E bytes \in n .. seek[head] - 1 :
       /\ file' = file \o SubSeq(data[head], 1, n)
       /\ Rotate(fseek + bytes, filesize + bytes, failures + 1)

\* Without a file every write fails, and fseek goes on down; the model stops
\* where an open file never gets.  (The int of the code would wrap in the end.)
SeekFloor == -MaxFailures

WriteFails ==
  /\ \/ fd = "open" /\ failures < MaxFailures
     \/ fd = "none"
  /\ Rotate(IF fseek > SeekFloor THEN fseek - 1 ELSE fseek, filesize,
            IF fd = "open" THEN failures + 1 ELSE failures)
  /\ UNCHANGED file

\* Mutant: head moves on, and the buffer keeps what was written.
FlushKeepsBuffer ==
  /\ flusher = "ready"
  /\ WriteAll \/ WriteSome \/ WriteFails
  /\ head' = NextBuffer(head)
  /\ flusher' = "top"
  /\ UNCHANGED <<tail, seek, data, process, appended, lapped>>

\* Mutant: a buffer that could not be written is kept for the next round.
FlushKeepsFailed ==
  /\ flusher = "ready"
  /\ \/ /\ WriteAll \/ WriteSome
        /\ seek' = [seek EXCEPT ![head] = 0]
        /\ data' = [data EXCEPT ![head] = <<>>]
     \/ WriteFails /\ UNCHANGED <<seek, data>>
  /\ head' = NextBuffer(head)
  /\ flusher' = "top"
  /\ UNCHANGED <<tail, process, appended, lapped>>

\* The buffer is emptied whatever became of the write, and head moves on, past
\* tail if it was there.
Flush ==
  /\ flusher = "ready"
  /\ WriteAll \/ WriteSome \/ WriteFails
  /\ seek' = [seek EXCEPT ![head] = 0]
  /\ data' = [data EXCEPT ![head] = <<>>]
  /\ head' = NextBuffer(head)
  /\ flusher' = "top"
  /\ UNCHANGED <<tail, process, appended, lapped>>

FlusherStep == process # "exited" /\ (CompareHeadTail \/ WakeUp \/ Flush)

LogNext ==
  \/ \E len \in Lengths : LogMessage(len) \/ LogFatal(len)
  \/ Exit
  \/ FlusherStep

LogSpec == LogInit /\ [][LogNext]_logVars

\* The flusher runs: its wait is timed, so no signal has to reach it.
FairLogSpec == LogSpec /\ WF_logVars(FlusherStep)

-----------------------------------------------------------------------------
(***************************************************************************)
(* Properties.  Those that say ~lapped hold as long as tail has never been *)
(* moved onto head; nothing in the code keeps it from that.                *)
(***************************************************************************)

\* Types of all variables.
LogTypeOK ==
  /\ head \in Buffers
  /\ tail \in Buffers
  /\ seek \in [Buffers -> Nat]
  /\ data \in [Buffers -> Seq(1 .. appended)]
  /\ fseek \in Int
  /\ fd \in {"open", "none"}
  /\ flusher \in {"top", "waiting", "ready"}
  /\ process \in {"running", "exiting", "exited"}
  /\ file \in Seq(0 .. appended)
  /\ filesize \in Nat
  /\ appended \in 0 .. MaxMessages
  /\ failures \in 0 .. MaxFailures
  /\ lapped \in BOOLEAN

\* A buffer is never written beyond its end, although lmvs_log_log does not look
\* at the buffer it moves tail to and the flusher, which waits for one second
\* only, overtakes tail and goes round the ring.
NoOverrun == ~lapped => \A b \in Buffers : seek[b] <= BufferSize

\* The log files are in the order of appending and hold no message twice, even
\* if the process is exiting: lmvs_log_fatal writes the buffer at head, and the
\* flusher, still running, may write it once more, but after that message (which
\* may be missing if a write has failed).
OrderKept ==
  ~lapped /\ (process = "running" \/ failures = 0) =>
    \A i, j \in DOMAIN file :
      i < j /\ (\A k \in i .. j : file[k] # FatalMessage) => file[i] < file[j]

\* A file never reaches the configured size and stays in use, except for the
\* bytes that failed writes have taken from the code's own count.
FilesRotated ==
  fd = "open" /\ process = "running" => filesize < RotateSize + failures

\* A message appended does not stay in memory: it reaches a file, although no
\* signal is sent for a buffer that is not full and a signal may find nobody
\* waiting; a lapped ring, a failure or the end of the process excuse it.
EveryMessageWritten ==
  \A m \in 1 .. MaxMessages :
    appended >= m ~> \/ \E i \in DOMAIN file : file[i] = m
                     \/ lapped \/ failures > 0 \/ process # "running"
=============================================================================
