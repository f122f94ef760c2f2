------------------------------ MODULE LogProofs ------------------------------
(***************************************************************************)
(* The log neither overruns its buffers, nor writes messages out of order  *)
(* or twice, nor lets a file grow beyond the configured size, for any ring *)
(* and any messages.                                                       *)
(*                                                                         *)
(* Buffers are compared by how far round the ring from head they are.  The *)
(* invariant behind the first two results is that a ring not lapped is     *)
(* empty from tail on up to head; then moving tail on finds an empty       *)
(* buffer, and the queue of the messages, read from head, is sorted.       *)
(***************************************************************************)
EXTENDS MCLog, SequenceTheorems, FiniteSetTheorems, TLAPS

\* How many buffers after a the buffer b comes.
Dist(a, b) == IF b >= a THEN b - a ELSE b - a + NElements

BeyondTail(b) == Dist(head, b) > Dist(head, tail)

-----------------------------------------------------------------------------
(***************************************************************************)
(* The ring.                                                               *)
(***************************************************************************)

LEMMA RingType ==
  ASSUME NEW b \in Buffers
  PROVE  NextBuffer(b) \in Buffers /\ NextBuffer(b) # b /\ b \in Int
BY NElementsAssumption DEF Buffers, NextBuffer

LEMMA DistType ==
  ASSUME NEW a \in Buffers, NEW b \in Buffers
  PROVE  Dist(a, b) \in 0 .. NElements - 1 /\ (Dist(a, b) = 0 <=> a = b)
BY NElementsAssumption DEF Buffers, Dist

\* Unless it comes back to a, the next buffer is one further from a.
LEMMA DistNext ==
  ASSUME NEW a \in Buffers, NEW b \in Buffers, NextBuffer(b) # a
  PROVE  Dist(a, NextBuffer(b)) = Dist(a, b) + 1
BY NElementsAssumption DEF Buffers, NextBuffer, Dist

\* Seen from the next buffer everything is one nearer, but a itself.
LEMMA DistFromNext ==
  ASSUME NEW a \in Buffers, NEW b \in Buffers
  PROVE  Dist(NextBuffer(a), b) = IF b = a THEN NElements - 1 ELSE Dist(a, b) - 1
BY NElementsAssumption DEF Buffers, NextBuffer, Dist

\* Two buffers are equally far only if they are one.
LEMMA DistInjective ==
  ASSUME NEW a \in Buffers, NEW b \in Buffers, NEW c \in Buffers,
         Dist(a, b) = Dist(a, c)
  PROVE  b = c
BY NElementsAssumption DEF Buffers, Dist

-----------------------------------------------------------------------------
(***************************************************************************)
(* Types.                                                                  *)
(***************************************************************************)

LEMMA FloorType == SeekFloor \in Int /\ SeekFloor <= 0
BY BoundsAssumption DEF SeekFloor

\* What Rotate leaves, having been given a count of failures.
Written(failed) ==
  /\ fseek' \in Int
  /\ filesize' \in Nat
  /\ failures' \in 0 .. MaxFailures
  /\ failed <= failures'
  /\ fd' \in {"open", "none"}

LEMMA RotateType ==
  ASSUME NEW newseek \in Int, NEW newsize \in Nat, NEW failed \in 0 .. MaxFailures,
         fd \in {"open", "none"}, Rotate(newseek, newsize, failed)
  PROVE  Written(failed)
BY BoundsAssumption, RotateSizeAssumption DEF Rotate, Written

\* Whatever becomes of the write, a beginning of the buffer at head reaches the
\* file, all of it unless a failure is counted.
LEMMA WriteType ==
  ASSUME LogTypeOK, Flush
  PROVE  /\ \E n \in 0 .. Len(data[head]) : file' = file \o SubSeq(data[head], 1, n)
         /\ Written(failures)
<1> USE DEF LogTypeOK
<1>0. /\ data[head] \in Seq(1 .. appended) /\ seek[head] \in Nat
      /\ Len(data[head]) \in Nat /\ failures \in Nat
  BY LenProperties
<1>1. CASE WriteAll
  <2>1. file' = file \o SubSeq(data[head], 1, Len(data[head]))
    BY <1>0, <1>1, SubSeqFull DEF WriteAll
  <2>2. Rotate(fseek + seek[head], filesize + seek[head], failures)
    BY <1>1 DEF WriteAll
  <2>3. fseek + seek[head] \in Int /\ filesize + seek[head] \in Nat
    BY <1>0
  <2>4. Written(failures)
    BY <2>2, <2>3, RotateType DEF Written
  <2>5. Len(data[head]) \in 0 .. Len(data[head])
    BY <1>0
  <2> QED BY <2>1, <2>4, <2>5 DEF Written
<1>2. CASE WriteSome
  <2>1. PICK n \in 0 .. Len(data[head]) - 1 : \E bytes \in n .. seek[head] - 1 :
          /\ file' = file \o SubSeq(data[head], 1, n)
          /\ Rotate(fseek + bytes, filesize + bytes, failures + 1)
    BY <1>2 DEF WriteSome
  <2>2. PICK bytes \in n .. seek[head] - 1 :
          Rotate(fseek + bytes, filesize + bytes, failures + 1)
    BY <2>1
  <2>3. /\ fseek + bytes \in Int /\ filesize + bytes \in Nat
        /\ failures + 1 \in 0 .. MaxFailures
    BY <1>0, <1>2, BoundsAssumption DEF WriteSome
  <2>4. Written(failures + 1) /\ failures <= failures + 1
    BY <1>0, <2>2, <2>3, RotateType DEF Written
  <2>5. n \in 0 .. Len(data[head]) /\ failures <= failures'
    BY <1>0, <2>4 DEF Written
  <2> QED BY <2>1, <2>4, <2>5 DEF Written
<1>3. CASE WriteFails
  <2>1. file' = file \o SubSeq(data[head], 1, 0)
    <3>1. SubSeq(data[head], 1, 0) = <<>>
      BY SubSeqEmpty
    <3> QED BY <1>3, <3>1, ConcatEmptySeq DEF WriteFails
  <2> DEFINE newseek == IF fseek > SeekFloor THEN fseek - 1 ELSE fseek
             failed == IF fd = "open" THEN failures + 1 ELSE failures
  <2>2. Rotate(newseek, filesize, failed)
    BY <1>3 DEF WriteFails
  <2>3. newseek \in Int /\ failed \in 0 .. MaxFailures /\ failures <= failed
    BY <1>0, <1>3, BoundsAssumption DEF WriteFails
  <2> HIDE DEF newseek, failed
  <2>4. Written(failed)
    BY <2>2, <2>3, RotateType DEF Written
  <2>5. 0 \in 0 .. Len(data[head]) /\ failures <= failures'
    BY <1>0, <2>3, <2>4 DEF Written
  <2> QED BY <2>1, <2>4, <2>5 DEF Written
<1> QED BY <1>1, <1>2, <1>3 DEF Flush

LEMMA LogTypeInit == LogInit => LogTypeOK
<1> SUFFICES ASSUME LogInit PROVE LogTypeOK
  OBVIOUS
<1>1. <<>> \in Seq(1 .. appended) /\ <<>> \in Seq(0 .. appended)
  BY EmptySeq
<1>2. head \in Buffers
  BY NElementsAssumption DEF LogInit, Buffers
<1> QED BY <1>1, <1>2, BoundsAssumption DEF LogInit, LogTypeOK

\* The buffer that a message is appended to.
Target(len) == IF Fits(tail, len) THEN tail ELSE NextBuffer(tail)

LEMMA LogTypeMessage ==
  ASSUME LogTypeOK, NEW len \in Lengths, LogMessage(len)
  PROVE  LogTypeOK'
<1> USE DEF LogTypeOK
<1> DEFINE b == Target(len)
<1>1. b \in Buffers /\ tail' = b
  BY RingType DEF LogMessage, Target
<1>2. /\ data' = [data EXCEPT ![b] = Append(@, appended + 1)]
      /\ seek' = [seek EXCEPT ![b] = @ + len]
      /\ appended' = appended + 1
  BY DEF LogMessage, Target
<1> HIDE DEF b
<1>3. len \in Nat /\ appended \in Nat /\ appended' \in 0 .. MaxMessages
  BY LengthsAssumption, BufferSizeAssumption, BoundsAssumption DEF LogMessage
<1>4. seek' \in [Buffers -> Nat]
  BY <1>1, <1>2, <1>3
<1>5. data' \in [Buffers -> Seq(1 .. appended')]
  <2>1. \A c \in Buffers : data[c] \in Seq(1 .. appended')
    <3> TAKE c \in Buffers
    <3>1. 1 .. appended \subseteq 1 .. appended'
      BY <1>2, <1>3
    <3> QED BY <3>1, SeqMonotonic
  <2>2. Append(data[b], appended + 1) \in Seq(1 .. appended')
    BY <1>1, <1>2, <1>3, <2>1, AppendProperties
  <2> QED BY <1>1, <1>2, <2>1, <2>2
<1>6. file' \in Seq(0 .. appended')
  <2>1. 0 .. appended \subseteq 0 .. appended' /\ file' = file
    BY <1>2, <1>3 DEF LogMessage
  <2> QED BY <2>1, SeqMonotonic
<1>7. lapped' \in BOOLEAN
  BY DEF LogMessage
<1> QED BY <1>1, <1>3, <1>4, <1>5, <1>6, <1>7 DEF LogMessage

LEMMA LogTypeFatal ==
  ASSUME LogTypeOK, NEW len \in Lengths, LogFatal(len)
  PROVE  LogTypeOK'
<1> USE DEF LogTypeOK
<1>1. len \in Nat /\ data[head] \in Seq(0 .. appended) /\ seek[head] \in Nat
  <2>1. 1 .. appended \subseteq 0 .. appended /\ data[head] \in Seq(1 .. appended)
    OBVIOUS
  <2> QED BY <2>1, SeqMonotonic, LengthsAssumption, BufferSizeAssumption
<1>2. PICK n \in 0 .. Len(data[head]), whole \in BOOLEAN :
        /\ failures' = IF fd = "none" \/ (n = Len(data[head]) /\ whole)
                         THEN failures ELSE failures + 1
        /\ failures' <= MaxFailures
        /\ file' = (file \o SubSeq(data[head], 1, n))
                        \o (IF whole THEN <<FatalMessage>> ELSE <<>>)
        /\ filesize' = IF fd = "none" THEN filesize ELSE filesize + seek[head] + len
  BY DEF LogFatal
<1>3. SubSeq(data[head], 1, n) \in Seq(0 .. appended)
  BY <1>1, SubSeqProperties, ElementOfSeq
<1>4. (IF whole THEN <<FatalMessage>> ELSE <<>>) \in Seq(0 .. appended)
  <2>1. FatalMessage \in 0 .. appended
    BY BoundsAssumption DEF FatalMessage
  <2>2. <<FatalMessage>> \in Seq(0 .. appended) /\ <<>> \in Seq(0 .. appended)
    BY <2>1
  <2> QED BY <2>2
<1>5. file' \in Seq(0 .. appended)
  BY <1>2, <1>3, <1>4, ConcatProperties
<1>6. failures' \in 0 .. MaxFailures /\ filesize' \in Nat
  BY <1>1, <1>2, BoundsAssumption
<1> QED BY <1>5, <1>6 DEF LogFatal

LEMMA LogTypeFlush ==
  ASSUME LogTypeOK, Flush
  PROVE  LogTypeOK'
<1> USE DEF LogTypeOK
<1>1. PICK n \in 0 .. Len(data[head]) : file' = file \o SubSeq(data[head], 1, n)
  BY WriteType
<1>2. SubSeq(data[head], 1, n) \in Seq(0 .. appended)
  <2>1. 1 .. appended \subseteq 0 .. appended /\ data[head] \in Seq(1 .. appended)
    OBVIOUS
  <2>2. data[head] \in Seq(0 .. appended)
    BY <2>1, SeqMonotonic
  <2> QED BY <2>2, SubSeqProperties, ElementOfSeq
<1>3. file' \in Seq(0 .. appended)
  BY <1>1, <1>2, ConcatProperties
<1>4. /\ data' = [data EXCEPT ![head] = <<>>]
      /\ seek' = [seek EXCEPT ![head] = 0]
      /\ head' = NextBuffer(head)
      /\ flusher' = "top"
      /\ UNCHANGED <<tail, process, appended, lapped>>
  BY DEF Flush
<1>5. data' \in [Buffers -> Seq(1 .. appended)] /\ seek' \in [Buffers -> Nat]
  BY <1>4, EmptySeq
<1>6. head' \in Buffers
  BY <1>4, RingType
<1> QED BY <1>3, <1>4, <1>5, <1>6, WriteType DEF Written

LEMMA LogTypeNext == LogTypeOK /\ [LogNext]_logVars => LogTypeOK'
<1> SUFFICES ASSUME LogTypeOK, [LogNext]_logVars PROVE LogTypeOK'
  OBVIOUS
<1>1. CASE \E len \in Lengths : LogMessage(len) \/ LogFatal(len)
  BY <1>1, LogTypeMessage, LogTypeFatal
<1>2. CASE Exit \/ CompareHeadTail \/ WakeUp
  BY <1>2 DEF Exit, CompareHeadTail, WakeUp, LogTypeOK
<1>3. CASE Flush
  BY <1>3, LogTypeFlush
<1>4. CASE UNCHANGED logVars
  BY <1>4 DEF logVars, LogTypeOK
<1> QED BY <1>1, <1>2, <1>3, <1>4 DEF LogNext, FlusherStep

\* The variables of the log keep their types.
THEOREM LogTypeCorrect == LogSpec => []LogTypeOK
BY LogTypeInit, LogTypeNext, PTL DEF LogSpec

-----------------------------------------------------------------------------
(***************************************************************************)
(* The ring is empty beyond tail, so no buffer is overrun.                 *)
(***************************************************************************)

EmptyBeyondTail ==
  ~lapped => \A b \in Buffers : BeyondTail(b) => seek[b] = 0 /\ data[b] = <<>>

RingInv == LogTypeOK /\ EmptyBeyondTail /\ NoOverrun

\* When tail is moved on in a ring not lapped, it comes one nearer to head and
\* finds an empty buffer.
LEMMA TailFindsEmpty ==
  ASSUME RingInv, NEW len \in Lengths, LogMessage(len), ~lapped'
  PROVE  /\ ~lapped
         /\ \/ tail' = tail /\ Fits(tail, len)
            \/ /\ tail' = NextBuffer(tail)
               /\ Dist(head, tail') = Dist(head, tail) + 1
               /\ seek[tail'] = 0 /\ data[tail'] = <<>>
<1> USE DEF RingInv, LogTypeOK
<1>1. ~lapped /\ (tail' = tail \/ tail' # head)
  BY DEF LogMessage
<1>2. CASE Fits(tail, len)
  BY <1>1, <1>2 DEF LogMessage
<1>3. CASE ~Fits(tail, len)
  <2>1. tail' = NextBuffer(tail) /\ tail' # head /\ tail' \in Buffers
    BY <1>1, <1>3, RingType DEF LogMessage
  <2>2. Dist(head, tail') = Dist(head, tail) + 1
    BY <2>1, DistNext
  <2>3. BeyondTail(tail')
    BY <2>2, DistType DEF BeyondTail
  <2> QED BY <1>1, <2>1, <2>2, <2>3 DEF EmptyBeyondTail
<1> QED BY <1>2, <1>3

LEMMA RingInit == LogInit => EmptyBeyondTail /\ NoOverrun
BY BufferSizeAssumption DEF LogInit, EmptyBeyondTail, NoOverrun

LEMMA RingMessage ==
  ASSUME RingInv, NEW len \in Lengths, LogMessage(len), ~lapped'
  PROVE  \A b \in Buffers :
           /\ BeyondTail(b)' => seek'[b] = 0 /\ data'[b] = <<>>
           /\ seek'[b] <= BufferSize
<1>0. /\ ~lapped
      /\ \/ tail' = tail /\ Fits(tail, len)
         \/ /\ tail' = NextBuffer(tail)
            /\ Dist(head, tail') = Dist(head, tail) + 1
            /\ seek[tail'] = 0 /\ data[tail'] = <<>>
  BY TailFindsEmpty
<1> USE DEF RingInv, LogTypeOK
<1>1. ~lapped /\ tail' \in Buffers /\ head' = head /\ head \in Buffers
  BY <1>0, RingType DEF LogMessage
<1>2. /\ seek' = [seek EXCEPT ![tail'] = @ + len]
      /\ data' = [data EXCEPT ![tail'] = Append(@, appended + 1)]
  BY DEF LogMessage
<1>3. len \in 1 .. BufferSize
  BY LengthsAssumption
<1>4. Dist(head, tail) <= Dist(head, tail')
  BY <1>0, DistType
<1>5. seek[tail'] + len <= BufferSize
  BY <1>0, <1>1, <1>3, BufferSizeAssumption DEF Fits, Remain
<1> SUFFICES ASSUME NEW b \in Buffers
             PROVE  /\ BeyondTail(b)' => seek'[b] = 0 /\ data'[b] = <<>>
                    /\ seek'[b] <= BufferSize
  OBVIOUS
<1>6. CASE b = tail'
  <2>1. Dist(head', tail') \in Int
    BY <1>1, DistType
  <2>2. ~BeyondTail(b)'
    BY <1>6, <2>1 DEF BeyondTail
  <2>3. seek'[b] = seek[tail'] + len
    BY <1>1, <1>2, <1>6
  <2> QED BY <1>5, <2>2, <2>3
<1>7. CASE b # tail'
  <2>1. seek'[b] = seek[b] /\ data'[b] = data[b]
    BY <1>1, <1>2, <1>7
  <2>2. BeyondTail(b)' => BeyondTail(b)
    <3>1. /\ Dist(head, b) \in Int /\ Dist(head, tail) \in Int
          /\ Dist(head, tail') \in Int
      BY <1>1, DistType
    <3> QED BY <1>1, <1>4, <3>1 DEF BeyondTail
  <2> QED BY <1>1, <2>1, <2>2 DEF EmptyBeyondTail, NoOverrun
<1> QED BY <1>6, <1>7

LEMMA RingFlush ==
  ASSUME RingInv, Flush, ~lapped'
  PROVE  \A b \in Buffers :
           /\ BeyondTail(b)' => seek'[b] = 0 /\ data'[b] = <<>>
           /\ seek'[b] <= BufferSize
<1> USE DEF RingInv, LogTypeOK
<1>1. /\ ~lapped /\ tail' = tail /\ head' = NextBuffer(head)
      /\ seek' = [seek EXCEPT ![head] = 0]
      /\ data' = [data EXCEPT ![head] = <<>>]
  BY DEF Flush
<1> SUFFICES ASSUME NEW b \in Buffers
             PROVE  /\ BeyondTail(b)' => seek'[b] = 0 /\ data'[b] = <<>>
                    /\ seek'[b] <= BufferSize
  OBVIOUS
<1>2. CASE b = head
  BY <1>1, <1>2, BufferSizeAssumption
<1>3. CASE b # head
  <2>1. seek'[b] = seek[b] /\ data'[b] = data[b]
    BY <1>1, <1>3
  <2>2. /\ Dist(head', b) = Dist(head, b) - 1
        /\ Dist(head', tail) = IF tail = head THEN NElements - 1 ELSE Dist(head, tail) - 1
    BY <1>1, <1>3, DistFromNext
  <2>3. BeyondTail(b)' => BeyondTail(b)
    BY <1>1, <2>2, DistType DEF BeyondTail
  <2> QED BY <1>1, <2>1, <2>3 DEF EmptyBeyondTail, NoOverrun
<1> QED BY <1>2, <1>3

LEMMA RingNext == RingInv /\ [LogNext]_logVars => RingInv'
<1> SUFFICES ASSUME RingInv, [LogNext]_logVars
             PROVE  EmptyBeyondTail' /\ NoOverrun'
  BY LogTypeNext DEF RingInv
<1>1. CASE \E len \in Lengths : LogMessage(len)
  BY <1>1, RingMessage DEF EmptyBeyondTail, NoOverrun, Buffers
<1>2. CASE UNCHANGED <<head, tail, seek, data, lapped>>
  BY <1>2 DEF RingInv, EmptyBeyondTail, NoOverrun, BeyondTail
<1>3. CASE Flush
  BY <1>3, RingFlush DEF EmptyBeyondTail, NoOverrun, Buffers
<1> QED BY <1>1, <1>2, <1>3
        DEF LogNext, LogFatal, Exit, FlusherStep, CompareHeadTail, WakeUp, logVars

LEMMA RingInvariant == LogSpec => []RingInv
<1>1. LogInit => RingInv
  BY LogTypeInit, RingInit DEF RingInv
<1> QED BY <1>1, RingNext, PTL DEF LogSpec

\* No buffer is written beyond its end unless tail has been moved onto head.
THEOREM NeverOverrun == LogSpec => []NoOverrun
<1>1. RingInv => NoOverrun
  BY DEF RingInv
<1> QED BY <1>1, RingInvariant, PTL

-----------------------------------------------------------------------------
(***************************************************************************)
(* The messages are in order: those in the file, then those in the ring,   *)
(* buffer after buffer from head.                                          *)
(***************************************************************************)

Accountable == ~lapped /\ (process = "running" \/ failures = 0)

\* Nothing has been written after file[i] by lmvs_log_fatal.
SinceFatal(i) == \A k \in i .. Len(file) : file[k] # FatalMessage

FileSorted ==
  \A i, j \in 1 .. Len(file) :
    i < j /\ (\A k \in i .. j : file[k] # FatalMessage) => file[i] < file[j]

FileBeforeRing ==
  \A i \in 1 .. Len(file) : SinceFatal(i) =>
    \A b \in Buffers : \A j \in 1 .. Len(data[b]) : file[i] < data[b][j]

BuffersSorted ==
  \A b \in Buffers : \A i, j \in 1 .. Len(data[b]) : i < j => data[b][i] < data[b][j]

RingSorted ==
  \A b, c \in Buffers : Dist(head, b) < Dist(head, c) =>
    \A i \in 1 .. Len(data[b]), j \in 1 .. Len(data[c]) : data[b][i] < data[c][j]

Sorted == FileSorted /\ FileBeforeRing /\ BuffersSorted /\ RingSorted

OrderInv ==
  /\ RingInv
  /\ fd = "none" => failures > 0
  /\ Accountable => Sorted

LEMMA OrderInit == LogInit => OrderInv
<1> SUFFICES ASSUME LogInit PROVE OrderInv
  OBVIOUS
<1>1. Len(file) = 0 /\ \A b \in Buffers : Len(data[b]) = 0
  BY EmptySeq DEF LogInit
<1>2. Sorted
  BY <1>1 DEF Sorted, FileSorted, FileBeforeRing, BuffersSorted, RingSorted
<1>3. fd = "open"
  BY DEF LogInit
<1> QED BY <1>2, <1>3, LogTypeInit, RingInit DEF OrderInv, RingInv

\* What is in a buffer was appended before what is appended now.
LEMMA DataType ==
  ASSUME LogTypeOK, NEW b \in Buffers
  PROVE  /\ Len(data[b]) \in Nat
         /\ \A j \in 1 .. Len(data[b]) : data[b][j] \in 1 .. appended
<1>1. data[b] \in Seq(1 .. appended)
  BY DEF LogTypeOK
<1> QED BY <1>1, LenProperties, ElementOfSeq

LEMMA FileType ==
  ASSUME LogTypeOK
  PROVE  /\ Len(file) \in Nat
         /\ \A i \in 1 .. Len(file) : file[i] \in 0 .. appended
<1>1. file \in Seq(0 .. appended)
  BY DEF LogTypeOK
<1> QED BY <1>1, LenProperties, ElementOfSeq

\* A message is the last of the buffer that tail is then on.
LEMMA NewestLast ==
  ASSUME LogTypeOK, NEW len \in Lengths, LogMessage(len)
  PROVE  \A b \in Buffers :
           /\ Len(data[b]) \in Nat
           /\ \A j \in 1 .. Len(data[b]) : data'[b][j] = data[b][j] /\ data[b][j] \in 1 .. appended
           /\ b # tail' => Len(data'[b]) = Len(data[b])
           /\ b = tail' => Len(data'[b]) = Len(data[b]) + 1
                             /\ data'[b][Len(data[b]) + 1] = appended + 1
<1> TAKE b \in Buffers
<1> DEFINE old == Len(data[b])
<1>1. data[b] \in Seq(Nat) /\ appended + 1 \in Nat
  <2>1. data[b] \in Seq(1 .. appended) /\ 1 .. appended \subseteq Nat
    BY DEF LogTypeOK
  <2>2. appended + 1 \in Nat
    BY BoundsAssumption DEF LogTypeOK
  <2> QED BY <2>1, <2>2, SeqMonotonic
<1>2. data' = [data EXCEPT ![tail'] = Append(@, appended + 1)]
  BY DEF LogMessage
<1>3. data'[b] = IF b = tail' THEN Append(data[b], appended + 1) ELSE data[b]
  BY <1>2 DEF LogTypeOK
<1>4. /\ Len(Append(data[b], appended + 1)) = old + 1
      /\ \A j \in 1 .. old : Append(data[b], appended + 1)[j] = data[b][j]
      /\ Append(data[b], appended + 1)[old + 1] = appended + 1
  BY <1>1, AppendProperties
<1>5. old \in Nat /\ \A j \in 1 .. old : data[b][j] \in 1 .. appended
  BY DataType
<1> QED BY <1>3, <1>4, <1>5

LEMMA OrderMessage ==
  ASSUME OrderInv, NEW len \in Lengths, LogMessage(len), Accountable'
  PROVE  Sorted'
<1>0. LogTypeOK /\ LogTypeOK' /\ RingInv /\ Sorted /\ tail' \in Buffers
  <2>1. LogTypeOK /\ RingInv
    BY DEF OrderInv, RingInv
  <2>2. LogTypeOK'
    BY <2>1, LogTypeMessage
  <2> QED BY <2>1, <2>2 DEF OrderInv, Accountable, LogMessage, LogTypeOK
<1>1. /\ ~lapped
      /\ \/ tail' = tail
         \/ Dist(head, tail') = Dist(head, tail) + 1
  BY <1>0, TailFindsEmpty DEF Accountable
<1>2. /\ data' = [data EXCEPT ![tail'] = Append(@, appended + 1)]
      /\ file' = file /\ head' = head
  BY DEF LogMessage
<1>typing. /\ appended \in Int /\ head \in Buffers /\ tail \in Buffers
      /\ \A i \in 1 .. Len(file) : file[i] \in 0 .. appended
      /\ \A b \in Buffers : Dist(head, b) \in Int /\ (Dist(head, b) = 0 <=> head = b)
  <2>1. appended \in Int /\ head \in Buffers /\ tail \in Buffers
    BY <1>0, BoundsAssumption DEF LogTypeOK
  <2> QED BY <1>0, <2>1, FileType, DistType
<1> DEFINE old(b) == Len(data[b])
<1>3. \A b \in Buffers :
        /\ old(b) \in Nat
        /\ \A j \in 1 .. old(b) : data'[b][j] = data[b][j] /\ data[b][j] \in 1 .. appended
        /\ b # tail' => Len(data'[b]) = old(b)
        /\ b = tail' => Len(data'[b]) = old(b) + 1 /\ data'[b][old(b) + 1] = appended + 1
  BY <1>0, NewestLast
\* Every message of the new ring is an old one or the new one, last of tail'.
<1>4. ASSUME NEW b \in Buffers, NEW j \in 1 .. Len(data'[b])
      PROVE  \/ j \in 1 .. old(b) /\ data'[b][j] = data[b][j] /\ data[b][j] \in 1 .. appended
             \/ b = tail' /\ j = old(b) + 1 /\ data'[b][j] = appended + 1
  <2>1. old(b) \in Nat /\ (Len(data'[b]) = old(b) \/ (b = tail' /\ Len(data'[b]) = old(b) + 1))
    BY <1>3
  <2>2. j \in 1 .. old(b) \/ (b = tail' /\ j = old(b) + 1)
    BY <2>1
  <2> QED BY <1>3, <2>2
<1>5. FileSorted'
  BY <1>0, <1>2 DEF Sorted, FileSorted
<1>6. FileBeforeRing'
  <2> SUFFICES ASSUME NEW i \in 1 .. Len(file), SinceFatal(i),
                      NEW b \in Buffers, NEW j \in 1 .. Len(data'[b])
               PROVE  file[i] < data'[b][j]
    BY <1>2 DEF FileBeforeRing, SinceFatal, Buffers
  <2>1. CASE j \in 1 .. old(b) /\ data'[b][j] = data[b][j]
    BY <1>0, <2>1 DEF Sorted, FileBeforeRing
  <2>2. CASE data'[b][j] = appended + 1
    BY <1>typing, <2>2
  <2> QED BY <1>4, <2>1, <2>2
<1>7. BuffersSorted'
  <2> SUFFICES ASSUME NEW b \in Buffers, NEW i \in 1 .. Len(data'[b]),
                      NEW j \in 1 .. Len(data'[b]), i < j
               PROVE  data'[b][i] < data'[b][j]
    BY DEF BuffersSorted, Buffers
  <2>1. i \in 1 .. old(b) /\ data'[b][i] = data[b][i] /\ data[b][i] \in 1 .. appended
    BY <1>3, <1>4
  <2>2. CASE j \in 1 .. old(b) /\ data'[b][j] = data[b][j]
    BY <1>0, <2>1, <2>2 DEF Sorted, BuffersSorted
  <2>3. CASE data'[b][j] = appended + 1
    BY <1>typing, <2>1, <2>3
  <2> QED BY <1>4, <2>2, <2>3
<1>8. RingSorted'
  <2> SUFFICES ASSUME NEW b \in Buffers, NEW c \in Buffers,
                      Dist(head, b) < Dist(head, c),
                      NEW i \in 1 .. Len(data'[b]), NEW j \in 1 .. Len(data'[c])
               PROVE  data'[b][i] < data'[c][j]
    BY <1>2 DEF RingSorted, Buffers
  <2>1. b # tail'
    <3>1. SUFFICES ASSUME b = tail' PROVE FALSE
      OBVIOUS
    <3>a. /\ Dist(head, tail) \in Int /\ Dist(head, b) \in Int /\ Dist(head, c) \in Int
      <4>1. head \in Buffers /\ tail \in Buffers
        BY <1>0 DEF LogTypeOK
      <4>2. /\ Dist(head, tail) \in 0 .. NElements - 1
            /\ Dist(head, b) \in 0 .. NElements - 1
            /\ Dist(head, c) \in 0 .. NElements - 1
        BY <4>1, DistType
      <4> QED BY <4>2, NElementsAssumption
    <3>2. Dist(head, tail) <= Dist(head, b)
      BY <1>1, <3>1, <3>a
    <3>3. BeyondTail(c)
      BY <3>2, <3>a DEF BeyondTail
    <3>4. data[c] = <<>> /\ c # tail'
      <4>1. c # b
        BY <3>a
      <4> QED BY <1>0, <1>1, <3>1, <3>3, <4>1 DEF RingInv, EmptyBeyondTail
    <3>5. Len(data'[c]) = 0
      BY <1>3, <3>4, EmptySeq
    <3> QED BY <3>5
  <2>2. i \in 1 .. old(b) /\ data'[b][i] = data[b][i] /\ data[b][i] \in 1 .. appended
    BY <1>4, <2>1
  <2>3. CASE j \in 1 .. old(c) /\ data'[c][j] = data[c][j]
    BY <1>0, <2>2, <2>3 DEF Sorted, RingSorted
  <2>4. CASE data'[c][j] = appended + 1
    BY <1>typing, <2>2, <2>4
  <2> QED BY <1>4, <2>3, <2>4
<1> QED BY <1>5, <1>6, <1>7, <1>8 DEF Sorted

\* Writing a beginning of the buffer at head keeps the files sorted, and what it
\* writes is the rest of the file from there.
LEMMA HeadExtendsFile ==
  ASSUME LogTypeOK, Sorted, NEW n \in 0 .. Len(data[head]),
         NEW longer, longer = file \o SubSeq(data[head], 1, n)
  PROVE  /\ longer \in Seq(Nat)
         /\ Len(longer) = Len(file) + n
         /\ \A i \in 1 .. Len(file) : longer[i] = file[i]
         /\ \A i \in 1 .. n : longer[Len(file) + i] = data[head][i]
         /\ \A i, j \in 1 .. Len(longer) :
              i < j /\ (\A k \in i .. j : longer[k] # FatalMessage) => longer[i] < longer[j]
<1>1. /\ head \in Buffers /\ Len(file) \in Nat /\ Len(data[head]) \in Nat
      /\ data[head] \in Seq(Nat) /\ file \in Seq(Nat)
  <2>1. /\ data[head] \in Seq(1 .. appended) /\ 1 .. appended \subseteq Nat
        /\ file \in Seq(0 .. appended) /\ 0 .. appended \subseteq Nat
        /\ head \in Buffers
    BY BoundsAssumption DEF LogTypeOK
  <2> QED BY <2>1, SeqMonotonic, LenProperties
<1> DEFINE part == SubSeq(data[head], 1, n)
           size == Len(file)
<1>2. part \in Seq(Nat) /\ Len(part) = n /\ \A i \in 1 .. n : part[i] = data[head][i]
  <2>1. \A i \in 1 .. n : data[head][i] \in Nat
    BY <1>1, ElementOfSeq
  <2>2. 1 \in Int /\ n \in Int
    BY <1>1
  <2>3. /\ part \in Seq(Nat)
        /\ Len(part) = IF 1 <= n THEN n - 1 + 1 ELSE 0
        /\ \A i \in 1 .. n - 1 + 1 : part[i] = data[head][1 + i - 1]
    BY <2>1, <2>2, SubSeqProperties
  <2> HIDE DEF part
  <2> QED BY <1>1, <2>3
<1> HIDE DEF part
<1>3. /\ longer \in Seq(Nat) /\ Len(longer) = size + n
      /\ \A i \in 1 .. size + n : longer[i] = IF i <= size THEN file[i] ELSE part[i - size]
  BY <1>1, <1>2, ConcatProperties DEF part
<1>4. \A i \in 1 .. size : longer[i] = file[i]
  BY <1>1, <1>3
<1>5. \A i \in 1 .. n : longer[size + i] = data[head][i]
  BY <1>1, <1>2, <1>3
<1>6. ASSUME NEW i \in 1 .. size + n, NEW j \in 1 .. size + n, i < j,
             \A k \in i .. j : longer[k] # FatalMessage
      PROVE  longer[i] < longer[j]
  <2>1. CASE j <= size
    <3>1. i \in 1 .. size /\ j \in 1 .. size /\ \A k \in i .. j : file[k] # FatalMessage
      BY <1>1, <1>4, <1>6, <2>1
    <3> QED BY <1>4, <1>6, <3>1 DEF Sorted, FileSorted
  <2>2. CASE i <= size /\ j > size
    <3>1. i \in 1 .. size /\ j - size \in 1 .. n /\ longer[j] = data[head][j - size]
      BY <1>1, <1>2, <1>3, <2>2
    <3>2. SinceFatal(i)
      BY <1>1, <1>4, <1>6, <2>2 DEF SinceFatal
    <3>3. file[i] < data[head][j - size]
      <4>1. j - size \in 1 .. Len(data[head])
        BY <1>1, <3>1
      <4> QED BY <1>1, <3>1, <3>2, <4>1 DEF Sorted, FileBeforeRing
    <3> QED BY <1>4, <3>1, <3>3
  <2>3. CASE i > size
    <3>1. /\ i - size \in 1 .. n /\ longer[i] = data[head][i - size]
          /\ j - size \in 1 .. n /\ longer[j] = data[head][j - size]
      BY <1>1, <1>2, <1>3, <1>6, <2>3
    <3>2. /\ i - size \in 1 .. Len(data[head]) /\ j - size \in 1 .. Len(data[head])
          /\ i - size < j - size
      BY <1>1, <1>6, <3>1
    <3> QED BY <1>1, <3>1, <3>2 DEF Sorted, BuffersSorted
  <2> QED BY <1>1, <2>1, <2>2, <2>3
<1> QED BY <1>3, <1>4, <1>5, <1>6

LEMMA OrderFlush ==
  ASSUME OrderInv, Flush, Accountable'
  PROVE  Sorted'
<1>1. /\ LogTypeOK /\ Sorted
  <2>1. Accountable
    <3>1. LogTypeOK
      BY DEF OrderInv, RingInv
    <3>2. failures \in Nat /\ failures' \in Nat /\ failures <= failures'
      BY <3>1, WriteType, BoundsAssumption DEF Written, LogTypeOK
    <3> QED BY <3>2 DEF Accountable, Flush
  <2> QED BY <2>1 DEF OrderInv, RingInv
<1>2. PICK n \in 0 .. Len(data[head]) : file' = file \o SubSeq(data[head], 1, n)
  BY <1>1, WriteType
<1>3. /\ Len(file') = Len(file) + n
      /\ \A i \in 1 .. Len(file) : file'[i] = file[i]
      /\ \A i \in 1 .. n : file'[Len(file) + i] = data[head][i]
      /\ FileSorted'
  BY <1>1, <1>2, HeadExtendsFile DEF FileSorted
<1>4. /\ head \in Buffers /\ Len(file) \in Nat /\ Len(data[head]) \in Nat
      /\ head' = NextBuffer(head)
      /\ \A b \in Buffers : data'[b] = IF b = head THEN <<>> ELSE data[b]
      /\ \A b \in Buffers : Dist(head, b) \in Int /\ (Dist(head, b) = 0 <=> head = b)
      /\ \A b \in Buffers : Dist(head, b) >= 0
  BY <1>1, FileType, DataType, DistType DEF Flush, LogTypeOK
<1>5. \A b \in Buffers : \A j \in 1 .. Len(data'[b]) :
        b # head /\ j \in 1 .. Len(data[b]) /\ data'[b][j] = data[b][j]
  <2> TAKE b \in Buffers
  <2>1. CASE b = head
    BY <1>4, <2>1, EmptySeq
  <2>2. CASE b # head
    BY <1>4, <2>2
  <2> QED BY <2>1, <2>2
<1>6. FileBeforeRing'
  <2> SUFFICES ASSUME NEW i \in 1 .. Len(file'), SinceFatal(i)',
                      NEW b \in Buffers, NEW j \in 1 .. Len(data'[b])
               PROVE  file'[i] < data'[b][j]
    BY DEF FileBeforeRing, Buffers
  <2>1. CASE i <= Len(file)
    <3>1. i \in 1 .. Len(file) /\ file'[i] = file[i]
      BY <1>3, <1>4, <2>1
    <3>2. SinceFatal(i)
      BY <1>3, <1>4, <3>1 DEF SinceFatal
    <3>3. file[i] < data[b][j]
      BY <1>1, <1>5, <3>1, <3>2 DEF Sorted, FileBeforeRing
    <3> QED BY <1>5, <3>1, <3>3
  <2>2. CASE i > Len(file)
    <3>1. i - Len(file) \in 1 .. Len(data[head]) /\ file'[i] = data[head][i - Len(file)]
      BY <1>3, <1>4, <2>2
    <3>2. Dist(head, head) < Dist(head, b)
      BY <1>4, <1>5
    <3>3. data[head][i - Len(file)] < data[b][j]
      BY <1>1, <1>4, <1>5, <3>1, <3>2 DEF Sorted, RingSorted
    <3> QED BY <1>5, <3>1, <3>3
  <2> QED BY <1>3, <1>4, <2>1, <2>2
<1>7. BuffersSorted'
  BY <1>1, <1>5 DEF Sorted, BuffersSorted, Buffers
<1>8. RingSorted'
  <2> SUFFICES ASSUME NEW b \in Buffers, NEW c \in Buffers,
                      Dist(head', b) < Dist(head', c),
                      NEW i \in 1 .. Len(data'[b]), NEW j \in 1 .. Len(data'[c])
               PROVE  data'[b][i] < data'[c][j]
    BY DEF RingSorted, Buffers
  <2>1. Dist(head', b) = Dist(head, b) - 1 /\ Dist(head', c) = Dist(head, c) - 1
    BY <1>4, <1>5, DistFromNext
  <2>2. Dist(head, b) < Dist(head, c)
    BY <1>4, <2>1
  <2> QED BY <1>1, <1>5, <2>2 DEF Sorted, RingSorted
<1> QED BY <1>3, <1>6, <1>7, <1>8 DEF Sorted

LEMMA OrderFatal ==
  ASSUME OrderInv, NEW len \in Lengths, LogFatal(len), Accountable'
  PROVE  Sorted'
<1>1. LogTypeOK /\ Sorted
  BY DEF OrderInv, RingInv, Accountable, LogFatal
<1>2. PICK n \in 0 .. Len(data[head]), whole \in BOOLEAN :
        /\ fd = "none" => n = 0 /\ ~whole
        /\ failures' = IF fd = "none" \/ (n = Len(data[head]) /\ whole)
                         THEN failures ELSE failures + 1
        /\ file' = (file \o SubSeq(data[head], 1, n))
                        \o (IF whole THEN <<FatalMessage>> ELSE <<>>)
  BY DEF LogFatal
<1>3. failures' = 0
  BY DEF Accountable, LogFatal
<1>4. whole
  BY <1>1, <1>2, <1>3, BoundsAssumption DEF OrderInv, LogTypeOK
<1> DEFINE longer == file \o SubSeq(data[head], 1, n)
           size == Len(longer)
<1>5. /\ longer \in Seq(Nat)
      /\ \A i, j \in 1 .. size :
           i < j /\ (\A k \in i .. j : longer[k] # FatalMessage) => longer[i] < longer[j]
  BY <1>1, HeadExtendsFile
<1>6. /\ size \in Nat /\ Len(file') = size + 1 /\ file'[size + 1] = FatalMessage
      /\ \A i \in 1 .. size : file'[i] = longer[i]
  <2>1. file' = longer \o <<FatalMessage>>
    BY <1>2, <1>4
  <2>2. <<FatalMessage>> \in Seq(Nat) /\ Len(<<FatalMessage>>) = 1
        /\ <<FatalMessage>>[1] = FatalMessage
    BY DEF FatalMessage
  <2> HIDE DEF longer
  <2>3. /\ Len(file') = size + 1
        /\ \A i \in 1 .. size + 1 :
             file'[i] = IF i <= size THEN longer[i] ELSE <<FatalMessage>>[i - size]
    BY <1>5, <2>1, <2>2, ConcatProperties
  <2>4. size \in Nat
    BY <1>5, LenProperties
  <2>5. size + 1 - size = 1 /\ size + 1 \in 1 .. size + 1 /\ ~(size + 1 <= size)
    BY <2>4
  <2> QED BY <2>2, <2>3, <2>4, <2>5
<1> HIDE DEF longer
\* The new last message is the fatal one: nothing is compared across it.
<1>7. FileSorted'
  <2> SUFFICES ASSUME NEW i \in 1 .. size + 1, NEW j \in 1 .. size + 1, i < j,
                      \A k \in i .. j : file'[k] # FatalMessage
               PROVE  file'[i] < file'[j]
    BY <1>6 DEF FileSorted
  <2>1. j \in 1 .. size /\ i \in 1 .. size /\ \A k \in i .. j : longer[k] # FatalMessage
    BY <1>6
  <2> QED BY <1>5, <1>6, <2>1
<1>8. FileBeforeRing'
  <2>1. \A i \in 1 .. Len(file') : ~SinceFatal(i)'
    BY <1>6 DEF SinceFatal
  <2> QED BY <2>1 DEF FileBeforeRing
<1>9. BuffersSorted' /\ RingSorted'
  BY <1>1 DEF LogFatal, Sorted, BuffersSorted, RingSorted
<1> QED BY <1>7, <1>8, <1>9 DEF Sorted

LEMMA LostFileNext ==
  ASSUME LogTypeOK, fd = "none" => failures > 0, [LogNext]_logVars
  PROVE  fd' = "none" => failures' > 0
<1>0. failures \in Nat
  BY BoundsAssumption DEF LogTypeOK
<1>1. CASE Flush
  <2>1. failures <= failures' /\ failures' \in Nat
    BY <1>1, WriteType, BoundsAssumption DEF Written
  <2>2. CASE fd = "none"
    BY <1>0, <2>1, <2>2
  <2>3. CASE fd # "none"
    BY <1>0, <1>1, <2>3, BoundsAssumption DEF Flush, WriteAll, WriteSome, WriteFails, Rotate, LogTypeOK
  <2> QED BY <2>2, <2>3
<1>2. CASE \E len \in Lengths : LogFatal(len)
  BY <1>0, <1>2 DEF LogFatal
<1>3. CASE UNCHANGED <<fd, failures>>
  BY <1>3
<1> QED BY <1>1, <1>2, <1>3
        DEF LogNext, LogMessage, Exit, FlusherStep, CompareHeadTail, WakeUp, logVars

LEMMA OrderNext == OrderInv /\ [LogNext]_logVars => OrderInv'
<1> SUFFICES ASSUME OrderInv, [LogNext]_logVars, Accountable'
             PROVE  Sorted'
  BY RingNext, LostFileNext DEF OrderInv, RingInv
<1>1. CASE \E len \in Lengths : LogMessage(len)
  BY <1>1, OrderMessage
<1>2. CASE \E len \in Lengths : LogFatal(len)
  BY <1>2, OrderFatal
<1>3. CASE Flush
  BY <1>3, OrderFlush
<1>4. CASE UNCHANGED <<head, data, file, failures, lapped>>
           /\ (process' = "running" => process = "running")
  BY <1>4 DEF OrderInv, Accountable, Sorted, FileSorted, FileBeforeRing, SinceFatal,
              BuffersSorted, RingSorted
<1> QED BY <1>1, <1>2, <1>3, <1>4
        DEF LogNext, Exit, FlusherStep, CompareHeadTail, WakeUp, logVars

\* The log files are in order and hold no message twice, unless the ring was
\* lapped, or a write failed and the process is exiting.
THEOREM MessagesInOrder == LogSpec => []OrderKept
<1>1. LogInit => OrderInv
  BY OrderInit
<1>2. OrderInv => OrderKept
  <2> SUFFICES ASSUME OrderInv PROVE OrderKept
    OBVIOUS
  <2>1. DOMAIN file = 1 .. Len(file)
    BY LenProperties DEF OrderInv, RingInv, LogTypeOK
  <2> QED BY <2>1 DEF OrderInv, OrderKept, Accountable, Sorted, FileSorted
<1> QED BY <1>1, <1>2, OrderNext, PTL DEF LogSpec

-----------------------------------------------------------------------------
(***************************************************************************)
(* The size of a file: the code's own count is short by one for each write *)
(* that has failed, and never more.                                        *)
(***************************************************************************)

SizeInv ==
  /\ LogTypeOK
  /\ fd = "open" /\ process = "running" =>
       filesize <= fseek + failures /\ fseek < RotateSize

LEMMA SizeNext == SizeInv /\ [LogNext]_logVars => SizeInv'
<1> SUFFICES ASSUME SizeInv, [LogNext]_logVars, fd' = "open", process' = "running"
             PROVE  filesize' <= fseek' + failures' /\ fseek' < RotateSize
  BY LogTypeNext DEF SizeInv
<1>1. CASE Flush
  <2>1. /\ fseek \in Int /\ filesize \in Nat /\ failures \in Nat /\ MaxFailures \in Nat
        /\ seek[head] \in Nat /\ process = "running" /\ RotateSize \in Nat \ {0}
        /\ fd = "open" => filesize <= fseek + failures
    BY <1>1, BoundsAssumption, RotateSizeAssumption DEF SizeInv, LogTypeOK, Flush
  <2>2. CASE WriteAll
    BY <2>1, <2>2 DEF WriteAll, Rotate
  <2>3. CASE WriteSome
    <3>1. Len(data[head]) \in Nat
      BY DataType DEF SizeInv, LogTypeOK
    <3>2. PICK bytes \in Nat : Rotate(fseek + bytes, filesize + bytes, failures + 1)
      BY <2>1, <2>3, <3>1 DEF WriteSome
    <3> QED BY <2>1, <2>3, <3>2 DEF WriteSome, Rotate
  <2>4. CASE WriteFails
    BY <2>1, <2>4 DEF WriteFails, Rotate, SeekFloor
  <2> QED BY <1>1, <2>2, <2>3, <2>4 DEF Flush
<1>2. CASE \E len \in Lengths : LogFatal(len)
  BY <1>2 DEF LogFatal
<1>3. CASE UNCHANGED <<fd, fseek, filesize, failures>>
           /\ (process' = "running" => process = "running")
  BY <1>3 DEF SizeInv
<1> QED BY <1>1, <1>2, <1>3
        DEF LogNext, LogMessage, Exit, FlusherStep, CompareHeadTail, WakeUp, logVars

\* A file in use is smaller than the configured size, but for one byte for each
\* write that has failed.
THEOREM FilesAreRotated == LogSpec => []FilesRotated
<1>1. LogInit => SizeInv
  BY LogTypeInit, RotateSizeAssumption DEF SizeInv, LogInit
<1>2. SizeInv => FilesRotated
  BY RotateSizeAssumption, BoundsAssumption DEF SizeInv, FilesRotated, LogTypeOK
<1> QED BY <1>1, <1>2, SizeNext, PTL DEF LogSpec

-----------------------------------------------------------------------------
(***************************************************************************)
(* The log implements LogQueue.  The messages in a ring not lapped are the *)
(* last ones appended, without a gap, so the queue is a run of numbers.    *)
(***************************************************************************)

\* The numbers after g up to n.
Run(g, n) == [i \in 1 .. n - g |-> g + i]

LEMMA RunIsSeq ==
  ASSUME NEW n \in Nat, NEW g \in 0 .. n
  PROVE  /\ Run(g, n) \in Seq(Nat) /\ Len(Run(g, n)) = n - g
         /\ \A i \in 1 .. n - g : Run(g, n)[i] = g + i
<1> DEFINE r == Run(g, n)
           size == n - g
<1>1. size \in Nat /\ r \in [1 .. size -> Nat] /\ \A i \in 1 .. size : r[i] = g + i
  BY DEF Run
<1> HIDE DEF r, size
<1>2. r \in Seq(Nat)
  BY <1>1
<1>3. Len(r) = size
  BY <1>1, <1>2
<1> QED BY <1>1, <1>2, <1>3 DEF r, size

LEMMA RunExtends ==
  ASSUME NEW n \in Nat, NEW g \in 0 .. n
  PROVE  Append(Run(g, n), n + 1) = Run(g, n + 1)
<1> DEFINE r == Run(g, n)
           s == Run(g, n + 1)
           t == Append(r, n + 1)
<1>1. r \in Seq(Nat) /\ Len(r) = n - g /\ \A i \in 1 .. n - g : r[i] = g + i
  BY RunIsSeq
<1>2. s \in Seq(Nat) /\ Len(s) = n - g + 1 /\ \A i \in 1 .. n - g + 1 : s[i] = g + i
  <2>1. n + 1 \in Nat /\ g \in 0 .. n + 1 /\ n + 1 - g = n - g + 1
    OBVIOUS
  <2> QED BY <2>1, RunIsSeq
<1> HIDE DEF r, s
<1>3. /\ t \in Seq(Nat) /\ Len(t) = n - g + 1
      /\ \A i \in 1 .. n - g : t[i] = r[i]
      /\ t[n - g + 1] = n + 1
  BY <1>1, AppendProperties
<1> HIDE DEF t
<1>4. ASSUME NEW i \in 1 .. n - g + 1 PROVE t[i] = s[i]
  <2>1. CASE i <= n - g
    BY <1>1, <1>2, <1>3, <2>1
  <2>2. CASE i = n - g + 1
    BY <1>2, <1>3, <2>2
  <2> QED BY <2>1, <2>2
<1>5. t = s
  BY <1>2, <1>3, <1>4, SeqEqual
<1> QED BY <1>5 DEF t, r, s

LEMMA RunShortened ==
  ASSUME NEW n \in Nat, NEW g \in 0 .. n, NEW taken \in 0 .. n - g
  PROVE  SubSeq(Run(g, n), taken + 1, n - g) = Run(g + taken, n)
<1> DEFINE r == Run(g, n)
           s == Run(g + taken, n)
           t == SubSeq(r, taken + 1, n - g)
           size == n - g - taken
<1>1. r \in Seq(Nat) /\ Len(r) = n - g /\ \A i \in 1 .. n - g : r[i] = g + i
  BY RunIsSeq
<1>2. s \in Seq(Nat) /\ Len(s) = size /\ \A i \in 1 .. size : s[i] = g + taken + i
  <2>1. g + taken \in 0 .. n /\ n - (g + taken) = size
    OBVIOUS
  <2> QED BY <2>1, RunIsSeq
<1> HIDE DEF r, s
<1>3. /\ t \in Seq(Nat)
      /\ Len(t) = IF taken + 1 <= n - g THEN n - g - (taken + 1) + 1 ELSE 0
      /\ \A i \in 1 .. n - g - (taken + 1) + 1 : t[i] = r[taken + 1 + i - 1]
  <2>1. \A i \in taken + 1 .. n - g : r[i] \in Nat
    BY <1>1
  <2> QED BY <2>1, SubSeqProperties
<1> HIDE DEF t
<1>4. Len(t) = size
  BY <1>3
<1>5. ASSUME NEW i \in 1 .. size PROVE t[i] = s[i]
  <2>1. /\ i \in 1 .. n - g - (taken + 1) + 1 /\ taken + 1 + i - 1 = taken + i
        /\ taken + i \in 1 .. n - g
    OBVIOUS
  <2>2. t[i] = r[taken + i]
    BY <1>3, <2>1
  <2> QED BY <1>1, <1>2, <2>1, <2>2
<1>6. t = s
  BY <1>2, <1>3, <1>4, <1>5, SeqEqual
<1> QED BY <1>6 DEF t, s, r

\* The beginning of a sequence that begins as a run does.
LEMMA RunBegins ==
  ASSUME NEW n \in Nat, NEW g \in 0 .. n, NEW seq \in Seq(Nat),
         NEW kept \in 0 .. Len(seq), kept <= n - g, \A i \in 1 .. kept : seq[i] = g + i
  PROVE  SubSeq(seq, 1, kept) = SubSeq(Run(g, n), 1, kept)
<1> DEFINE r == Run(g, n)
           a == SubSeq(seq, 1, kept)
           b == SubSeq(r, 1, kept)
<1>1. r \in Seq(Nat) /\ Len(r) = n - g /\ \A i \in 1 .. n - g : r[i] = g + i
  BY RunIsSeq
<1>2. Len(seq) \in Nat
  OBVIOUS
<1> HIDE DEF r
<1>3. ASSUME NEW i \in 1 .. kept PROVE seq[i] \in Nat /\ r[i] = seq[i] /\ r[i] \in Nat
  <2>1. i \in 1 .. Len(seq) /\ i \in 1 .. n - g
    BY <1>2
  <2>2. seq[i] \in Nat
    BY <2>1, ElementOfSeq
  <2> QED BY <1>1, <2>1, <2>2
<1>4. /\ a \in Seq(Nat) /\ Len(a) = (IF 1 <= kept THEN kept - 1 + 1 ELSE 0)
      /\ \A i \in 1 .. kept - 1 + 1 : a[i] = seq[1 + i - 1]
  BY <1>2, <1>3, SubSeqProperties
<1>5. /\ b \in Seq(Nat) /\ Len(b) = (IF 1 <= kept THEN kept - 1 + 1 ELSE 0)
      /\ \A i \in 1 .. kept - 1 + 1 : b[i] = r[1 + i - 1]
  BY <1>2, <1>3, SubSeqProperties
<1> HIDE DEF a, b
<1>6. ASSUME NEW i \in 1 .. Len(a) PROVE a[i] = b[i]
  <2>1. i \in 1 .. kept /\ i \in 1 .. kept - 1 + 1 /\ 1 + i - 1 = i
    BY <1>2, <1>4
  <2> QED BY <1>3, <1>4, <1>5, <2>1
<1>7. a = b
  BY <1>4, <1>5, <1>6, SeqEqual
<1> QED BY <1>7 DEF a, b, r

\* The numbers of an interval, in ascending order.
LEMMA IntervalInOrder ==
  ASSUME NEW n \in Nat, NEW g \in 0 .. n
  PROVE  InOrder(g + 1 .. n) = Run(g, n)
<1> DEFINE set == g + 1 .. n
<1>1. Cardinality(set) = n - g
  <2>1. Cardinality(set) = IF g + 1 > n THEN 0 ELSE n - (g + 1) + 1
    <3>1. g + 1 \in Int /\ n \in Int
      OBVIOUS
    <3> QED BY <3>1, FS_Interval
  <2> HIDE DEF set
  <2> QED BY <2>1
<1>2. ASSUME NEW m \in set PROVE Cardinality({k \in set : k <= m}) = m - g
  <2>1. {k \in set : k <= m} = g + 1 .. m
    OBVIOUS
  <2>2. Cardinality(g + 1 .. m) = IF g + 1 > m THEN 0 ELSE m - (g + 1) + 1
    <3>1. g + 1 \in Int /\ m \in Int
      OBVIOUS
    <3> QED BY <3>1, FS_Interval
  <2>3. (IF g + 1 > m THEN 0 ELSE m - (g + 1) + 1) = m - g
    OBVIOUS
  <2> QED BY <2>1, <2>2, <2>3
<1>3. ASSUME NEW i \in 1 .. n - g
      PROVE  (CHOOSE m \in set : Cardinality({k \in set : k <= m}) = i) = g + i
  <2>1. g + i \in set /\ Cardinality({k \in set : k <= g + i}) = i
    BY <1>2
  <2>2. \A m \in set : Cardinality({k \in set : k <= m}) = i => m = g + i
    BY <1>2
  <2> QED BY <2>1, <2>2
<1> HIDE DEF set
<1>4. InOrder(set) = [i \in 1 .. n - g |-> g + i]
  BY <1>1, <1>3 DEF InOrder
<1> QED BY <1>4 DEF Run, set

GivenUp == lapped \/ process # "running"

Consecutive ==
  \A b \in Buffers : \A i \in 1 .. Len(data[b]) : data[b][i] = data[b][1] + i - 1

\* So many of the first messages have left the ring, and no others.
LastWait(g) == g \in 0 .. appended /\ Waiting = g + 1 .. appended

QueueInv ==
  /\ OrderInv
  /\ ~GivenUp => Consecutive /\ \E g \in 0 .. appended : LastWait(g)

LEMMA QueueBasis ==
  ASSUME QueueInv, ~GivenUp
  PROVE  /\ OrderInv /\ RingInv /\ LogTypeOK /\ Sorted /\ Consecutive /\ ~lapped /\ appended \in Nat
         /\ head \in Buffers /\ tail \in Buffers
<1>1. OrderInv /\ RingInv /\ LogTypeOK /\ Sorted /\ Consecutive /\ ~lapped
  BY DEF QueueInv, GivenUp, OrderInv, Accountable, RingInv
<1> QED BY <1>1, BoundsAssumption DEF LogTypeOK

LEMMA WaitingIs ==
  ASSUME LogTypeOK
  PROVE  \A m : m \in Waiting <=> \E b \in Buffers : \E i \in 1 .. Len(data[b]) : data[b][i] = m
BY DataType DEF Waiting

\* The last message that waits is the last of the buffer at tail, if that holds any.
LEMMA TailIsLast ==
  ASSUME QueueInv, ~GivenUp, Len(data[tail]) > 0
  PROVE  data[tail][Len(data[tail])] = appended
<1>1. /\ OrderInv /\ RingInv /\ LogTypeOK /\ Sorted /\ Consecutive /\ ~lapped /\ appended \in Nat
      /\ head \in Buffers /\ tail \in Buffers
  BY QueueBasis
<1> DEFINE last == Len(data[tail])
<1>2. /\ last \in 1 .. last /\ last \in Nat
      /\ \A b \in Buffers : \A i \in 1 .. Len(data[b]) : data[b][i] \in 1 .. appended
  BY <1>1, DataType
<1>3. appended \in Waiting
  <2>1. PICK g \in 0 .. appended : LastWait(g)
    BY DEF QueueInv
  <2>2. data[tail][last] \in Waiting
    BY <1>1, <1>2, WaitingIs
  <2> QED BY <1>1, <2>1, <2>2 DEF LastWait
<1>4. PICK b \in Buffers : \E i \in 1 .. Len(data[b]) : data[b][i] = appended
  BY <1>1, <1>3, WaitingIs
<1>5. PICK i \in 1 .. Len(data[b]) : data[b][i] = appended
  BY <1>4
<1>6. data[tail][last] <= appended /\ data[tail][last] \in Nat
  BY <1>1, <1>2
<1>7. CASE b = tail
  <2>1. i = last \/ i < last
    BY <1>2, <1>7
  <2>2. i < last => data[tail][i] < data[tail][last]
    BY <1>1, <1>2, <1>7 DEF Sorted, BuffersSorted
  <2> QED BY <1>1, <1>5, <1>6, <1>7, <2>1, <2>2
<1>8. CASE b # tail
  <2>1. data[b] # <<>>
    BY <1>5, EmptySeq
  <2>2. ~BeyondTail(b)
    BY <1>1, <2>1 DEF RingInv, EmptyBeyondTail
  <2>3. Dist(head, b) # Dist(head, tail)
    BY <1>1, <1>8, DistInjective
  <2>4. Dist(head, b) \in 0 .. NElements - 1 /\ Dist(head, tail) \in 0 .. NElements - 1
    BY <1>1, DistType
  <2>5. Dist(head, b) < Dist(head, tail)
    BY <2>2, <2>3, <2>4, NElementsAssumption DEF BeyondTail
  <2>6. data[b][i] < data[tail][last]
    BY <1>1, <1>2, <2>5 DEF Sorted, RingSorted
  <2> QED BY <1>1, <1>5, <1>6, <2>6
<1> QED BY <1>7, <1>8

LEMMA MessageWaits ==
  ASSUME QueueInv, NEW len \in Lengths, LogMessage(len), ~GivenUp'
  PROVE  /\ ~GivenUp /\ Consecutive'
         /\ \A g \in 0 .. appended : LastWait(g) => LastWait(g)'
<1>1. ~GivenUp /\ appended' = appended + 1
  BY DEF GivenUp, LogMessage
<1>2. /\ OrderInv /\ RingInv /\ LogTypeOK /\ Consecutive /\ appended \in Nat
  BY <1>1, QueueBasis
<1>3. LogTypeOK' /\ tail' \in Buffers
  <2>1. LogTypeOK'
    BY <1>2, LogTypeMessage
  <2> QED BY <2>1 DEF LogTypeOK
<1> DEFINE old(b) == Len(data[b])
<1>4. \A b \in Buffers :
        /\ old(b) \in Nat
        /\ \A j \in 1 .. old(b) : data'[b][j] = data[b][j] /\ data[b][j] \in 1 .. appended
        /\ b # tail' => Len(data'[b]) = old(b)
        /\ b = tail' => Len(data'[b]) = old(b) + 1 /\ data'[b][old(b) + 1] = appended + 1
  BY <1>2, NewestLast
<1>5. old(tail') > 0 => data[tail'][old(tail')] = appended
  <2>1. tail' = tail \/ data[tail'] = <<>>
    BY <1>2, TailFindsEmpty DEF GivenUp
  <2>2. data[tail'] = <<>> => old(tail') = 0
    BY EmptySeq
  <2> QED BY <1>1, <2>1, <2>2, TailIsLast
<1>6. Consecutive'
  <2> SUFFICES ASSUME NEW b \in Buffers, NEW i \in 1 .. Len(data'[b])
               PROVE  data'[b][i] = data'[b][1] + i - 1
    BY DEF Consecutive, Buffers
  <2>1. CASE i \in 1 .. old(b)
    <3>1. 1 \in 1 .. old(b) /\ data[b][i] = data[b][1] + i - 1
      BY <1>2, <2>1 DEF Consecutive
    <3> QED BY <1>4, <2>1, <3>1
  <2>2. CASE i \notin 1 .. old(b)
    <3>1. b = tail' /\ i = old(b) + 1 /\ data'[b][i] = appended + 1 /\ old(b) \in Nat
      BY <1>4, <2>2
    <3>2. CASE old(b) = 0
      BY <1>2, <3>1, <3>2
    <3>3. CASE old(b) > 0
      <4>1. 1 \in 1 .. old(b) /\ old(b) \in 1 .. old(b)
        BY <3>1, <3>3
      <4>2. data[b][old(b)] = data[b][1] + old(b) - 1 /\ data'[b][1] = data[b][1] /\ data[b][1] \in Nat
        BY <1>2, <1>4, <4>1 DEF Consecutive
      <4>3. data[b][old(b)] = appended
        BY <1>5, <3>1, <3>3
      <4> QED BY <1>2, <3>1, <4>2, <4>3
    <3> QED BY <3>1, <3>2, <3>3
  <2> QED BY <2>1, <2>2
<1>7. ASSUME NEW m PROVE m \in Waiting' <=> m \in Waiting \/ m = appended + 1
  <2>1. m \in Waiting' <=> \E b \in Buffers : \E i \in 1 .. Len(data'[b]) : data'[b][i] = m
    <3>1. \A b \in Buffers : \A i \in 1 .. Len(data'[b]) : data'[b][i] \in 1 .. appended'
      <4> TAKE b \in Buffers
      <4>1. data'[b] \in Seq(1 .. appended')
        BY <1>3 DEF LogTypeOK
      <4> QED BY <4>1, ElementOfSeq
    <3> QED BY <3>1 DEF Waiting, Buffers
  <2>2. m \in Waiting <=> \E b \in Buffers : \E i \in 1 .. Len(data[b]) : data[b][i] = m
    BY <1>2, WaitingIs
  <2>3. ASSUME NEW b \in Buffers, NEW i \in 1 .. Len(data'[b]), data'[b][i] = m
        PROVE  m \in Waiting \/ m = appended + 1
    <3>1. i \in 1 .. old(b) \/ (b = tail' /\ i = old(b) + 1)
      BY <1>4
    <3> QED BY <1>4, <2>2, <2>3, <3>1
  <2>4. ASSUME NEW b \in Buffers, NEW i \in 1 .. Len(data[b]), data[b][i] = m
        PROVE  m \in Waiting'
    <3>1. i \in 1 .. Len(data'[b]) /\ data'[b][i] = m
      BY <1>4, <2>4
    <3> QED BY <2>1, <3>1
  <2>5. ASSUME m = appended + 1 PROVE m \in Waiting'
    <3>1. old(tail') + 1 \in 1 .. Len(data'[tail']) /\ data'[tail'][old(tail') + 1] = m
      BY <1>3, <1>4, <2>5
    <3> QED BY <1>3, <2>1, <3>1
  <2> QED BY <2>1, <2>2, <2>3, <2>4, <2>5
<1>8. ASSUME NEW g \in 0 .. appended, LastWait(g) PROVE LastWait(g)'
  <2>1. Waiting = g + 1 .. appended
    BY <1>8 DEF LastWait
  <2>2. g + 1 .. appended + 1 = (g + 1 .. appended) \cup {appended + 1}
    BY <1>2
  <2>3. Waiting' = g + 1 .. appended'
    BY <1>1, <1>7, <2>1, <2>2
  <2> QED BY <1>1, <1>2, <2>3 DEF LastWait
<1> QED BY <1>1, <1>6, <1>8

\* The buffer at head holds the first messages that wait.
LEMMA HeadIsFirst ==
  ASSUME QueueInv, ~GivenUp, NEW g \in 0 .. appended, LastWait(g)
  PROVE  /\ \A i \in 1 .. Len(data[head]) : data[head][i] = g + i
         /\ g + Len(data[head]) <= appended
<1>1. /\ LogTypeOK /\ Sorted /\ Consecutive /\ appended \in Nat /\ head \in Buffers
  BY QueueBasis
<1> DEFINE n == Len(data[head])
           first == data[head][1]
<1>2. n \in Nat /\ \A b \in Buffers : \A i \in 1 .. Len(data[b]) : data[b][i] \in 1 .. appended
  BY <1>1, DataType
<1>3. g \in Nat /\ g <= appended /\ Waiting = g + 1 .. appended
  BY <1>1 DEF LastWait
<1>4. CASE n = 0
  BY <1>3, <1>4
<1>5. CASE n > 0
  <2>1. 1 \in 1 .. n /\ n \in 1 .. n
    BY <1>2, <1>5
  <2>2. first \in Waiting
    BY <1>1, <2>1, WaitingIs
  <2>3. first \in Nat /\ g + 1 <= first /\ first <= appended
    BY <1>1, <1>3, <2>2
  <2>4. g + 1 \in Waiting
    BY <1>1, <1>3, <2>3
  <2>5. PICK b \in Buffers : \E i \in 1 .. Len(data[b]) : data[b][i] = g + 1
    BY <1>1, <2>4, WaitingIs
  <2>6. PICK i \in 1 .. Len(data[b]) : data[b][i] = g + 1
    BY <2>5
  <2>7. first <= g + 1
    <3>1. CASE b = head
      <4>1. g + 1 = first + i - 1
        BY <1>1, <2>6, <3>1 DEF Consecutive
      <4>2. i \in Nat /\ i >= 1
        BY <1>2, <2>6, <3>1
      <4> QED BY <1>3, <2>3, <4>1, <4>2
    <3>2. CASE b # head
      <4>1. Dist(head, head) = 0 /\ Dist(head, b) \in 0 .. NElements - 1 /\ Dist(head, b) # 0
        BY <1>1, <3>2, DistType
      <4>2. Dist(head, head) < Dist(head, b)
        BY <4>1, NElementsAssumption
      <4>3. first < data[b][i]
        BY <1>1, <2>1, <4>2 DEF Sorted, RingSorted
      <4> QED BY <1>3, <2>3, <2>6, <4>3
    <3> QED BY <3>1, <3>2
  <2>8. first = g + 1
    BY <1>3, <2>3, <2>7
  <2>9. ASSUME NEW k \in 1 .. n PROVE data[head][k] = g + k
    <3>1. data[head][k] = first + k - 1
      BY <1>1 DEF Consecutive
    <3> QED BY <1>2, <1>3, <2>8, <3>1
  <2>10. data[head][n] \in 1 .. appended
    BY <1>1, <1>2, <2>1
  <2> QED BY <1>1, <1>2, <1>3, <2>1, <2>9, <2>10
<1> QED BY <1>2, <1>4, <1>5

\* A flush takes the messages of the buffer at head, and no others.
LEMMA FlushServes ==
  ASSUME QueueInv, Flush, ~GivenUp', NEW g \in 0 .. appended, LastWait(g),
         NEW n, n = Len(data[head])
  PROVE  /\ ~GivenUp /\ Consecutive'
         /\ LastWait(g + n)'
<1>1. ~GivenUp /\ appended' = appended
  BY DEF GivenUp, Flush
<1>2. /\ OrderInv /\ RingInv /\ LogTypeOK /\ Sorted /\ Consecutive /\ appended \in Nat /\ head \in Buffers
  BY <1>1, QueueBasis
<1>3. /\ n \in Nat
      /\ \A i \in 1 .. n : data[head][i] = g + i
      /\ g + n <= appended
  BY <1>1, <1>2, DataType, HeadIsFirst
<1>4. \A b \in Buffers : data'[b] = IF b = head THEN <<>> ELSE data[b]
  BY <1>2 DEF Flush, LogTypeOK
<1>5. \A b \in Buffers : \A i \in 1 .. Len(data'[b]) :
        b # head /\ i \in 1 .. Len(data[b]) /\ data'[b][i] = data[b][i]
  <2> TAKE b \in Buffers
  <2>1. CASE b = head
    <3>1. Len(data'[b]) = 0
      BY <1>4, <2>1, EmptySeq
    <3> QED BY <3>1
  <2>2. CASE b # head
    BY <1>4, <2>2
  <2> QED BY <2>1, <2>2
<1>6. Consecutive'
  <2> SUFFICES ASSUME NEW b \in Buffers, NEW i \in 1 .. Len(data'[b])
               PROVE  data'[b][i] = data'[b][1] + i - 1
    BY DEF Consecutive, Buffers
  <2>1. b # head /\ i \in 1 .. Len(data[b]) /\ data'[b] = data[b]
    BY <1>4, <1>5
  <2> QED BY <1>2, <2>1 DEF Consecutive
<1>7. \A m : m \in Waiting' <=> \E b \in Buffers \ {head} : \E i \in 1 .. Len(data[b]) : data[b][i] = m
  <2>1. \A b \in Buffers : \A i \in 1 .. Len(data[b]) : data[b][i] \in 1 .. appended
    BY <1>2, DataType
  <2>2. \A b \in Buffers \ {head} : data'[b] = data[b]
    BY <1>4
  <2> QED BY <1>1, <1>5, <2>1, <2>2 DEF Waiting, Buffers
<1>8. Waiting = g + 1 .. appended /\ g \in Nat
  BY <1>2 DEF LastWait
<1>9. ASSUME NEW m \in Waiting' PROVE m \in g + n + 1 .. appended
  <2>1. PICK b \in Buffers \ {head} : \E i \in 1 .. Len(data[b]) : data[b][i] = m
    BY <1>7
  <2>2. PICK i \in 1 .. Len(data[b]) : data[b][i] = m
    BY <2>1
  <2>3. m \in g + 1 .. appended
    BY <1>2, <1>8, <2>1, WaitingIs
  <2>4. CASE n = 0
    BY <1>8, <2>3, <2>4
  <2>5. CASE n > 0
    <3>1. Dist(head, head) = 0 /\ Dist(head, b) \in 0 .. NElements - 1 /\ Dist(head, b) # 0
      BY <1>2, <2>1, DistType
    <3>2. Dist(head, head) < Dist(head, b)
      BY <3>1, NElementsAssumption
    <3>3. n \in 1 .. n
      BY <1>3, <2>5
    <3>4. data[head][n] < m
      BY <1>2, <2>1, <2>2, <3>2, <3>3 DEF Sorted, RingSorted
    <3>5. g + n < m
      BY <1>3, <3>3, <3>4
    <3> QED BY <1>2, <1>3, <1>8, <2>3, <3>5
  <2> QED BY <1>3, <2>4, <2>5
<1>10. ASSUME NEW m \in g + n + 1 .. appended PROVE m \in Waiting'
  <2>1. m \in Waiting /\ m \in Nat /\ m > g + n
    BY <1>2, <1>3, <1>8
  <2>2. PICK b \in Buffers : \E i \in 1 .. Len(data[b]) : data[b][i] = m
    BY <1>2, <2>1, WaitingIs
  <2>3. PICK i \in 1 .. Len(data[b]) : data[b][i] = m
    BY <2>2
  <2>4. b # head
    <3> SUFFICES ASSUME b = head PROVE FALSE
      OBVIOUS
    <3>1. m = g + i /\ i \in 1 .. n
      BY <1>3, <2>3
    <3> QED BY <1>3, <1>8, <2>1, <3>1
  <2> QED BY <1>7, <2>2, <2>4
<1>11. Waiting' = g + n + 1 .. appended
  BY <1>9, <1>10
<1>12. g + n \in 0 .. appended
  BY <1>2, <1>3, <1>8
<1> QED BY <1>1, <1>6, <1>11, <1>12 DEF LastWait

LEMMA QueueInductive == LogSpec => []QueueInv
<1>1. LogInit => QueueInv
  <2> SUFFICES ASSUME LogInit PROVE QueueInv
    OBVIOUS
  <2>1. \A b \in Buffers : Len(data[b]) = 0
    BY EmptySeq DEF LogInit
  <2>2. Waiting = {} /\ appended = 0 /\ Consecutive
    BY <2>1 DEF LogInit, Waiting, Consecutive
  <2>3. LastWait(0)
    BY <2>2 DEF LastWait
  <2>4. 0 \in 0 .. appended
    BY <2>2
  <2> QED BY <2>2, <2>3, <2>4, OrderInit DEF QueueInv
<1>2. QueueInv /\ [LogNext]_logVars => QueueInv'
  <2> SUFFICES ASSUME QueueInv, [LogNext]_logVars, ~GivenUp'
               PROVE  Consecutive' /\ \E g \in 0 .. appended' : LastWait(g)'
    BY OrderNext DEF QueueInv
  <2>1. ASSUME NEW len \in Lengths, LogMessage(len)
        PROVE  Consecutive' /\ \E g \in 0 .. appended' : LastWait(g)'
    <3>1. ~GivenUp /\ Consecutive' /\ \A g \in 0 .. appended : LastWait(g) => LastWait(g)'
      BY <2>1, MessageWaits
    <3>2. PICK g \in 0 .. appended : LastWait(g)
      BY <3>1 DEF QueueInv
    <3> QED BY <3>1, <3>2 DEF LastWait
  <2>2. CASE Flush
    <3>1. ~GivenUp
      BY <2>2 DEF GivenUp, Flush
    <3>2. PICK g \in 0 .. appended : LastWait(g)
      BY <3>1 DEF QueueInv
    <3>3. PICK n : n = Len(data[head])
      OBVIOUS
    <3>4. Consecutive' /\ LastWait(g + n)'
      BY <2>2, <3>2, <3>3, FlushServes
    <3> QED BY <3>4 DEF LastWait
  <2>3. CASE UNCHANGED <<data, appended, lapped>> /\ (process' = "running" => process = "running")
    <3>1. ~GivenUp /\ appended' = appended
      BY <2>3 DEF GivenUp
    <3>2. Waiting' = Waiting
      BY <2>3 DEF Waiting
    <3>3. Consecutive'
      BY <2>3, <3>1 DEF QueueInv, Consecutive
    <3>4. PICK g \in 0 .. appended : LastWait(g)
      BY <3>1 DEF QueueInv
    <3> QED BY <3>1, <3>2, <3>3, <3>4 DEF LastWait
  <2> QED BY <2>1, <2>2, <2>3
          DEF LogNext, LogFatal, Exit, FlusherStep, CompareHeadTail, WakeUp, logVars, GivenUp
<1> QED BY <1>1, <1>2, PTL DEF LogSpec

LEMMA QueueIsRun ==
  ASSUME NEW n \in Nat, NEW g \in 0 .. n, NEW set, set = g + 1 .. n
  PROVE  InOrder(set) = Run(g, n)
BY IntervalInOrder

\* What reaches the file in a flush is a beginning of what the queue begins with.
LEMMA FlushIsServe ==
  ASSUME QueueInv, Flush, ~GivenUp'
  PROVE  Queue!Serve \/ UNCHANGED Queue!queueVars
<1>1. ~GivenUp /\ appended' = appended
  BY DEF GivenUp, Flush
<1>2. LogTypeOK /\ appended \in Nat /\ head \in Buffers
  BY <1>1, QueueBasis
<1>3. PICK g \in 0 .. appended : LastWait(g)
  BY <1>1 DEF QueueInv
<1>4. PICK n : n = Len(data[head])
  OBVIOUS
<1>5. n \in Nat /\ data[head] \in Seq(Nat) /\ file \in Seq(0 .. appended)
  <2>1. data[head] \in Seq(1 .. appended) /\ 1 .. appended \subseteq Nat
    BY <1>2 DEF LogTypeOK
  <2>2. data[head] \in Seq(Nat)
    BY <2>1, SeqMonotonic
  <2> QED BY <1>2, <1>4, <2>2, LenProperties DEF LogTypeOK
<1>6. (\A i \in 1 .. n : data[head][i] = g + i) /\ g + n <= appended
  BY <1>1, <1>3, <1>4, HeadIsFirst
<1>7. LastWait(g + n)'
  BY <1>3, <1>4, FlushServes
<1>8. g \in Nat /\ g + n \in 0 .. appended /\ n <= appended - g /\ n \in 0 .. appended - g
  BY <1>2, <1>5, <1>6
<1>9. InOrder(Waiting) = Run(g, appended) /\ Len(Run(g, appended)) = appended - g
  BY <1>2, <1>3, QueueIsRun, RunIsSeq DEF LastWait
<1>10. InOrder(Waiting)' = Run(g + n, appended)
  <2>1. Waiting' = g + n + 1 .. appended
    BY <1>1, <1>7 DEF LastWait
  <2>2. InOrder(Waiting') = Run(g + n, appended)
    BY <1>2, <1>8, <2>1, QueueIsRun
  <2> QED BY <2>2 DEF InOrder
<1>11. PICK kept \in 0 .. n : file' = file \o SubSeq(data[head], 1, kept)
  BY <1>2, <1>4, WriteType
<1>12. ~(lapped \/ process # "running") /\ ~(lapped' \/ process' # "running")
  BY <1>1 DEF GivenUp
<1>13. CASE n = 0
  <2>1. file' = file
    <3>1. kept = 0
      BY <1>13
    <3>2. SubSeq(data[head], 1, 0) = <<>>
      BY SubSeqEmpty
    <3> QED BY <1>5, <1>11, <3>1, <3>2, ConcatEmptySeq
  <2>2. g + n = g
    BY <1>8, <1>13
  <2>3. InOrder(Waiting)' = InOrder(Waiting)
    BY <1>9, <1>10, <2>2
  <2>4. (lapped \/ process # "running")' = (lapped \/ process # "running")
    BY DEF Flush
  <2> QED BY <1>1, <2>1, <2>3, <2>4 DEF Queue!queueVars
<1>14. CASE n # 0
  <2>1. n \in 1 .. Len(InOrder(Waiting))
    BY <1>2, <1>5, <1>8, <1>9, <1>14
  <2>2. InOrder(Waiting)' = SubSeq(InOrder(Waiting), n + 1, Len(InOrder(Waiting)))
    BY <1>2, <1>8, <1>9, <1>10, RunShortened
  <2>3. SubSeq(data[head], 1, kept) = SubSeq(InOrder(Waiting), 1, kept)
    <3>1. kept \in 0 .. Len(data[head]) /\ kept <= appended - g
      BY <1>2, <1>4, <1>5, <1>8
    <3>2. \A i \in 1 .. kept : data[head][i] = g + i
      BY <1>5, <1>6
    <3> QED BY <1>2, <1>5, <1>9, <3>1, <3>2, RunBegins
  <2>4. file' = file \o SubSeq(InOrder(Waiting), 1, kept)
    BY <1>11, <2>3
  <2>5. (lapped \/ process # "running")' = (lapped \/ process # "running")
    BY DEF Flush
  <2> QED BY <1>1, <1>11, <2>1, <2>2, <2>4, <2>5 DEF Queue!Serve
<1> QED BY <1>13, <1>14

\* A message logged in a ring not lapped is the last one of the queue.
LEMMA MessageIsAccepted ==
  ASSUME QueueInv, NEW len \in Lengths, LogMessage(len), ~GivenUp'
  PROVE  Queue!Accept
<1>1. /\ ~GivenUp /\ appended' = appended + 1
      /\ \A g \in 0 .. appended : LastWait(g) => LastWait(g)'
  BY MessageWaits DEF LogMessage
<1>2. appended \in Nat
  BY <1>1, QueueBasis
<1>3. PICK g \in 0 .. appended : LastWait(g)
  BY <1>1 DEF QueueInv
<1>4. LastWait(g)'
  BY <1>1, <1>3
<1>5. InOrder(Waiting) = Run(g, appended)
  BY <1>2, <1>3, QueueIsRun DEF LastWait
<1>6. InOrder(Waiting)' = Run(g, appended + 1)
  <2>1. Waiting' = g + 1 .. appended + 1 /\ appended + 1 \in Nat /\ g \in 0 .. appended + 1
    BY <1>1, <1>2, <1>4 DEF LastWait
  <2>2. InOrder(Waiting') = Run(g, appended + 1)
    BY <2>1, QueueIsRun
  <2> QED BY <2>2 DEF InOrder
<1>7. InOrder(Waiting)' = Append(InOrder(Waiting), appended')
  BY <1>1, <1>2, <1>5, <1>6, RunExtends
<1>8. file' = file /\ (lapped \/ process # "running")' = (lapped \/ process # "running")
  BY <1>1 DEF LogMessage, GivenUp
<1> QED BY <1>1, <1>7, <1>8 DEF Queue!Accept

\* The log is a queue, for any ring and any messages: what is logged waits in the
\* order of logging, each flush takes some from the front and writes a beginning
\* of them, all if the write succeeds; until the ring is lapped or the process
\* gives up.
THEOREM LogIsAQueue == LogSpec => ActsAsQueue
<1>1. LogInit => Queue!QueueInit
  <2> SUFFICES ASSUME LogInit PROVE Queue!QueueInit
    OBVIOUS
  <2>1. Waiting = {} /\ appended = 0 /\ file = <<>> /\ (lapped \/ process # "running") = FALSE
    BY DEF LogInit, Waiting
  <2>2. InOrder({}) = <<>>
    <3>1. {} = 0 + 1 .. 0
      OBVIOUS
    <3>2. InOrder({}) = Run(0, 0)
      BY <3>1, QueueIsRun
    <3>3. Run(0, 0) \in Seq(Nat) /\ Len(Run(0, 0)) = 0
      BY RunIsSeq
    <3> QED BY <3>2, <3>3, EmptySeq
  <2> QED BY <2>1, <2>2 DEF Queue!QueueInit
<1>2. QueueInv /\ [LogNext]_logVars => [Queue!QueueNext]_(Queue!queueVars)
  <2> SUFFICES ASSUME QueueInv, [LogNext]_logVars PROVE [Queue!QueueNext]_(Queue!queueVars)
    OBVIOUS
  <2>1. CASE GivenUp'
    BY <2>1 DEF GivenUp, Queue!QueueNext, Queue!GiveUp
  <2>2. CASE ~GivenUp'
    <3>1. ASSUME NEW len \in Lengths, LogMessage(len) PROVE Queue!QueueNext
      BY <2>2, <3>1, MessageIsAccepted DEF Queue!QueueNext
    <3>2. CASE Flush
      BY <2>2, <3>2, FlushIsServe DEF Queue!QueueNext
    <3>3. CASE UNCHANGED <<data, file, appended, lapped, process>>
      <4>1. Waiting' = Waiting
        BY <3>3 DEF Waiting
      <4>2. InOrder(Waiting)' = InOrder(Waiting)
        BY <4>1 DEF InOrder
      <4> QED BY <3>3, <4>2 DEF Queue!queueVars
    <3> QED BY <2>2, <3>1, <3>2, <3>3
            DEF LogNext, LogFatal, Exit, FlusherStep, CompareHeadTail, WakeUp, logVars, GivenUp
  <2> QED BY <2>1, <2>2
<1> QED BY <1>1, <1>2, QueueInductive, PTL DEF LogSpec, ActsAsQueue, Queue!QueueSpec
=============================================================================
