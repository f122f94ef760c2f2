-------------------------- MODULE ReadBufferProofs --------------------------
(***************************************************************************)
(* Proofs about ReadBuffer: its types, its bounds and its contents, and    *)
(* that it is a queue of bytes, for every size of the buffer and of the    *)
(* pieces.                                                                 *)
(***************************************************************************)
EXTENDS MCReadBuffer, SequenceTheorems, TLAPS

\* No piece is longer than the buffer, which never shrinks; this is what an
\* append to an empty buffer and one doubling depend on.
RoomForPiece == InitialSize <= capacity

\* What the properties need of each other: contents exist only in bounds, and
\* an empty buffer has its contents at the front.
RBInv ==
  /\ RBTypeOK
  /\ RoomForPiece
  /\ WithinCapacity
  /\ HoldsLastArrived
  /\ data_len <= arrived

\* What a memcpy behind the contents, or a buffer that has them in front,
\* leaves in a buffer.
LEMMA MemcpyValue ==
  ASSUME NEW size \in Nat, NEW to \in Nat, NEW len \in Nat, NEW total \in Nat,
         total = arrived + len, arrived \in Nat,
         NEW buf \in [0 .. size - 1 -> 0 .. arrived]
  PROVE  /\ Memcpy(buf, to, len) \in [0 .. size - 1 -> 0 .. total]
         /\ \A i \in 0 .. size - 1 :
              Memcpy(buf, to, len)[i] =
                IF i >= to /\ i < to + len THEN arrived + 1 + (i - to) ELSE buf[i]
BY DEF Memcpy

LEMMA MemmoveValue ==
  ASSUME RBTypeOK, WithinCapacity, NEW size \in Nat, capacity <= size,
         NEW buf \in [0 .. size - 1 -> 0 .. arrived]
  PROVE  /\ Memmove(buf) \in [0 .. size - 1 -> 0 .. arrived]
         /\ \A i \in 0 .. data_len - 1 : Memmove(buf)[i] = buffer[seek + i]
<1>1. /\ capacity \in Nat /\ data_len \in Nat /\ seek \in Nat
      /\ seek + data_len <= capacity
      /\ buffer \in [0 .. capacity - 1 -> 0 .. arrived]
  BY DEF RBTypeOK, WithinCapacity
<1>2. ASSUME NEW i \in 0 .. size - 1
      PROVE  (IF i < data_len THEN buffer[seek + i] ELSE buf[i]) \in 0 .. arrived
  <2>1. CASE i < data_len
    <3>1. seek + i \in 0 .. capacity - 1
      BY <1>1, <2>1
    <3> QED BY <1>1, <2>1, <3>1
  <2>2. CASE ~(i < data_len)
    BY <2>2
  <2> QED BY <2>1, <2>2
<1>3. DOMAIN buf = 0 .. size - 1
  OBVIOUS
<1>4. Memmove(buf) \in [0 .. size - 1 -> 0 .. arrived]
  BY <1>2, <1>3 DEF Memmove
<1>5. \A i \in 0 .. data_len - 1 : i \in 0 .. size - 1
  BY <1>1
<1> QED BY <1>1, <1>3, <1>4, <1>5 DEF Memmove

\* An append behind the first kept bytes of a buffer that has them at place
\* from makes the contents longer by the piece.
LEMMA AppendKeeps ==
  ASSUME RBInv, NEW len \in 1 .. ReadSize, arrived + len <= MaxBytes,
         arrived' = arrived + len,
         NEW size \in Nat, NEW from \in Nat, from + data_len + len <= size,
         NEW buf \in [0 .. size - 1 -> 0 .. arrived],
         \A i \in 0 .. data_len - 1 : buf[from + i] = buffer[seek + i],
         capacity' = size, seek' = from, data_len' = data_len + len,
         buffer' = Memcpy(buf, from + data_len, len),
         lost' = lost, InitialSize <= size
  PROVE  RBInv'
<1>1. /\ len \in Nat /\ len > 0 /\ arrived \in Nat /\ data_len \in Nat /\ MaxBytes \in Nat
      /\ lost \in BOOLEAN
  BY SizesAssumption DEF RBInv, RBTypeOK
<1>2. /\ buffer' \in [0 .. size - 1 -> 0 .. arrived']
      /\ \A i \in 0 .. size - 1 :
           buffer'[i] = IF i >= from + data_len /\ i < from + data_len + len
                          THEN arrived + 1 + (i - (from + data_len)) ELSE buf[i]
  BY <1>1, MemcpyValue
<1>3. RBTypeOK'
  BY <1>1, <1>2 DEF RBTypeOK
<1>4. InPlace => InPlace'
  <2> SUFFICES ASSUME InPlace, NEW i \in 0 .. data_len' - 1
               PROVE  buffer'[seek' + i] = arrived' - data_len' + 1 + i
    BY DEF InPlace
  <2>1. from + i \in 0 .. size - 1 /\ i \in Nat /\ i < data_len + len
    BY <1>1
  <2>2. CASE i < data_len
    <3>1. buffer'[from + i] = buf[from + i]
      BY <1>1, <1>2, <2>1, <2>2
    <3>2. i \in 0 .. data_len - 1
      BY <1>1, <2>1, <2>2
    <3>3. buf[from + i] = arrived - data_len + 1 + i
      BY <3>2 DEF InPlace
    <3> QED BY <1>1, <2>1, <3>1, <3>3
  <2>3. CASE ~(i < data_len)
    <3>1. buffer'[from + i] = arrived + 1 + (from + i - (from + data_len))
      BY <1>1, <1>2, <2>1, <2>3
    <3> QED BY <1>1, <2>1, <3>1
  <2> QED BY <2>2, <2>3
<1>5. HoldsLastArrived'
  BY <1>4 DEF RBInv, HoldsLastArrived
<1> QED BY <1>1, <1>3, <1>5 DEF RBInv, RoomForPiece, WithinCapacity

LEMMA AppendKeepsInv ==
  ASSUME RBInv, NEW len \in 1 .. ReadSize, AppendPiece(len)
  PROVE  RBInv'
<1>1. /\ len \in Nat /\ arrived \in Nat /\ data_len \in Nat /\ seek \in Nat
      /\ capacity \in Nat /\ InitialSize \in Nat /\ len <= InitialSize
      /\ arrived + len <= MaxBytes /\ arrived' = arrived + len
      /\ seek + data_len <= capacity /\ InitialSize <= capacity
      /\ buffer \in [0 .. capacity - 1 -> 0 .. arrived]
  BY SizesAssumption DEF RBInv, RBTypeOK, RoomForPiece, WithinCapacity, AppendPiece
<1>2. CASE AppendToEmpty(len)
  <2>1. /\ seek + data_len + len <= capacity
        /\ buffer' = Memcpy(buffer, seek + data_len, len)
        /\ capacity' = capacity /\ seek' = seek /\ data_len' = data_len + len /\ lost' = lost
    BY <1>1, <1>2 DEF AppendToEmpty
  <2> QED BY <1>1, <2>1, AppendKeeps
<1>3. CASE AppendBehind(len)
  <2>1. /\ seek + data_len + len <= capacity
        /\ buffer' = Memcpy(buffer, seek + data_len, len)
        /\ capacity' = capacity /\ seek' = seek /\ data_len' = data_len + len /\ lost' = lost
    BY <1>1, <1>3 DEF AppendBehind, Behind
  <2> QED BY <1>1, <2>1, AppendKeeps
<1>4. CASE AppendAfterMove(len)
  <2>1. /\ Memmove(buffer) \in [0 .. capacity - 1 -> 0 .. arrived]
        /\ \A i \in 0 .. data_len - 1 : Memmove(buffer)[0 + i] = buffer[seek + i]
    BY <1>1, MemmoveValue DEF RBInv
  <2>2. /\ 0 + data_len + len <= capacity
        /\ buffer' = Memcpy(Memmove(buffer), 0 + data_len, len)
        /\ capacity' = capacity /\ seek' = 0 /\ data_len' = data_len + len /\ lost' = lost
    BY <1>1, <1>4 DEF AppendAfterMove, Remain
  <2> HIDE DEF Memmove, Memcpy
  <2> QED BY <1>1, <2>1, <2>2, AppendKeeps
<1>5. CASE AppendToLarger(len) /\ ~TooLarge(Double(capacity))
  <2> DEFINE size == 2 * capacity
  <2>1. size \in Nat /\ capacity <= size /\ Double(capacity) = size
    BY <1>1 DEF Double
  <2>2. Calloc(size) \in [0 .. size - 1 -> 0 .. arrived]
    BY <1>1, <2>1 DEF Calloc
  <2>3. /\ Memmove(Calloc(size)) \in [0 .. size - 1 -> 0 .. arrived]
        /\ \A i \in 0 .. data_len - 1 : Memmove(Calloc(size))[0 + i] = buffer[seek + i]
    <3>1. RBTypeOK /\ WithinCapacity
      BY DEF RBInv
    <3> HIDE DEF size
    <3>2. /\ Memmove(Calloc(size)) \in [0 .. size - 1 -> 0 .. arrived]
          /\ \A i \in 0 .. data_len - 1 : Memmove(Calloc(size))[i] = buffer[seek + i]
      BY <2>1, <2>2, <3>1, MemmoveValue
    <3>3. \A i \in 0 .. data_len - 1 : 0 + i = i
      OBVIOUS
    <3> QED BY <3>2, <3>3
  <2>4. /\ 0 + data_len + len <= size /\ InitialSize <= size
        /\ buffer' = Memcpy(Memmove(Calloc(size)), 0 + data_len, len)
        /\ capacity' = size /\ seek' = 0 /\ data_len' = data_len + len /\ lost' = lost
    BY <1>1, <1>5, <2>1 DEF AppendToLarger
  <2> HIDE DEF size
  <2> QED BY <1>1, <2>1, <2>3, <2>4, AppendKeeps
<1>6. CASE AppendToLarger(len) /\ TooLarge(Double(capacity))
  <2>1. /\ lost' = TRUE /\ UNCHANGED <<buffer, capacity, data_len, seek>>
    BY <1>6 DEF AppendToLarger
  <2>2. 0 .. arrived \subseteq 0 .. arrived'
    BY <1>1
  <2>3. buffer \in [0 .. capacity - 1 -> 0 .. arrived']
    BY <1>1, <2>2
  <2> QED BY <1>1, <2>1, <2>3, SizesAssumption
          DEF RBInv, RBTypeOK, RoomForPiece, WithinCapacity, HoldsLastArrived
<1> QED BY <1>2, <1>3, <1>4, <1>5, <1>6 DEF AppendPiece

\* A buffer that becomes empty, with its contents at the front, keeps the rest.
LEMMA EmptyKeepsInv ==
  ASSUME RBInv, data_len' = 0, seek' = 0, lost' \in BOOLEAN,
         UNCHANGED <<buffer, capacity, arrived>>
  PROVE  RBInv'
<1>1. InPlace'
  <2>1. 0 .. 0 - 1 = {}
    OBVIOUS
  <2> QED BY <2>1 DEF InPlace
<1>2. HoldsLastArrived'
  BY <1>1 DEF HoldsLastArrived
<1>3. RBTypeOK'
  BY DEF RBInv, RBTypeOK
<1>4. RoomForPiece' /\ WithinCapacity' /\ data_len' <= arrived'
  BY SizesAssumption DEF RBInv, RBTypeOK, RoomForPiece, WithinCapacity
<1> QED BY <1>2, <1>3, <1>4 DEF RBInv

LEMMA SeekKeepsInv ==
  ASSUME RBInv, NEW len \in Nat \ {0}, Seek(len)
  PROVE  RBInv'
<1>1. /\ len \in Nat /\ len <= data_len /\ data_len \in Nat /\ seek \in Nat
      /\ capacity \in Nat /\ arrived \in Nat /\ data_len <= arrived
      /\ seek + data_len <= capacity
      /\ data_len' = data_len - len
      /\ UNCHANGED <<buffer, capacity, arrived>>
  BY SizesAssumption DEF RBInv, RBTypeOK, WithinCapacity, Seek
<1>lost. lost' \in BOOLEAN
  BY DEF Seek
<1>2. CASE len = data_len
  <2>1. seek' = 0 /\ data_len' = 0
    BY <1>1, <1>2 DEF Seek
  <2> QED BY <1>1, <2>1, <1>lost, EmptyKeepsInv
<1>3. CASE len < data_len
  <2>1. seek' = seek + len
    BY <1>1, <1>3 DEF Seek
  <2>2. InPlace => InPlace'
    <3> SUFFICES ASSUME InPlace, NEW i \in 0 .. data_len - len - 1
                 PROVE  buffer[seek + len + i] = arrived - (data_len - len) + 1 + i
      BY <1>1, <2>1 DEF InPlace
    <3>1. len + i \in 0 .. data_len - 1
      BY <1>1
    <3>2. buffer[seek + (len + i)] = arrived - data_len + 1 + (len + i)
      BY <3>1 DEF InPlace
    <3> QED BY <1>1, <3>2
  <2>3. HoldsLastArrived'
    <3>1. lost' <=> lost
      BY <1>1, <1>3 DEF Seek
    <3> QED BY <2>2, <3>1 DEF RBInv, HoldsLastArrived
  <2> QED BY <1>1, <1>lost, <2>1, <2>3 DEF RBInv, RBTypeOK, RoomForPiece, WithinCapacity
<1> QED BY <1>1, <1>2, <1>3

LEMMA RBInitially == RBInit => RBInv
<1> SUFFICES ASSUME RBInit PROVE RBInv
  OBVIOUS
<1>1. InPlace
  <2>1. 0 .. 0 - 1 = {}
    OBVIOUS
  <2> QED BY <2>1 DEF RBInit, InPlace
<1>2. HoldsLastArrived
  BY <1>1 DEF HoldsLastArrived
<1>3. RBTypeOK
  <2>1. capacity = InitialSize /\ data_len = 0 /\ seek = 0 /\ arrived = 0
    BY DEF RBInit
  <2>2. buffer \in [0 .. capacity - 1 -> 0 .. arrived]
    BY <2>1, SizesAssumption DEF RBInit, Calloc
  <2>3. lost \in BOOLEAN
    BY DEF RBInit
  <2> QED BY <2>1, <2>2, <2>3, SizesAssumption DEF RBTypeOK
<1>4. RoomForPiece /\ WithinCapacity /\ data_len <= arrived
  <2>1. capacity = InitialSize /\ data_len = 0 /\ seek = 0 /\ arrived = 0
    BY DEF RBInit
  <2> QED BY <2>1, SizesAssumption DEF RoomForPiece, WithinCapacity
<1> QED BY <1>2, <1>3, <1>4 DEF RBInv

LEMMA RBInductive == RBSpec => []RBInv
<1>1. RBInit => RBInv
  BY RBInitially
<1>2. RBInv /\ [RBNext]_rbVars => RBInv'
  <2> SUFFICES ASSUME RBInv, [RBNext]_rbVars PROVE RBInv'
    OBVIOUS
  <2>1. ASSUME NEW len \in 1 .. ReadSize, AppendPiece(len) PROVE RBInv'
    BY <2>1, AppendKeepsInv
  <2>2. ASSUME NEW len \in 1 .. capacity + 1, Seek(len) PROVE RBInv'
    <3>1. len \in Nat \ {0}
      BY DEF RBInv, RBTypeOK
    <3> QED BY <2>2, <3>1, SeekKeepsInv
  <2>3. CASE Reset
    <3>1. data_len' = 0 /\ seek' = 0 /\ UNCHANGED <<buffer, capacity, arrived>>
      BY <2>3 DEF Reset
    <3>2. lost' \in BOOLEAN
      BY <2>3 DEF Reset
    <3> QED BY <3>1, <3>2, EmptyKeepsInv
  <2>4. CASE UNCHANGED rbVars
    BY <2>4 DEF rbVars, RBInv, RBTypeOK, RoomForPiece, WithinCapacity, HoldsLastArrived, InPlace
  <2> QED BY <2>1, <2>2, <2>3, <2>4 DEF RBNext
<1> QED BY <1>1, <1>2, PTL DEF RBSpec

\* The variables of the buffer keep their types, and the buffer is always as
\* large as capacity says.
THEOREM BufferTypeCorrect == RBSpec => []RBTypeOK
<1>1. RBInv => RBTypeOK
  BY DEF RBInv
<1> QED BY <1>1, RBInductive, PTL

\* No append writes beyond the end of the buffer, for any sizes of which the
\* longest piece is no longer than the first buffer.
THEOREM NeverBeyondCapacity == RBSpec => []WithinCapacity
<1>1. RBInv => WithinCapacity
  BY DEF RBInv
<1> QED BY <1>1, RBInductive, PTL

\* The contents are the bytes that arrived last, in their order, as long as no
\* piece has been refused.
THEOREM ContentsInPlace == RBSpec => []HoldsLastArrived
<1>1. RBInv => HoldsLastArrived
  BY DEF RBInv
<1> QED BY <1>1, RBInductive, PTL

-----------------------------------------------------------------------------
(***************************************************************************)
(* The buffer implements ByteQueue.                                        *)
(***************************************************************************)

LEMMA FunctionIsSeq ==
  ASSUME NEW S, NEW len \in Nat, NEW part \in [1 .. len -> S]
  PROVE  part \in Seq(S) /\ Len(part) = len
<1>1. part \in Seq(S)
  OBVIOUS
<1> QED BY <1>1

LEMMA PieceIsSeq ==
  ASSUME NEW len \in Nat, NEW n \in Nat
  PROVE  /\ [i \in 1 .. len |-> n + i] \in Seq(0 .. n + len)
         /\ Len([i \in 1 .. len |-> n + i]) = len
         /\ \A i \in 1 .. len : [j \in 1 .. len |-> n + j][i] = n + i
<1> DEFINE piece == [i \in 1 .. len |-> n + i]
<1>1. piece \in [1 .. len -> 0 .. n + len]
  OBVIOUS
<1>2. piece \in Seq(0 .. n + len) /\ Len(piece) = len
  BY <1>1, SeqDef, LenProperties
<1> QED BY <1>2

LEMMA IndexInRange ==
  ASSUME NEW from \in Nat, NEW len \in Nat, NEW size \in Nat, from + len <= size,
         NEW i \in 1 .. len
  PROVE  from + i - 1 \in 0 .. size - 1
OBVIOUS

LEMMA ContentsBefore ==
  ASSUME RBInv
  PROVE  /\ Contents \in Seq(0 .. arrived) /\ Len(Contents) = data_len
         /\ \A i \in 1 .. data_len : Contents[i] = buffer[seek + i - 1]
<1>1. capacity \in Nat /\ buffer \in [0 .. capacity - 1 -> 0 .. arrived]
  BY DEF RBInv, RBTypeOK
<1>2. seek \in Nat /\ data_len \in Nat
  BY DEF RBInv, RBTypeOK
<1>3. seek + data_len <= capacity
  BY DEF RBInv, WithinCapacity
<1>4. ASSUME NEW i \in 1 .. data_len PROVE buffer[seek + i - 1] \in 0 .. arrived
  <2>1. seek + i - 1 \in 0 .. capacity - 1
    BY <1>1, <1>2, <1>3, IndexInRange
  <2> QED BY <1>1, <2>1
<1>5. /\ Contents \in [1 .. data_len -> 0 .. arrived]
      /\ \A i \in 1 .. data_len : Contents[i] = buffer[seek + i - 1]
  BY <1>4 DEF Contents
<1>6. Contents \in Seq(0 .. arrived) /\ Len(Contents) = data_len
  BY <1>2, <1>5, FunctionIsSeq
<1> QED BY <1>5, <1>6

LEMMA ContentsAfter ==
  ASSUME RBInv'
  PROVE  /\ Contents' \in Seq(0 .. arrived') /\ Len(Contents') = data_len'
         /\ \A i \in 1 .. data_len' : Contents'[i] = buffer'[seek' + i - 1]
<1>1. capacity' \in Nat /\ buffer' \in [0 .. capacity' - 1 -> 0 .. arrived']
  BY DEF RBInv, RBTypeOK
<1>2. seek' \in Nat /\ data_len' \in Nat
  BY DEF RBInv, RBTypeOK
<1>3. seek' + data_len' <= capacity'
  BY DEF RBInv, WithinCapacity
<1>4. ASSUME NEW i \in 1 .. data_len' PROVE buffer'[seek' + i - 1] \in 0 .. arrived'
  <2>1. seek' + i - 1 \in 0 .. capacity' - 1
    BY <1>1, <1>2, <1>3, IndexInRange
  <2> QED BY <1>1, <2>1
<1>5. /\ Contents' \in [1 .. data_len' -> 0 .. arrived']
      /\ \A i \in 1 .. data_len' : Contents'[i] = buffer'[seek' + i - 1]
  BY <1>4 DEF Contents
<1>6. Contents' \in Seq(0 .. arrived') /\ Len(Contents') = data_len'
  BY <1>2, <1>5, FunctionIsSeq
<1> QED BY <1>5, <1>6

\* A piece appended behind the contents, wherever they have been moved to, is
\* appended to the queue.
LEMMA AppendArrives ==
  ASSUME RBInv, RBInv', NEW len \in 1 .. ReadSize, arrived' = arrived + len,
         NEW size \in Nat, NEW from \in Nat, from + data_len + len <= size,
         NEW buf \in [0 .. size - 1 -> 0 .. arrived],
         \A i \in 0 .. data_len - 1 : buf[from + i] = buffer[seek + i],
         seek' = from, data_len' = data_len + len,
         buffer' = Memcpy(buf, from + data_len, len)
  PROVE  Bytes!Arrive(len)
<1>1. len \in Nat /\ arrived \in Nat /\ data_len \in Nat /\ seek \in Nat
  BY SizesAssumption DEF RBInv, RBTypeOK
<1> DEFINE piece == [i \in 1 .. len |-> arrived + i]
           all == Contents \o piece
<1>2. /\ \A i \in 0 .. size - 1 :
           buffer'[i] = IF i >= from + data_len /\ i < from + data_len + len
                          THEN arrived + 1 + (i - (from + data_len)) ELSE buf[i]
  BY <1>1, MemcpyValue
<1>3. /\ Contents \in Seq(0 .. arrived + len) /\ Len(Contents) = data_len
      /\ \A i \in 1 .. data_len : Contents[i] = buffer[seek + i - 1]
  <2>1. Seq(0 .. arrived) \subseteq Seq(0 .. arrived + len)
    <3>1. 0 .. arrived \subseteq 0 .. arrived + len
      BY <1>1
    <3> QED BY <3>1, SeqMonotonic
  <2> QED BY <2>1, ContentsBefore
<1>4. piece \in Seq(0 .. arrived + len) /\ Len(piece) = len /\ \A i \in 1 .. len : piece[i] = arrived + i
  BY <1>1, PieceIsSeq
<1>5. /\ Contents' \in Seq(0 .. arrived + len) /\ Len(Contents') = data_len + len
      /\ \A i \in 1 .. data_len + len : Contents'[i] = buffer'[from + i - 1]
  <2>1. arrived' = arrived + len
    OBVIOUS
  <2> QED BY <2>1, ContentsAfter
<1> HIDE DEF piece
<1>6. /\ all \in Seq(0 .. arrived + len) /\ Len(all) = data_len + len
      /\ \A i \in 1 .. data_len + len :
           all[i] = IF i <= data_len THEN Contents[i] ELSE piece[i - data_len]
  BY <1>3, <1>4, ConcatProperties
<1> HIDE DEF all
<1>7. ASSUME NEW i \in 1 .. data_len + len PROVE Contents'[i] = all[i]
  <2>1. from + i - 1 \in 0 .. size - 1
    BY <1>1
  <2>0. Contents'[i] = buffer'[from + i - 1]
    BY <1>5
  <2>2. CASE i <= data_len
    <3>1. i \in 1 .. data_len /\ i - 1 \in 0 .. data_len - 1 /\ from + (i - 1) = from + i - 1
      BY <1>1, <2>2
    <3>2. buffer'[from + i - 1] = buf[from + i - 1]
      BY <1>1, <1>2, <2>1, <2>2
    <3>3. buf[from + i - 1] = buffer[seek + (i - 1)] /\ seek + (i - 1) = seek + i - 1
      BY <1>1, <3>1
    <3>4. Contents[i] = buffer[seek + i - 1] /\ all[i] = Contents[i]
      BY <1>3, <1>6, <2>2, <3>1
    <3> QED BY <2>0, <3>2, <3>3, <3>4
  <2>3. CASE ~(i <= data_len)
    <3>1. buffer'[from + i - 1] = arrived + (i - data_len)
      BY <1>1, <1>2, <2>1, <2>3
    <3>2. i - data_len \in 1 .. len
      BY <1>1, <2>3
    <3>3. all[i] = piece[i - data_len]
      BY <1>6, <2>3
    <3> QED BY <1>4, <2>0, <3>1, <3>2, <3>3
  <2> QED BY <2>2, <2>3
<1>8. Contents' = all
  BY <1>1, <1>5, <1>6, <1>7, SeqEqual
<1> QED BY <1>8 DEF Bytes!Arrive, all, piece

\* What is left in a buffer when it refuses a piece is what it had, and with the
\* piece it would be more than its capacity, which is more than half of
\* MAX_BUFFER_LEN.
LEMMA AppendIsQueued ==
  ASSUME RBInv, RBInv', NEW len \in 1 .. ReadSize, AppendPiece(len)
  PROVE  Bytes!Arrive(len) \/ Bytes!Refuse(len)
<1>1. /\ len \in Nat /\ arrived \in Nat /\ data_len \in Nat /\ seek \in Nat
      /\ capacity \in Nat /\ InitialSize \in Nat /\ len <= InitialSize
      /\ arrived' = arrived + len
      /\ seek + data_len <= capacity /\ InitialSize <= capacity
      /\ buffer \in [0 .. capacity - 1 -> 0 .. arrived]
  BY SizesAssumption DEF RBInv, RBTypeOK, RoomForPiece, WithinCapacity, AppendPiece
<1>2. CASE AppendToEmpty(len) \/ AppendBehind(len)
  <2>1. /\ seek + data_len + len <= capacity
        /\ buffer' = Memcpy(buffer, seek + data_len, len)
        /\ seek' = seek /\ data_len' = data_len + len
    BY <1>1, <1>2 DEF AppendToEmpty, AppendBehind, Behind
  <2> QED BY <1>1, <2>1, AppendArrives
<1>3. CASE AppendAfterMove(len)
  <2>1. /\ Memmove(buffer) \in [0 .. capacity - 1 -> 0 .. arrived]
        /\ \A i \in 0 .. data_len - 1 : Memmove(buffer)[0 + i] = buffer[seek + i]
    BY <1>1, MemmoveValue DEF RBInv
  <2>2. /\ 0 + data_len + len <= capacity
        /\ buffer' = Memcpy(Memmove(buffer), 0 + data_len, len)
        /\ seek' = 0 /\ data_len' = data_len + len
    BY <1>1, <1>3 DEF AppendAfterMove, Remain
  <2> HIDE DEF Memmove, Memcpy
  <2> QED BY <1>1, <2>1, <2>2, AppendArrives
<1>4. CASE AppendToLarger(len) /\ ~TooLarge(Double(capacity))
  <2> DEFINE size == 2 * capacity
             larger == Memmove(Calloc(size))
  <2>1. size \in Nat /\ capacity <= size /\ Double(capacity) = size /\ 0 + data_len + len <= size
    BY <1>1 DEF Double
  <2>2. Calloc(size) \in [0 .. size - 1 -> 0 .. arrived]
    BY <1>1, <2>1 DEF Calloc
  <2>3. buffer' = Memcpy(larger, 0 + data_len, len) /\ seek' = 0 /\ data_len' = data_len + len
    BY <1>1, <1>4, <2>1 DEF AppendToLarger
  <2> HIDE DEF size
  <2>4. larger \in [0 .. size - 1 -> 0 .. arrived] /\ \A i \in 0 .. data_len - 1 : larger[i] = buffer[seek + i]
    BY <2>1, <2>2, MemmoveValue DEF RBInv
  <2> HIDE DEF larger
  <2>5. \A i \in 0 .. data_len - 1 : larger[0 + i] = buffer[seek + i]
    BY <2>4
  <2> QED BY <1>1, <2>1, <2>3, <2>4, <2>5, AppendArrives
<1>5. CASE AppendToLarger(len) /\ TooLarge(Double(capacity))
  <2>1. capacity - data_len < len /\ capacity * 2 > MaxBufferLen /\ UNCHANGED <<buffer, data_len, seek>>
    BY <1>5 DEF AppendToLarger, Remain, TooLarge, Double
  <2>2. Contents' = Contents /\ Len(Contents) = data_len
    BY <2>1, ContentsBefore DEF Contents
  <2>3. data_len + len > MaxBufferLen \div 2
    BY <1>1, <2>1, SizesAssumption
  <2> QED BY <1>1, <2>2, <2>3 DEF Bytes!Refuse
<1> QED BY <1>2, <1>3, <1>4, <1>5 DEF AppendPiece

\* Bytes taken from the front of the contents are taken from the queue.
LEMMA SeekTakes ==
  ASSUME RBInv, RBInv', NEW len \in 1 .. data_len, data_len' = data_len - len,
         data_len' = 0 \/ seek' = seek + len, UNCHANGED <<buffer, arrived>>
  PROVE  Bytes!Take(len)
<1>1. len \in Nat /\ len > 0 /\ len <= data_len /\ data_len \in Nat /\ seek \in Nat /\ arrived \in Nat
  BY SizesAssumption DEF RBInv, RBTypeOK
<1> DEFINE rest == SubSeq(Contents, len + 1, data_len)
<1>2. /\ Contents \in Seq(0 .. arrived) /\ Len(Contents) = data_len
      /\ \A i \in 1 .. data_len : Contents[i] = buffer[seek + i - 1]
  BY ContentsBefore
<1>3. /\ Contents' \in Seq(0 .. arrived) /\ Len(Contents') = data_len - len
      /\ \A i \in 1 .. data_len - len : Contents'[i] = buffer[seek' + i - 1]
  BY ContentsAfter
<1>4. /\ rest \in Seq(0 .. arrived) /\ Len(rest) = data_len - len
      /\ \A i \in 1 .. data_len - len : rest[i] = Contents[len + i]
  <2>1. \A i \in len + 1 .. data_len : Contents[i] \in 0 .. arrived
    BY <1>1, <1>2, ElementOfSeq
  <2>2. /\ rest \in Seq(0 .. arrived)
        /\ Len(rest) = IF len + 1 <= data_len THEN data_len - (len + 1) + 1 ELSE 0
        /\ \A i \in 1 .. data_len - (len + 1) + 1 : rest[i] = Contents[len + 1 + i - 1]
    BY <1>1, <2>1, SubSeqProperties
  <2>3. (IF len + 1 <= data_len THEN data_len - (len + 1) + 1 ELSE 0) = data_len - len
    BY <1>1
  <2>4. ASSUME NEW i \in 1 .. data_len - len PROVE rest[i] = Contents[len + i]
    <3>1. i \in 1 .. data_len - (len + 1) + 1 /\ len + 1 + i - 1 = len + i
      BY <1>1
    <3> HIDE DEF rest
    <3> QED BY <2>2, <3>1
  <2> QED BY <2>2, <2>3, <2>4
<1> HIDE DEF rest
<1>5. ASSUME NEW i \in 1 .. data_len - len PROVE Contents'[i] = rest[i]
  <2>1. seek' = seek + len /\ len + i \in 1 .. data_len
    BY <1>1
  <2>2. Contents'[i] = buffer[seek + len + i - 1]
    BY <1>3, <2>1
  <2>3. rest[i] = buffer[seek + (len + i) - 1]
    BY <1>2, <1>4, <2>1
  <2>4. seek + len + i - 1 = seek + (len + i) - 1
    BY <1>1
  <2> QED BY <2>2, <2>3, <2>4
<1>6. Contents' = rest
  BY <1>3, <1>4, <1>5, SeqEqual
<1> QED BY <1>1, <1>2, <1>6 DEF Bytes!Take, rest

\* The read buffer is a queue of bytes, for any sizes: what arrives is appended,
\* or refused as a whole when more than half of MAX_BUFFER_LEN would wait, and
\* what is taken is taken from the front.
THEOREM BufferIsAQueue == RBSpec => ActsAsByteQueue
<1>1. RBInit => Bytes!QueueInit
  <2> SUFFICES ASSUME RBInit PROVE arrived = 0 /\ Contents = << >>
    BY DEF Bytes!QueueInit
  <2>1. RBInv /\ arrived = 0 /\ data_len = 0
    BY RBInitially DEF RBInit
  <2>2. Contents \in Seq(0 .. arrived) /\ Len(Contents) = 0
    BY <2>1, ContentsBefore
  <2> QED BY <2>1, <2>2, EmptySeq
<1>2. RBInv /\ RBInv' /\ [RBNext]_rbVars => [Bytes!QueueNext]_(Bytes!queueVars)
  <2> SUFFICES ASSUME RBInv, RBInv', [RBNext]_rbVars PROVE [Bytes!QueueNext]_(Bytes!queueVars)
    OBVIOUS
  <2>1. data_len \in Nat /\ Len(Contents) = data_len
    BY ContentsBefore DEF RBInv, RBTypeOK
  <2>2. ASSUME NEW len \in 1 .. ReadSize, AppendPiece(len) PROVE Bytes!QueueNext
    BY <2>2, AppendIsQueued DEF Bytes!QueueNext
  <2>3. ASSUME NEW len \in 1 .. data_len, Bytes!Take(len) PROVE Bytes!QueueNext
    BY <2>1, <2>3 DEF Bytes!QueueNext
  <2>4. ASSUME NEW len \in 1 .. capacity + 1, Seek(len) PROVE Bytes!QueueNext
    <3>1. len \in 1 .. data_len
      BY <2>1, <2>4 DEF Seek, RBInv, RBTypeOK
    <3>2. /\ data_len' = data_len - len /\ UNCHANGED <<buffer, arrived>>
          /\ data_len' = 0 \/ seek' = seek + len
      BY <2>1, <2>4, <3>1 DEF Seek
    <3> QED BY <2>3, <3>1, <3>2, SeekTakes
  <2>5. CASE Reset
    <3>1. data_len' = 0 /\ UNCHANGED <<buffer, arrived>>
      BY <2>5 DEF Reset
    <3>2. CASE data_len = 0
      <4>1. /\ Contents \in Seq(0 .. arrived) /\ Len(Contents) = 0
            /\ Contents' \in Seq(0 .. arrived) /\ Len(Contents') = 0
        BY <3>1, <3>2, ContentsBefore, ContentsAfter
      <4>2. Contents' = Contents
        BY <4>1, EmptySeq
      <4> QED BY <3>1, <4>2 DEF Bytes!queueVars
    <3>3. CASE data_len # 0
      <4>1. data_len \in 1 .. data_len /\ data_len' = data_len - data_len
        BY <2>1, <3>1, <3>3
      <4> QED BY <2>3, <3>1, <4>1, SeekTakes
    <3> QED BY <3>2, <3>3
  <2>6. CASE UNCHANGED rbVars
    BY <2>6 DEF rbVars, Contents, Bytes!queueVars
  <2> QED BY <2>2, <2>4, <2>5, <2>6 DEF RBNext
<1> QED BY <1>1, <1>2, RBInductive, PTL DEF RBSpec, ActsAsByteQueue, Bytes!QueueSpec
=============================================================================
