----------------------------- MODULE ReadBuffer -----------------------------
(***************************************************************************)
(* The buffer in which a socket keeps what it has received and nobody has  *)
(* parsed yet (lmvs-rb.c): seek and data_len delimit the contents, which   *)
(* move to the front, or to a buffer twice the size, when the next piece   *)
(* does not fit behind them.  lmvs_rb_append does not look at the capacity *)
(* when the buffer is empty, and doubles once only; that nothing is ever   *)
(* written beyond its end depends on what lmvs_sock_recv appends.          *)
(*                                                                         *)
(* A byte is its number in the order of arrival; 0 is a byte of calloc.    *)
(***************************************************************************)
EXTENDS Naturals

CONSTANTS
  InitialSize,    \* the size given to lmvs_rb_new: 4096
  ReadSize,       \* READ_BUFFER_SIZE, the longest piece: 4096
  MaxBufferLen,   \* MAX_BUFFER_LEN, beyond which the buffer does not grow
  MaxBytes        \* how many bytes arrive in all (bound)

ASSUME SizesAssumption ==
  /\ InitialSize \in Nat \ {0}
  /\ ReadSize \in 1 .. InitialSize
  /\ MaxBufferLen \in Nat
  /\ MaxBytes \in Nat

VARIABLES
  buffer,     \* rb->buffer
  capacity,   \* rb->capacity
  data_len,   \* rb->data_len
  seek,       \* rb->seek
  arrived,    \* history: the bytes that lmvs_sock_recv has received
  lost        \* history: was a piece refused since the buffer was last empty?

rbVars == <<buffer, capacity, data_len, seek, arrived, lost>>

Calloc(size) == [i \in 0 .. size - 1 |-> 0]

RBInit ==
  /\ buffer = Calloc(InitialSize)
  /\ capacity = InitialSize
  /\ data_len = 0
  /\ seek = 0
  /\ arrived = 0
  /\ lost = FALSE

\* memcpy of the bytes that have just arrived to place to of a buffer.
Memcpy(buf, to, len) ==
  [i \in DOMAIN buf |-> IF i >= to /\ i < to + len THEN arrived + 1 + (i - to) ELSE buf[i]]

\* Mutant: what is moved is found from the front, not from seek.
MemmoveFront(buf) ==
  [i \in DOMAIN buf |-> IF i < data_len THEN buffer[i] ELSE buf[i]]

\* The contents move to the front of a buffer.
Memmove(buf) ==
  [i \in DOMAIN buf |-> IF i < data_len THEN buffer[seek + i] ELSE buf[i]]

Remain == capacity - data_len
Behind == capacity - (seek + data_len)

AppendToEmpty(len) ==
  /\ data_len = 0 /\ seek = 0
  /\ buffer' = Memcpy(buffer, 0, len)
  /\ data_len' = len
  /\ UNCHANGED <<capacity, seek, lost>>

AppendBehind(len) ==
  /\ ~(data_len = 0 /\ seek = 0)
  /\ Remain >= len /\ Behind >= len
  /\ buffer' = Memcpy(buffer, seek + data_len, len)
  /\ data_len' = data_len + len
  /\ UNCHANGED <<capacity, seek, lost>>

AppendAfterMove(len) ==
  /\ ~(data_len = 0 /\ seek = 0)
  /\ Remain >= len /\ Behind < len
  /\ buffer' = Memcpy(Memmove(buffer), data_len, len)
  /\ data_len' = data_len + len
  /\ seek' = 0
  /\ UNCHANGED <<capacity, lost>>

\* Mutant: the buffer grows by a quarter of what it was.
DoubleLess(size) == size + size \div 4

Double(size) == size * 2

\* Mutant: the size is doubled twice before it is looked at.
TooLargeTwice(size) == Double(size) > MaxBufferLen

TooLarge(size) == size > MaxBufferLen

\* _expand refuses more than MAX_BUFFER_LEN; lmvs_sock_recv does not notice.
AppendToLarger(len) ==
  /\ ~(data_len = 0 /\ seek = 0)
  /\ Remain < len
  /\ IF TooLarge(Double(capacity))
       THEN /\ lost' = TRUE
            /\ UNCHANGED <<buffer, capacity, data_len, seek>>
       ELSE /\ buffer' = Memcpy(Memmove(Calloc(Double(capacity))), data_len, len)
            /\ capacity' = Double(capacity)
            /\ data_len' = data_len + len
            /\ seek' = 0
            /\ UNCHANGED lost

\* lmvs_sock_recv appends what one recv has returned.
AppendPiece(len) ==
  /\ arrived + len <= MaxBytes
  /\ arrived' = arrived + len
  /\ \/ AppendToEmpty(len)
     \/ AppendBehind(len)
     \/ AppendAfterMove(len)
     \/ AppendToLarger(len)

\* lmvs_rb_seek.  Of more than there is, it takes nothing.
Seek(len) ==
  /\ len <= data_len
  /\ data_len' = data_len - len
  /\ seek' = IF len = data_len THEN 0 ELSE seek + len
  /\ lost' = (lost /\ len < data_len)
  /\ UNCHANGED <<buffer, capacity, arrived>>

\* lmvs_rb_reset; nothing is cleared, nor does the buffer shrink again.
Reset ==
  /\ data_len' = 0
  /\ seek' = 0
  /\ lost' = FALSE
  /\ UNCHANGED <<buffer, capacity, arrived>>

RBNext ==
  \/ \E len \in 1 .. ReadSize : AppendPiece(len)
  \/ \E len \in 1 .. capacity + 1 : Seek(len)
  \/ Reset

RBSpec == RBInit /\ [][RBNext]_rbVars

-----------------------------------------------------------------------------
(***************************************************************************)
(* Properties.                                                             *)
(***************************************************************************)

\* The variables have their types; the buffer is as large as capacity says.
RBTypeOK ==
  /\ capacity \in Nat
  /\ buffer \in [0 .. capacity - 1 -> 0 .. arrived]
  /\ data_len \in Nat
  /\ seek \in Nat
  /\ arrived \in 0 .. MaxBytes
  /\ lost \in BOOLEAN

\* No append writes beyond the end of the buffer, although none checks it when
\* the buffer is empty or has just been doubled.
WithinCapacity == seek + data_len <= capacity

InPlace == \A i \in 0 .. data_len - 1 : buffer[seek + i] = arrived - data_len + 1 + i

\* The contents are the bytes that arrived last, each in its place, through
\* any sequence of appends, moves, doublings and partial reads: unless a piece
\* was refused, after which others may have been appended as if it had not been.
HoldsLastArrived == ~lost => InPlace
=============================================================================
