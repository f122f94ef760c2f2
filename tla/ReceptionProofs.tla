--------------------------- MODULE ReceptionProofs ---------------------------
(***************************************************************************)
(* Proofs about Reception, for every size of the buffer and of the pieces  *)
(* and for requests of any length: the connection is owed its events, what *)
(* is parsed is one request, and the parser stays within the buffer.  What *)
(* is proved of the buffer alone in ReadBufferProofs is used here.         *)
(***************************************************************************)
EXTENDS Reception, ReadBufferProofs, SequenceTheorems, WellFoundedInduction

Kinds == {"word", "space", "end"}
Exceptions == {"stale_end", "pipelined", "refused"}

\* The invariant of the buffer, and that requests begin at its front.
BufferPart ==
  /\ RBInv
  /\ seek = 0
  /\ Avoided({"refused"}) => ~lost

ClientPart ==
  /\ wire \in Seq(Kinds)
  /\ sent \in Nat /\ arrived <= sent /\ sent <= Len(wire)
  /\ base \in Nat /\ base <= arrived

FlagPart ==
  /\ receiving \in BOOLEAN
  /\ fin \in BOOLEAN
  /\ ready \in BOOLEAN
  /\ clean \in BOOLEAN
  /\ undefined \in BOOLEAN

\* There is something in the buffer only while a request is being received.
PhasePart ==
  /\ phase \in {"free", "reading", "answering"}
  /\ receiving => phase = "reading"
  /\ phase # "reading" => data_len = 0
  /\ faults \subseteq {"stale_end", "pipelined", "refused", "brimful"}

\* The contents begin where the connection or the last request left off.
AtBoundary ==
  /\ base <= arrived - data_len
  /\ arrived - data_len = base \/ wire[arrived - data_len] = "end"

RequestPart ==
  /\ phase # "free" /\ Avoided(Exceptions) => AtBoundary
  /\ ParsesOneRequest

\* Where one request of the connection ends and the next one may begin.
Boundary(n) == n = base \/ (n > base /\ wire[n] = "end")

\* The clients mean to send whole requests, and each has its two spaces.
WirePart ==
  /\ Boundary(Len(wire))
  /\ \A n \in base .. Len(wire) - 1 : Boundary(n) =>
       /\ wire[n + 1] = "word" /\ wire[n + 2] = "space"
       /\ wire[n + 3] = "word" /\ wire[n + 4] = "space"
       /\ n + 5 <= Len(wire)

\* A buffer that was never full still has the last zero byte of calloc.
ZeroPart == Avoided({"brimful"}) => buffer[capacity - 1] = 0

ReceptionInv ==
  /\ BufferPart /\ ClientPart /\ FlagPart /\ PhasePart
  /\ RequestPart /\ ReadEventIsDue
  /\ WirePart /\ ZeroPart /\ StaysWithinBuffer

-----------------------------------------------------------------------------
(***************************************************************************)
(* The buffer.                                                             *)
(***************************************************************************)

LEMMA FaultsGrow ==
  ASSUME ReceptionNext, NEW set
  PROVE  Avoided(set)' => Avoided(set)
<1>1. faults \subseteq faults'
  BY DEF ReceptionNext, ClientSends, ClientCloses, Accepted, TornDown, IoStep, EpollIn, Recv,
         RecvClosed, ParseFindsNone, ParseRequest, Answered, historyVars
<1> QED BY <1>1 DEF Avoided

LEMMA BufferUnchanged ==
  ASSUME BufferPart, UNCHANGED rbVars, Avoided({"refused"})' => Avoided({"refused"})
  PROVE  BufferPart'
BY DEF BufferPart, rbVars, RBInv, RBTypeOK, RoomForPiece, WithinCapacity, HoldsLastArrived, InPlace

LEMMA BufferReset ==
  ASSUME BufferPart, Reset, Avoided({"refused"})' => Avoided({"refused"})
  PROVE  BufferPart'
<1>1. data_len' = 0 /\ seek' = 0 /\ lost' = FALSE /\ UNCHANGED <<buffer, capacity, arrived>>
  BY DEF Reset
<1>2. lost' \in BOOLEAN
  BY <1>1
<1>3. RBInv'
  BY <1>1, <1>2, EmptyKeepsInv DEF BufferPart
<1> QED BY <1>1, <1>3 DEF BufferPart

\* What an append does to the places of the contents.
LEMMA AppendAtFront ==
  ASSUME seek = 0, data_len \in Nat, NEW len \in Nat, AppendPiece(len)
  PROVE  /\ seek' = 0 /\ arrived' = arrived + len
         /\ lost' = TRUE \/ data_len' = data_len + len
<1>1. seek' = 0 /\ arrived' = arrived + len
  BY DEF AppendPiece, AppendToEmpty, AppendBehind, AppendAfterMove, AppendToLarger
<1>2. CASE AppendToEmpty(len)
  BY <1>1, <1>2 DEF AppendToEmpty
<1>3. CASE AppendBehind(len) \/ AppendAfterMove(len)
  BY <1>1, <1>3 DEF AppendBehind, AppendAfterMove
<1>4. CASE AppendToLarger(len)
  BY <1>1, <1>4 DEF AppendToLarger
<1> QED BY <1>1, <1>2, <1>3, <1>4 DEF AppendPiece

LEMMA PieceLength ==
  ASSUME BufferPart, ClientPart, Recv
  PROVE  \E len \in 1 .. ReadSize : AppendPiece(len) /\ len <= sent - arrived
<1> DEFINE len == IF Unread < ReadSize THEN Unread ELSE ReadSize
<1>1. /\ Unread \in Int /\ Unread > 0 /\ ReadSize \in Nat \ {0} /\ Unread = sent - arrived
  BY SizesAssumption DEF BufferPart, RBInv, RBTypeOK, ClientPart, Unread, Recv
<1>2. len \in 1 .. ReadSize /\ len <= Unread
  BY <1>1
<1>3. AppendPiece(len)
  BY DEF Recv
<1> HIDE DEF len
<1> QED BY <1>1, <1>2, <1>3

LEMMA BufferKept ==
  ASSUME BufferPart, ClientPart, ReceptionNext
  PROVE  BufferPart'
<1>1. Avoided({"refused"})' => Avoided({"refused"})
  BY FaultsGrow
<1>2. CASE ClientSends \/ ClientCloses \/ Accepted \/ EpollIn \/ ParseFindsNone \/ Answered
  <2>1. UNCHANGED rbVars
    BY <1>2 DEF ClientSends, ClientCloses, Accepted, EpollIn, ParseFindsNone, Answered
  <2> QED BY <1>1, <2>1, BufferUnchanged
<1>3. CASE TornDown \/ RecvClosed
  BY <1>1, <1>3, BufferReset DEF TornDown, RecvClosed, ResetSock
<1>4. CASE Recv
  <2>1. PICK len \in 1 .. ReadSize : AppendPiece(len)
    BY <1>4, PieceLength
  <2>2. RBInv' /\ seek' = 0
    <3>1. RBInv'
      BY <2>1, AppendKeepsInv DEF BufferPart
    <3>2. len \in Nat /\ data_len \in Nat /\ seek = 0
      BY SizesAssumption DEF BufferPart, RBInv, RBTypeOK
    <3> QED BY <2>1, <3>1, <3>2, AppendAtFront
  <2>3. lost' => "refused" \in faults'
    BY <1>4 DEF Recv
  <2> QED BY <2>2, <2>3 DEF BufferPart, Avoided
<1>5. CASE ParseRequest
  <2>1. CASE UNCHANGED rbVars
    BY <1>1, <2>1, BufferUnchanged
  <2>2. CASE ~(UNCHANGED rbVars)
    <3>1. /\ buffer' = [buffer EXCEPT ![FirstSpace] = 0, ![SecondSpace] = 0]
          /\ data_len' = data_len - data_len /\ seek' = 0
          /\ lost' = (lost /\ data_len < data_len)
          /\ UNCHANGED <<capacity, arrived>>
      BY <1>5, <2>2 DEF ParseRequest, TakeAll
    <3>2. data_len \in Nat /\ arrived \in Nat
      BY DEF BufferPart, RBInv, RBTypeOK
    <3>3. data_len' = 0
      BY <3>1, <3>2
    <3>4. ~lost' /\ lost' \in BOOLEAN
      <4>1. lost' = (lost /\ data_len < data_len) /\ ~(data_len < data_len)
        BY <3>1, <3>2
      <4>2. lost' = FALSE
        BY <4>1, Zenon
      <4> QED BY <4>2
    <3>5. buffer' \in [0 .. capacity' - 1 -> 0 .. arrived']
      <4>1. buffer \in [0 .. capacity - 1 -> 0 .. arrived] /\ 0 \in 0 .. arrived
        BY <3>2 DEF BufferPart, RBInv, RBTypeOK
      <4>2. [buffer EXCEPT ![FirstSpace] = 0, ![SecondSpace] = 0] \in [0 .. capacity - 1 -> 0 .. arrived]
        BY <4>1
      <4> QED BY <3>1, <4>2
    <3>6. RBTypeOK'
      BY <3>1, <3>3, <3>4, <3>5 DEF BufferPart, RBInv, RBTypeOK
    <3>7. HoldsLastArrived'
      <4>1. 0 .. 0 - 1 = {}
        OBVIOUS
      <4> QED BY <3>3, <4>1 DEF HoldsLastArrived, InPlace
    <3>8. RoomForPiece' /\ WithinCapacity' /\ data_len' <= arrived'
      BY <3>1, <3>2, <3>3, SizesAssumption DEF BufferPart, RBInv, RBTypeOK, RoomForPiece, WithinCapacity
    <3> QED BY <3>1, <3>4, <3>6, <3>7, <3>8 DEF BufferPart, RBInv
  <2> QED BY <2>1, <2>2
<1> QED BY <1>2, <1>3, <1>4, <1>5 DEF ReceptionNext, IoStep

-----------------------------------------------------------------------------
(***************************************************************************)
(* The client.                                                             *)
(***************************************************************************)

LEMMA RequestType ==
  ASSUME NEW length \in Lengths
  PROVE  Request(length) \in Seq(Kinds) /\ Len(Request(length)) = length /\ length \in Nat
<1>1. length \in Nat
  BY RequestLengthsAssumption
<1>2. Request(length) \in [1 .. length -> Kinds]
  BY DEF Request, Kinds
<1> QED BY <1>1, <1>2

LEMMA ClientKept ==
  ASSUME BufferPart, ClientPart, ReceptionNext
  PROVE  ClientPart'
<1>1. arrived \in Nat /\ data_len \in Nat
  BY DEF BufferPart, RBInv, RBTypeOK
<1>2. CASE ClientSends
  <2>1. wire' \in Seq(Kinds) /\ Len(wire') \in Nat
    <3>1. CASE wire' = wire
      BY <3>1 DEF ClientPart
    <3>2. CASE \E length \in Lengths : wire' = wire \o Request(length)
      BY <3>2, RequestType DEF ClientPart
    <3> QED BY <1>2, <3>1, <3>2 DEF ClientSends
  <2>2. sent' \in Nat /\ arrived <= sent' /\ sent' <= Len(wire')
    <3>1. \E upto \in sent + 1 .. Len(wire') : sent' = upto
      BY <1>2 DEF ClientSends
    <3> QED BY <1>1, <2>1, <3>1 DEF ClientPart
  <2>3. UNCHANGED <<arrived, base>>
    BY <1>2 DEF ClientSends, rbVars, historyVars
  <2> QED BY <2>1, <2>2, <2>3 DEF ClientPart
<1>3. CASE Accepted
  <2>1. /\ wire' = SubSeq(wire, 1, arrived) /\ sent' = arrived /\ base' = arrived
        /\ arrived' = arrived
    BY <1>3 DEF Accepted, rbVars
  <2>2. wire \in Seq(Kinds) /\ arrived <= Len(wire)
    BY <1>1 DEF ClientPart
  <2>3. wire' \in Seq(Kinds) /\ Len(wire') = arrived
    BY <1>1, <2>1, <2>2
  <2> QED BY <1>1, <2>1, <2>3 DEF ClientPart
<1>4. CASE Recv
  <2>1. PICK len \in 1 .. ReadSize : AppendPiece(len) /\ len <= sent - arrived
    BY <1>4, PieceLength
  <2>2. len \in Nat /\ arrived' = arrived + len /\ UNCHANGED <<wire, sent, base>>
    BY <1>4, <2>1, SizesAssumption DEF AppendPiece, Recv, clientVars
  <2> QED BY <1>1, <2>1, <2>2 DEF ClientPart
<1>5. CASE ClientCloses \/ TornDown \/ EpollIn \/ RecvClosed \/ ParseFindsNone \/ ParseRequest \/ Answered
  <2>1. UNCHANGED <<wire, sent, base, arrived>>
    BY <1>5 DEF ClientCloses, TornDown, EpollIn, RecvClosed, ParseFindsNone, ParseRequest,
                Answered, ResetSock, Reset, rbVars, clientVars, historyVars
  <2> QED BY <2>1 DEF ClientPart
<1> QED BY <1>2, <1>3, <1>4, <1>5 DEF ReceptionNext, IoStep

-----------------------------------------------------------------------------
(***************************************************************************)
(* Flags and phases.                                                       *)
(***************************************************************************)

LEMMA FlagsKept ==
  ASSUME FlagPart, ReceptionNext
  PROVE  FlagPart'
<1>1. receiving' \in BOOLEAN
  <2>1. CASE EpollIn
    <3>1. receiving' = Readable
      BY <2>1 DEF EpollIn
    <3>2. Readable \in BOOLEAN
      BY DEF Readable
    <3> QED BY <3>1, <3>2
  <2>2. CASE ~EpollIn
    BY <2>2 DEF FlagPart, ReceptionNext, ClientSends, ClientCloses, Accepted, TornDown, IoStep,
                Recv, RecvClosed, ParseFindsNone, ParseRequest, Answered
  <2> QED BY <2>1, <2>2
<1>2. fin' \in BOOLEAN
  BY DEF FlagPart, ReceptionNext, ClientSends, ClientCloses, Accepted, TornDown, IoStep, EpollIn,
         Recv, RecvClosed, ParseFindsNone, ParseRequest, Answered
<1>3. ready' \in BOOLEAN
  <2>1. CASE Answered
    <3>1. ready' = Readable
      BY <2>1 DEF Answered, ModRead
    <3>2. Readable \in BOOLEAN
      BY DEF Readable
    <3> QED BY <3>1, <3>2
  <2>2. CASE ClientSends \/ ClientCloses
    <3>1. ready' = (ready \/ phase = "reading")
      BY <2>2 DEF ClientSends, ClientCloses, Arrives
    <3> QED BY <3>1
  <2>3. CASE ParseRequest
    BY <2>3 DEF FlagPart, ParseRequest
  <2>4. CASE Accepted \/ TornDown \/ EpollIn \/ Recv \/ RecvClosed \/ ParseFindsNone
    BY <2>4 DEF FlagPart, Accepted, TornDown, EpollIn, Recv, RecvClosed, ParseFindsNone
  <2> QED BY <2>1, <2>2, <2>3, <2>4 DEF ReceptionNext, IoStep
<1>4. clean' \in BOOLEAN
  <2>1. CASE ParseRequest
    <3>1. clean' = clean \/ clean' = (clean /\ OneRequest)
      BY <2>1 DEF ParseRequest
    <3>2. (clean /\ OneRequest) \in BOOLEAN
      OBVIOUS
    <3>3. clean \in BOOLEAN
      BY DEF FlagPart
    <3> QED BY <3>1, <3>2, <3>3
  <2>2. CASE ~ParseRequest
    BY <2>2 DEF FlagPart, ReceptionNext, ClientSends, ClientCloses, Accepted, TornDown, IoStep,
                EpollIn, Recv, RecvClosed, ParseFindsNone, Answered, historyVars
  <2> QED BY <2>1, <2>2
<1>5. undefined' \in BOOLEAN
  <2>1. CASE ParseFindsNone
    <3>1. undefined' = (\A place \in Places : buffer[place] # 0)
      BY <2>1 DEF ParseFindsNone
    <3> QED BY <3>1
  <2>2. CASE ParseRequest
    BY <2>2 DEF FlagPart, ParseRequest
  <2>3. CASE ClientSends \/ ClientCloses \/ Accepted \/ TornDown \/ EpollIn \/ Recv \/ RecvClosed \/ Answered
    BY <2>3 DEF FlagPart, ClientSends, ClientCloses, Accepted, TornDown, EpollIn, Recv,
                RecvClosed, Answered, historyVars
  <2> QED BY <2>1, <2>2, <2>3 DEF ReceptionNext, IoStep
<1> QED BY <1>1, <1>2, <1>3, <1>4, <1>5 DEF FlagPart

LEMMA PhaseKept ==
  ASSUME BufferPart, PhasePart, ReceptionNext
  PROVE  PhasePart'
<1>1. data_len \in Nat
  BY DEF BufferPart, RBInv, RBTypeOK
<1>2. CASE ClientSends \/ ClientCloses \/ ParseFindsNone \/ EpollIn
  <2>1. UNCHANGED <<phase, data_len, faults>>
    BY <1>2 DEF ClientSends, ClientCloses, ParseFindsNone, EpollIn, rbVars, historyVars
  <2>2. UNCHANGED receiving \/ receiving' = FALSE \/ phase = "reading"
    BY <1>2 DEF ClientSends, ClientCloses, ParseFindsNone, EpollIn
  <2> QED BY <2>1, <2>2 DEF PhasePart
<1>3. CASE Accepted \/ Answered
  <2>1. phase' = "reading" /\ UNCHANGED faults
    BY <1>3 DEF Accepted, Answered, historyVars
  <2> QED BY <2>1 DEF PhasePart
<1>4. CASE TornDown \/ RecvClosed
  <2>1. phase' = "free" /\ data_len' = 0 /\ ~receiving' /\ UNCHANGED faults
    BY <1>4 DEF TornDown, RecvClosed, ResetSock, Reset, historyVars
  <2> QED BY <2>1 DEF PhasePart
<1>5. CASE Recv
  <2>1. receiving /\ UNCHANGED <<phase, receiving>>
    BY <1>5 DEF Recv
  <2>2. faults' \subseteq faults \cup {"refused", "brimful"}
    BY <1>5 DEF Recv
  <2> QED BY <2>1, <2>2 DEF PhasePart
<1>6. CASE ParseRequest
  <2>1. receiving /\ ~receiving' /\ phase = "reading"
    BY <1>6 DEF ParseRequest, PhasePart
  <2>2. faults' \subseteq faults \cup {"stale_end", "pipelined"}
    BY <1>6 DEF ParseRequest
  <2>3. phase' = phase \/ (phase' = "answering" /\ data_len' = data_len - data_len)
    BY <1>6 DEF ParseRequest, TakeAll
  <2> QED BY <1>1, <2>1, <2>2, <2>3 DEF PhasePart
<1> QED BY <1>2, <1>3, <1>4, <1>5, <1>6 DEF ReceptionNext, IoStep

\* The event: whatever makes the socket readable while it is registered to read
\* makes an event, and the I/O thread reads on until it is not.
LEMMA DueKept ==
  ASSUME BufferPart, ClientPart, PhasePart, ReadEventIsDue, ReceptionNext
  PROVE  ReadEventIsDue'
<1>1. arrived \in Nat /\ sent \in Nat
  BY DEF BufferPart, RBInv, RBTypeOK, ClientPart
<1>2. CASE ClientSends \/ ClientCloses
  <2>1. ready' = (ready \/ phase = "reading") /\ phase' = phase
    BY <1>2 DEF ClientSends, ClientCloses, Arrives
  <2> QED BY <2>1 DEF ReadEventIsDue
<1>3. CASE Accepted
  <2>1. sent' = arrived /\ arrived' = arrived /\ fin' = FALSE
    BY <1>3 DEF Accepted, rbVars
  <2>2. ~Readable'
    BY <1>1, <2>1 DEF Readable, Unread
  <2> QED BY <2>2 DEF ReadEventIsDue
<1>4. CASE TornDown \/ RecvClosed
  BY <1>4 DEF TornDown, RecvClosed, ReadEventIsDue
<1>5. CASE EpollIn
  <2>1. receiving' = Readable /\ UNCHANGED <<arrived, sent, fin>>
    BY <1>5 DEF EpollIn, rbVars, clientVars
  <2>2. ~receiving' => ~Readable'
    BY <2>1 DEF Readable, Unread
  <2> QED BY <2>2 DEF ReadEventIsDue
<1>6. CASE Recv
  <2>1. receiving'
    BY <1>6 DEF Recv
  <2> QED BY <2>1 DEF ReadEventIsDue
<1>7. CASE ParseFindsNone \/ ParseRequest
  <2>1. Unread = 0 /\ ~fin /\ UNCHANGED <<arrived, sent, fin>>
    BY <1>7 DEF ParseFindsNone, ParseRequest, rbVars, clientVars
  <2>2. ~Readable'
    BY <2>1 DEF Readable, Unread
  <2> QED BY <2>2 DEF ReadEventIsDue
<1>8. CASE Answered
  <2>1. ready' = Readable /\ UNCHANGED <<arrived, sent, fin>>
    BY <1>8 DEF Answered, ModRead, rbVars, clientVars
  <2>2. Readable' <=> Readable
    BY <2>1 DEF Readable, Unread
  <2> QED BY <2>1, <2>2 DEF ReadEventIsDue
<1> QED BY <1>2, <1>3, <1>4, <1>5, <1>6, <1>7, <1>8 DEF ReceptionNext, IoStep

-----------------------------------------------------------------------------
(***************************************************************************)
(* What is parsed.                                                         *)
(***************************************************************************)

LEMMA LeastExists ==
  ASSUME NEW S \in SUBSET Nat, S # {}
  PROVE  \E m \in S : \A n \in S : m <= n
<1>1. \E x \in S : \A y \in S : ~ (<<y, x>> \in OpToRel(<, Nat))
  BY NatLessThanWellFounded, WFMin, Zenon
<1>2. PICK x \in S : \A y \in S : ~ (<<y, x>> \in OpToRel(<, Nat))
  BY <1>1
<1>3. ASSUME NEW y \in S PROVE x <= y
  <2>1. <<y, x>> \in Nat \X Nat
    OBVIOUS
  <2>2. ~ (y < x)
    BY <1>2, <2>1 DEF OpToRel
  <2> QED BY <2>2
<1> QED BY <1>3

LEMMA FirstIsLeast ==
  ASSUME NEW S \in SUBSET Nat, S # {}
  PROVE  First(S) \in S /\ \A n \in S : First(S) <= n
<1>1. PICK m \in S : \A n \in S : m <= n
  BY LeastExists
<1> QED BY <1>1 DEF First

\* When the first end that strstr finds is the last byte of the contents, they
\* are one request.
LEMMA EndsOneRequest ==
  ASSUME BufferPart, ClientPart, AtBoundary, ~lost, Ends # {},
         ~(First(Ends) >= data_len), ~(First(Ends) < data_len - 1)
  PROVE  OneRequest /\ wire[arrived] = "end"
<1> DEFINE first == arrived - data_len + 1
           m     == First(Ends)
<1>1. /\ arrived \in Nat /\ data_len \in Nat /\ capacity \in Nat /\ seek = 0
      /\ data_len <= capacity /\ data_len <= arrived /\ InPlace
  BY DEF BufferPart, RBInv, RBTypeOK, WithinCapacity, HoldsLastArrived
<1>2. Ends \in SUBSET Nat
  BY <1>1 DEF Ends, Places
<1>3. m \in Ends /\ m \in Nat /\ \A n \in Ends : m <= n
  <2> HIDE DEF m
  <2>1. m \in Ends /\ \A n \in Ends : m <= n
    BY <1>2, FirstIsLeast DEF m
  <2> QED BY <1>2, <2>1
<1>4. m = data_len - 1 /\ data_len > 0
  <2>1. ~(m >= data_len) /\ ~(m < data_len - 1)
    OBVIOUS
  <2> HIDE DEF m
  <2> QED BY <1>1, <1>3, <2>1
<1> HIDE DEF m
<1>5. \A i \in 0 .. data_len - 1 : buffer[i] = first + i
  <2> SUFFICES ASSUME NEW i \in 0 .. data_len - 1 PROVE buffer[i] = first + i
    OBVIOUS
  <2>1. buffer[0 + i] = arrived - data_len + 1 + i
    BY <1>1 DEF InPlace
  <2> QED BY <1>1, <2>1
<1>6. wire[arrived] = "end"
  <2>1. buffer[m] = arrived
    BY <1>1, <1>4, <1>5
  <2>2. wire[buffer[m]] = "end"
    BY <1>3 DEF Ends, Is
  <2> QED BY <2>1, <2>2
<1>7. first = base + 1 \/ (first > base /\ wire[first - 1] = "end")
  <2>1. first - 1 = arrived - data_len /\ base \in Nat
    BY <1>1 DEF ClientPart
  <2> QED BY <1>1, <2>1 DEF AtBoundary
<1>8. ASSUME NEW n \in first .. arrived, wire[n] = "end" PROVE n = arrived
  <2> DEFINE place == n - first
  <2>1. place \in 0 .. data_len - 1 /\ first + place = n /\ place \in Places
    BY <1>1 DEF Places
  <2>2. buffer[place] = n /\ n # 0
    <3>1. buffer[place] = first + place
      BY <1>5, <2>1
    <3> QED BY <1>1, <2>1, <3>1
  <2>3. Is(place, "end")
    BY <1>8, <2>2 DEF Is
  <2>4. InString(place)
    <3> SUFFICES ASSUME NEW before \in 0 .. place PROVE buffer[before] # 0
      BY DEF InString
    <3>1. before \in 0 .. data_len - 1
      BY <1>1, <2>1
    <3>2. buffer[before] = first + before
      BY <1>5, <3>1
    <3> QED BY <1>1, <3>1, <3>2
  <2>5. place \in Ends
    BY <2>1, <2>3, <2>4 DEF Ends
  <2>6. m <= place
    BY <1>3, <2>5
  <2> QED BY <1>1, <1>4, <2>1, <2>6
<1>9. {n \in first .. arrived : wire[n] = "end"} = {arrived}
  <2>1. arrived \in first .. arrived
    BY <1>1, <1>4
  <2> QED BY <1>6, <1>8, <2>1
<1> HIDE DEF first
<1>10. OneRequest
  BY <1>1, <1>7, <1>9 DEF OneRequest, first
<1> QED BY <1>6, <1>10

LEMMA RequestKept ==
  ASSUME BufferPart, ClientPart, PhasePart, RequestPart, ReceptionNext, BufferPart'
  PROVE  RequestPart'
<1>1. Avoided(Exceptions)' => Avoided(Exceptions)
  BY FaultsGrow
<1>2. arrived \in Nat /\ data_len \in Nat /\ data_len <= arrived
  BY DEF BufferPart, RBInv, RBTypeOK
<1>3. Avoided(Exceptions) => clean
  BY DEF RequestPart, ParsesOneRequest, Exceptions
<1>4. CASE ClientSends
  <2>1. UNCHANGED <<phase, arrived, data_len, base, clean>>
    BY <1>4 DEF ClientSends, rbVars, historyVars
  <2>2. \A k \in 1 .. arrived : wire'[k] = wire[k]
    <3>1. wire \in Seq(Kinds) /\ arrived <= Len(wire)
      BY <1>2 DEF ClientPart
    <3>2. CASE wire' = wire
      BY <3>2
    <3>3. CASE \E length \in Lengths : wire' = wire \o Request(length)
      <4>1. PICK length \in Lengths : wire' = wire \o Request(length)
        BY <3>3
      <4>2. Request(length) \in Seq(Kinds)
        BY RequestType
      <4> QED BY <1>2, <3>1, <4>1, <4>2
    <3> QED BY <1>4, <3>2, <3>3 DEF ClientSends
  <2>3. AtBoundary => AtBoundary'
    <3>1. base \in Nat
      BY DEF ClientPart
    <3> QED BY <1>2, <2>1, <2>2, <3>1 DEF AtBoundary
  <2> QED BY <1>1, <1>3, <2>1, <2>3 DEF RequestPart, ParsesOneRequest, Exceptions
<1>5. CASE ClientCloses \/ EpollIn \/ ParseFindsNone \/ Answered
  <2>1. UNCHANGED <<arrived, data_len, base, wire, clean>>
    BY <1>5 DEF ClientCloses, EpollIn, ParseFindsNone, Answered, rbVars, clientVars, historyVars
  <2>2. phase # "free"
    BY <1>5 DEF ClientCloses, EpollIn, ParseFindsNone, Answered, PhasePart
  <2>3. AtBoundary => AtBoundary'
    BY <2>1 DEF AtBoundary
  <2> QED BY <1>1, <1>3, <2>1, <2>2, <2>3 DEF RequestPart, ParsesOneRequest, Exceptions
<1>6. CASE Accepted
  <2>1. data_len = 0 /\ base' = arrived /\ UNCHANGED <<arrived, data_len, clean>>
    BY <1>6 DEF Accepted, PhasePart, rbVars
  <2>2. AtBoundary'
    BY <1>2, <2>1 DEF AtBoundary
  <2> QED BY <1>1, <1>3, <2>1, <2>2 DEF RequestPart, ParsesOneRequest, Exceptions
<1>7. CASE TornDown \/ RecvClosed
  <2>1. phase' = "free" /\ UNCHANGED clean
    BY <1>7 DEF TornDown, RecvClosed, historyVars
  <2> QED BY <1>1, <1>3, <2>1 DEF RequestPart, ParsesOneRequest, Exceptions
<1>8. CASE Recv
  <2>1. PICK len \in 1 .. ReadSize : AppendPiece(len)
    BY <1>8, PieceLength
  <2>2. len \in Nat /\ seek = 0
    BY SizesAssumption DEF BufferPart
  <2>3. arrived' = arrived + len /\ (lost' = TRUE \/ data_len' = data_len + len)
    BY <1>2, <2>1, <2>2, AppendAtFront
  <2>4. UNCHANGED <<wire, base, clean>> /\ phase # "free"
    BY <1>8 DEF Recv, clientVars, PhasePart
  <2>5. Avoided(Exceptions)' => lost' # TRUE
    BY DEF BufferPart, Avoided, Exceptions
  <2>6. ASSUME Avoided(Exceptions)', AtBoundary PROVE AtBoundary'
    <3>1. arrived' - data_len' = arrived - data_len
      <4>1. data_len' = data_len + len
        BY <2>3, <2>5, <2>6, Zenon
      <4> QED BY <1>2, <2>2, <2>3, <4>1
    <3> QED BY <2>4, <2>6, <3>1 DEF AtBoundary
  <2> QED BY <1>1, <1>3, <2>4, <2>6 DEF RequestPart, ParsesOneRequest, Exceptions
<1>9. CASE ParseRequest
  <2>1. CASE UNCHANGED <<rbVars, phase, clean>>
    <3>1. UNCHANGED <<arrived, data_len, base, wire, clean, phase>>
      BY <1>9, <2>1 DEF ParseRequest, rbVars, clientVars
    <3>2. AtBoundary => AtBoundary'
      BY <3>1 DEF AtBoundary
    <3> QED BY <1>1, <1>3, <3>1, <3>2 DEF RequestPart, ParsesOneRequest, Exceptions
  <2>2. CASE ~(UNCHANGED <<rbVars, phase, clean>>)
    <3>1. /\ data_len' = data_len - data_len /\ phase' = "answering"
          /\ UNCHANGED <<arrived, base, wire>> /\ phase = "reading" /\ Ends # {}
      BY <1>9, <2>2 DEF ParseRequest, TakeAll, clientVars, PhasePart
    <3>2. clean' = (clean /\ OneRequest)
      BY <1>9, <2>2 DEF ParseRequest
    <3>3. SUFFICES ASSUME Avoided(Exceptions)' PROVE clean' /\ AtBoundary'
      BY DEF RequestPart, ParsesOneRequest, Exceptions
    <3>4. "stale_end" \notin faults' /\ "pipelined" \notin faults'
      BY <3>3 DEF Avoided, Exceptions
    <3>5. ~(First(Ends) >= data_len) /\ ~(First(Ends) < data_len - 1)
      BY <1>9, <3>4 DEF ParseRequest
    <3>6. AtBoundary /\ ~lost
      BY <1>1, <3>1, <3>3 DEF RequestPart, BufferPart, Avoided, Exceptions
    <3>7. OneRequest /\ wire[arrived] = "end"
      BY <3>1, <3>5, <3>6, EndsOneRequest
    <3>8. clean'
      BY <1>1, <1>3, <3>2, <3>3, <3>7
    <3>9. AtBoundary'
      <4>1. arrived' - data_len' = arrived /\ base <= arrived
        BY <1>2, <3>1 DEF ClientPart
      <4> QED BY <3>1, <3>7, <4>1 DEF AtBoundary
    <3> QED BY <3>8, <3>9
  <2> QED BY <2>1, <2>2
<1> QED BY <1>4, <1>5, <1>6, <1>7, <1>8, <1>9 DEF ReceptionNext, IoStep

-----------------------------------------------------------------------------
(***************************************************************************)
(* Why the parser stays within the buffer.                                 *)
(***************************************************************************)

LEMMA RequestShape ==
  ASSUME NEW length \in Lengths
  PROVE  /\ length \in Nat /\ length >= 5
         /\ Request(length)[1] = "word" /\ Request(length)[2] = "space"
         /\ Request(length)[3] = "word" /\ Request(length)[4] = "space"
         /\ Request(length)[length] = "end"
         /\ \A i \in 1 .. length : Request(length)[i] = "end" => i = length
<1>1. length \in Nat /\ length >= 5
  BY RequestLengthsAssumption
<1> DEFINE f == [i \in 1 .. length |->
                   IF i = length THEN "end" ELSE IF i % 2 = 0 THEN "space" ELSE "word"]
<1>2. \A i \in 1 .. length :
        f[i] = IF i = length THEN "end" ELSE IF i % 2 = 0 THEN "space" ELSE "word"
  OBVIOUS
<1>3. f[1] = "word" /\ f[2] = "space" /\ f[3] = "word" /\ f[4] = "space" /\ f[length] = "end"
  BY <1>1, <1>2
<1>4. \A i \in 1 .. length : f[i] = "end" => i = length
  BY <1>2
<1> HIDE DEF f
<1>5. Request(length) = f
  BY DEF Request, f
<1> QED BY <1>1, <1>3, <1>4, <1>5

LEMMA WireKept ==
  ASSUME BufferPart, ClientPart, WirePart, ReceptionNext
  PROVE  WirePart'
<1>1. arrived \in Nat /\ base \in Nat /\ base <= arrived /\ arrived <= Len(wire)
  BY DEF BufferPart, RBInv, RBTypeOK, ClientPart
<1>2. wire \in Seq(Kinds) /\ Len(wire) \in Nat
  BY DEF ClientPart
<1>3. CASE UNCHANGED <<wire, base>>
  BY <1>3 DEF WirePart, Boundary
<1>4. CASE ClientSends /\ wire' # wire
  <2>1. PICK length \in Lengths : wire' = wire \o Request(length)
    BY <1>4 DEF ClientSends
  <2>2. base' = base
    BY <1>4 DEF ClientSends, historyVars
  <2> DEFINE L == Len(wire)
             r == Request(length)
  <2>3. /\ length \in Nat /\ length >= 5
        /\ r[1] = "word" /\ r[2] = "space" /\ r[3] = "word" /\ r[4] = "space"
        /\ r[length] = "end"
        /\ \A i \in 1 .. length : r[i] = "end" => i = length
    BY RequestShape
  <2>4. r \in Seq(Kinds) /\ Len(r) = length
    BY RequestType
  <2> HIDE DEF r
  <2>5. /\ Len(wire') = L + length
        /\ \A k \in 1 .. L : wire'[k] = wire[k]
        /\ \A i \in 1 .. length : wire'[L + i] = r[i]
    <3>1. wire' = wire \o r
      BY <2>1 DEF r
    <3>2. /\ Len(wire \o r) = Len(wire) + Len(r)
          /\ \A k \in 1 .. Len(wire) + Len(r) :
               (wire \o r)[k] = IF k <= Len(wire) THEN wire[k] ELSE r[k - Len(wire)]
      BY <1>2, <2>4, ConcatProperties
    <3>3. \A k \in 1 .. L : (wire \o r)[k] = wire[k]
      BY <1>2, <2>3, <2>4, <3>2
    <3>4. \A i \in 1 .. length : (wire \o r)[L + i] = r[i]
      <4> SUFFICES ASSUME NEW i \in 1 .. length PROVE (wire \o r)[L + i] = r[i]
        OBVIOUS
      <4>1. L + i \in 1 .. Len(wire) + Len(r) /\ ~(L + i <= L) /\ L + i - L = i
        BY <1>2, <2>3, <2>4
      <4> QED BY <3>2, <4>1
    <3> QED BY <2>4, <3>1, <3>2, <3>3, <3>4
  <2>6. L \in Nat /\ base <= L
    BY <1>1, <1>2
  <2> HIDE DEF L
  <2>7. Boundary(Len(wire))'
    <3>1. wire'[L + length] = "end" /\ L + length > base
      BY <2>3, <2>5, <2>6, <1>1
    <3> QED BY <2>2, <2>5, <3>1 DEF Boundary
  <2>8. PICK w, m : w = wire' /\ m = Len(wire')
    OBVIOUS
  <2>9. /\ m = L + length
        /\ \A k \in 1 .. L : w[k] = wire[k]
        /\ \A i \in 1 .. length : w[L + i] = r[i]
    BY <2>5, <2>8
  <2>10. ASSUME NEW n \in base .. m - 1, n = base \/ (n > base /\ w[n] = "end")
        PROVE  /\ w[n + 1] = "word" /\ w[n + 2] = "space"
               /\ w[n + 3] = "word" /\ w[n + 4] = "space"
               /\ n + 5 <= m
    <3>1. n \in Nat
      BY <1>1, <2>3, <2>6, <2>9
    <3>2. CASE n < L
      <4>1. Boundary(n)
        BY <1>1, <2>9, <2>6, <2>10, <3>1, <3>2 DEF Boundary
      <4>2. n \in base .. L - 1
        BY <1>1, <2>6, <2>10, <3>1, <3>2
      <4>3. /\ wire[n + 1] = "word" /\ wire[n + 2] = "space"
            /\ wire[n + 3] = "word" /\ wire[n + 4] = "space"
            /\ n + 5 <= L
        BY <4>1, <4>2 DEF WirePart, L
      <4>4. {n + 1, n + 2, n + 3, n + 4} \subseteq 1 .. L
        BY <2>6, <3>1, <4>3
      <4>5. /\ w[n + 1] = wire[n + 1] /\ w[n + 2] = wire[n + 2]
            /\ w[n + 3] = wire[n + 3] /\ w[n + 4] = wire[n + 4]
        BY <2>9, <4>4
      <4> QED BY <2>3, <2>6, <2>9, <3>1, <4>3, <4>5
    <3>3. CASE n = L
      <4>1. {1, 2, 3, 4} \subseteq 1 .. length
        BY <2>3
      <4> QED BY <2>3, <2>9, <2>6, <3>3, <4>1
    <3>4. CASE n > L
      <4> DEFINE i == n - L
      <4>1. i \in 1 .. length /\ n = L + i /\ i # length
        BY <2>3, <2>6, <2>9, <2>10, <3>1, <3>4
      <4>2. n > base
        BY <1>1, <2>6, <3>1, <3>4
      <4>3. w[n] = "end"
        BY <1>1, <2>10, <3>1, <4>2
      <4>4. r[i] = "end"
        BY <2>9, <4>1, <4>3
      <4> QED BY <2>3, <4>1, <4>4
    <3> QED BY <2>6, <3>1, <3>2, <3>3, <3>4
  <2> QED BY <2>2, <2>7, <2>8, <2>10 DEF WirePart, Boundary
<1>5. CASE Accepted
  <2>1. wire' = SubSeq(wire, 1, arrived) /\ base' = arrived
    BY <1>5 DEF Accepted
  <2>2. Len(wire') = arrived
    BY <1>1, <1>2, <2>1
  <2>3. base' .. Len(wire') - 1 = {}
    BY <1>1, <2>1, <2>2
  <2> QED BY <2>1, <2>2, <2>3 DEF WirePart, Boundary
<1>6. ~Accepted => UNCHANGED base
  BY DEF ReceptionNext, ClientSends, ClientCloses, TornDown, IoStep, EpollIn, Recv, RecvClosed,
         ParseFindsNone, ParseRequest, Answered, historyVars
<1>7. ~Accepted /\ ~ClientSends => UNCHANGED wire
  BY DEF ReceptionNext, ClientCloses, TornDown, IoStep, EpollIn, Recv, RecvClosed,
         ParseFindsNone, ParseRequest, Answered, clientVars
<1> QED BY <1>3, <1>4, <1>5, <1>6, <1>7

\* A piece that does not fill the buffer leaves its last byte as it was; a new
\* buffer has a zero byte there.
LEMMA ZeroKept ==
  ASSUME BufferPart, ClientPart, ZeroPart, ReceptionNext, BufferPart'
  PROVE  ZeroPart'
<1>1. Avoided({"brimful"})' => Avoided({"brimful"})
  BY FaultsGrow
<1>2. /\ arrived \in Nat /\ data_len \in Nat /\ seek = 0
      /\ capacity \in Nat /\ capacity >= 1 /\ data_len <= capacity
      /\ buffer \in [0 .. capacity - 1 -> 0 .. arrived]
  BY SizesAssumption DEF BufferPart, RBInv, RBTypeOK, RoomForPiece, WithinCapacity
<1>3. CASE UNCHANGED <<buffer, capacity>>
  BY <1>1, <1>3 DEF ZeroPart
<1>4. CASE Recv
  <2>1. SUFFICES ASSUME Avoided({"brimful"})' PROVE buffer'[capacity' - 1] = 0
    BY DEF ZeroPart
  <2>2. PICK len \in 1 .. ReadSize : AppendPiece(len)
    BY <1>4, PieceLength
  <2>3. len \in Nat /\ len >= 1
    BY SizesAssumption
  <2>4. seek' + data_len' # capacity'
    BY <1>4, <2>1 DEF Recv, Avoided
  <2>5. seek' = 0 /\ data_len' \in Nat /\ capacity' \in Nat /\ data_len' <= capacity'
    <3>1. seek' = 0 /\ RBTypeOK' /\ WithinCapacity'
      BY DEF BufferPart, RBInv
    <3>2. data_len' \in Nat /\ capacity' \in Nat
      BY <3>1 DEF RBTypeOK
    <3>3. seek' + data_len' <= capacity'
      BY <3>1 DEF WithinCapacity
    <3>4. \A a, b \in Nat : 0 + a <= b => a <= b
      OBVIOUS
    <3> QED BY <3>1, <3>2, <3>3, <3>4
  <2>6. data_len' < capacity'
    <3>1. \A a, b \in Nat : a <= b /\ 0 + a # b => a < b
      OBVIOUS
    <3> QED BY <2>4, <2>5, <3>1
  <2>7. buffer[capacity - 1] = 0
    BY <1>1, <2>1 DEF ZeroPart
  <2>8. CASE AppendToEmpty(len)
    <3>1. buffer' = Memcpy(buffer, 0, len) /\ data_len' = len /\ capacity' = capacity
      BY <2>8 DEF AppendToEmpty
    <3>2. capacity - 1 \in DOMAIN buffer /\ ~(capacity - 1 < 0 + len)
      BY <1>2, <2>3, <2>6, <3>1
    <3> QED BY <2>7, <3>1, <3>2 DEF Memcpy
  <2>9. CASE AppendBehind(len)
    <3>1. /\ buffer' = Memcpy(buffer, seek + data_len, len) /\ data_len' = data_len + len
          /\ capacity' = capacity
      BY <2>9 DEF AppendBehind
    <3>2. capacity - 1 \in DOMAIN buffer /\ ~(capacity - 1 < seek + data_len + len)
      BY <1>2, <2>3, <2>6, <3>1
    <3> QED BY <2>7, <3>1, <3>2 DEF Memcpy
  <2>10. CASE AppendAfterMove(len)
    BY <1>2, <2>3, <2>10 DEF AppendAfterMove, Remain, Behind
  <2>11. CASE AppendToLarger(len)
    <3>1. CASE UNCHANGED <<buffer, capacity>>
      BY <2>7, <3>1
    <3>2. CASE ~(UNCHANGED <<buffer, capacity>>)
      <4>1. /\ buffer' = Memcpy(Memmove(Calloc(Double(capacity))), data_len, len)
            /\ capacity' = Double(capacity) /\ data_len' = data_len + len
        BY <2>11, <3>2 DEF AppendToLarger
      <4> DEFINE c == Double(capacity)
      <4>2. c \in Nat /\ c - 1 \in 0 .. c - 1 /\ ~(c - 1 < data_len + len)
            /\ ~(c - 1 < data_len)
        BY <1>2, <2>3, <2>6, <4>1 DEF Double
      <4>3. Calloc(c)[c - 1] = 0 /\ DOMAIN Calloc(c) = 0 .. c - 1
        BY <4>2 DEF Calloc
      <4>4. Memmove(Calloc(c))[c - 1] = 0 /\ DOMAIN Memmove(Calloc(c)) = 0 .. c - 1
        BY <4>2, <4>3 DEF Memmove
      <4>5. Memcpy(Memmove(Calloc(c)), data_len, len)[c - 1] = 0
        BY <4>2, <4>4 DEF Memcpy
      <4> QED BY <4>1, <4>5
    <3> QED BY <3>1, <3>2
  <2> QED BY <2>2, <2>8, <2>9, <2>10, <2>11 DEF AppendPiece
<1>5. CASE ParseRequest /\ ~(UNCHANGED rbVars)
  <2>1. /\ buffer' = [buffer EXCEPT ![FirstSpace] = 0, ![SecondSpace] = 0]
        /\ capacity' = capacity
    BY <1>5 DEF ParseRequest
  <2>2. capacity - 1 \in 0 .. capacity - 1
    BY <1>2
  <2>3. buffer[capacity - 1] = 0 => buffer'[capacity - 1] = 0
    BY <1>2, <2>1, <2>2
  <2> QED BY <1>1, <2>1, <2>3 DEF ZeroPart
<1>6. CASE ClientSends \/ ClientCloses \/ Accepted \/ TornDown \/ EpollIn \/ RecvClosed
           \/ ParseFindsNone \/ Answered
  BY <1>3, <1>6 DEF ClientSends, ClientCloses, Accepted, TornDown, EpollIn, RecvClosed,
                    ParseFindsNone, Answered, ResetSock, Reset, rbVars
<1> QED BY <1>3, <1>4, <1>5, <1>6 DEF ReceptionNext, IoStep, rbVars

\* A whole request at the front of the buffer has two spaces before its end.
LEMMA TwoSpaces ==
  ASSUME BufferPart, ClientPart, WirePart, AtBoundary, ~lost, Ends # {},
         ~(First(Ends) >= data_len), ~(First(Ends) < data_len - 1)
  PROVE  {1, 3} \subseteq Spaces
<1> DEFINE n == arrived - data_len
<1>1. /\ arrived \in Nat /\ data_len \in Nat /\ capacity \in Nat /\ seek = 0
      /\ data_len <= capacity /\ data_len <= arrived /\ InPlace
  BY DEF BufferPart, RBInv, RBTypeOK, WithinCapacity, HoldsLastArrived
<1>2. wire[arrived] = "end" /\ base \in Nat /\ arrived <= Len(wire) /\ Len(wire) \in Nat
  <2>1. wire[arrived] = "end"
    BY EndsOneRequest
  <2>2. wire \in Seq(Kinds) /\ base \in Nat /\ sent \in Nat /\ arrived <= sent /\ sent <= Len(wire)
    BY DEF ClientPart
  <2>3. Len(wire) \in Nat
    BY <2>2
  <2> QED BY <1>1, <2>1, <2>2, <2>3
<1>3. data_len > 0
  <2>1. Ends \in SUBSET Nat
    BY <1>1 DEF Ends, Places
  <2>2. First(Ends) \in Nat
    BY <2>1, FirstIsLeast
  <2>3. PICK m \in Nat : m = First(Ends)
    BY <2>2
  <2> QED BY <1>1, <2>3
<1>4. Boundary(n) /\ n \in base .. Len(wire) - 1 /\ n \in Nat
  BY <1>1, <1>2, <1>3 DEF AtBoundary, Boundary
<1>5. /\ wire[n + 1] = "word" /\ wire[n + 2] = "space"
      /\ wire[n + 3] = "word" /\ wire[n + 4] = "space"
  BY <1>4 DEF WirePart
<1>6. arrived \notin {n + 1, n + 2, n + 3, n + 4}
  BY <1>2, <1>5
<1>7. data_len >= 5
  BY <1>1, <1>3, <1>6
<1>8. buffer[1] = n + 2 /\ buffer[3] = n + 4
  <2>1. 1 \in 0 .. data_len - 1 /\ 3 \in 0 .. data_len - 1
    BY <1>1, <1>7
  <2>2. buffer[0 + 1] = arrived - data_len + 1 + 1 /\ buffer[0 + 3] = arrived - data_len + 1 + 3
    BY <1>1, <2>1 DEF InPlace
  <2> QED BY <1>1, <2>2
<1>9. 1 \in Places /\ 3 \in Places
  BY <1>1, <1>7 DEF Places
<1>10. Is(1, "space") /\ Is(3, "space")
  <2>1. buffer[1] # 0 /\ buffer[3] # 0
    BY <1>4, <1>8
  <2>2. wire[buffer[1]] = "space" /\ wire[buffer[3]] = "space"
    BY <1>5, <1>8
  <2> QED BY <2>1, <2>2 DEF Is
<1> QED BY <1>9, <1>10 DEF Spaces

LEMMA WithinKept ==
  ASSUME BufferPart, ClientPart, PhasePart, RequestPart, WirePart, ZeroPart,
         StaysWithinBuffer, ReceptionNext
  PROVE  StaysWithinBuffer'
<1> DEFINE All == {"stale_end", "pipelined", "refused", "brimful"}
<1>1. SUFFICES ASSUME Avoided(All)' PROVE ~undefined'
  BY DEF StaysWithinBuffer
<1>2. Avoided(All)
  BY <1>1, FaultsGrow
<1>3. ~undefined
  BY DEF ReceptionNext
<1>4. CASE ParseFindsNone
  <2>1. undefined' = (\A place \in Places : buffer[place] # 0)
    BY <1>4 DEF ParseFindsNone
  <2>2. capacity \in Nat /\ capacity >= 1
    BY SizesAssumption DEF BufferPart, RBInv, RBTypeOK, RoomForPiece
  <2>3. capacity - 1 \in Places
    BY <2>2 DEF Places
  <2>4. buffer[capacity - 1] = 0
    BY <1>2 DEF ZeroPart, Avoided
  <2> QED BY <2>1, <2>3, <2>4
<1>5. CASE ParseRequest
  <2>1. Ends # {} /\ phase = "reading"
    BY <1>5 DEF ParseRequest, PhasePart
  <2>2. "stale_end" \notin faults' /\ "pipelined" \notin faults'
    BY <1>1 DEF Avoided
  <2>3. ~(First(Ends) >= data_len) /\ ~(First(Ends) < data_len - 1)
    BY <1>5, <2>2 DEF ParseRequest
  <2>4. AtBoundary /\ ~lost
    BY <1>2, <2>1 DEF RequestPart, BufferPart, Avoided, Exceptions
  <2>5. {1, 3} \subseteq Spaces
    BY <2>1, <2>3, <2>4, TwoSpaces
  <2>6. ~(Spaces = {} \/ Spaces = {FirstSpace})
    BY <2>5
  <2> QED BY <1>3, <1>5, <2>6 DEF ParseRequest
<1>6. CASE ~ParseFindsNone /\ ~ParseRequest
  <2>1. undefined' = undefined
    BY <1>6 DEF ReceptionNext, ClientSends, ClientCloses, Accepted, TornDown, IoStep, EpollIn,
                Recv, RecvClosed, Answered, historyVars
  <2> QED BY <1>3, <2>1
<1> QED BY <1>4, <1>5, <1>6

-----------------------------------------------------------------------------
(***************************************************************************)
(* What follows.                                                           *)
(***************************************************************************)

LEMMA ReceptionInitially == ReceptionInit => ReceptionInv
<1> SUFFICES ASSUME ReceptionInit PROVE ReceptionInv
  OBVIOUS
<1>1. /\ capacity = InitialSize /\ data_len = 0 /\ seek = 0 /\ arrived = 0 /\ lost = FALSE
      /\ buffer = Calloc(InitialSize) /\ sent = 0 /\ base = 0 /\ wire = << >>
      /\ phase = "free" /\ faults = {}
  BY DEF ReceptionInit, RBInit
<1>2. receiving = FALSE /\ fin = FALSE /\ ready = FALSE /\ clean = TRUE /\ undefined = FALSE
  BY DEF ReceptionInit
<1>3. BufferPart
  <2>1. RBInv
    BY RBInitially DEF ReceptionInit
  <2> QED BY <1>1, <2>1 DEF BufferPart
<1>4. ClientPart
  BY <1>1 DEF ClientPart
<1>5. FlagPart
  BY <1>2 DEF FlagPart
<1>6. PhasePart
  BY <1>1, <1>2 DEF PhasePart
<1>7. RequestPart
  BY <1>1, <1>2 DEF RequestPart, ParsesOneRequest
<1>8. ReadEventIsDue
  BY <1>1 DEF ReadEventIsDue
<1>9. WirePart
  <2>1. Len(wire) = 0 /\ base .. 0 - 1 = {}
    BY <1>1
  <2> QED BY <1>1, <2>1 DEF WirePart, Boundary
<1>10. ZeroPart
  <2>1. InitialSize - 1 \in 0 .. InitialSize - 1
    BY SizesAssumption
  <2> QED BY <1>1, <2>1 DEF ZeroPart, Calloc
<1>11. StaysWithinBuffer
  BY <1>2 DEF StaysWithinBuffer
<1> QED BY <1>3, <1>4, <1>5, <1>6, <1>7, <1>8, <1>9, <1>10, <1>11 DEF ReceptionInv

LEMMA ReceptionStutters ==
  ASSUME ReceptionInv, UNCHANGED receptionVars
  PROVE  ReceptionInv'
<1>1. /\ UNCHANGED rbVars
      /\ UNCHANGED <<phase, receiving, wire, sent, fin, ready, base, clean, undefined, faults>>
  BY DEF receptionVars, clientVars, historyVars
<1>2. BufferPart'
  <2>1. Avoided({"refused"})' => Avoided({"refused"})
    BY <1>1 DEF Avoided
  <2> QED BY <1>1, <2>1, BufferUnchanged DEF ReceptionInv
<1>3. UNCHANGED <<arrived, data_len>>
  BY <1>1 DEF rbVars
<1>4. ClientPart'
  BY <1>1, <1>3 DEF ReceptionInv, ClientPart
<1>5. FlagPart'
  BY <1>1 DEF ReceptionInv, FlagPart
<1>6. PhasePart'
  BY <1>1, <1>3 DEF ReceptionInv, PhasePart
<1>7. RequestPart'
  BY <1>1, <1>3 DEF ReceptionInv, RequestPart, ParsesOneRequest, AtBoundary, Avoided
<1>8. ReadEventIsDue'
  BY <1>1, <1>3 DEF ReceptionInv, ReadEventIsDue, Readable, Unread
<1>9. WirePart'
  BY <1>1 DEF ReceptionInv, WirePart, Boundary
<1>10. ZeroPart'
  BY <1>1 DEF ReceptionInv, ZeroPart, Avoided, rbVars
<1>11. StaysWithinBuffer'
  BY <1>1 DEF ReceptionInv, StaysWithinBuffer, Avoided
<1> QED BY <1>2, <1>4, <1>5, <1>6, <1>7, <1>8, <1>9, <1>10, <1>11 DEF ReceptionInv

\* Every reachable state of the slot satisfies the inductive invariant.
THEOREM ReceptionInvariant == ReceptionSpec => []ReceptionInv
<1>1. ReceptionInv /\ [ReceptionNext]_receptionVars => ReceptionInv'
  <2> SUFFICES ASSUME ReceptionInv, [ReceptionNext]_receptionVars PROVE ReceptionInv'
    OBVIOUS
  <2>1. CASE UNCHANGED receptionVars
    BY <2>1, ReceptionStutters
  <2>2. CASE ReceptionNext
    <3>1. /\ BufferPart /\ ClientPart /\ FlagPart /\ PhasePart /\ RequestPart /\ ReadEventIsDue
          /\ WirePart /\ ZeroPart /\ StaysWithinBuffer
      BY DEF ReceptionInv
    <3>2. BufferPart' /\ ClientPart'
      BY <2>2, <3>1, BufferKept, ClientKept
    <3>3. FlagPart' /\ PhasePart'
      BY <2>2, <3>1, FlagsKept, PhaseKept
    <3>4. RequestPart' /\ ReadEventIsDue'
      BY <2>2, <3>1, <3>2, RequestKept, DueKept
    <3>5. WirePart' /\ ZeroPart'
      BY <2>2, <3>1, <3>2, WireKept, ZeroKept
    <3>6. StaysWithinBuffer'
      BY <2>2, <3>1, WithinKept
    <3> QED BY <3>2, <3>3, <3>4, <3>5, <3>6 DEF ReceptionInv
  <2> QED BY <2>1, <2>2
<1> QED BY <1>1, ReceptionInitially, PTL DEF ReceptionSpec

\* The variables of the slot keep their types, and no more is received than was
\* sent, for any sizes of the buffer and of the requests.
THEOREM ReceptionTypeCorrect == ReceptionSpec => []ReceptionTypeOK
<1>1. ReceptionInv => ReceptionTypeOK
  <2> SUFFICES ASSUME ReceptionInv PROVE ReceptionTypeOK
    OBVIOUS
  <2>1. RBTypeOK /\ FlagPart
    BY DEF ReceptionInv, BufferPart, RBInv
  <2>2. ClientPart /\ PhasePart
    BY DEF ReceptionInv
  <2> QED BY <2>1, <2>2, Zenon DEF FlagPart, ClientPart, PhasePart, Kinds, ReceptionTypeOK
<1> QED BY <1>1, ReceptionInvariant, PTL

\* What lmvs_request_parse is given is one whole request of the connection that
\* sent it, however it was split, unless a request was found where an earlier one
\* ended, others had been sent behind it, or the buffer had refused a piece.
THEOREM RequestsAreWhole == ReceptionSpec => []ParsesOneRequest
<1>1. ReceptionInv => ParsesOneRequest
  BY DEF ReceptionInv, RequestPart
<1> QED BY <1>1, ReceptionInvariant, PTL

\* A slot that waits for its client is owed an event for everything that it has
\* not read, although the registration is edge-triggered.
THEOREM ReceptionIsTold == ReceptionSpec => []ReadEventIsDue
<1>1. ReceptionInv => ReadEventIsDue
  BY DEF ReceptionInv
<1> QED BY <1>1, ReceptionInvariant, PTL

\* lmvs_request_parse reads nothing behind the read buffer, whatever the sizes:
\* the string of a request that is not whole ends at a zero byte, and one that is
\* whole has both its spaces, unless the parser was led astray like that or the
\* buffer was once full to its last byte.
THEOREM ParserStaysWithin == ReceptionSpec => []StaysWithinBuffer
<1>1. ReceptionInv => StaysWithinBuffer
  BY DEF ReceptionInv
<1> QED BY <1>1, ReceptionInvariant, PTL
=============================================================================
