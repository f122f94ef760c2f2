------------------------------ MODULE Reception ------------------------------
(***************************************************************************)
(* How requests are received on one slot of the socket set, by one         *)
(* connection after the other (lmvs-sock.c, lmvs-request.c and the parts   *)
(* of lmvs-el.c and lmvs-epoller.c that drive them).  All that the socket  *)
(* has is appended to the read buffer; if strstr finds the end of a        *)
(* request there, that request is parsed, everything received is dropped   *)
(* and the connection is not read again until it has been answered.        *)
(*                                                                         *)
(* A request is words and spaces in turn, and its end (CRLF CRLF): method, *)
(* space, URI, space, the rest.  Each of these counts as one byte.  The    *)
(* parser sees a string up to the next zero byte, and writes zero bytes    *)
(* over two of the spaces; nothing else is ever cleared in the buffer.     *)
(* The read of a byte behind the buffer is undefined, and ends the model.  *)
(***************************************************************************)
EXTENDS ReadBuffer, Sequences

CONSTANT Lengths    \* how long a request may be, in words, spaces and its end

ASSUME RequestLengthsAssumption == Lengths \subseteq {n \in Nat : n >= 5 /\ n % 2 = 1}

VARIABLES
  phase,      \* what the slot does: no connection, registered to read, to write
  receiving,  \* is the I/O thread inside lmvs_sock_recv?
  wire,       \* what the bytes are that the clients of this slot mean to send
  sent,       \* how many of them are sent
  fin,        \* has the client closed its side?
  ready,      \* kernel: is there an EPOLLIN event to be returned?
  base,       \* history: bytes that had arrived when this connection began
  clean,      \* history: was all that was parsed one request, received whole?
  undefined,  \* history: has a byte behind the buffer been read?
  faults      \* history: what else than whole requests has been met

clientVars == <<wire, sent>>
historyVars == <<base, clean, undefined, faults>>
receptionVars == <<rbVars, phase, receiving, clientVars, fin, ready, historyVars>>

Request(length) ==
  [i \in 1 .. length |-> IF i = length THEN "end" ELSE IF i % 2 = 0 THEN "space" ELSE "word"]

Unread == sent - arrived
Readable == Unread > 0 \/ fin

ReceptionInit ==
  /\ RBInit
  /\ phase = "free" /\ receiving = FALSE
  /\ wire = << >> /\ sent = 0 /\ fin = FALSE
  /\ ready = FALSE
  /\ base = 0 /\ clean = TRUE /\ undefined = FALSE /\ faults = {}

-----------------------------------------------------------------------------
(***************************************************************************)
(* The client and the kernel.  The next request may be sent before the     *)
(* last one is answered.                                                   *)
(***************************************************************************)

\* Whoever is registered to read has an event when something arrives.
Arrives == ready' = (ready \/ phase = "reading")

ClientSends ==
  /\ phase # "free" /\ ~fin
  /\ \/ wire' = wire
     \/ sent = Len(wire) /\ \E length \in Lengths : wire' = wire \o Request(length)
  /\ \E upto \in sent + 1 .. Len(wire') : sent' = upto
  /\ sent' <= MaxBytes
  /\ Arrives
  /\ UNCHANGED <<rbVars, phase, receiving, fin, historyVars>>

ClientCloses ==
  /\ phase # "free" /\ ~fin
  /\ fin' = TRUE
  /\ Arrives
  /\ UNCHANGED <<rbVars, phase, receiving, clientVars, historyVars>>

\* lmvs_sockset_put has given the slot to a connection, and lmvs_epoller_add
\* registered it.  What was not received of the last one is gone.
Accepted ==
  /\ phase = "free"
  /\ phase' = "reading"
  /\ wire' = SubSeq(wire, 1, arrived) /\ sent' = arrived /\ fin' = FALSE
  /\ ready' = FALSE
  /\ base' = arrived
  /\ UNCHANGED <<rbVars, receiving, clean, undefined, faults>>

\* Mutant: what the last connection left is kept.
ResetNothing == UNCHANGED rbVars

\* lmvs_sockset_reset_sock empties the buffer.
ResetSock == Reset

\* The connection is torn down: a send has failed, or its timer has expired.
TornDown ==
  /\ phase # "free" /\ ~receiving
  /\ phase' = "free" /\ ready' = FALSE
  /\ ResetSock
  /\ UNCHANGED <<receiving, clientVars, fin, historyVars>>

-----------------------------------------------------------------------------
(***************************************************************************)
(* The I/O thread.                                                         *)
(***************************************************************************)

\* epoll_wait returns the event, unless there is nothing to be read any more.
EpollIn ==
  /\ phase = "reading" /\ ~receiving
  /\ ready /\ ready' = FALSE
  /\ receiving' = Readable
  /\ UNCHANGED <<rbVars, phase, clientVars, fin, historyVars>>

\* recv returns what there is, but not more than READ_BUFFER_SIZE.
Recv ==
  /\ receiving
  /\ Unread > 0
  /\ AppendPiece(IF Unread < ReadSize THEN Unread ELSE ReadSize)
  /\ faults' = faults \cup (IF lost' THEN {"refused"} ELSE {})
                     \cup (IF seek' + data_len' = capacity' THEN {"brimful"} ELSE {})
  /\ UNCHANGED <<phase, receiving, clientVars, fin, ready, base, clean, undefined>>

\* recv returns 0: whatever was received before is not looked at.
RecvClosed ==
  /\ receiving /\ receiving' = FALSE
  /\ Unread = 0 /\ fin
  /\ phase' = "free" /\ ready' = FALSE
  /\ ResetSock
  /\ UNCHANGED <<clientVars, fin, historyVars>>

Places == 0 .. capacity - 1
Is(place, kind) == buffer[place] # 0 /\ wire[buffer[place]] = kind
First(places) == CHOOSE place \in places : \A other \in places : place <= other

\* The string at the front of the buffer: it ends at the first zero byte.
InString(place) == \A before \in 0 .. place : buffer[before] # 0

\* Mutant: the end of a request is not waited for.
AnyPlace == {place \in Places : InString(place)}

\* Where strstr(data, CRLF2) finds something.
Ends == {place \in Places : InString(place) /\ Is(place, "end")}

\* The spaces that lmvs_request_parse looks for; zero bytes do not stop it.
Spaces == {place \in Places : Is(place, "space")}
FirstSpace == First(Spaces)
SecondSpace == First(Spaces \ {FirstSpace})

\* The contents of the buffer are one request of this connection, and whole.
OneRequest ==
  LET first == arrived - data_len + 1
  IN /\ InPlace
     /\ first = base + 1 \/ (first > base /\ wire[first - 1] = "end")
     /\ {n \in first .. arrived : wire[n] = "end"} = {arrived}

\* recv returns EAGAIN, and lmvs_request_parse finds no end in the string.
ParseFindsNone ==
  /\ receiving /\ receiving' = FALSE
  /\ Unread = 0 /\ ~fin
  /\ Ends = {}
  /\ undefined' = (\A place \in Places : buffer[place] # 0)
  /\ UNCHANGED <<rbVars, phase, clientVars, fin, ready, base, clean, faults>>

\* lmvs_rb_seek is given all that has been received.
TakeAll == data_len

\* It finds one: zero bytes are written, the buffer is emptied, and the socket
\* registered to be written.
ParseRequest ==
  /\ receiving /\ receiving' = FALSE
  /\ Unread = 0 /\ ~fin
  /\ Ends # {}
  /\ IF Spaces = {} \/ Spaces = {FirstSpace}
       THEN undefined' = TRUE /\ UNCHANGED <<rbVars, phase, ready, clean>>
       ELSE /\ buffer' = [buffer EXCEPT ![FirstSpace] = 0, ![SecondSpace] = 0]
            /\ data_len' = data_len - TakeAll
            /\ seek' = IF TakeAll = data_len THEN 0 ELSE seek + TakeAll
            /\ lost' = (lost /\ TakeAll < data_len)
            /\ phase' = "answering" /\ ready' = FALSE
            /\ clean' = (clean /\ OneRequest)
            /\ UNCHANGED <<capacity, arrived, undefined>>
  /\ faults' = faults
       \cup (IF First(Ends) >= data_len THEN {"stale_end"} ELSE {})
       \cup (IF First(Ends) < data_len - 1 THEN {"pipelined"} ELSE {})
  /\ UNCHANGED <<clientVars, fin, base>>

\* Mutant: nothing is looked at when the registration is changed.
ModReadNoEdge == ready' = FALSE

\* lmvs_epoller_mod_read: the kernel looks at once whether there is something.
ModRead == ready' = Readable

\* The last of the response has been sent.
Answered ==
  /\ phase = "answering"
  /\ phase' = "reading"
  /\ ModRead
  /\ UNCHANGED <<rbVars, receiving, clientVars, fin, historyVars>>

IoStep == EpollIn \/ Recv \/ RecvClosed \/ ParseFindsNone \/ ParseRequest

ReceptionNext ==
  /\ ~undefined
  /\ \/ ClientSends
     \/ ClientCloses
     \/ Accepted
     \/ TornDown
     \/ IoStep
     \/ Answered

ReceptionSpec == ReceptionInit /\ [][ReceptionNext]_receptionVars

\* The I/O thread keeps running; nothing is assumed of the client.
FairReceptionSpec == ReceptionSpec /\ WF_receptionVars(~undefined /\ IoStep)

-----------------------------------------------------------------------------
(***************************************************************************)
(* Properties.                                                             *)
(***************************************************************************)

Avoided(set) == faults \cap set = {}

\* The variables have their types, and only bytes that were sent are received.
ReceptionTypeOK ==
  /\ RBTypeOK
  /\ phase \in {"free", "reading", "answering"}
  /\ receiving \in BOOLEAN /\ (receiving => phase = "reading")
  /\ wire \in Seq({"word", "space", "end"})
  /\ arrived <= sent /\ sent <= Len(wire)
  /\ fin \in BOOLEAN /\ ready \in BOOLEAN
  /\ base <= arrived /\ clean \in BOOLEAN /\ undefined \in BOOLEAN
  /\ faults \subseteq {"stale_end", "pipelined", "refused", "brimful"}

\* What is parsed is one request of the connection that sent it, received whole:
\* nothing of the connection before it on the slot, nothing of the request
\* before it, although neither is ever cleared from the buffer.  The exceptions:
\* a piece of a later request that ends between the second space of an earlier
\* one and its end, which strstr then finds; requests sent without waiting for
\* the answer; and a buffer of 5 MB that refused a piece.
ParsesOneRequest == Avoided({"stale_end", "pipelined", "refused"}) => clean

\* The parser stays within the buffer unless it has been led astray like that, or
\* the buffer has been full to its last byte: a zero byte that nobody wrote is
\* then all that ends the string, for the later connections of the slot as well.
StaysWithinBuffer ==
  undefined => ~Avoided({"stale_end", "pipelined", "refused", "brimful"})

\* A connection waits for its client only while the kernel owes it an event for
\* what it has not read: with edge-triggered epoll it would otherwise not be read
\* until the client sends more.
ReadEventIsDue == phase = "reading" /\ ~receiving /\ Readable => ready

\* A request that has been sent whole is parsed, if its client stays and does not
\* send the next one before the answer, through any split into pieces.
Waiting == phase = "reading" /\ sent > arrived - data_len /\ wire[sent] = "end"

EveryRequestParsed == Waiting ~>
  (phase # "reading" \/ ~Avoided({"stale_end", "pipelined", "refused"}) \/ undefined)
=============================================================================
