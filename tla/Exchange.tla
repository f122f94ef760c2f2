------------------------------ MODULE Exchange ------------------------------
(***************************************************************************)
(* How one connection is answered (lmvs-response.c, lmvs-sock.c and the    *)
(* parts of lmvs-el.c, lmvs-request.c and lmvs-epoller.c that drive them). *)
(* A request is parsed, the connection waits until it can be written, and  *)
(* each time lmvs_response sends what the socket takes: the headers, then  *)
(* the file with sendfile, or the page of a 404.  lmvs_el_io_loop adds up  *)
(* what it returns and goes back to reading when the sum is the total.     *)
(*                                                                         *)
(* Each system call is a step, for the client takes bytes off the socket   *)
(* in between.  errno is shared with the other connections of the loop.    *)
(* Bytes are counted and not kept: due and intact say whether each byte    *)
(* sent was the next one of the response.                                  *)
(***************************************************************************)
EXTENDS Integers

CONSTANTS
  HeadersLength,  \* request->headers.length
  PageLength,     \* strlen(notfound_html)
  FileLengths,    \* how long a file may be
  SendBuffer,     \* how much the send buffer of the socket holds
  MaxSent         \* no further call once a response has come to this (bound)

ASSUME LengthsAssumption ==
  /\ HeadersLength \in Nat \ {0}
  /\ PageLength \in Nat \ {0}
  /\ FileLengths \subseteq Nat
  /\ SendBuffer \in Nat \ {0}
  /\ MaxSent \in Nat

VARIABLES
  phase,      \* what the connection is registered for, or "closed"
  request,    \* the lmvs_request_t
  offset,     \* kernel: where the next sendfile begins in the file
  call,       \* where the I/O thread is inside lmvs_response, with its locals
  errno,      \* errno of the I/O thread
  room,       \* kernel: how much the socket takes now
  full,       \* kernel: is the writer to be told when there is room again?
  ready,      \* kernel: is there an EPOLLOUT event to be returned?
  alive,      \* has the client not reset the connection?
  due,        \* history: bytes sent of this response
  intact,     \* history: was each of them the next one of the response?
  cut         \* history: was a send of the headers or of the page short?

kernelVars == <<room, full, ready, alive>>
exchangeVars == <<phase, request, offset, call, errno, room, full, ready,
                  alive, due, intact, cut>>

NoFile == -1
IsFile == request.file # NoFile
Headers(n) == [of |-> "headers", at |-> n]
Page(n) == [of |-> "page", at |-> n]

\* lmvs_request_reset; the number of the file that stays is no matter here.
ResetRequest ==
  [is_headers_sent |-> FALSE, pdata |-> Headers(0), file |-> NoFile,
   content_length |-> 0, nsend |-> 0, total |-> 0]

Outside == [step |-> "outside", headers_nsend |-> 0, nsend |-> 0]

ExchangeInit ==
  /\ phase = "reading"
  /\ request = ResetRequest
  /\ offset = 0
  /\ call = Outside
  /\ errno \in {"EAGAIN", "other"}
  /\ room = SendBuffer
  /\ full = FALSE
  /\ ready = FALSE
  /\ alive = TRUE
  /\ due = 0
  /\ intact = TRUE
  /\ cut = FALSE

-----------------------------------------------------------------------------
(***************************************************************************)
(* The client, the kernel and the other connections.                       *)
(***************************************************************************)

\* The client takes bytes; a writer that met a full socket has an event.
ClientReads ==
  /\ alive
  /\ \E more \in room + 1 .. SendBuffer : room' = more
  /\ ready' = (ready \/ (full /\ phase = "answering"))
  /\ full' = FALSE
  /\ UNCHANGED <<phase, request, offset, call, errno, alive, due, intact, cut>>

\* The client resets the connection: whoever waits for it has an event.
ClientResets ==
  /\ alive
  /\ alive' = FALSE
  /\ ready' = (phase = "answering")
  /\ UNCHANGED <<phase, request, offset, call, errno, room, full, due, intact, cut>>

\* Whatever the I/O thread does for other connections leaves its errno behind.
OtherConnections ==
  /\ call = Outside
  /\ errno' \in {"EAGAIN", "other"} \ {errno}
  /\ UNCHANGED <<phase, request, offset, call, kernelVars, due, intact, cut>>

-----------------------------------------------------------------------------
(***************************************************************************)
(* A request, and the end of an exchange.                                  *)
(***************************************************************************)

\* Mutant: the registration is left as it is, and the edge has passed.
ModWriteNoEdge == UNCHANGED <<ready, full>>

\* lmvs_epoller_mod_write: the kernel looks at once whether there is room.
ModWrite == ready' = (room > 0 \/ ~alive) /\ full' = (room = 0)

\* lmvs_request_parse, then lmvs_epoller_mod_write.  recv has left EAGAIN, and
\* open, where there is no file, another errno.
RequestArrives(file) ==
  /\ phase = "reading" /\ call = Outside
  /\ LET length == IF file = NoFile THEN PageLength ELSE file
     IN request' = [request EXCEPT !.pdata = Headers(0), !.file = file,
                                   !.content_length = length,
                                   !.total = HeadersLength + length]
  /\ offset' = 0
  /\ errno' = IF file = NoFile THEN "other" ELSE "EAGAIN"
  /\ phase' = "answering"
  /\ ModWrite
  /\ due' = 0 /\ intact' = TRUE /\ cut' = FALSE
  /\ UNCHANGED <<call, room, alive>>

\* The peer has closed, or the keep-alive timer has expired.
ClosedFromOutside ==
  /\ phase # "closed" /\ call = Outside
  /\ phase' = "closed"
  /\ request' = ResetRequest
  /\ ready' = FALSE
  /\ UNCHANGED <<offset, call, errno, room, full, alive, due, intact, cut>>

\* The epoll event, which the kernel withholds while the socket is full, and the
\* beginning of lmvs_response.
Writable ==
  /\ phase = "answering" /\ call = Outside
  /\ ready /\ ready' = FALSE
  /\ room > 0 \/ ~alive
  /\ due < MaxSent
  /\ call' = [Outside EXCEPT !.step = IF request.is_headers_sent THEN "body" ELSE "headers"]
  /\ UNCHANGED <<phase, request, offset, errno, room, full, alive, due, intact, cut>>

\* Mutant: the headers are left out of the total.
ReturnsAtBody(ret, req, event) ==
  LET nsend == req.nsend + ret
      over  == ret # -1 /\ nsend >= req.content_length
  IN /\ call' = Outside
     /\ phase' = IF ret = -1 THEN "closed" ELSE IF over THEN "reading" ELSE phase
     /\ request' = IF ret = -1 \/ over THEN ResetRequest
                                       ELSE [req EXCEPT !.nsend = nsend]
     /\ ready' = (event /\ ret # -1 /\ ~over)

\* Mutant: nsend is what was sent last, not the sum.
ReturnsLast(ret, req, event) ==
  LET over == ret # -1 /\ ret = req.total
  IN /\ call' = Outside
     /\ phase' = IF ret = -1 THEN "closed" ELSE IF over THEN "reading" ELSE phase
     /\ request' = IF ret = -1 \/ over THEN ResetRequest ELSE [req EXCEPT !.nsend = ret]
     /\ ready' = (event /\ ret # -1 /\ ~over)

\* lmvs_response returns ret, and lmvs_el_io_loop goes on: after an error the
\* connection is torn down, at the end of the response it reads again.
Returns(ret, req, event) ==
  LET nsend == req.nsend + ret
      over  == ret # -1 /\ nsend = req.total
  IN /\ call' = Outside
     /\ phase' = IF ret = -1 THEN "closed" ELSE IF over THEN "reading" ELSE phase
     /\ request' = IF ret = -1 \/ over THEN ResetRequest
                                       ELSE [req EXCEPT !.nsend = nsend]
     /\ ready' = (event /\ ret # -1 /\ ~over)

-----------------------------------------------------------------------------
(***************************************************************************)
(* The system calls of lmvs_response.                                      *)
(***************************************************************************)

Least(m, n) == IF m <= n THEN m ELSE n

\* The socket takes n bytes of len; it remembers a writer it did not satisfy.
Takes(n, len) ==
  /\ room' = room - n
  /\ full' = (full \/ n < len)
  /\ UNCHANGED alive

\* n bytes are sent from place pos on, in a part of the response up to end.
Account(pos, n, end) ==
  /\ due' = due + n
  /\ intact' = (intact /\ (n = 0 \/ (pos = due /\ pos + n <= end)))

\* Where in the response pdata points; -1 when it has passed the end of its part.
Position(pdata) ==
  CASE pdata.of = "headers" /\ pdata.at < HeadersLength -> pdata.at
    [] pdata.of = "page" /\ pdata.at < PageLength -> HeadersLength + pdata.at
    [] OTHER -> -1

\* Mutant: pdata goes on after the headers instead of to the page.
AfterHeadersOn(req) == [req EXCEPT !.is_headers_sent = TRUE, !.pdata.at = @ + HeadersLength]

\* The headers are sent: next is the page, or else the file.
AfterHeaders(req) == [req EXCEPT !.is_headers_sent = TRUE, !.pdata = Page(0)]

\* send or sendfile on a connection that the client has reset.
CallFails ==
  /\ call.step # "outside"
  /\ ~alive
  /\ call.step = "body" /\ IsFile => offset < request.content_length
  /\ errno' = "other"
  /\ Returns(-1, request, ready)
  /\ UNCHANGED <<offset, room, full, alive, due, intact, cut>>

SendHeaders ==
  /\ call.step = "headers"
  /\ alive
  /\ LET n == Least(HeadersLength, room)
     IN /\ Takes(n, HeadersLength)
        /\ Account(Position(request.pdata), n, HeadersLength)
        /\ IF n < HeadersLength
             THEN /\ Returns(n, [request EXCEPT !.pdata.at = @ + n], ready)
                  /\ cut' = TRUE
             ELSE /\ call' = [call EXCEPT !.step = "body", !.headers_nsend = n]
                  /\ request' = AfterHeaders(request)
                  /\ UNCHANGED <<phase, ready, cut>>
        /\ errno' = IF n = 0 THEN "EAGAIN" ELSE errno
  /\ UNCHANGED offset

\* headers_nsend is added only to the last part of the page.
SendPage ==
  /\ call.step = "body" /\ ~IsFile
  /\ alive
  /\ LET n == Least(request.content_length, room)
     IN /\ Takes(n, request.content_length)
        /\ Account(Position(request.pdata), n, HeadersLength + PageLength)
        /\ IF n < request.content_length
             THEN /\ Returns(n, [request EXCEPT !.pdata.at = @ + n], ready)
                  /\ cut' = TRUE
             ELSE /\ Returns(n + call.headers_nsend, request, ready)
                  /\ UNCHANGED cut
        /\ errno' = IF n = 0 THEN "EAGAIN" ELSE errno
  /\ UNCHANGED offset

\* Mutant: the headers sent by the same call are not added.
FileSentAlone(nsend) == Returns(IF nsend > 0 THEN nsend ELSE -1, request, ready)

\* lmvs_sock_sendfile returns nsend, and lmvs_response takes 0 for an error.
FileSent(nsend) ==
  Returns(IF nsend > 0 THEN nsend + call.headers_nsend ELSE -1, request, ready)

\* One sendfile that sends something; it is called again until nsend is len.
Sendfile ==
  /\ call.step = "body" /\ IsFile
  /\ alive
  /\ LET left  == request.content_length - offset
         n     == Least(left, room)
         nsend == call.nsend + n
     IN /\ n > 0
        /\ Takes(n, left)
        /\ offset' = offset + n
        /\ Account(HeadersLength + offset, n, HeadersLength + request.content_length)
        /\ IF nsend = request.content_length
             THEN FileSent(nsend)
             ELSE /\ call' = [call EXCEPT !.nsend = nsend]
                  /\ UNCHANGED <<phase, request, ready>>
  /\ UNCHANGED <<errno, cut>>

\* A sendfile that finds the socket full, and one at the end of the file: that
\* one leaves errno as it was, and errno is looked at all the same.
SendfileStops ==
  /\ call.step = "body" /\ IsFile
  /\ \/ /\ offset < request.content_length
        /\ alive /\ room = 0
        /\ errno' = "EAGAIN" /\ full' = TRUE
     \/ /\ offset = request.content_length
        /\ UNCHANGED <<errno, full>>
  /\ IF errno' = "EAGAIN" THEN FileSent(call.nsend) ELSE Returns(-1, request, ready)
  /\ UNCHANGED <<offset, room, alive, due, intact, cut>>

Response == CallFails \/ SendHeaders \/ SendPage \/ Sendfile \/ SendfileStops

ExchangeNext ==
  \/ ClientReads
  \/ ClientResets
  \/ OtherConnections
  \/ \E file \in FileLengths \cup {NoFile} : RequestArrives(file)
  \/ ClosedFromOutside
  \/ Writable
  \/ Response

ExchangeSpec == ExchangeInit /\ [][ExchangeNext]_exchangeVars

\* The I/O thread keeps running; nothing is assumed of the client.
FairExchangeSpec ==
  ExchangeSpec /\ WF_exchangeVars(Writable) /\ WF_exchangeVars(Response)

-----------------------------------------------------------------------------
(***************************************************************************)
(* Properties.                                                             *)
(***************************************************************************)

Requests == [is_headers_sent : BOOLEAN, pdata : [of : {"headers", "page"}, at : Nat],
             file : FileLengths \cup {NoFile}, content_length : Nat, nsend : Nat, total : Nat]

\* The variables have their types, and the parts of a request belong together:
\* its length is that of its file or page, and its total adds the headers.
ExchangeTypeOK ==
  /\ phase \in {"reading", "answering", "closed"}
  /\ request \in Requests
  /\ offset \in Nat
  /\ call \in [step : {"outside", "headers", "body"}, headers_nsend : {0, HeadersLength},
               nsend : Nat]
  /\ errno \in {"EAGAIN", "other"}
  /\ room \in 0 .. SendBuffer
  /\ full \in BOOLEAN /\ ready \in BOOLEAN /\ alive \in BOOLEAN
  /\ due \in Nat
  /\ intact \in BOOLEAN /\ cut \in BOOLEAN
  /\ phase = "answering" =>
       /\ request.content_length = IF IsFile THEN request.file ELSE PageLength
       /\ request.total = HeadersLength + request.content_length

\* What the client gets of a response is a beginning of it, byte for byte, for
\* any sequence of full sockets and partial sends of the file: pdata, the offset
\* of the file and is_headers_sent agree on what has been sent.  The exception
\* is a send of the headers or the page that was cut short, from where
\* lmvs_response sends the whole length again.
SentInOrder == ~cut => intact

\* nsend, on which lmvs_el_io_loop decides whether the response is over, is the
\* number of bytes sent whenever lmvs_response has returned.
CountsWhatIsSent ==
  phase = "answering" /\ call = Outside /\ ~cut => request.nsend = due

\* The exchange waits for the socket only while the kernel owes it an event:
\* with edge-triggered epoll a response that has not ended would otherwise sit
\* there until the keep-alive timer expires.
EventIsDue ==
  phase = "answering" /\ call = Outside /\ ~cut => ready \/ full

\* A response is sent to its end, or the connection is closed, unless the client
\* leaves the socket full for ever: although each part of it waits for an
\* edge-triggered event, it is never the server that stops.
EveryResponseEnds ==
  phase = "answering" ~> (phase # "answering" \/ cut \/ [](full /\ room = 0))

\* A full socket is not an error: the comment of lmvs_sock_send tells the two
\* apart ("-1 : error", "0 : socket buffer is full").  Closing a connection
\* that the client keeps open because the socket had no room is.
FullIsNoError ==
  [][call # Outside /\ alive /\ phase' = "closed" => errno' # "EAGAIN"]_exchangeVars
-----------------------------------------------------------------------------
(***************************************************************************)
(* What the client is promised: see Delivery.  Nothing is promised of a    *)
(* response once a send of its headers or page was short.                  *)
(***************************************************************************)

Client == INSTANCE Delivery WITH
  Totals   <- {0} \cup {HeadersLength + n : n \in FileLengths \cup {PageLength}},
  sent     <- due,
  total    <- IF phase = "answering" THEN request.total ELSE due,
  given_up <- cut

\* To its client, the connection delivers one whole response after the other,
\* each from its first byte to its last, until it is closed.
DeliversResponses == Client!DeliverySpec
=============================================================================
