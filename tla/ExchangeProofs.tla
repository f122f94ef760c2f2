--------------------------- MODULE ExchangeProofs ---------------------------
(***************************************************************************)
(* Proofs about Exchange: its types, its order, its count, and the events  *)
(* it waits for, for every length of headers, page and files and every     *)
(* size of the send buffer.                                                *)
(***************************************************************************)
EXTENDS Exchange, TLAPS

\* lmvs_response is called only while the connection is being answered, sends
\* the headers before the rest, and its locals begin at zero.
CallInv ==
  /\ call.step # "outside" => phase = "answering"
  /\ call.step = "headers" => request.is_headers_sent = FALSE
  /\ call.step = "body" => request.is_headers_sent = TRUE
  /\ call.step # "body" => call.headers_nsend = 0 /\ call.nsend = 0

\* Until the headers are sent nothing is.
NotYet == due = 0 /\ request.nsend = 0 /\ request.pdata = Headers(0) /\ offset = 0

\* A file has been sent up to its offset, and what has been sent is what earlier
\* calls returned and this one is about to return.
FileSoFar ==
  /\ due = HeadersLength + offset
  /\ due = request.nsend + call.headers_nsend + call.nsend
  /\ offset <= request.content_length
  /\ call.nsend <= offset

\* A page comes in the same call as the headers, or a send was short.
PageNext ==
  /\ call.step = "body"
  /\ due = HeadersLength /\ request.pdata = Page(0)
  /\ request.nsend = 0 /\ call.headers_nsend = HeadersLength

Booked ==
  /\ request.is_headers_sent = FALSE => NotYet
  /\ request.is_headers_sent = TRUE /\ IsFile => FileSoFar
  /\ request.is_headers_sent = TRUE /\ ~IsFile => PageNext
  /\ call.step = "outside" => request.nsend < request.total

AnswerInv == phase = "answering" /\ ~cut => Booked

\* A request begins from a clean one: nothing is left of the response before it.
FreshInv == phase # "answering" => request = ResetRequest

ExchangeInv ==
  ExchangeTypeOK /\ CallInv /\ FreshInv /\ AnswerInv /\ SentInOrder /\ EventIsDue

-----------------------------------------------------------------------------
(***************************************************************************)
(* What the parts of a step do.                                            *)
(***************************************************************************)

LEMMA LeastType ==
  ASSUME NEW m \in Nat, NEW n \in Nat
  PROVE  Least(m, n) \in Nat /\ Least(m, n) <= m /\ Least(m, n) <= n
BY DEF Least

LEMMA ResetType == ResetRequest \in Requests
BY DEF ResetRequest, Requests, Headers, NoFile

LEMMA OutsideType ==
  Outside \in [step : {"outside", "headers", "body"}, headers_nsend : {0, HeadersLength},
               nsend : Nat]
BY DEF Outside

\* lmvs_response fails, ends the response, or leaves it for another call.
LEMMA ReturnsCases ==
  ASSUME NEW ret \in Nat \cup {-1}, NEW req \in Requests, NEW event, Returns(ret, req, event)
  PROVE  /\ call' = Outside
         /\ \/ ret = -1 /\ phase' = "closed" /\ request' = ResetRequest
            \/ /\ ret # -1 /\ req.nsend + ret = req.total
               /\ phase' = "reading" /\ request' = ResetRequest
            \/ /\ ret # -1 /\ req.nsend + ret # req.total
               /\ phase' = phase /\ request' = [req EXCEPT !.nsend = @ + ret]
<1>1. /\ call' = Outside
      /\ phase' = IF ret = -1 THEN "closed"
                  ELSE IF ret # -1 /\ req.nsend + ret = req.total THEN "reading" ELSE phase
      /\ request' = IF ret = -1 \/ (ret # -1 /\ req.nsend + ret = req.total) THEN ResetRequest
                    ELSE [req EXCEPT !.nsend = req.nsend + ret]
  BY DEF Returns
<1>2. CASE ret = -1
  BY <1>1, <1>2
<1>3. CASE ret # -1 /\ req.nsend + ret = req.total
  BY <1>1, <1>3
<1>4. CASE ret # -1 /\ req.nsend + ret # req.total
  BY <1>1, <1>4
<1> QED BY <1>2, <1>3, <1>4

LEMMA ReturnsEvent ==
  ASSUME NEW ret, NEW req, NEW event, Returns(ret, req, event)
  PROVE  ready' \in BOOLEAN
BY DEF Returns

\* The types after lmvs_response has returned; req differs from request at most
\* in what has been sent.
LEMMA ReturnsType ==
  ASSUME ExchangeTypeOK, phase = "answering", NEW ret \in Nat \cup {-1}, NEW req \in Requests,
         req.total = request.total, req.file = request.file,
         req.content_length = request.content_length, Returns(ret, req, ready)
  PROVE  /\ phase' \in {"reading", "answering", "closed"}
         /\ request' \in Requests
         /\ call' \in [step : {"outside", "headers", "body"},
                       headers_nsend : {0, HeadersLength}, nsend : Nat]
         /\ ready' \in BOOLEAN
         /\ phase' = "answering" =>
              /\ request'.content_length = IF IsFile' THEN request'.file ELSE PageLength
              /\ request'.total = HeadersLength + request'.content_length
<1>1. \/ ret = -1 /\ phase' = "closed" /\ request' = ResetRequest
      \/ /\ phase' = "reading" /\ request' = ResetRequest
      \/ /\ ret # -1 /\ phase' = phase /\ request' = [req EXCEPT !.nsend = @ + ret]
  BY ReturnsCases
<1>2. call' = Outside
  BY ReturnsCases
<1>3. ready' \in BOOLEAN
  BY ReturnsEvent
<1>4. CASE ret # -1 /\ phase' = phase /\ request' = [req EXCEPT !.nsend = @ + ret]
  <2>1. req.nsend + ret \in Nat
    BY <1>4 DEF Requests
  <2>2. /\ request' \in Requests /\ request'.content_length = request.content_length
        /\ request'.file = request.file /\ request'.total = request.total
    BY <1>4, <2>1 DEF Requests
  <2>3. IsFile' <=> IsFile
    BY <2>2 DEF IsFile
  <2> QED BY <1>2, <1>3, <1>4, <2>2, <2>3, OutsideType DEF ExchangeTypeOK
<1> QED BY <1>1, <1>2, <1>3, <1>4, ResetType, OutsideType

\* What is sent is the next part of the response if nothing was before it.
LEMMA AccountType ==
  ASSUME ExchangeTypeOK, NEW n \in Nat, NEW pos, NEW end, Account(pos, n, end)
  PROVE  /\ due' = due + n /\ due' \in Nat /\ intact' \in BOOLEAN
         /\ intact /\ pos = due /\ due + n <= end => intact'
<1>1. due \in Nat
  BY DEF ExchangeTypeOK
<1>2. due' = due + n
  BY DEF Account
<1>3. intact' \in BOOLEAN
  BY DEF Account
<1>4. ASSUME intact, pos = due, due + n <= end PROVE intact'
  BY <1>4 DEF Account
<1> QED BY <1>1, <1>2, <1>3, <1>4

-----------------------------------------------------------------------------
(***************************************************************************)
(* The types.                                                              *)
(***************************************************************************)

LEMMA TypeSendHeaders ==
  ASSUME ExchangeTypeOK, CallInv, SendHeaders
  PROVE  ExchangeTypeOK'
<1> DEFINE n == Least(HeadersLength, room)
<1>1. /\ phase = "answering" /\ n \in Nat /\ n <= room /\ n <= HeadersLength
      /\ room \in 0 .. SendBuffer /\ SendBuffer \in Nat /\ HeadersLength \in Nat
      /\ request \in Requests /\ request.pdata.at \in Nat
  BY LengthsAssumption, LeastType DEF ExchangeTypeOK, CallInv, SendHeaders, Requests
<1>2. /\ room' = room - n /\ alive' = alive /\ offset' = offset
      /\ errno' \in {"EAGAIN", "other"} /\ full' \in BOOLEAN
  BY DEF SendHeaders, Takes, ExchangeTypeOK
<1>3. due' \in Nat /\ intact' \in BOOLEAN
  BY <1>1, AccountType DEF SendHeaders
<1>4. CASE n < HeadersLength
  <2> DEFINE req == [request EXCEPT !.pdata.at = @ + n]
  <2>1. Returns(n, req, ready) /\ cut' = TRUE
    BY <1>4 DEF SendHeaders
  <2>2. /\ req \in Requests /\ req.total = request.total /\ req.file = request.file
        /\ req.content_length = request.content_length
    BY <1>1 DEF Requests
  <2> HIDE DEF n, req
  <2>3. /\ phase' \in {"reading", "answering", "closed"} /\ request' \in Requests
        /\ call' \in [step : {"outside", "headers", "body"},
                      headers_nsend : {0, HeadersLength}, nsend : Nat]
        /\ ready' \in BOOLEAN
        /\ phase' = "answering" =>
             /\ request'.content_length = IF IsFile' THEN request'.file ELSE PageLength
             /\ request'.total = HeadersLength + request'.content_length
    BY <1>1, <2>1, <2>2, ReturnsType
  <2> QED BY <1>1, <1>2, <1>3, <2>1, <2>3 DEF ExchangeTypeOK
<1>5. CASE ~(n < HeadersLength)
  <2>1. /\ call' = [call EXCEPT !.step = "body", !.headers_nsend = HeadersLength]
        /\ request' = AfterHeaders(request) /\ phase' = phase
        /\ ready' \in BOOLEAN /\ cut' \in BOOLEAN
    <3>1. n = HeadersLength
      BY <1>1, <1>5
    <3> HIDE DEF n
    <3>2. /\ call' = [call EXCEPT !.step = "body", !.headers_nsend = n]
          /\ request' = AfterHeaders(request) /\ UNCHANGED <<phase, ready, cut>>
      BY <1>5 DEF SendHeaders, n
    <3> QED BY <3>1, <3>2 DEF ExchangeTypeOK
  <2>2. /\ request' \in Requests /\ request'.content_length = request.content_length
        /\ request'.file = request.file /\ request'.total = request.total
    BY <1>1, <2>1 DEF AfterHeaders, Requests, Page
  <2>3. call' \in [step : {"outside", "headers", "body"},
                   headers_nsend : {0, HeadersLength}, nsend : Nat]
    BY <2>1 DEF ExchangeTypeOK
  <2>4. IsFile' <=> IsFile
    BY <2>2 DEF IsFile
  <2> HIDE DEF n
  <2> QED BY <1>1, <1>2, <1>3, <2>1, <2>2, <2>3, <2>4 DEF ExchangeTypeOK
<1> QED BY <1>4, <1>5

LEMMA TypeSendPage ==
  ASSUME ExchangeTypeOK, CallInv, SendPage
  PROVE  ExchangeTypeOK'
<1> DEFINE n == Least(request.content_length, room)
           req == [request EXCEPT !.pdata.at = @ + n]
<1>1. /\ phase = "answering" /\ n \in Nat /\ n <= room
      /\ room \in 0 .. SendBuffer /\ SendBuffer \in Nat /\ HeadersLength \in Nat
      /\ request \in Requests /\ request.pdata.at \in Nat /\ call.headers_nsend \in Nat
  BY LengthsAssumption, LeastType DEF ExchangeTypeOK, CallInv, SendPage, Requests
<1>2. /\ room' = room - n /\ alive' = alive /\ offset' = offset
      /\ errno' \in {"EAGAIN", "other"} /\ full' \in BOOLEAN
  BY DEF SendPage, Takes, ExchangeTypeOK
<1>3. due' \in Nat /\ intact' \in BOOLEAN
  BY <1>1, AccountType DEF SendPage
<1>4. /\ req \in Requests /\ req.total = request.total /\ req.file = request.file
      /\ req.content_length = request.content_length
  BY <1>1 DEF Requests
<1>5. n + call.headers_nsend \in Nat
  BY <1>1
<1>6. /\ Returns(n, req, ready) \/ Returns(n + call.headers_nsend, request, ready)
      /\ cut' \in BOOLEAN
  BY DEF SendPage, ExchangeTypeOK
<1> HIDE DEF n, req
<1>7. /\ phase' \in {"reading", "answering", "closed"} /\ request' \in Requests
      /\ call' \in [step : {"outside", "headers", "body"},
                    headers_nsend : {0, HeadersLength}, nsend : Nat]
      /\ ready' \in BOOLEAN
      /\ phase' = "answering" =>
           /\ request'.content_length = IF IsFile' THEN request'.file ELSE PageLength
           /\ request'.total = HeadersLength + request'.content_length
  BY <1>1, <1>4, <1>5, <1>6, ReturnsType
<1> QED BY <1>1, <1>2, <1>3, <1>6, <1>7 DEF ExchangeTypeOK

\* lmvs_sock_sendfile has stopped, with an error, for want of room or at the end.
LEMMA TypeFileSent ==
  ASSUME ExchangeTypeOK, phase = "answering", NEW nsend \in Nat,
         FileSent(nsend) \/ Returns(-1, request, ready)
  PROVE  /\ phase' \in {"reading", "answering", "closed"} /\ request' \in Requests
         /\ call' \in [step : {"outside", "headers", "body"},
                       headers_nsend : {0, HeadersLength}, nsend : Nat]
         /\ ready' \in BOOLEAN
         /\ phase' = "answering" =>
              /\ request'.content_length = IF IsFile' THEN request'.file ELSE PageLength
              /\ request'.total = HeadersLength + request'.content_length
<1>1. request \in Requests /\ call.headers_nsend \in Nat
  BY LengthsAssumption DEF ExchangeTypeOK
<1>2. PICK ret \in Nat \cup {-1} : Returns(ret, request, ready)
  <2>1. CASE FileSent(nsend) /\ nsend > 0
    <3>1. nsend + call.headers_nsend \in Nat /\ Returns(nsend + call.headers_nsend, request, ready)
      BY <1>1, <2>1 DEF FileSent
    <3> QED BY <3>1
  <2>2. CASE FileSent(nsend) /\ ~(nsend > 0)
    BY <2>2 DEF FileSent
  <2> QED BY <2>1, <2>2
<1> QED BY <1>1, <1>2, ReturnsType

LEMMA TypeSendfile ==
  ASSUME ExchangeTypeOK, CallInv, Sendfile
  PROVE  ExchangeTypeOK'
<1> DEFINE left == request.content_length - offset
           n == Least(left, room)
<1>1. /\ phase = "answering" /\ request \in Requests /\ request.content_length \in Nat
      /\ offset \in Nat /\ room \in 0 .. SendBuffer /\ SendBuffer \in Nat
      /\ call.nsend \in Nat /\ n > 0
  BY LengthsAssumption DEF ExchangeTypeOK, CallInv, Sendfile, Requests
<1>2. n \in Nat /\ n <= room
  BY <1>1 DEF Least
<1>3. /\ room' = room - n /\ alive' = alive /\ offset' = offset + n
      /\ errno' = errno /\ full' \in BOOLEAN /\ cut' = cut
  BY DEF Sendfile, Takes
<1>4. due' \in Nat /\ intact' \in BOOLEAN
  BY <1>2, AccountType DEF Sendfile
<1>5. /\ phase' \in {"reading", "answering", "closed"} /\ request' \in Requests
      /\ call' \in [step : {"outside", "headers", "body"},
                    headers_nsend : {0, HeadersLength}, nsend : Nat]
      /\ ready' \in BOOLEAN
      /\ phase' = "answering" =>
           /\ request'.content_length = IF IsFile' THEN request'.file ELSE PageLength
           /\ request'.total = HeadersLength + request'.content_length
  <2>1. call.nsend + n \in Nat
    BY <1>1, <1>2
  <2>2. \/ FileSent(call.nsend + n)
        \/ call' = [call EXCEPT !.nsend = call.nsend + n] /\ UNCHANGED <<phase, request, ready>>
    BY DEF Sendfile
  <2> HIDE DEF n
  <2>3. CASE FileSent(call.nsend + n)
    BY <1>1, <2>1, <2>3, TypeFileSent
  <2>4. CASE call' = [call EXCEPT !.nsend = call.nsend + n] /\ UNCHANGED <<phase, request, ready>>
    BY <2>1, <2>4 DEF ExchangeTypeOK, IsFile
  <2> QED BY <2>2, <2>3, <2>4
<1> HIDE DEF n
<1> QED BY <1>1, <1>2, <1>3, <1>4, <1>5 DEF ExchangeTypeOK

LEMMA TypeStops ==
  ASSUME ExchangeTypeOK, CallInv, SendfileStops \/ CallFails
  PROVE  ExchangeTypeOK'
<1>1. phase = "answering" /\ call.nsend \in Nat
  BY DEF ExchangeTypeOK, CallInv, SendfileStops, CallFails
<1>2. FileSent(call.nsend) \/ Returns(-1, request, ready)
  BY DEF SendfileStops, CallFails
<1>3. /\ phase' \in {"reading", "answering", "closed"} /\ request' \in Requests
      /\ call' \in [step : {"outside", "headers", "body"},
                    headers_nsend : {0, HeadersLength}, nsend : Nat]
      /\ ready' \in BOOLEAN
      /\ phase' = "answering" =>
           /\ request'.content_length = IF IsFile' THEN request'.file ELSE PageLength
           /\ request'.total = HeadersLength + request'.content_length
  BY <1>1, <1>2, TypeFileSent
<1>4. /\ UNCHANGED <<offset, room, due>> /\ errno' \in {"EAGAIN", "other"}
      /\ full' \in BOOLEAN /\ alive' \in BOOLEAN /\ intact' \in BOOLEAN /\ cut' \in BOOLEAN
  BY DEF SendfileStops, CallFails, ExchangeTypeOK
<1> QED BY <1>3, <1>4 DEF ExchangeTypeOK

LEMMA TypeRequestArrives ==
  ASSUME ExchangeTypeOK, NEW file \in FileLengths \cup {NoFile}, RequestArrives(file)
  PROVE  ExchangeTypeOK'
<1> DEFINE length == IF file = NoFile THEN PageLength ELSE file
<1>1. /\ request \in Requests /\ length \in Nat /\ HeadersLength \in Nat
      /\ HeadersLength + length \in Nat
  BY LengthsAssumption DEF ExchangeTypeOK
<1>2. request' = [request EXCEPT !.pdata = Headers(0), !.file = file,
                                 !.content_length = length, !.total = HeadersLength + length]
  BY DEF RequestArrives
<1>3. Headers(0) \in [of : {"headers", "page"}, at : Nat]
  BY DEF Headers
<1>4. /\ request' \in Requests /\ request'.content_length = length
      /\ request'.file = file /\ request'.total = HeadersLength + length
  BY <1>1, <1>2, <1>3 DEF Requests
<1>5. /\ request'.content_length = IF IsFile' THEN request'.file ELSE PageLength
      /\ request'.total = HeadersLength + request'.content_length
  BY <1>4 DEF IsFile
<1>6. /\ phase' = "answering" /\ call' = call /\ room' = room /\ offset' = 0 /\ due' = 0
      /\ errno' \in {"EAGAIN", "other"}
  BY DEF RequestArrives
<1>7. ready' \in BOOLEAN /\ full' \in BOOLEAN /\ alive' \in BOOLEAN
  BY DEF RequestArrives, ModWrite, ExchangeTypeOK
<1>8. intact' \in BOOLEAN /\ cut' \in BOOLEAN
  BY DEF RequestArrives
<1> HIDE DEF length
<1> QED BY <1>4, <1>5, <1>6, <1>7, <1>8 DEF ExchangeTypeOK

\* The steps that leave an answer under way as it is.
Surroundings == ClientReads \/ ClientResets \/ OtherConnections \/ Writable \/ UNCHANGED exchangeVars

LEMMA TypeSurroundings ==
  ASSUME ExchangeTypeOK, Surroundings
  PROVE  ExchangeTypeOK'
<1>1. /\ UNCHANGED <<phase, request, offset, due>>
      /\ room' \in 0 .. SendBuffer /\ errno' \in {"EAGAIN", "other"}
  <2>1. CASE ClientReads
    BY <2>1, LengthsAssumption DEF ClientReads, ExchangeTypeOK
  <2>2. CASE ClientResets \/ OtherConnections \/ Writable \/ UNCHANGED exchangeVars
    BY <2>2 DEF ClientResets, OtherConnections, Writable, exchangeVars, kernelVars, ExchangeTypeOK
  <2> QED BY <2>1, <2>2 DEF Surroundings
<1>2. call' \in [step : {"outside", "headers", "body"},
                 headers_nsend : {0, HeadersLength}, nsend : Nat]
  BY OutsideType DEF Surroundings, ClientReads, ClientResets, OtherConnections, Writable,
                     exchangeVars, ExchangeTypeOK
<1>3. full' \in BOOLEAN /\ ready' \in BOOLEAN /\ alive' \in BOOLEAN
  BY DEF Surroundings, ClientReads, ClientResets, OtherConnections, Writable, exchangeVars,
         kernelVars, ExchangeTypeOK
<1>4. intact' \in BOOLEAN /\ cut' \in BOOLEAN
  BY DEF Surroundings, ClientReads, ClientResets, OtherConnections, Writable, exchangeVars,
         ExchangeTypeOK
<1>5. IsFile' <=> IsFile
  BY <1>1 DEF IsFile
<1> QED BY <1>1, <1>2, <1>3, <1>4, <1>5 DEF ExchangeTypeOK

LEMMA TypeClosed ==
  ASSUME ExchangeTypeOK, ClosedFromOutside
  PROVE  ExchangeTypeOK'
<1>1. /\ phase' = "closed" /\ request' = ResetRequest
      /\ UNCHANGED <<offset, call, errno, room, due>>
  BY DEF ClosedFromOutside
<1>2. /\ ready' \in BOOLEAN /\ full' \in BOOLEAN /\ alive' \in BOOLEAN
      /\ intact' \in BOOLEAN /\ cut' \in BOOLEAN
  BY DEF ClosedFromOutside, ExchangeTypeOK
<1> QED BY <1>1, <1>2, ResetType DEF ExchangeTypeOK

-----------------------------------------------------------------------------
(***************************************************************************)
(* The invariant.                                                          *)
(***************************************************************************)

Rest == CallInv /\ AnswerInv /\ SentInOrder /\ EventIsDue

LEMMA CallOutside ==
  ASSUME call' = Outside
  PROVE  CallInv'
BY DEF CallInv, Outside

\* Nothing is claimed of a response that is over, or that was cut.
LEMMA RestOver ==
  ASSUME call' = Outside, phase' # "answering", SentInOrder'
  PROVE  Rest'
BY CallOutside DEF Rest, AnswerInv, EventIsDue

LEMMA RestCut ==
  ASSUME CallInv', cut'
  PROVE  Rest'
BY DEF Rest, AnswerInv, EventIsDue, SentInOrder

LEMMA RestSendHeaders ==
  ASSUME ExchangeInv, SendHeaders
  PROVE  Rest'
<1> DEFINE n == Least(HeadersLength, room)
<1>0. ExchangeTypeOK /\ CallInv /\ AnswerInv /\ SentInOrder
  BY DEF ExchangeInv
<1>1. /\ call.step = "headers" /\ phase = "answering" /\ request.is_headers_sent = FALSE
      /\ call.nsend = 0 /\ n \in Nat /\ n <= HeadersLength /\ HeadersLength \in Nat \ {0}
      /\ request \in Requests /\ request.content_length \in Nat
      /\ request.total = HeadersLength + request.content_length
      /\ request.content_length = IF IsFile THEN request.file ELSE PageLength
  BY <1>0, LengthsAssumption, LeastType DEF SendHeaders, CallInv, ExchangeTypeOK, Requests
<1>2. CASE n < HeadersLength
  <2>1. cut'
    BY <1>2 DEF SendHeaders
  <2>2. Returns(n, [request EXCEPT !.pdata.at = @ + n], ready)
    BY <1>2 DEF SendHeaders
  <2>3. call' = Outside
    BY <2>2 DEF Returns
  <2> QED BY <2>1, <2>3, RestCut, CallOutside
<1>3. CASE ~(n < HeadersLength)
  <2>1. n = HeadersLength
    BY <1>1, <1>3
  <2>2. /\ call' = [call EXCEPT !.step = "body", !.headers_nsend = HeadersLength]
        /\ request' = AfterHeaders(request) /\ phase' = phase /\ offset' = offset
    <3> HIDE DEF n
    <3>1. /\ call' = [call EXCEPT !.step = "body", !.headers_nsend = n]
          /\ request' = AfterHeaders(request) /\ phase' = phase /\ offset' = offset
      BY <1>3 DEF SendHeaders, n
    <3> QED BY <2>1, <3>1
  <2>3. cut' <=> cut
    BY <1>3 DEF SendHeaders
  <2>4. /\ call'.step = "body" /\ call'.headers_nsend = HeadersLength /\ call'.nsend = 0
        /\ request'.is_headers_sent = TRUE /\ request'.pdata = Page(0)
        /\ request'.nsend = request.nsend /\ request'.file = request.file
        /\ request'.content_length = request.content_length
    BY <1>0, <1>1, <2>2 DEF ExchangeTypeOK, AfterHeaders, Requests
  <2>5. CallInv' /\ EventIsDue'
    <3>1. call' # Outside
      BY <2>4 DEF Outside
    <3> QED BY <1>1, <2>2, <2>4, <3>1 DEF CallInv, EventIsDue
  <2>6. CASE cut
    BY <2>3, <2>5, <2>6, RestCut
  <2>7. CASE ~cut
    <3>1. NotYet /\ intact
      BY <1>0, <1>1, <2>7 DEF AnswerInv, Booked, SentInOrder
    <3>2. Account(Position(request.pdata), n, HeadersLength)
      BY DEF SendHeaders
    <3>3. Position(request.pdata) = 0
      BY <1>1, <3>1 DEF NotYet, Position, Headers
    <3>4. due = 0 /\ due + n <= HeadersLength
      BY <1>1, <2>1, <3>1 DEF NotYet
    <3>5. intact' /\ due' = due + n
      BY <1>0, <1>1, <3>1, <3>2, <3>3, <3>4, AccountType
    <3>6. IsFile' <=> IsFile
      BY <2>4 DEF IsFile
    <3>7. FileSoFar'
      BY <1>1, <2>1, <2>2, <2>4, <3>1, <3>4, <3>5 DEF FileSoFar, NotYet
    <3>8. PageNext'
      BY <1>1, <2>1, <2>4, <3>1, <3>4, <3>5 DEF PageNext, NotYet
    <3>9. Booked'
      BY <2>4, <3>7, <3>8 DEF Booked
    <3> QED BY <2>5, <3>5, <3>9 DEF Rest, AnswerInv, SentInOrder
  <2> QED BY <2>6, <2>7
<1> QED BY <1>2, <1>3

LEMMA RestSendPage ==
  ASSUME ExchangeInv, SendPage
  PROVE  Rest'
<1> DEFINE n == Least(request.content_length, room)
<1>0. ExchangeTypeOK /\ CallInv /\ AnswerInv /\ SentInOrder
  BY DEF ExchangeInv
<1>1. /\ phase = "answering" /\ request.is_headers_sent = TRUE
      /\ request \in Requests /\ request.content_length = PageLength
      /\ request.total = HeadersLength + PageLength
      /\ HeadersLength \in Nat /\ PageLength \in Nat \ {0}
      /\ n \in Nat /\ n <= PageLength
  <2>1. /\ phase = "answering" /\ request.is_headers_sent = TRUE /\ ~IsFile
        /\ request \in Requests /\ room \in 0 .. SendBuffer
    BY <1>0 DEF SendPage, CallInv, ExchangeTypeOK
  <2>2. request.content_length = PageLength /\ request.total = HeadersLength + PageLength
    BY <1>0, <2>1 DEF ExchangeTypeOK
  <2>3. room \in Nat /\ HeadersLength \in Nat /\ PageLength \in Nat \ {0}
    BY <2>1, LengthsAssumption
  <2> QED BY <2>1, <2>2, <2>3, LeastType
<1>2. CallInv'
  <2>1. call' = Outside
    BY DEF SendPage, Returns
  <2> QED BY <2>1, CallOutside
<1>3. CASE n < request.content_length
  <2>1. cut'
    BY <1>3 DEF SendPage
  <2> QED BY <1>2, <2>1, RestCut
<1>4. CASE ~(n < request.content_length) /\ cut
  <2>1. cut'
    BY <1>4 DEF SendPage
  <2> QED BY <1>2, <2>1, RestCut
<1>5. CASE ~(n < request.content_length) /\ ~cut
  <2>1. n = PageLength
    BY <1>1, <1>5
  <2>2. PageNext /\ intact
    <3>1. ~IsFile /\ Booked /\ intact
      BY <1>0, <1>1, <1>5 DEF AnswerInv, SendPage, SentInOrder
    <3> QED BY <1>1, <3>1 DEF Booked
  <2>3. Returns(n + call.headers_nsend, request, ready)
    BY <1>5 DEF SendPage
  <2>4. request.nsend + (n + call.headers_nsend) = request.total
    BY <1>1, <2>1, <2>2 DEF PageNext
  <2>5. n + call.headers_nsend \in Nat /\ n + call.headers_nsend # -1
    BY <1>1, <2>1, <2>2 DEF PageNext
  <2> HIDE DEF n
  <2>6. phase' = "reading" /\ call' = Outside
    BY <1>1, <2>3, <2>4, <2>5, ReturnsCases
  <2>7. intact'
    <3>1. Account(Position(request.pdata), n, HeadersLength + PageLength)
      BY DEF SendPage, n
    <3>2. Position(request.pdata) = HeadersLength
      BY <1>1, <2>2 DEF PageNext, Position, Page
    <3>3. due = HeadersLength /\ due + n <= HeadersLength + PageLength
      BY <1>1, <2>1, <2>2 DEF PageNext
    <3> QED BY <1>0, <1>1, <2>2, <3>1, <3>2, <3>3, AccountType
  <2> QED BY <2>6, <2>7, RestOver DEF SentInOrder
<1> QED BY <1>3, <1>4, <1>5

LEMMA RestSendfile ==
  ASSUME ExchangeInv, Sendfile
  PROVE  Rest'
<1> DEFINE left == request.content_length - offset
           n == Least(left, room)
<1>0. ExchangeTypeOK /\ CallInv /\ AnswerInv /\ SentInOrder
  BY DEF ExchangeInv
<1>1. /\ phase = "answering" /\ call.step = "body" /\ IsFile
      /\ request.is_headers_sent = TRUE
      /\ request \in Requests /\ request.content_length \in Nat /\ request.nsend \in Nat
      /\ request.total = HeadersLength + request.content_length
      /\ offset \in Nat /\ HeadersLength \in Nat /\ call.nsend \in Nat
      /\ call.headers_nsend \in Nat
  BY <1>0, LengthsAssumption DEF Sendfile, CallInv, ExchangeTypeOK, Requests
<1>2. n \in Nat /\ n > 0 /\ n <= left
  <2>1. n > 0 /\ room \in Nat
    BY <1>0, LengthsAssumption DEF Sendfile, ExchangeTypeOK
  <2> QED BY <1>1, <2>1 DEF Least
<1>3. /\ offset' = offset + n
      /\ \/ call.nsend + n = request.content_length /\ FileSent(call.nsend + n)
         \/ /\ call' = [call EXCEPT !.nsend = call.nsend + n]
            /\ UNCHANGED <<phase, request>>
  BY DEF Sendfile
<1>4. cut' <=> cut
  BY DEF Sendfile
<1>5. CallInv'
  <2>1. CASE FileSent(call.nsend + n)
    BY <2>1, CallOutside DEF FileSent, Returns
  <2>2. CASE call' = [call EXCEPT !.nsend = call.nsend + n] /\ UNCHANGED <<phase, request>>
    <3>1. call'.step = "body"
      BY <1>0, <1>1, <2>2 DEF ExchangeTypeOK
    <3> QED BY <1>1, <2>2, <3>1 DEF CallInv
  <2> QED BY <1>3, <2>1, <2>2
<1>6. CASE cut
  BY <1>4, <1>5, <1>6, RestCut
<1>7. CASE ~cut
  <2>1. FileSoFar /\ intact
    <3>1. Booked /\ intact
      BY <1>0, <1>1, <1>7 DEF AnswerInv, SentInOrder
    <3> QED BY <1>1, <3>1 DEF Booked
  <2>2. due' = due + n /\ intact'
    <3>1. Account(HeadersLength + offset, n, HeadersLength + request.content_length)
      BY DEF Sendfile
    <3>2. due = HeadersLength + offset /\ due + n <= HeadersLength + request.content_length
      BY <1>1, <1>2, <2>1 DEF FileSoFar
    <3> HIDE DEF n
    <3> QED BY <1>0, <1>2, <2>1, <3>1, <3>2, AccountType
  <2>3. CASE call.nsend + n = request.content_length /\ FileSent(call.nsend + n)
    <3> DEFINE ret == call.nsend + n + call.headers_nsend
    <3>1. ret \in Nat /\ ret # -1 /\ Returns(ret, request, ready)
      BY <1>1, <1>2, <2>3 DEF FileSent
    <3>2. request.nsend + ret = request.total
      BY <1>1, <1>2, <2>1, <2>3 DEF FileSoFar
    <3> HIDE DEF ret
    <3>3. phase' = "reading" /\ call' = Outside
      BY <1>1, <3>1, <3>2, ReturnsCases
    <3> QED BY <2>2, <3>3, RestOver DEF SentInOrder
  <2>4. CASE call' = [call EXCEPT !.nsend = call.nsend + n] /\ UNCHANGED <<phase, request>>
    <3>1. /\ call'.step = "body" /\ call'.headers_nsend = call.headers_nsend
          /\ call'.nsend = call.nsend + n
      BY <1>0, <1>1, <2>4 DEF ExchangeTypeOK
    <3>2. FileSoFar'
      BY <1>1, <1>2, <1>3, <2>1, <2>2, <2>4, <3>1 DEF FileSoFar
    <3>3. IsFile'
      BY <1>1, <2>4 DEF IsFile
    <3>4. Booked'
      BY <1>1, <2>4, <3>1, <3>2, <3>3 DEF Booked
    <3>5. call' # Outside
      BY <3>1 DEF Outside
    <3> QED BY <1>5, <2>2, <3>4, <3>5 DEF Rest, AnswerInv, SentInOrder, EventIsDue
  <2> QED BY <1>3, <2>3, <2>4
<1> QED BY <1>6, <1>7

LEMMA RestStops ==
  ASSUME ExchangeInv, SendfileStops \/ CallFails
  PROVE  Rest'
<1>0. ExchangeTypeOK /\ CallInv /\ AnswerInv /\ SentInOrder
  BY DEF ExchangeInv
<1>1. /\ phase = "answering" /\ request \in Requests /\ request.content_length \in Nat
      /\ request.nsend \in Nat /\ request.total = HeadersLength + request.content_length
      /\ offset \in Nat /\ HeadersLength \in Nat /\ call.nsend \in Nat
      /\ call.headers_nsend \in Nat
  BY <1>0, LengthsAssumption DEF SendfileStops, CallFails, CallInv, ExchangeTypeOK, Requests
<1>2. SentInOrder' /\ (cut' <=> cut) /\ (intact' <=> intact)
  BY <1>0 DEF SendfileStops, CallFails, SentInOrder
<1>3. CASE Returns(-1, request, ready)
  <2>1. phase' = "closed" /\ call' = Outside
    BY <1>1, <1>3, ReturnsCases
  <2> QED BY <1>2, <2>1, RestOver
<1>4. CASE SendfileStops /\ FileSent(call.nsend) /\ call.nsend > 0
  <2> DEFINE ret == call.nsend + call.headers_nsend
  <2>1. ret \in Nat /\ ret # -1 /\ Returns(ret, request, ready)
    BY <1>1, <1>4 DEF FileSent
  <2>2. /\ call' = Outside
        /\ \/ phase' = "reading"
           \/ /\ request.nsend + ret # request.total /\ phase' = phase
              /\ request' = [request EXCEPT !.nsend = @ + ret]
    <3> HIDE DEF ret
    <3> QED BY <1>1, <2>1, ReturnsCases
  <2>3. CASE phase' = "reading"
    BY <1>2, <2>2, <2>3, RestOver
  <2>4. CASE cut
    BY <1>2, <2>2, <2>4, RestCut, CallOutside
  <2>5. CASE /\ ~cut /\ request.nsend + ret # request.total /\ phase' = phase
             /\ request' = [request EXCEPT !.nsend = @ + ret]
    <3>1. FileSoFar /\ request.is_headers_sent = TRUE /\ IsFile
      <4>1. Booked /\ request.is_headers_sent = TRUE /\ IsFile
        BY <1>0, <1>1, <1>4, <2>5 DEF AnswerInv, SendfileStops, CallInv
      <4> QED BY <4>1 DEF Booked
    <3>2. /\ request'.nsend = request.nsend + ret /\ request'.total = request.total
          /\ request'.content_length = request.content_length
          /\ request'.is_headers_sent = TRUE /\ request'.file = request.file
      BY <1>1, <2>5, <3>1 DEF Requests
    <3>3. offset' = offset /\ due' = due
      BY <1>4 DEF SendfileStops
    <3>4. due = request.nsend + ret /\ due < request.total /\ offset < request.content_length
      BY <1>1, <2>5, <3>1 DEF FileSoFar
    <3>5. full'
      BY <1>1, <1>4, <3>4 DEF SendfileStops
    <3>6. FileSoFar'
      BY <1>1, <2>2, <3>1, <3>2, <3>3, <3>4 DEF FileSoFar, Outside
    <3>7. IsFile'
      BY <3>1, <3>2 DEF IsFile
    <3>8. Booked'
      BY <3>2, <3>4, <3>6, <3>7 DEF Booked
    <3> QED BY <1>2, <2>2, <3>5, <3>8, CallOutside DEF Rest, AnswerInv, EventIsDue
  <2> QED BY <2>2, <2>3, <2>4, <2>5
<1>5. \/ Returns(-1, request, ready)
      \/ SendfileStops /\ FileSent(call.nsend) /\ call.nsend > 0
  BY DEF SendfileStops, CallFails, FileSent
<1> QED BY <1>3, <1>4, <1>5

LEMMA RestRequestArrives ==
  ASSUME ExchangeInv, NEW file \in FileLengths \cup {NoFile}, RequestArrives(file)
  PROVE  Rest'
<1> DEFINE length == IF file = NoFile THEN PageLength ELSE file
<1>0. ExchangeTypeOK /\ FreshInv
  BY DEF ExchangeInv
<1>1. request = ResetRequest /\ length \in Nat /\ HeadersLength \in Nat \ {0} /\ room \in Nat
  BY <1>0, LengthsAssumption DEF FreshInv, RequestArrives, ExchangeTypeOK
<1>2. request' = [request EXCEPT !.pdata = Headers(0), !.file = file,
                                 !.content_length = length, !.total = HeadersLength + length]
  BY DEF RequestArrives
<1>3. /\ request'.is_headers_sent = FALSE /\ request'.pdata = Headers(0)
      /\ request'.nsend = 0 /\ request'.total = HeadersLength + length
  <2> HIDE DEF length
  <2> QED BY <1>1, <1>2 DEF ResetRequest
<1>4. offset' = 0 /\ due' = 0 /\ call' = Outside /\ phase' = "answering"
  BY DEF RequestArrives
<1>5. Booked'
  BY <1>1, <1>3, <1>4 DEF Booked, NotYet, Outside
<1>6. EventIsDue'
  <2>1. room > 0 \/ room = 0
    BY <1>1
  <2>2. ready' \/ full'
    BY <2>1 DEF RequestArrives, ModWrite
  <2> QED BY <2>2 DEF EventIsDue
<1>7. SentInOrder'
  BY DEF RequestArrives, SentInOrder
<1> QED BY <1>4, <1>5, <1>6, <1>7, CallOutside DEF Rest, AnswerInv

\* Nothing that is sent is kept anywhere but in these.
LEMMA RestSame ==
  ASSUME ExchangeInv, UNCHANGED <<phase, request, offset, call, due, intact, cut>>
  PROVE  CallInv' /\ AnswerInv' /\ SentInOrder'
<1>1. CallInv'
  BY DEF ExchangeInv, CallInv
<1>2. SentInOrder'
  BY DEF ExchangeInv, SentInOrder
<1>3. AnswerInv'
  <2>1. AnswerInv /\ (IsFile' <=> IsFile) /\ (cut' <=> cut)
    BY DEF ExchangeInv, IsFile
  <2>2. (NotYet' <=> NotYet) /\ (FileSoFar' <=> FileSoFar) /\ (PageNext' <=> PageNext)
    BY DEF NotYet, FileSoFar, PageNext
  <2>3. Booked' <=> Booked
    BY <2>1, <2>2 DEF Booked
  <2> QED BY <2>1, <2>3 DEF AnswerInv
<1> QED BY <1>1, <1>2, <1>3

LEMMA RestClientReads ==
  ASSUME ExchangeInv, ClientReads
  PROVE  Rest'
<1>1. UNCHANGED <<phase, request, offset, call, due, intact, cut>>
  BY DEF ClientReads
<1>2. EventIsDue'
  <2>1. EventIsDue /\ ready' = (ready \/ (full /\ phase = "answering"))
    BY DEF ExchangeInv, ClientReads
  <2>2. ASSUME phase' = "answering", call' = Outside, ~cut' PROVE ready'
    <3>1. phase = "answering" /\ (ready \/ full)
      BY <1>1, <2>1, <2>2 DEF EventIsDue
    <3> QED BY <2>1, <3>1
  <2> QED BY <2>2 DEF EventIsDue
<1> QED BY <1>1, <1>2, RestSame DEF Rest

LEMMA RestClientResets ==
  ASSUME ExchangeInv, ClientResets
  PROVE  Rest'
<1>1. UNCHANGED <<phase, request, offset, call, due, intact, cut>>
  BY DEF ClientResets
<1>2. EventIsDue'
  BY <1>1 DEF EventIsDue, ClientResets
<1> QED BY <1>1, <1>2, RestSame DEF Rest

LEMMA RestIdle ==
  ASSUME ExchangeInv, OtherConnections \/ UNCHANGED exchangeVars
  PROVE  Rest'
<1>1. UNCHANGED <<phase, request, offset, call, due, intact, cut>>
  BY DEF OtherConnections, exchangeVars
<1>2. (ready' <=> ready) /\ (full' <=> full)
  BY DEF OtherConnections, exchangeVars, kernelVars
<1>3. EventIsDue'
  BY <1>1, <1>2 DEF ExchangeInv, EventIsDue
<1> QED BY <1>1, <1>3, RestSame DEF Rest

LEMMA RestWritable ==
  ASSUME ExchangeInv, Writable
  PROVE  Rest'
<1>0. ExchangeTypeOK /\ AnswerInv /\ SentInOrder
  BY DEF ExchangeInv
<1>1. /\ UNCHANGED <<phase, request, offset, due>> /\ phase = "answering" /\ call = Outside
      /\ (cut' <=> cut) /\ (intact' <=> intact)
  BY DEF Writable
<1>2. request.is_headers_sent \in BOOLEAN
  BY <1>0 DEF ExchangeTypeOK, Requests
<1>3. /\ call'.step = IF request.is_headers_sent THEN "body" ELSE "headers"
      /\ call'.headers_nsend = 0 /\ call'.nsend = 0
  BY DEF Writable, Outside
<1>4. CallInv' /\ EventIsDue'
  <2>1. call'.step # "outside"
    BY <1>2, <1>3
  <2>2. call' # Outside
    BY <2>1 DEF Outside
  <2> QED BY <1>1, <1>2, <1>3, <2>2 DEF CallInv, EventIsDue
<1>5. SentInOrder'
  BY <1>0, <1>1 DEF SentInOrder
<1>6. ASSUME ~cut' PROVE Booked'
  <2>1. Booked /\ (IsFile' <=> IsFile)
    BY <1>0, <1>1, <1>6 DEF AnswerInv, IsFile
  <2>2. call.step = "outside" /\ call.headers_nsend = 0 /\ call.nsend = 0
    BY <1>1 DEF Outside
  <2>3. CASE request.is_headers_sent = FALSE
    BY <1>1, <1>3, <2>1, <2>3 DEF Booked, NotYet
  <2>4. CASE request.is_headers_sent = TRUE
    <3>1. IsFile /\ FileSoFar
      BY <2>1, <2>2, <2>4 DEF Booked, PageNext
    <3>2. FileSoFar'
      BY <1>1, <1>3, <2>2, <3>1 DEF FileSoFar
    <3> QED BY <1>1, <1>3, <2>1, <2>4, <3>1, <3>2 DEF Booked
  <2> QED BY <1>2, <2>3, <2>4
<1>7. AnswerInv'
  BY <1>6 DEF AnswerInv
<1> QED BY <1>4, <1>5, <1>7 DEF Rest

LEMMA RestClosed ==
  ASSUME ExchangeInv, ClosedFromOutside
  PROVE  Rest'
<1>1. SentInOrder
  BY DEF ExchangeInv
<1>2. call' = Outside /\ phase' # "answering" /\ (cut' <=> cut) /\ (intact' <=> intact)
  BY DEF ClosedFromOutside
<1>3. SentInOrder'
  BY <1>1, <1>2 DEF SentInOrder
<1> QED BY <1>2, <1>3, RestOver

-----------------------------------------------------------------------------
\* lmvs_response leaves the request clean when it ends the exchange.
LEMMA FreshReturns ==
  ASSUME phase = "answering", NEW ret, NEW req, NEW event, Returns(ret, req, event)
  PROVE  FreshInv'
BY DEF Returns, FreshInv

LEMMA FreshResponse ==
  ASSUME CallInv, Response
  PROVE  FreshInv'
<1>1. phase = "answering"
  BY DEF CallInv, Response, CallFails, SendHeaders, SendPage, Sendfile, SendfileStops
<1>2. CASE UNCHANGED phase
  BY <1>1, <1>2 DEF FreshInv
<1>3. \/ UNCHANGED phase
      \/ \E ret, req : Returns(ret, req, ready)
  <2>1. CASE SendHeaders
    BY <2>1 DEF SendHeaders
  <2>2. CASE SendPage
    BY <2>2 DEF SendPage
  <2>3. CASE Sendfile
    BY <2>3 DEF Sendfile, FileSent
  <2>4. CASE SendfileStops
    BY <2>4 DEF SendfileStops, FileSent
  <2>5. CASE CallFails
    BY <2>5 DEF CallFails
  <2> QED BY <2>1, <2>2, <2>3, <2>4, <2>5 DEF Response
<1> QED BY <1>1, <1>2, <1>3, FreshReturns

LEMMA FreshSurroundings ==
  ASSUME FreshInv, Surroundings
  PROVE  FreshInv'
<1>1. UNCHANGED <<phase, request>>
  BY DEF Surroundings, ClientReads, ClientResets, OtherConnections, Writable, exchangeVars
<1> QED BY <1>1 DEF FreshInv

-----------------------------------------------------------------------------
(***************************************************************************)
(* The theorems.                                                           *)
(***************************************************************************)

LEMMA ExchangeStart == ExchangeInit => ExchangeInv
<1> SUFFICES ASSUME ExchangeInit PROVE ExchangeInv
  OBVIOUS
<1>1. ExchangeTypeOK
  <2>1. /\ phase = "reading" /\ request = ResetRequest /\ offset = 0 /\ call = Outside
        /\ errno \in {"EAGAIN", "other"} /\ room = SendBuffer /\ due = 0
    BY DEF ExchangeInit
  <2>2. /\ full \in BOOLEAN /\ ready \in BOOLEAN /\ alive \in BOOLEAN
        /\ intact \in BOOLEAN /\ cut \in BOOLEAN
    BY DEF ExchangeInit
  <2> QED BY <2>1, <2>2, LengthsAssumption, ResetType, OutsideType DEF ExchangeTypeOK
<1>2. CallInv /\ FreshInv /\ AnswerInv
  BY DEF ExchangeInit, CallInv, FreshInv, AnswerInv, Outside
<1>3. SentInOrder /\ EventIsDue
  BY DEF ExchangeInit, SentInOrder, EventIsDue
<1> QED BY <1>1, <1>2, <1>3 DEF ExchangeInv

LEMMA ExchangeStep == ExchangeInv /\ [ExchangeNext]_exchangeVars => ExchangeInv'
<1> SUFFICES ASSUME ExchangeInv, [ExchangeNext]_exchangeVars PROVE ExchangeInv'
  OBVIOUS
<1>0. ExchangeTypeOK /\ CallInv /\ FreshInv
  BY DEF ExchangeInv
<1>1. CASE Response
  <2>1. ExchangeTypeOK'
    BY <1>0, <1>1, TypeSendHeaders, TypeSendPage, TypeSendfile, TypeStops DEF Response
  <2>2. FreshInv'
    BY <1>0, <1>1, FreshResponse
  <2>3. Rest'
    BY <1>1, RestSendHeaders, RestSendPage, RestSendfile, RestStops DEF Response
  <2> QED BY <2>1, <2>2, <2>3 DEF ExchangeInv, Rest
<1>2. CASE Surroundings
  <2>1. ExchangeTypeOK'
    BY <1>0, <1>2, TypeSurroundings
  <2>2. FreshInv'
    BY <1>0, <1>2, FreshSurroundings
  <2>3. Rest'
    BY <1>2, RestClientReads, RestClientResets, RestIdle, RestWritable DEF Surroundings
  <2> QED BY <2>1, <2>2, <2>3 DEF ExchangeInv, Rest
<1>3. ASSUME NEW file \in FileLengths \cup {NoFile}, RequestArrives(file)
      PROVE  ExchangeInv'
  <2>1. ExchangeTypeOK' /\ Rest'
    BY <1>0, <1>3, TypeRequestArrives, RestRequestArrives
  <2>2. FreshInv'
    BY <1>3 DEF RequestArrives, FreshInv
  <2> QED BY <2>1, <2>2 DEF ExchangeInv, Rest
<1>4. CASE ClosedFromOutside
  <2>1. ExchangeTypeOK' /\ Rest'
    BY <1>0, <1>4, TypeClosed, RestClosed
  <2>2. FreshInv'
    BY <1>4 DEF ClosedFromOutside, FreshInv
  <2> QED BY <2>1, <2>2 DEF ExchangeInv, Rest
<1> QED BY <1>1, <1>2, <1>3, <1>4 DEF ExchangeNext, Surroundings

THEOREM ExchangeInductive == ExchangeSpec => []ExchangeInv
BY ExchangeStart, ExchangeStep, PTL DEF ExchangeSpec

\* The variables have their types, and the lengths of a request agree.
THEOREM ExchangeTypeCorrect == ExchangeSpec => []ExchangeTypeOK
<1>1. ExchangeInv => ExchangeTypeOK
  BY DEF ExchangeInv
<1> QED BY <1>1, ExchangeInductive, PTL

\* Every byte lmvs_response sends is the next of the response, unless a send of
\* the headers or the page was short.
THEOREM ResponsesInOrder == ExchangeSpec => []SentInOrder
<1>1. ExchangeInv => SentInOrder
  BY DEF ExchangeInv
<1> QED BY <1>1, ExchangeInductive, PTL

\* The sum lmvs_el_io_loop keeps is the number of bytes that went out.
THEOREM CountIsExact == ExchangeSpec => []CountsWhatIsSent
<1>1. ExchangeInv => CountsWhatIsSent
  <2> SUFFICES ASSUME ExchangeInv, phase = "answering", call = Outside, ~cut
               PROVE  request.nsend = due
    BY DEF CountsWhatIsSent
  <2>1. /\ Booked /\ call.step = "outside" /\ call.headers_nsend = 0 /\ call.nsend = 0
        /\ request.is_headers_sent \in BOOLEAN /\ request.nsend \in Nat
    BY DEF ExchangeInv, AnswerInv, Outside, ExchangeTypeOK, Requests
  <2>2. CASE request.is_headers_sent = FALSE
    BY <2>1, <2>2 DEF Booked, NotYet
  <2>3. CASE request.is_headers_sent = TRUE
    BY <2>1, <2>3 DEF Booked, FileSoFar, PageNext
  <2> QED BY <2>1, <2>2, <2>3
<1> QED BY <1>1, ExchangeInductive, PTL

\* A response that has not ended never waits for an event that will not come.
THEOREM AlwaysAnEventDue == ExchangeSpec => []EventIsDue
<1>1. ExchangeInv => EventIsDue
  BY DEF ExchangeInv
<1> QED BY <1>1, ExchangeInductive, PTL

-----------------------------------------------------------------------------
(***************************************************************************)
(* Exchange implements Delivery.                                           *)
(***************************************************************************)

\* A step of lmvs_response, as the client sees it: it sends on, ends the response
\* with the last byte, or gives the connection up; after a short send it may end
\* it anywhere.
Forward ==
  /\ phase = "answering"
  /\ due' \in Nat /\ due' >= due
  /\ cut => cut'
  /\ \/ /\ phase' = "answering" /\ request'.total = request.total
        /\ cut \/ due' <= request.total
     \/ /\ phase' = "reading"
        /\ cut \/ (~cut' /\ due' = request.total)
     \/ /\ phase' = "closed" /\ due' = due
        /\ cut' <=> cut

LEMMA ForwardSendHeaders ==
  ASSUME ExchangeInv, SendHeaders
  PROVE  Forward
<1> DEFINE n == Least(HeadersLength, room)
<1>0. ExchangeTypeOK /\ CallInv /\ AnswerInv
  BY DEF ExchangeInv
<1>1. /\ phase = "answering" /\ request.is_headers_sent = FALSE
      /\ n \in Nat /\ n <= HeadersLength /\ HeadersLength \in Nat /\ due \in Nat
      /\ request \in Requests /\ request.content_length \in Nat /\ request.pdata.at \in Nat
      /\ request.total = HeadersLength + request.content_length
  BY <1>0, LengthsAssumption, LeastType DEF SendHeaders, CallInv, ExchangeTypeOK, Requests
<1>2. due' = due + n /\ due' \in Nat /\ due' >= due
  <2>1. Account(Position(request.pdata), n, HeadersLength)
    BY DEF SendHeaders
  <2> HIDE DEF n
  <2> QED BY <1>1, <2>1 DEF Account
<1>3. cut => cut'
  BY DEF SendHeaders
<1>4. ASSUME ~cut PROVE due = 0 /\ request.nsend = 0
  BY <1>0, <1>1, <1>4 DEF AnswerInv, Booked, NotYet
<1>5. CASE n < HeadersLength
  <2> DEFINE req == [request EXCEPT !.pdata.at = @ + n]
  <2>1. Returns(n, req, ready)
    BY <1>5 DEF SendHeaders
  <2>2. /\ req \in Requests /\ req.total = request.total /\ req.nsend = request.nsend
    BY <1>1 DEF Requests
  <2> HIDE DEF n, req
  <2>3. \/ req.nsend + n = req.total /\ phase' = "reading"
        \/ phase' = phase /\ request' = [req EXCEPT !.nsend = @ + n]
    BY <1>1, <2>1, <2>2, ReturnsCases
  <2>4. CASE cut
    <3>1. \/ phase' = "reading"
          \/ phase' = "answering" /\ request'.total = request.total
      BY <1>1, <2>2, <2>3 DEF Requests
    <3> QED BY <1>1, <1>2, <1>3, <2>4, <3>1 DEF Forward
  <2>5. CASE ~cut
    <3>1. phase' = "answering" /\ request' = [req EXCEPT !.nsend = @ + n]
      BY <1>1, <1>4, <1>5, <2>2, <2>3, <2>5
    <3>2. request'.total = request.total
      BY <2>2, <3>1 DEF Requests
    <3>3. due' <= request.total
      BY <1>1, <1>2, <1>4, <2>5
    <3> QED BY <1>1, <1>2, <1>3, <3>1, <3>2, <3>3 DEF Forward
  <2> QED BY <2>4, <2>5
<1>6. CASE ~(n < HeadersLength)
  <2>1. request' = AfterHeaders(request) /\ phase' = phase
    BY <1>6 DEF SendHeaders
  <2>2. request'.total = request.total
    BY <1>1, <2>1 DEF AfterHeaders, Requests
  <2>3. cut \/ due' <= request.total
    BY <1>1, <1>2, <1>4
  <2> QED BY <1>1, <1>2, <1>3, <2>1, <2>2, <2>3 DEF Forward
<1> QED BY <1>5, <1>6

LEMMA ForwardSendPage ==
  ASSUME ExchangeInv, SendPage
  PROVE  Forward
<1> DEFINE n == Least(request.content_length, room)
           req == [request EXCEPT !.pdata.at = @ + n]
<1>0. ExchangeTypeOK /\ CallInv /\ AnswerInv
  BY DEF ExchangeInv
<1>1. /\ phase = "answering" /\ request.is_headers_sent = TRUE /\ ~IsFile
      /\ n \in Nat /\ n <= request.content_length /\ HeadersLength \in Nat /\ due \in Nat
      /\ request \in Requests /\ request.content_length \in Nat /\ request.pdata.at \in Nat
      /\ request.total = HeadersLength + request.content_length
      /\ call.headers_nsend \in Nat
  BY <1>0, LengthsAssumption, LeastType DEF SendPage, CallInv, ExchangeTypeOK, Requests
<1>2. due' = due + n /\ due' \in Nat /\ due' >= due
  <2>1. Account(Position(request.pdata), n, HeadersLength + PageLength)
    BY DEF SendPage
  <2> HIDE DEF n
  <2> QED BY <1>1, <2>1 DEF Account
<1>3. cut => cut'
  BY DEF SendPage
<1>4. ASSUME ~cut PROVE due = HeadersLength /\ request.nsend = 0 /\ call.headers_nsend = HeadersLength
  BY <1>0, <1>1, <1>4 DEF AnswerInv, Booked, PageNext
<1>5. /\ req \in Requests /\ req.total = request.total /\ req.nsend = request.nsend
  BY <1>1 DEF Requests
<1>6. \/ n < request.content_length /\ Returns(n, req, ready)
      \/ /\ n = request.content_length /\ Returns(n + call.headers_nsend, request, ready)
         /\ cut' <=> cut
  <2>1. CASE n < request.content_length
    BY <2>1 DEF SendPage
  <2>2. CASE ~(n < request.content_length)
    <3>1. n = request.content_length
      BY <1>1, <2>2
    <3>2. Returns(n + call.headers_nsend, request, ready) /\ (cut' <=> cut)
      BY <2>2 DEF SendPage
    <3> QED BY <3>1, <3>2
  <2> QED BY <2>1, <2>2
<1> HIDE DEF n, req
<1>7. CASE n < request.content_length /\ Returns(n, req, ready)
  <2>1. \/ req.nsend + n = req.total /\ phase' = "reading"
        \/ phase' = phase /\ request' = [req EXCEPT !.nsend = @ + n]
    BY <1>1, <1>5, <1>7, ReturnsCases
  <2>2. CASE cut
    <3>1. \/ phase' = "reading"
          \/ phase' = "answering" /\ request'.total = request.total
      BY <1>1, <1>5, <2>1 DEF Requests
    <3> QED BY <1>1, <1>2, <1>3, <2>2, <3>1 DEF Forward
  <2>3. CASE ~cut
    <3>1. phase' = "answering" /\ request' = [req EXCEPT !.nsend = @ + n]
      BY <1>1, <1>4, <1>5, <1>7, <2>1, <2>3
    <3>2. request'.total = request.total
      BY <1>5, <3>1 DEF Requests
    <3>3. due' <= request.total
      BY <1>1, <1>2, <1>4, <2>3
    <3> QED BY <1>1, <1>2, <1>3, <3>1, <3>2, <3>3 DEF Forward
  <2> QED BY <2>2, <2>3
<1>8. CASE /\ n = request.content_length /\ Returns(n + call.headers_nsend, request, ready)
           /\ cut' <=> cut
  <2>1. n + call.headers_nsend \in Nat /\ n + call.headers_nsend # -1
    BY <1>1
  <2>2. \/ request.nsend + (n + call.headers_nsend) = request.total /\ phase' = "reading"
        \/ /\ request.nsend + (n + call.headers_nsend) # request.total
           /\ phase' = phase /\ request' = [request EXCEPT !.nsend = @ + (n + call.headers_nsend)]
    BY <1>1, <1>8, <2>1, ReturnsCases
  <2>3. CASE cut
    <3>1. \/ phase' = "reading"
          \/ phase' = "answering" /\ request'.total = request.total
      BY <1>1, <2>2 DEF Requests
    <3> QED BY <1>1, <1>2, <1>3, <2>3, <3>1 DEF Forward
  <2>4. CASE ~cut
    <3>1. phase' = "reading" /\ due' = request.total
      BY <1>1, <1>2, <1>4, <1>8, <2>2, <2>4
    <3>2. ~cut'
      BY <1>8, <2>4
    <3> QED BY <1>1, <1>2, <1>3, <3>1, <3>2 DEF Forward
  <2> QED BY <2>3, <2>4
<1> QED BY <1>6, <1>7, <1>8

LEMMA ForwardSendfile ==
  ASSUME ExchangeInv, Sendfile
  PROVE  Forward
<1> DEFINE left == request.content_length - offset
           n == Least(left, room)
           ret == call.nsend + n + call.headers_nsend
<1>0. ExchangeTypeOK /\ CallInv /\ AnswerInv
  BY DEF ExchangeInv
<1>1. /\ phase = "answering" /\ request.is_headers_sent = TRUE /\ IsFile
      /\ HeadersLength \in Nat /\ due \in Nat /\ offset \in Nat
      /\ request \in Requests /\ request.content_length \in Nat
      /\ request.total = HeadersLength + request.content_length
      /\ call.headers_nsend \in Nat /\ call.nsend \in Nat /\ request.nsend \in Nat
  BY <1>0, LengthsAssumption DEF Sendfile, CallInv, ExchangeTypeOK, Requests
<1>2. n \in Nat /\ n > 0 /\ n <= left
  <2>1. n > 0 /\ room \in Nat
    BY <1>0, LengthsAssumption DEF Sendfile, ExchangeTypeOK
  <2> QED BY <1>1, <2>1 DEF Least
<1>3. due' = due + n /\ due' \in Nat /\ due' >= due
  <2>1. Account(HeadersLength + offset, n, HeadersLength + request.content_length)
    BY DEF Sendfile
  <2> HIDE DEF n
  <2> QED BY <1>1, <1>2, <2>1 DEF Account
<1>4. cut' <=> cut
  BY DEF Sendfile
<1>5. ASSUME ~cut
      PROVE  FileSoFar /\ due' <= request.total
  <2>1. FileSoFar
    BY <1>0, <1>1, <1>5 DEF AnswerInv, Booked
  <2> QED BY <1>1, <1>2, <1>3, <2>1 DEF FileSoFar
<1>6. \/ call.nsend + n = request.content_length /\ FileSent(call.nsend + n)
      \/ UNCHANGED <<phase, request>>
  BY DEF Sendfile
<1>7. CASE UNCHANGED <<phase, request>>
  BY <1>1, <1>3, <1>4, <1>5, <1>7 DEF Forward
<1>8. CASE call.nsend + n = request.content_length /\ FileSent(call.nsend + n)
  <2>1. ret \in Nat /\ ret # -1 /\ Returns(ret, request, ready)
    BY <1>1, <1>2, <1>8 DEF FileSent
  <2>2. ASSUME ~cut PROVE request.nsend + ret = request.total /\ due' = request.total
    BY <1>1, <1>2, <1>3, <1>5, <1>8, <2>2 DEF FileSoFar
  <2> HIDE DEF ret
  <2>3. \/ request.nsend + ret = request.total /\ phase' = "reading"
        \/ /\ request.nsend + ret # request.total
           /\ phase' = phase /\ request' = [request EXCEPT !.nsend = @ + ret]
    BY <1>1, <2>1, ReturnsCases
  <2>4. CASE cut
    <3>1. \/ phase' = "reading"
          \/ phase' = "answering" /\ request'.total = request.total
      BY <1>1, <2>3 DEF Requests
    <3> QED BY <1>1, <1>3, <1>4, <2>4, <3>1 DEF Forward
  <2>5. CASE ~cut
    BY <1>1, <1>3, <1>4, <2>2, <2>3, <2>5 DEF Forward
  <2> QED BY <2>4, <2>5
<1> QED BY <1>6, <1>7, <1>8

LEMMA ForwardStops ==
  ASSUME ExchangeInv, SendfileStops \/ CallFails
  PROVE  Forward
<1> DEFINE ret == call.nsend + call.headers_nsend
<1>0. ExchangeTypeOK /\ CallInv /\ AnswerInv
  BY DEF ExchangeInv
<1>1. /\ phase = "answering" /\ due \in Nat /\ offset \in Nat /\ HeadersLength \in Nat
      /\ request \in Requests /\ request.content_length \in Nat
      /\ request.total = HeadersLength + request.content_length
      /\ call.headers_nsend \in Nat /\ call.nsend \in Nat /\ request.nsend \in Nat
  BY <1>0, LengthsAssumption DEF SendfileStops, CallFails, CallInv, ExchangeTypeOK, Requests
<1>2. due' = due /\ due' \in Nat /\ due' >= due /\ (cut' <=> cut)
  BY <1>1 DEF SendfileStops, CallFails
<1>3. CASE Returns(-1, request, ready)
  <2>1. phase' = "closed"
    BY <1>1, <1>3, ReturnsCases
  <2> QED BY <1>1, <1>2, <2>1 DEF Forward
<1>4. CASE SendfileStops /\ FileSent(call.nsend) /\ call.nsend > 0
  <2>1. ret \in Nat /\ ret # -1 /\ Returns(ret, request, ready)
    BY <1>1, <1>4 DEF FileSent
  <2>2. ASSUME ~cut PROVE due = request.nsend + ret /\ due <= request.total
    <3>1. request.is_headers_sent = TRUE /\ IsFile
      BY <1>0, <1>4 DEF SendfileStops, CallInv
    <3>2. FileSoFar
      BY <1>0, <1>1, <2>2, <3>1 DEF AnswerInv, Booked
    <3> QED BY <1>1, <3>2 DEF FileSoFar
  <2> HIDE DEF ret
  <2>3. \/ request.nsend + ret = request.total /\ phase' = "reading"
        \/ phase' = phase /\ request' = [request EXCEPT !.nsend = @ + ret]
    BY <1>1, <2>1, ReturnsCases
  <2>4. \/ request.nsend + ret = request.total /\ phase' = "reading"
        \/ phase' = "answering" /\ request'.total = request.total
    BY <1>1, <2>3 DEF Requests
  <2> QED BY <1>1, <1>2, <2>2, <2>4 DEF Forward
<1>5. \/ Returns(-1, request, ready)
      \/ SendfileStops /\ FileSent(call.nsend) /\ call.nsend > 0
  BY DEF SendfileStops, CallFails, FileSent
<1> QED BY <1>3, <1>4, <1>5

LEMMA ForwardDelivers ==
  ASSUME ExchangeInv, ExchangeInv', Forward
  PROVE  Client!DeliveryNext
<1>1. /\ phase = "answering" /\ due \in Nat /\ due' \in Nat /\ due' >= due
      /\ request.total \in Nat /\ request'.total \in Nat
  BY DEF Forward, ExchangeInv, ExchangeTypeOK, Requests
<1>2. cut \in BOOLEAN /\ cut' \in BOOLEAN
  BY DEF ExchangeInv, ExchangeTypeOK
<1>3. CASE phase' = "closed" /\ due' = due /\ (cut' <=> cut)
  <2>1. Client!Abandon
    BY <1>1, <1>2, <1>3 DEF Client!Abandon
  <2> QED BY <2>1 DEF Client!DeliveryNext
<1>4. CASE cut /\ phase' \in {"answering", "reading"}
  <2>1. cut'
    BY <1>4 DEF Forward
  <2>2. (IF phase' = "answering" THEN request'.total ELSE due') \in Nat
    BY <1>1
  <2>3. Client!Stray
    BY <1>1, <1>4, <2>1, <2>2 DEF Client!Stray
  <2> QED BY <2>3 DEF Client!DeliveryNext
<1>5. CASE ~cut /\ phase' = "answering"
  <2>1. request'.total = request.total /\ due' <= request.total
    BY <1>5 DEF Forward
  <2>2. due' \in due .. request.total
    BY <1>1, <2>1
  <2>3. Client!Deliver
    BY <1>1, <1>2, <1>5, <2>1, <2>2 DEF Client!Deliver
  <2> QED BY <2>3 DEF Client!DeliveryNext
<1>6. CASE ~cut /\ phase' = "reading"
  <2>1. ~cut' /\ due' = request.total
    BY <1>6 DEF Forward
  <2>2. cut' = cut
    BY <1>2, <1>6, <2>1
  <2>3. Client!Finish
    BY <1>1, <1>6, <2>1, <2>2 DEF Client!Finish
  <2> QED BY <2>3 DEF Client!DeliveryNext
<1> QED BY <1>3, <1>4, <1>5, <1>6 DEF Forward

LEMMA ArrivalAsks ==
  ASSUME ExchangeInv, NEW file \in FileLengths \cup {NoFile}, RequestArrives(file)
  PROVE  Client!Ask
<1> DEFINE length == IF file = NoFile THEN PageLength ELSE file
<1>1. /\ phase = "reading" /\ phase' = "answering" /\ due' = 0 /\ cut' = FALSE
      /\ request' = [request EXCEPT !.pdata = Headers(0), !.file = file,
                         !.content_length = length, !.total = HeadersLength + length]
  BY DEF RequestArrives
<1>2. request \in Requests
  BY DEF ExchangeInv, ExchangeTypeOK
<1>3. request'.total = HeadersLength + length
  <2> HIDE DEF length
  <2> QED BY <1>1, <1>2 DEF Requests
<1>4. length \in FileLengths \cup {PageLength}
  OBVIOUS
<1> HIDE DEF length
<1>5. HeadersLength + length \in {0} \cup {HeadersLength + k : k \in FileLengths \cup {PageLength}}
  BY <1>4
<1> QED BY <1>1, <1>3, <1>5 DEF Client!Ask

LEMMA ExchangeDelivers ==
  ASSUME ExchangeInv, ExchangeInv', [ExchangeNext]_exchangeVars
  PROVE  [Client!DeliveryNext]_Client!deliveryVars
<1>1. CASE Response
  BY <1>1, ForwardSendHeaders, ForwardSendPage, ForwardSendfile, ForwardStops, ForwardDelivers
     DEF Response
<1>2. CASE Surroundings
  <2>1. UNCHANGED <<phase, request, due>>
    BY <1>2 DEF Surroundings, ClientReads, ClientResets, OtherConnections, Writable, exchangeVars
  <2>2. cut' = cut
    BY <1>2 DEF Surroundings, ClientReads, ClientResets, OtherConnections, Writable, exchangeVars
  <2> QED BY <2>1, <2>2 DEF Client!deliveryVars
<1>3. ASSUME NEW file \in FileLengths \cup {NoFile}, RequestArrives(file)
      PROVE  Client!DeliveryNext
  BY <1>3, ArrivalAsks DEF Client!DeliveryNext
<1>4. CASE ClosedFromOutside
  <2>1. phase # "closed" /\ phase' = "closed" /\ due' = due
    BY <1>4 DEF ClosedFromOutside
  <2>2. cut' = cut
    BY <1>4 DEF ClosedFromOutside
  <2>3. Client!Abandon
    BY <2>1, <2>2 DEF Client!Abandon
  <2> QED BY <2>3 DEF Client!DeliveryNext
<1> QED BY <1>1, <1>2, <1>3, <1>4 DEF ExchangeNext, Surroundings

\* To its client, the connection delivers one whole response after the other:
\* every step of Exchange is one of Delivery or leaves it alone.
THEOREM ExchangeImplementsDelivery == ExchangeSpec => DeliversResponses
<1>1. ExchangeInit => Client!DeliveryInit
  BY DEF ExchangeInit, Client!DeliveryInit
<1>2. ExchangeInv /\ ExchangeInv' /\ [ExchangeNext]_exchangeVars
        => [Client!DeliveryNext]_Client!deliveryVars
  BY ExchangeDelivers
<1> QED BY <1>1, <1>2, ExchangeInductive, PTL
        DEF ExchangeSpec, DeliversResponses, Client!DeliverySpec
=============================================================================
