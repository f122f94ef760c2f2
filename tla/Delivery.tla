------------------------------ MODULE Delivery ------------------------------
(***************************************************************************)
(* What a client is promised of a connection that is kept alive: the       *)
(* responses to its requests, one after the other, each from its first     *)
(* byte to its last and none of them twice, until the connection is        *)
(* closed.  How many bytes go out at a time is not said.                   *)
(***************************************************************************)
EXTENDS Naturals

CONSTANT Totals     \* how long a response may be

VARIABLES
  phase,      \* "reading" a request, "answering" it, or "closed"
  sent,       \* how much of the response the client has been sent
  total,      \* how long the response is
  given_up    \* is nothing promised of this response any more?

deliveryVars == <<phase, sent, total, given_up>>

DeliveryInit == phase = "reading" /\ sent = 0 /\ total = 0 /\ ~given_up

Ask ==
  /\ phase = "reading" /\ phase' = "answering"
  /\ sent' = 0
  /\ total' \in Totals
  /\ ~given_up'

\* The next bytes, if any, of the response.
Deliver ==
  /\ phase = "answering" /\ UNCHANGED phase
  /\ ~given_up /\ given_up' \in BOOLEAN
  /\ sent' \in sent .. total
  /\ UNCHANGED total

\* A response is at its end when the last byte has been sent, and not before.
Finish ==
  /\ phase = "answering" /\ phase' = "reading"
  /\ ~given_up
  /\ sent' = total
  /\ UNCHANGED <<total, given_up>>

\* The connection is closed: what has been sent is all there will be.
Abandon ==
  /\ phase # "closed" /\ phase' = "closed"
  /\ total' = sent
  /\ UNCHANGED <<sent, given_up>>

\* From here to the next request nothing is promised.
Stray ==
  /\ phase = "answering" /\ phase' \in {"answering", "reading"}
  /\ given_up /\ given_up'
  /\ sent' \in Nat /\ total' \in Nat

DeliveryNext == Ask \/ Deliver \/ Finish \/ Abandon \/ Stray

DeliverySpec == DeliveryInit /\ [][DeliveryNext]_deliveryVars
=============================================================================
