------------------------------ MODULE MCClient ------------------------------
(* The ClOrdIDs an Initiator makes, for client.cfg. *)
EXTENDS Client

\* Three requests: an order and two more, or three orders.
ThreeIds == 1..3

SameNumber == [w \in ThreeIds |-> w]
=============================================================================
