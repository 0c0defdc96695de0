----------------------------- MODULE MCAcceptor -----------------------------
(* Session names for the instances of Acceptor in acceptor_*.cfg. *)
EXTENDS Acceptor

CONSTANTS c1, c2, n1, n2

\* One client that connects twice, and two clients.
OneName == (c1 :> n1 @@ c2 :> n1)

TwoNames == (c1 :> n1 @@ c2 :> n2)
=============================================================================
