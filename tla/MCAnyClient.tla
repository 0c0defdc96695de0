---------------------------- MODULE MCAnyClient -----------------------------
(* ClOrdIDs of a client that does not count them, for gateway.cfg. *)
EXTENDS AnyClient

\* Two ways to write the number 1, and a word.
Names == {"1", "01", "a"}

AsNumber == [w \in Names |-> IF w = "a" THEN 0 ELSE 1]
=============================================================================
