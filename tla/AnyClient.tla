----------------------------- MODULE AnyClient ------------------------------
(***************************************************************************)
(* Gateway facing any FIX client: one that makes up its own ClOrdIDs,      *)
(* repeats them, names orders that do not exist, and mixes up contracts.   *)
(***************************************************************************)
EXTENDS Gateway

CONSTANT MaxSent       \* bound: requests the client sends

ASSUME AnyClientAssumption == MaxSent \in Nat

VARIABLE sent              \* how many it has sent

\* The client does not react to replies here, so that one request under way
\* at a time shows everything: a longer queue only delays it.
Send ==
    /\ gw = "open" /\ inbox = <<>>
    /\ sent < MaxSent
    /\ sent' = sent + 1
    /\ \E m \in Request : inbox' = <<m>>
    /\ UNCHANGED <<ids, orders, quote, gw, out, accepted, refused, executed>>

\* writer_loop takes the next message and writes it.
Write ==
    /\ out # <<>>
    /\ out' = Tail(out)
    /\ UNCHANGED <<ids, orders, quote, gw, inbox, accepted, refused, executed, sent>>

AnyInit == GatewayInit("open", <<>>) /\ sent = 0

AnyNext ==
    \/ Send \/ Write
    \/ /\ EngineStep \/ ReadRequest
       /\ UNCHANGED sent

AnySpec == AnyInit /\ [][AnyNext]_<<gateway, sent>>

=============================================================================
