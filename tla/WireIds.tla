------------------------------ MODULE WireIds -------------------------------
(***************************************************************************)
(* WireIdMap of fix/session.rs: the ClOrdID strings of one connection and  *)
(* the engine's integer order ids, and back.                               *)
(***************************************************************************)
EXTENDS Integers, FiniteSetsExt

CONSTANTS
    Wire,          \* ClOrdID strings
    NoWire,        \* no string
    Numeral,       \* Numeral[w]: the positive number w parses as, or 0
    MaxOrderId     \* i32::MAX

InternalId == 1..MaxOrderId

ASSUME WireAssumption ==
    /\ NoWire \notin Wire
    /\ MaxOrderId \in Nat \ {0}
    /\ Numeral \in [Wire -> 0..MaxOrderId]

\* The two HashMaps, 0 and NoWire standing for a missing key.
WireIdMap ==
    [to_internal   : [Wire -> 0..MaxOrderId],
     to_wire       : [InternalId -> Wire \cup {NoWire}],
     next_internal : InternalId]

NoIds == [to_internal |-> [w \in Wire |-> 0],
          to_wire |-> [n \in InternalId |-> NoWire],
          next_internal |-> 1]

Free(m) == {n \in InternalId : m.to_wire[n] = NoWire}

\* Where the scan for a free id may stop; it never looks below next_internal.
Candidates(m) == {n \in Free(m) : n >= m.next_internal}

\* Mutant of Prefers: a number is kept even when it is taken.
PrefersAlways(m, w) == Numeral[w] # 0

\* A numeric ClOrdID keeps its value unless that id is already in use.
Prefers(m, w) == Numeral[w] \in Free(m)

\* intern() fails when w is new and the scan runs past i32::MAX.
CanIntern(m, w) ==
    m.to_internal[w] # 0 \/ Prefers(m, w) \/ Candidates(m) # {}

\* The id intern() answers with, when it does.
InternedId(m, w) ==
    IF m.to_internal[w] # 0 THEN m.to_internal[w]
    ELSE IF Prefers(m, w) THEN Numeral[w]
    ELSE Min(Candidates(m))

\* saturating_add(1).
After(n) == IF n = MaxOrderId THEN n ELSE n + 1

\* The map it leaves; next_internal moves only when the scan chose the id.
Intern(m, w) ==
    LET n == InternedId(m, w)
    IN  IF m.to_internal[w] # 0 THEN m
        ELSE [to_internal |-> [m.to_internal EXCEPT ![w] = n],
              to_wire |-> [m.to_wire EXCEPT ![n] = w],
              next_internal |->
                IF Prefers(m, w) THEN m.next_internal ELSE After(n)]

\* Mutant of IsFresh: a repeated ClOrdID is looked up instead of refused.
IsFreshAlways(m, w) == CanIntern(m, w)

\* fresh_id(): a ClOrdID is good for one request of the connection.
IsFresh(m, w) == m.to_internal[w] = 0 /\ CanIntern(m, w)

=============================================================================
