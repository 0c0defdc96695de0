----------------------------- MODULE Sequencing -----------------------------
(***************************************************************************)
(* Inbound sequence numbers of a FIX session: SequenceState and the part   *)
(* of the connection loop that drives it (fix/session.rs).  The acceptor   *)
(* and the initiator run the same loop; here it is the acceptor's.         *)
(*                                                                         *)
(* The counterparty is the environment: it numbers its messages, delivers  *)
(* them in order over TCP except for numbers that it used without getting  *)
(* them through, and answers every ResendRequest, either by resending what *)
(* it sent or by one SequenceReset-GapFill over the whole range.           *)
(***************************************************************************)
EXTENDS Integers, Sequences, FiniteSets

CONSTANTS
    Kind,          \* the kinds of messages this counterparty sends
    MaxFirst,      \* bound: the number its Logon may carry
    MaxSeq,        \* bound: messages it sends
    MaxLost,       \* bound: numbers it uses without delivering them
    MaxRepeated,   \* bound: messages it repeats although the protocol forbids it
    MaxQueued      \* MAX_QUEUED_MESSAGES

ASSUME SequencingAssumption ==
    /\ Kind \subseteq {"app", "admin", "bad", "reset", "badreset"}
    /\ MaxFirst \in 1..MaxSeq
    /\ MaxSeq \in Nat /\ MaxLost \in Nat /\ MaxRepeated \in Nat
    /\ MaxQueued \in Nat \ {0}

VARIABLES
    sent,          \* kind of each number the counterparty has used
    lost,          \* how many of them it did not deliver
    repeated,      \* how many messages it repeated without PossDupFlag
    abandoned,     \* numbers it has declared void by a reset or a gap fill
    wire,          \* the TCP stream to us
    requests,      \* BeginSeqNo of the ResendRequests it has not answered
    expected,      \* SequenceState.expected
    queued,        \* SequenceState.queued
    resend_from,   \* SequenceState.resend_from, 0 for None
    handed,        \* numbers handed to the application, in order
    closed         \* why the loop ended with a Logout, "no" while it runs

peer == <<sent, lost, repeated, abandoned>>
vars == <<sent, lost, repeated, abandoned, wire, requests, expected, queued, resend_from,
          handed, closed>>

\* "app" is a business message, "admin" a session message that is not replayed,
\* "bad" a message codec::decode refuses; "gapfill", "reset" and "badreset" are
\* SequenceResets: GapFillFlag=Y, none, and none with a field decode refuses.
Msg == [seq : Nat, kind : {"app", "admin", "bad", "gapfill", "reset", "badreset"},
        dup : BOOLEAN, new : Nat]

Resets == {"reset", "badreset"}

Plain(n, kind) ==
    [seq |-> n, kind |-> kind, dup |-> FALSE,
     new |-> IF kind \in Resets THEN n + 1 ELSE 0]

GapFill(n, new) == [seq |-> n, kind |-> "gapfill", dup |-> TRUE, new |-> new]

-----------------------------------------------------------------------------
(* The counterparty *)

Send(kind) ==
    /\ closed = "no"
    /\ Len(sent) < MaxSeq
    /\ sent' = Append(sent, kind)
    /\ wire' = Append(wire, Plain(Len(sent) + 1, kind))
    /\ abandoned' = IF kind = "reset" THEN 1..(Len(sent) + 1) ELSE abandoned
    /\ UNCHANGED <<lost, repeated, requests, expected, queued, resend_from, handed,
                   closed>>

\* A number is used up, and a message that is worth resending does not arrive.
Lose(kind) ==
    /\ closed = "no"
    /\ Len(sent) < MaxSeq
    /\ lost < MaxLost
    /\ kind \notin Resets
    /\ sent' = Append(sent, kind)
    /\ lost' = lost + 1
    /\ UNCHANGED <<repeated, abandoned, wire, requests, expected, queued,
                   resend_from, handed, closed>>

\* A counterparty that breaks the protocol uses a number a second time.
Repeat(n) ==
    /\ closed = "no"
    /\ repeated < MaxRepeated
    /\ n <= Len(sent)
    /\ wire' = Append(wire, Plain(n, sent[n]))
    /\ repeated' = repeated + 1
    /\ UNCHANGED <<sent, lost, abandoned, requests, expected, queued, resend_from,
                   handed, closed>>

\* What goes out for number n when the range is resent.
Again(n) ==
    IF sent[n] \in {"app", "bad"} THEN [Plain(n, sent[n]) EXCEPT !.dup = TRUE]
                                  ELSE GapFill(n, n + 1)

Resend ==
    /\ closed = "no"
    /\ requests # <<>>
    /\ LET from == Head(requests)
       IN  wire' = wire \o [k \in 1..(Len(sent) + 1 - from) |-> Again(from + k - 1)]
    /\ requests' = Tail(requests)
    /\ UNCHANGED <<peer, expected, queued, resend_from, handed, closed>>

Fill ==
    /\ closed = "no"
    /\ requests # <<>>
    /\ LET from == Head(requests)
       IN  /\ from <= Len(sent)
           /\ wire' = Append(wire, GapFill(from, Len(sent) + 1))
           /\ abandoned' = abandoned \cup (from..Len(sent))
    /\ requests' = Tail(requests)
    /\ UNCHANGED <<sent, lost, repeated, expected, queued, resend_from, handed, closed>>

-----------------------------------------------------------------------------
(* SequenceState *)

\* take_ready, then the stream.
Ready == {m \in queued : m.seq = expected}

Incoming == IF Ready # {} THEN CHOOSE m \in Ready : TRUE ELSE Head(wire)

\* The loop runs and has a message; it leaves its queue or the stream.
Take ==
    /\ closed = "no"
    /\ Ready # {} \/ wire # <<>>
    /\ wire' = IF Ready # {} THEN wire ELSE Tail(wire)

Kept == queued \ Ready

\* classify: a SequenceReset that does not wait for its turn: a reset, or a gap
\* fill that starts below the expected number and ends above it.
Overrides(m) ==
    \/ m.kind \in Resets
    \/ m.kind = "gapfill" /\ m.dup /\ m.seq < expected /\ m.new > expected

\* Mutant of Due: a low number is taken for the expected one.
DueLow(m) == Overrides(m) \/ m.seq <= expected

\* classify returns Ready.
Due(m) == Overrides(m) \/ m.seq = expected

\* classify returns Duplicate: nothing else happens.
Duplicate ==
    /\ Take
    /\ ~Due(Incoming) /\ Incoming.seq < expected /\ Incoming.dup
    /\ queued' = Kept
    /\ UNCHANGED <<peer, requests, expected, resend_from, handed, closed>>

\* classify fails: MsgSeqNum too low.
TooLow ==
    /\ Take
    /\ ~Due(Incoming) /\ Incoming.seq < expected /\ ~Incoming.dup
    /\ closed' = "low"
    /\ queued' = Kept
    /\ UNCHANGED <<peer, requests, expected, resend_from, handed>>

\* classify returns Gap: the message waits, and the first one asks for the range.
Gap ==
    /\ Take
    /\ ~Due(Incoming) /\ Incoming.seq > expected
    /\ Cardinality(Kept) < MaxQueued
    /\ queued' = IF \E m \in Kept : m.seq = Incoming.seq
                 THEN Kept ELSE Kept \cup {Incoming}
    /\ resend_from' = IF resend_from = 0 THEN expected ELSE resend_from
    /\ requests' = IF resend_from = 0 THEN Append(requests, expected) ELSE requests
    /\ UNCHANGED <<peer, expected, handed, closed>>

\* classify fails: too many messages wait.
TooMany ==
    /\ Take
    /\ ~Due(Incoming) /\ Incoming.seq > expected
    /\ Cardinality(Kept) >= MaxQueued
    /\ closed' = "full"
    /\ queued' = Kept
    /\ UNCHANGED <<peer, requests, expected, resend_from, handed>>

\* decode fails: one number is consumed, whatever number the message has.
Reject ==
    /\ Take
    /\ Due(Incoming) /\ Incoming.kind \in {"bad", "badreset"}
    /\ expected' = expected + 1
    /\ queued' = Kept
    /\ UNCHANGED <<peer, requests, resend_from, handed, closed>>

\* Mutant of Cleared: a request stays open for good.
ClearedNever(to) == resend_from

\* The end of advance: once past the number it started from, the request is
\* answered.
Cleared(to) == IF resend_from # 0 /\ to > resend_from THEN 0 ELSE resend_from

\* advance over an ordinary message, which is then handled.
Accept ==
    /\ Take
    /\ Due(Incoming) /\ Incoming.kind \in {"app", "admin"}
    /\ expected' = expected + 1
    /\ queued' = Kept
    /\ resend_from' = Cleared(expected + 1)
    /\ handed' = IF Incoming.kind = "app" THEN Append(handed, Incoming.seq) ELSE handed
    /\ UNCHANGED <<peer, requests, closed>>

\* Mutant of Jump: NewSeqNo is taken for the last number that is void.
JumpTooFar ==
    /\ Take
    /\ Due(Incoming) /\ Incoming.kind \in {"gapfill", "reset"}
    /\ Incoming.new > expected
    /\ expected' = Incoming.new + 1
    /\ queued' = {m \in Kept : m.seq >= Incoming.new}
    /\ resend_from' = Cleared(Incoming.new)
    /\ UNCHANGED <<peer, requests, handed, closed>>

\* advance over a SequenceReset: the queue below NewSeqNo goes.
Jump ==
    /\ Take
    /\ Due(Incoming) /\ Incoming.kind \in {"gapfill", "reset"}
    /\ Incoming.new > expected
    /\ expected' = Incoming.new
    /\ queued' = {m \in Kept : m.seq >= Incoming.new}
    /\ resend_from' = Cleared(Incoming.new)
    /\ UNCHANGED <<peer, requests, handed, closed>>

\* advance fails: NewSeqNo is not above the expected number.
JumpBack ==
    /\ Take
    /\ Due(Incoming) /\ Incoming.kind \in {"gapfill", "reset"}
    /\ Incoming.new <= expected
    /\ closed' = "newseq"
    /\ queued' = Kept
    /\ UNCHANGED <<peer, requests, expected, resend_from, handed>>

Loop ==
    \/ Duplicate \/ TooLow \/ Gap \/ TooMany \/ Reject \/ Accept \/ Jump \/ JumpBack

-----------------------------------------------------------------------------

\* handle_acceptor_connection after the Logon: a Logon numbered above 1 waits in
\* the queue and the whole range below it is asked for.
Init ==
    /\ \E first \in 1..MaxFirst :
        /\ \E before \in [1..(first - 1) -> Kind \ Resets] :
              sent = Append(before, "admin")
        /\ expected = IF first = 1 THEN 2 ELSE 1
        /\ queued = IF first = 1 THEN {} ELSE {Plain(first, "admin")}
        /\ resend_from = IF first = 1 THEN 0 ELSE 1
        /\ requests = IF first = 1 THEN <<>> ELSE <<1>>
    /\ lost = 0
    /\ repeated = 0
    /\ abandoned = {}
    /\ wire = <<>>
    /\ handed = <<>>
    /\ closed = "no"

Next ==
    \/ \E kind \in Kind : Send(kind) \/ Lose(kind)
    \/ \E n \in 1..MaxSeq : Repeat(n)
    \/ Resend \/ Fill
    \/ Loop

Spec == Init /\ [][Next]_vars

\* The connection thread keeps reading, and the counterparty answers requests.
FairSpec == Spec /\ WF_vars(Loop) /\ WF_vars(Resend \/ Fill)

-----------------------------------------------------------------------------
(* Properties *)

\* The queue, the requests and the resends amount to what Delivery promises:
\* each business message reaches the application once, in the order of the
\* counterparty's numbers, however ranges overlap, and a number is passed over
\* only when the counterparty has declared it void (classify, advance,
\* take_ready).
D == INSTANCE Delivery WITH Kind <- Kind \cup {"admin"}, void <- abandoned,
                            next <- expected, over <- closed # "no"

ImplementsDelivery == D!DeliverySpec

\* "low sequence duplicates are accepted only when PossDupFlag=Y and are never
\* replayed to the application": a business message that is about to be dropped
\* as a duplicate is one the application has had, or one the counterparty has
\* declared void (classify).
DuplicatesWereHanded ==
    closed = "no" /\ Ready = {} /\ wire # <<>> =>
        LET m == Head(wire)
        IN  m.kind = "app" /\ m.dup /\ m.seq < expected
                => m.seq \in abandoned \/ \E k \in DOMAIN handed : handed[k] = m.seq

\* A counterparty that follows the protocol is never logged out over a sequence
\* number, whatever it loses, resends, fills or resets; only a gap that grows
\* beyond the queue ends the session (classify, advance).
ConformingPeerStays == repeated = 0 => closed \in {"no", "full"}

\* A refused message has passed the number the open request begins with: only
\* advance clears resend_from, and it was not called (decode's failure in the loop).
RequestLeftOpen ==
    /\ resend_from # 0 /\ resend_from < expected
    /\ \E k \in DOMAIN sent : sent[k] = "bad"

\* A message that arrived above a gap is retained until the missing range is
\* recovered, and the range is recovered: resend_from never stands for a range
\* that is no longer asked for, unless a refused message has left it so.
GapsClose ==
    \A n \in 1..MaxSeq :
        (\E m \in queued : m.seq = n) ~> expected > n \/ closed # "no" \/ RequestLeftOpen
=============================================================================
