------------------------------ MODULE Framing ------------------------------
(***************************************************************************)
(* FrameReader (fix/frame.rs): takes FIX frames off a byte stream that     *)
(* arrives in pieces of any size, between read timeouts.                   *)
(*                                                                         *)
(* A byte is a record: the BeginString field "8", the BodyLength field "9" *)
(* with its value, the separator "soh", a body byte "x", a byte no body    *)
(* may hold "y", and the trailer "10" with the right sum or "11" with a    *)
(* wrong one.  Fields of several bytes shrink to one.  The sizes that the  *)
(* reader decides by are constants.                                        *)
(***************************************************************************)
EXTENDS Integers, Sequences, SequencesExt, FiniteSets

CONSTANTS
    MaxPrefix,    \* MAX_PREFIX_SIZE
    MaxMessage,   \* MAX_MESSAGE_SIZE
    MinBody,      \* the least BodyLength
    MaxRead,      \* the size of the read buffer
    MaxFrames     \* bound: frames the peer sends

\* A head of four bytes is within the prefix, and the longest good frame that
\* the peer writes within the message.
ASSUME FramingAssumption ==
    /\ {MaxMessage, MaxRead, MinBody} \subseteq Nat \ {0}
    /\ MaxPrefix \in Nat /\ MaxPrefix > 4
    /\ MaxMessage >= MinBody + 6
    /\ MaxFrames \in Nat

VARIABLES
    sent,       \* the peer: the frames it wrote,
    net,        \* bytes of them on their way,
    eof,        \* it has closed its end,
    torn,       \* and did so in the middle of what was on its way
    pending,    \* FrameReader.pending
    total,      \* FrameReader.total, 0 for None
    delivered,  \* the messages read_message returned
    reader      \* where the connection loop is

framing == <<sent, net, eof, torn, pending, total, delivered, reader>>

Byte(k, n) == [k |-> k, n |-> n]
B(k) == Byte(k, 0)
Head4(n) == <<B("8"), B("soh"), Byte("9", n), B("soh")>>
Body(n) == [i \in 1..n |-> B("x")]

GoodFrame == {"one", "two"}

\* What a peer may write: frames of two sizes, and every way to be refused.
Frames == [
    one      |-> Head4(MinBody) \o Body(MinBody) \o <<B("10")>>,
    two      |-> Head4(MinBody + 1) \o Body(MinBody + 1) \o <<B("10")>>,
    begin    |-> <<B("x"), B("soh"), Byte("9", MinBody), B("soh")>> \o Body(MinBody) \o <<B("10")>>,
    length   |-> <<B("8"), B("soh"), B("x"), B("soh")>> \o Body(MinBody) \o <<B("10")>>,
    endless  |-> <<B("8"), B("soh")>> \o Body(MaxPrefix - 2),
    huge     |-> Head4(MaxMessage - 4) \o Body(1),
    empty    |-> Head4(MinBody - 1) \o Body(MinBody - 1) \o <<B("10")>>,
    text     |-> Head4(MinBody) \o Body(MinBody - 1) \o <<B("y"), B("10")>>,
    sum      |-> Head4(MinBody) \o Body(MinBody) \o <<B("11")>>,
    more     |-> Head4(MinBody) \o Body(MinBody + 1) \o <<B("10")>>,
    fewer    |-> Head4(MinBody + 1) \o Body(MinBody) \o <<B("10")>> ]

FramingInit ==
    /\ sent = <<>> /\ net = <<>> /\ eof = FALSE /\ torn = FALSE
    /\ pending = <<>> /\ total = 0
    /\ delivered = <<>>
    /\ reader = "loop"

-----------------------------------------------------------------------------
(* The peer *)

\* A wrong frame is the last that matters, except one that swallows bytes of
\* the next.
Send(f) ==
    /\ ~eof
    /\ \A i \in DOMAIN sent : sent[i] \in GoodFrame \cup {"fewer"}
    /\ Len(sent) < MaxFrames
    /\ sent' = Append(sent, f)
    /\ net' = net \o Frames[f]
    /\ UNCHANGED <<eof, torn, pending, total, delivered, reader>>

\* The stream ends, after all of what is on its way or after a part of it.
HangUp ==
    /\ ~eof
    /\ eof' = TRUE
    /\ \E k \in 0..Len(net) :
        /\ net' = SubSeq(net, 1, k)
        /\ torn' = (k < Len(net))
    /\ UNCHANGED <<sent, pending, total, delivered, reader>>

-----------------------------------------------------------------------------
(* read_message *)

Separators(p) == {i \in DOMAIN p : p[i].k = "soh"}

\* Both length fields are there.
HeadDone(p) == Cardinality(Separators(p)) >= 2

\* Where the second of them ends.
HeadEnd(p) == CHOOSE i \in Separators(p) :
                Cardinality({j \in Separators(p) : j < i}) = 1

TotalOf(p) == HeadEnd(p) + p[HeadEnd(p) - 1].n + 1

HeadRefused(p) ==
    IF HeadDone(p)
    THEN \/ p[1].k # "8" \/ p[HeadEnd(p) - 1].k # "9"
         \/ TotalOf(p) > MaxMessage
         \/ p[HeadEnd(p) - 1].n < MinBody
    ELSE Len(p) >= MaxPrefix

\* parse_wire: the trailer is where the length says, its sum is right, and the
\* body is text with the type first.
Parses(p) ==
    /\ p[Len(p)].k = "10"
    /\ \A i \in (HeadEnd(p) + 1)..(Len(p) - 1) : p[i].k = "x"

\* Mutant of Kept: every call makes a decoder of its own, as the function
\* read_message does.
KeptNot == [pending |-> <<>>, total |-> 0]

\* The decoder outlives the call that timed out.
Kept == [pending |-> pending, total |-> total]

\* The loop calls read_message.
Call ==
    /\ reader = "loop"
    /\ reader' = "reading"
    /\ pending' = Kept.pending /\ total' = Kept.total
    /\ UNCHANGED <<sent, net, eof, torn, delivered>>

\* Mutant of Want: the last byte of the frame is not counted.
WantShort == IF total = 0 THEN 1
             ELSE IF total - Len(pending) - 1 < MaxRead THEN total - Len(pending) - 1
             ELSE MaxRead

\* A byte at a time in the head of a frame, then no more than the frame.
Want == IF total = 0 THEN 1
        ELSE IF total - Len(pending) < MaxRead THEN total - Len(pending) ELSE MaxRead

\* What becomes of the bytes read so far.
Examine(p) ==
    LET t == IF total # 0 THEN total ELSE IF HeadDone(p) THEN TotalOf(p) ELSE 0
        done == t # 0 /\ Len(p) = t
    IN  \/ /\ total = 0 /\ HeadRefused(p)
           /\ pending' = p /\ reader' = "invalid"
           /\ UNCHANGED <<total, delivered>>
        \/ /\ ~(total = 0 /\ HeadRefused(p)) /\ done /\ Parses(p)
           /\ delivered' = Append(delivered, p)
           /\ pending' = <<>> /\ total' = 0 /\ reader' = "message"
        \/ /\ ~(total = 0 /\ HeadRefused(p)) /\ done /\ ~Parses(p)
           /\ pending' = p /\ total' = t /\ reader' = "invalid"
           /\ UNCHANGED delivered
        \/ /\ ~(total = 0 /\ HeadRefused(p)) /\ ~done
           /\ pending' = p /\ total' = t
           /\ UNCHANGED <<delivered, reader>>

ReadBytes ==
    /\ reader = "reading"
    /\ \E n \in 1..Want :
        /\ n <= Len(net)
        /\ Examine(pending \o SubSeq(net, 1, n))
        /\ net' = SubSeq(net, n + 1, Len(net))
    /\ UNCHANGED <<sent, eof, torn>>

\* The end of the stream: between frames, or inside one.
ReadEnd ==
    /\ reader = "reading"
    /\ net = <<>> /\ eof
    /\ reader' = IF pending = <<>> THEN "end" ELSE "broken"
    /\ UNCHANGED <<sent, net, eof, torn, pending, total, delivered>>

\* The socket has nothing for SOCKET_POLL: the call fails, the loop looks at
\* its deadlines and calls again.
TimeOut ==
    /\ reader = "reading"
    /\ reader' = "loop"
    /\ UNCHANGED <<sent, net, eof, torn, pending, total, delivered>>

-----------------------------------------------------------------------------
(* Properties *)

AllGood(i) == \A j \in 1..i : sent[j] \in GoodFrame

Written(i) == FlattenSeq([j \in 1..i |-> Frames[sent[j]]])

\* The connection loop gets the frames the peer wrote, each once, whole and in
\* its order, up to the first that is wrong; no frame is refused but a wrong
\* one; the stream ends inside a frame only when the peer left it so
\* (read_message, under every split of the bytes and every timeout).
FramesInOrder ==
    /\ Len(delivered) <= Len(sent)
    /\ AllGood(Len(delivered))
    /\ \A i \in DOMAIN delivered : delivered[i] = Frames[sent[i]]
    /\ IsPrefix(FlattenSeq(delivered) \o pending, Written(Len(sent)))
    /\ reader = "invalid" =>
        Len(delivered) < Len(sent) /\ sent[Len(delivered) + 1] \notin GoodFrame
    /\ reader = "broken" => torn \/ ~AllGood(Len(sent))

\* Every good frame that is not behind a wrong one reaches the loop, unless the
\* peer broke off.
FramesDelivered ==
    \A i \in 1..MaxFrames :
        (Len(sent) >= i /\ AllGood(i)) ~> (Len(delivered) >= i \/ torn)
=============================================================================
