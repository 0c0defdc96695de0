-------------------------------- MODULE Link --------------------------------
(***************************************************************************)
(* The outgoing numbers of a FIX session and the watch over its peer       *)
(* (fix/session.rs): writer_loop, which owns the outbound number and       *)
(* answers a ResendRequest by a SequenceReset-GapFill because nothing sent *)
(* is kept, and the probe of the connection loop, a TestRequest after a    *)
(* silence and a Logout when it stays unanswered.  Both ends of a session  *)
(* run this code once they are logged on; the initiator stops probing when *)
(* it has asked for a Logout.  The id of a probe is the number expected    *)
(* next, which grows before another probe is due: here probes are counted. *)
(*                                                                         *)
(* The peer is the environment: it may fail to take in one of our frames,  *)
(* then keeps the later ones and asks for a range, open or closed; it may  *)
(* ask for any other range; it answers a TestRequest when it gets to it.   *)
(* Time is counted in ticks.  Each direction delivers what it holds within *)
(* Delay ticks, until the line is cut without either end being told.       *)
(***************************************************************************)
EXTENDS Integers, Sequences, FiniteSets

CONSTANTS
    ProbeAfter,   \* 1.2 * HeartBtInt, in ticks
    CloseAfter,   \* 2.4 * HeartBtInt, in ticks
    Delay,        \* a frame is taken in within this many ticks
    MaxSeq,       \* bound: ordinary messages we send
    MaxLost,      \* bound: frames the peer fails to take in
    MaxAsk,       \* bound: ranges it asks for without having a gap
    MaxProbes     \* bound: silences of a living peer

ASSUME LinkAssumption ==
    /\ {ProbeAfter, CloseAfter} \subseteq Nat \ {0}
    /\ {Delay, MaxSeq, MaxLost, MaxAsk, MaxProbes} \subseteq Nat
    /\ 2 * Delay < CloseAfter

VARIABLES
    plain,      \* ordinary messages queued so far
    mailbox,    \* the OutMsg queue of the writer
    seq,        \* WriterState.seq
    stream,     \* frames on their way to the peer
    inbox,      \* messages of the peer on their way to us
    silent,     \* ticks since last_received
    probe,      \* pending_test: its id, 0 for None, and the ticks to its deadline
    probes,     \* TestRequests sent
    closed,     \* the loop ended: TestRequest was not answered
    expected,   \* the peer: the number it takes next,
    held,       \* frames above it,
    asked,      \* the number it has asked from, 0 when it waits for nothing,
    ranges,     \* every range it asked for,
    void,       \* the numbers GapFills took it over,
    parked,     \* ids of the TestRequests that reached it behind a gap,
    refused,    \* it has met a number that is too low,
    lost,       \* frames it failed to take in,
    asks,       \* and ranges it asked for without a gap
    lag,        \* ticks since each direction was last empty
    cut         \* the line is dead

ours == <<plain, mailbox, seq, silent, probe, probes, closed>>
peer == <<expected, held, asked, ranges, void, parked, refused, lost, asks>>
vars == <<plain, mailbox, seq, stream, inbox, silent, probe, probes, closed,
          expected, held, asked, ranges, void, parked, refused, lost, asks, lag, cut>>

Frame == [seq : Nat, kind : {"plain", "test", "fill"}, arg : Nat]

Message(kind, arg) == [kind |-> kind, arg |-> arg, end |-> 0]

NoProbe == [id |-> 0, left |-> 0]

Init ==
    /\ plain = 0 /\ mailbox = <<>> /\ seq = 0
    /\ stream = <<>> /\ inbox = <<>>
    /\ silent = 0 /\ probe = NoProbe /\ probes = 0 /\ closed = FALSE
    /\ expected = 1 /\ held = {} /\ asked = 0 /\ ranges = {}
    /\ void = {} /\ parked = {} /\ refused = FALSE /\ lost = 0 /\ asks = 0
    /\ lag = [out |-> 0, in |-> 0]
    /\ cut = FALSE

-----------------------------------------------------------------------------
(* Our end *)

\* A report, an answer or a heartbeat for the writer.
Enqueue ==
    /\ ~closed
    /\ plain < MaxSeq
    /\ plain' = plain + 1
    /\ mailbox' = Append(mailbox, Message("plain", 0))
    /\ UNCHANGED <<seq, stream, inbox, silent, probe, probes, closed, peer, lag, cut>>

\* What the writer knows of the end of a range: 0 asks for everything, and
\* nothing beyond what was sent can be filled.
EffectiveEnd(end) == IF end = 0 \/ end > seq THEN seq ELSE end

\* Mutant of FillOf: every answer runs to the last number sent.
FillOfAll(begin, end) ==
    IF begin > EffectiveEnd(end) THEN <<>>
    ELSE <<[seq |-> begin, kind |-> "fill", arg |-> seq + 1]>>

\* Mutant of FillOf: a range of one number is taken for an empty one.
FillOfTwo(begin, end) ==
    IF begin >= EffectiveEnd(end) THEN <<>>
    ELSE <<[seq |-> begin, kind |-> "fill", arg |-> EffectiveEnd(end) + 1]>>

\* The frame that answers a ResendRequest, or none for an empty range.
FillOf(begin, end) ==
    IF begin > EffectiveEnd(end) THEN <<>>
    ELSE <<[seq |-> begin, kind |-> "fill", arg |-> EffectiveEnd(end) + 1]>>

\* writer_loop: the next OutMsg.  A GapFill takes no number.
WriterStep ==
    /\ mailbox # <<>>
    /\ LET m == Head(mailbox)
       IN  IF m.kind = "fill"
           THEN stream' = stream \o FillOf(m.arg, m.end) /\ UNCHANGED seq
           ELSE /\ seq' = seq + 1
                /\ stream' = Append(stream, [seq |-> seq + 1, kind |-> m.kind,
                                             arg |-> m.arg])
    /\ mailbox' = Tail(mailbox)
    /\ UNCHANGED <<plain, inbox, silent, probe, probes, closed, peer, lag, cut>>

\* The Heartbeat that carries the id of the probe clears it.
Answered(m) == m.kind = "answer" /\ m.arg = probe.id

\* The loop reads a message of the peer; a ResendRequest becomes a GapFill.
\* Only the answer ends the probe: other messages do not.
Read ==
    /\ ~closed
    /\ inbox # <<>>
    /\ LET m == Head(inbox)
       IN  /\ probe' = IF Answered(m) THEN NoProbe ELSE probe
           /\ mailbox' = IF m.kind = "ask"
                         THEN Append(mailbox,
                                     [kind |-> "fill", arg |-> m.arg, end |-> m.end])
                         ELSE mailbox
    /\ inbox' = Tail(inbox)
    /\ silent' = 0
    /\ UNCHANGED <<plain, seq, stream, probes, closed, peer, lag, cut>>

\* Mutant of ProbeDue: only the first silence of a session is probed.
ProbeDueOnce == inbox = <<>> /\ probes = 0 /\ silent >= ProbeAfter

\* The read times out, and the peer has been silent for too long.
ProbeDue == inbox = <<>> /\ probe = NoProbe /\ silent >= ProbeAfter

SendProbe ==
    /\ ~closed
    /\ ProbeDue
    /\ probes' = probes + 1
    /\ probe' = [id |-> probes + 1, left |-> CloseAfter]
    /\ mailbox' = Append(mailbox, Message("test", probes + 1))
    /\ UNCHANGED <<plain, seq, stream, inbox, silent, closed, peer, lag, cut>>

\* Mutant of Overdue: the deadline is 1.2 heartbeats after the probe.
OverdueEarly == probe # NoProbe /\ probe.left <= 1

Overdue == probe # NoProbe /\ probe.left = 0

\* The deadline is looked at before the stream: an answer that waits there is
\* too late.
Close ==
    /\ ~closed
    /\ Overdue
    /\ closed' = TRUE
    /\ UNCHANGED <<plain, mailbox, seq, stream, inbox, silent, probe, probes, peer,
                   lag, cut>>

-----------------------------------------------------------------------------
(* The peer *)

Alive == ~cut /\ ~closed

\* The peer sends something that asks for nothing.
Speak ==
    /\ Alive
    /\ inbox = <<>>
    /\ inbox' = Append(inbox, Message("other", 0))
    /\ UNCHANGED <<ours, stream, peer, lag, cut>>

\* It takes in frame f, whose turn it is: a message counts, a TestRequest is
\* answered, a GapFill takes it over a range and what it holds of that range.
Process(f) ==
    LET to == IF f.kind = "fill" THEN f.arg ELSE expected + 1
    IN  /\ expected' = to
        /\ held' = {g \in held : g.seq >= to}
        /\ asked' = IF to > asked THEN 0 ELSE asked
        /\ inbox' = IF f.kind = "test" THEN Append(inbox, Message("answer", f.arg))
                                       ELSE inbox
        /\ void' = IF f.kind = "fill" THEN void \cup (expected..(to - 1)) ELSE void
        /\ UNCHANGED <<ranges, parked, refused>>

\* The frame has its turn, or is a GapFill that reaches beyond it.
Timely(f) == f.seq = expected \/ (f.kind = "fill" /\ f.seq < expected /\ f.arg > expected)

PeerReads ==
    /\ Alive
    /\ stream # <<>>
    /\ LET f == Head(stream)
       IN  \/ Timely(f) /\ Process(f)
           \/ /\ f.seq > expected
              /\ held' = IF \E g \in held : g.seq = f.seq THEN held ELSE held \cup {f}
              /\ parked' = IF f.kind = "test" THEN parked \cup {f.arg} ELSE parked
              /\ UNCHANGED <<expected, asked, inbox, void, refused, ranges>>
           \/ /\ f.seq < expected /\ ~Timely(f)
              /\ refused' = (refused \/ f.kind # "fill")
              /\ UNCHANGED <<expected, held, asked, inbox, void, parked, ranges>>
    /\ stream' = Tail(stream)
    /\ UNCHANGED <<ours, lost, asks, lag, cut>>

\* What it holds comes to its turn.
HeldReady == {f \in held : f.seq = expected}

PeerReleases ==
    /\ Alive
    /\ \E f \in HeldReady : Process(f)
    /\ UNCHANGED <<ours, stream, lost, asks, lag, cut>>

\* It fails to take in an ordinary message.
PeerLoses ==
    /\ Alive
    /\ stream # <<>> /\ Head(stream).kind = "plain"
    /\ lost < MaxLost
    /\ lost' = lost + 1
    /\ stream' = Tail(stream)
    /\ UNCHANGED <<ours, inbox, expected, held, asked, ranges, void, parked, refused,
                   asks, lag, cut>>

AskFor(begin, end) ==
    /\ inbox' = Append(inbox, [kind |-> "ask", arg |-> begin, end |-> end])
    /\ ranges' = ranges \cup {<<begin, end>>}

\* It has a gap, and asks for it: for all that follows, or for the gap alone.
MustAsk == held # {} /\ HeldReady = {} /\ asked = 0

PeerAsks ==
    /\ Alive
    /\ MustAsk
    /\ \E end \in {0} \cup {f.seq - 1 : f \in held} :
        /\ \A f \in held : end < f.seq
        /\ AskFor(expected, end)
    /\ asked' = expected
    /\ UNCHANGED <<ours, stream, expected, held, void, parked, refused, lost, asks,
                   lag, cut>>

\* It asks for numbers it has, or for numbers nobody has used.
PeerAsksAnything(begin, end) ==
    /\ Alive
    /\ asks < MaxAsk
    /\ end = 0 \/ begin <= end
    /\ inbox = <<>>
    /\ AskFor(begin, end)
    /\ asks' = asks + 1
    /\ UNCHANGED <<ours, stream, expected, held, asked, void, parked, refused, lost,
                   lag, cut>>

-----------------------------------------------------------------------------
(* The line and the clock *)

Cut ==
    /\ Alive
    /\ cut' = TRUE
    /\ stream' = <<>>
    /\ UNCHANGED <<ours, inbox, peer, lag>>

\* Nothing of ours waits longer than a tick, a living line and a living peer
\* deliver within Delay, and only MaxProbes silences of such a peer are looked at.
Settled ==
    /\ mailbox = <<>> /\ ~ProbeDue /\ ~Overdue
    /\ inbox # <<>> => lag.in < Delay
    /\ ~cut =>
        /\ stream # <<>> => lag.out < Delay
        /\ HeldReady = {} /\ ~MustAsk
        /\ silent + 1 >= ProbeAfter => probe # NoProbe \/ probes < MaxProbes

Tick ==
    /\ ~closed
    /\ Settled
    /\ silent' = IF silent < ProbeAfter THEN silent + 1 ELSE silent
    /\ probe' = IF probe = NoProbe THEN probe ELSE [probe EXCEPT !.left = @ - 1]
    /\ lag' = [out |-> IF stream = <<>> \/ cut THEN 0 ELSE lag.out + 1,
               in |-> IF inbox = <<>> THEN 0 ELSE lag.in + 1]
    /\ UNCHANGED <<plain, mailbox, seq, stream, inbox, probes, closed, peer, cut>>

-----------------------------------------------------------------------------

Loop == Read \/ SendProbe \/ Close

Peer == PeerReads \/ PeerReleases \/ PeerAsks

Next ==
    \/ Enqueue \/ WriterStep \/ Loop
    \/ Peer \/ Speak \/ PeerLoses
    \/ \E begin \in 1..(MaxSeq + 1), end \in 0..(MaxSeq + 1) :
          PeerAsksAnything(begin, end)
    \/ Cut \/ Tick

\* The loop and the writer are threads of their own, the peer takes in what
\* reaches it, and time passes.
Spec ==
    /\ Init
    /\ [][Next]_vars
    /\ WF_vars(WriterStep) /\ WF_vars(Loop) /\ WF_vars(Peer) /\ WF_vars(Tick)

-----------------------------------------------------------------------------
(* Properties *)

\* The peer stays in step with our numbers, whatever ranges it asks for: it
\* never meets a number that is too low, it is never taken beyond the next
\* number we will use, and no number is voided that it had not asked for
\* (writer_loop clamps both ends of the range).
InStep ==
    /\ ~refused
    /\ expected <= seq + 1
    /\ \A n \in void : \E r \in ranges : r[1] <= n /\ (r[2] = 0 \/ n <= r[2])

\* A peer that has a gap in our numbers gets over it.
Recovers == held # {} ~> held = {} \/ cut \/ closed

\* A peer that answers in time is not logged out, except when the TestRequest
\* reached it behind a gap: our own GapFill may then take it over the probe, or
\* let it answer too late, and no other message of it ends the probe.
AnsweringPeerStays == closed => cut \/ probe.id \in parked

\* A line that is dead is noticed, although TCP reports nothing.
SilentPeerGoes == cut ~> closed
=============================================================================
