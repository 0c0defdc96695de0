----------------------------- MODULE LinkProofs -----------------------------
(***************************************************************************)
(* Proofs about module Link: the peer of a session stays in step with our  *)
(* outgoing numbers, and one that answers in time is not logged out.       *)
(*                                                                         *)
(* The first rests on what our numbers leave ahead of the peer: a message  *)
(* on its way bears a number that nothing before it, nothing the peer      *)
(* holds and nothing it took in has reached, so it can never be too low;   *)
(* and a GapFill, whatever was asked for, ends where our numbers end.  The *)
(* second follows the probe from the writer to the line, and the answer    *)
(* back, with the time each of them may have taken by then.                *)
(***************************************************************************)
EXTENDS Link, TLAPS

-----------------------------------------------------------------------------
(* Types *)

OutMsg == [kind : {"plain", "test", "fill"}, arg : Int, end : Int]

InMsg == [kind : {"other", "answer", "ask"}, arg : Int, end : Int]

OutFrame == [seq : Int, kind : {"plain", "test", "fill"}, arg : Int]

LinkType ==
    /\ mailbox \in Seq(OutMsg)
    /\ seq \in Nat
    /\ stream \in Seq(OutFrame)
    /\ inbox \in Seq(InMsg)
    /\ probe \in [id : Nat, left : Int]
    /\ probes \in Nat
    /\ closed \in BOOLEAN
    /\ expected \in Int
    /\ held \subseteq OutFrame
    /\ ranges \subseteq Int \X Int
    /\ void \subseteq Int
    /\ refused \in BOOLEAN
    /\ lag \in [out : Nat, in : Nat]
    /\ cut \in BOOLEAN

-----------------------------------------------------------------------------
(* Numbers *)

\* The number the peer takes next when it has taken frame f.
Beyond(f) == IF f.kind = "fill" THEN f.arg ELSE f.seq + 1

\* The range [begin, end) was asked for.
Covered(begin, end) == \E r \in ranges : r[1] <= begin /\ (r[2] = 0 \/ end <= r[2] + 1)

\* A message of ours bears a number that no frame before it, no frame the peer
\* holds and nothing the peer took in has reached.
NumbersAhead ==
    \A j \in DOMAIN stream : stream[j].kind # "fill" =>
        /\ expected <= stream[j].seq
        /\ \A i \in DOMAIN stream : i < j => Beyond(stream[i]) <= stream[j].seq
        /\ \A f \in held : Beyond(f) <= stream[j].seq

NumbersUsed ==
    /\ expected <= seq + 1
    /\ \A j \in DOMAIN stream : Beyond(stream[j]) <= seq + 1
    /\ \A f \in held : Beyond(f) <= seq + 1

\* The messages of this kind in queue q tell ranges of R.
Within(q, kind, R) == \A j \in DOMAIN q : q[j].kind = kind => <<q[j].arg, q[j].end>> \in R

\* Every GapFill on its way is of a range that was asked for.
SentAsked ==
    \A j \in DOMAIN stream : stream[j].kind = "fill" => Covered(stream[j].seq, stream[j].arg)

\* Every GapFill, and every request for one, is of a range that was asked for.
FillsAsked ==
    /\ Within(inbox, "ask", ranges)
    /\ Within(mailbox, "fill", ranges)
    /\ SentAsked
    /\ \A f \in held : f.kind = "fill" => Covered(f.seq, f.arg)
    /\ \A n \in void : Covered(n, n + 1)

NumberInv ==
    /\ LinkType
    /\ NumbersAhead
    /\ NumbersUsed
    /\ FillsAsked
    /\ ~refused

-----------------------------------------------------------------------------
(* The probe *)

\* A message of this kind in q bears this id.
Carries(q, kind, id) == \E j \in DOMAIN q : q[j].kind = kind /\ q[j].arg = id

\* A probe of a living line that did not reach the peer behind a gap is with the
\* writer, on its way, or answered, and the answer is in time.
ProbeOnItsWay ==
    \/ cut
    \/ probe.id \in parked
    \/ probe.left = CloseAfter /\ Carries(mailbox, "test", probe.id)
    \/ CloseAfter - probe.left <= lag.out /\ Carries(stream, "test", probe.id)
    \/ CloseAfter - probe.left <= Delay + lag.in /\ Carries(inbox, "answer", probe.id)

ProbeInv ==
    /\ lag.out <= Delay /\ lag.in <= Delay
    /\ probe # NoProbe => ProbeOnItsWay
    /\ closed => cut \/ probe.id \in parked

-----------------------------------------------------------------------------
(* Sequences *)

LEMMA AppendFacts ==
  ASSUME NEW S, NEW s \in Seq(S), NEW x \in S
  PROVE  /\ Append(s, x) \in Seq(S)
         /\ \A n \in DOMAIN s : n \in Int /\ n \in DOMAIN Append(s, x) /\ Append(s, x)[n] = s[n]
         /\ \A n \in DOMAIN Append(s, x) : n \in Int /\
              \/ n \in DOMAIN s /\ Append(s, x)[n] = s[n]
              \/ (\A k \in DOMAIN s : k < n) /\ (\A k \in DOMAIN Append(s, x) : ~(n < k))
                 /\ Append(s, x)[n] = x
         /\ \E n \in DOMAIN Append(s, x) : Append(s, x)[n] = x
  <1>1. /\ Append(s, x) \in Seq(S) /\ Len(s) \in Nat
        /\ DOMAIN Append(s, x) = 1..(Len(s) + 1) /\ DOMAIN s = 1..Len(s)
        /\ \A n \in DOMAIN s : Append(s, x)[n] = s[n]
        /\ Append(s, x)[Len(s) + 1] = x
    OBVIOUS
  <1> QED
    BY <1>1

LEMMA TailFacts ==
  ASSUME NEW S, NEW s \in Seq(S), s # <<>>
  PROVE  /\ Tail(s) \in Seq(S) /\ Head(s) \in S
         /\ 1 \in DOMAIN s /\ s[1] = Head(s)
         /\ \A n \in DOMAIN Tail(s) :
              n \in Int /\ 1 < n + 1 /\ n + 1 \in DOMAIN s /\ Tail(s)[n] = s[n + 1]
         /\ \A n \in DOMAIN s : n = 1 \/ (n - 1 \in DOMAIN Tail(s) /\ Tail(s)[n - 1] = s[n])
  OBVIOUS

LEMMA ConcatFacts ==
  ASSUME NEW S, NEW s \in Seq(S)
  PROVE  s \o <<>> = s /\ \A x \in S : s \o <<x>> = Append(s, x)
  OBVIOUS

-----------------------------------------------------------------------------
(* Types *)

LEMMA MessageTypes ==
  /\ \A n \in Int : /\ Message("plain", n) \in OutMsg /\ Message("test", n) \in OutMsg
                    /\ Message("other", n) \in InMsg /\ Message("answer", n) \in InMsg
  /\ \A b, e \in Int : /\ [kind |-> "fill", arg |-> b, end |-> e] \in OutMsg
                       /\ [kind |-> "ask", arg |-> b, end |-> e] \in InMsg
  BY DEF Message, OutMsg, InMsg

LEMMA ProcessType ==
  ASSUME LinkType, NEW f \in OutFrame, Process(f)
  PROVE  /\ expected' \in Int /\ held' \subseteq OutFrame /\ inbox' \in Seq(InMsg)
         /\ void' \subseteq Int
  <1> DEFINE to == IF f.kind = "fill" THEN f.arg ELSE expected + 1
  <1>1. to \in Int /\ f.arg \in Int
    BY DEF LinkType, OutFrame
  <1>2. expected' = to /\ held' \subseteq held
    BY DEF Process
  <1>3. inbox' \in Seq(InMsg)
    <2>1. inbox' = inbox \/ inbox' = Append(inbox, Message("answer", f.arg))
      BY DEF Process
    <2>2. inbox \in Seq(InMsg) /\ Message("answer", f.arg) \in InMsg
      BY <1>1, MessageTypes DEF LinkType
    <2> QED
      BY <2>1, <2>2, AppendFacts
  <1>4. void' = void \/ void' = void \cup (expected..(to - 1))
    BY DEF Process
  <1>5. expected..(to - 1) \subseteq Int
    OBVIOUS
  <1> QED
    BY <1>1, <1>2, <1>3, <1>4, <1>5 DEF LinkType

LEMMA LinkTypeInit == Init => LinkType
  <1>1. <<>> \in Seq(OutMsg) /\ <<>> \in Seq(OutFrame) /\ <<>> \in Seq(InMsg)
    OBVIOUS
  <1>2. NoProbe \in [id : Nat, left : Int]
    BY DEF NoProbe
  <1>3. SUFFICES ASSUME Init PROVE LinkType
    OBVIOUS
  <1>4. mailbox \in Seq(OutMsg) /\ stream \in Seq(OutFrame) /\ inbox \in Seq(InMsg)
    <2>1. mailbox = <<>> /\ stream = <<>> /\ inbox = <<>>
      BY <1>3 DEF Init
    <2> QED
      BY <1>1, <2>1
  <1>5. probe \in [id : Nat, left : Int] /\ lag \in [out : Nat, in : Nat]
    <2>1. probe = NoProbe /\ lag = [out |-> 0, in |-> 0]
      BY <1>3 DEF Init
    <2> QED
      BY <1>2, <2>1
  <1>6. seq \in Nat /\ probes \in Nat /\ expected \in Int
    BY <1>3 DEF Init
  <1>8. closed \in BOOLEAN /\ refused \in BOOLEAN /\ cut \in BOOLEAN
    BY <1>3, Zenon DEF Init
  <1>7. held \subseteq OutFrame /\ ranges \subseteq Int \X Int /\ void \subseteq Int
    BY <1>3 DEF Init
  <1> QED
    BY <1>4, <1>5, <1>6, <1>7, <1>8 DEF LinkType

\* One conjunct of Next at a time.
LEMMA LinkTypeStep == LinkType /\ [Next]_vars => LinkType'
  <1> SUFFICES ASSUME LinkType, [Next]_vars PROVE LinkType'
    OBVIOUS
  <1> USE DEF ours, peer
  <1>1. /\ mailbox \in Seq(OutMsg) /\ stream \in Seq(OutFrame) /\ inbox \in Seq(InMsg)
        /\ seq \in Nat /\ expected \in Int /\ held \subseteq OutFrame
        /\ probe \in [id : Nat, left : Int] /\ probes \in Nat /\ ranges \subseteq Int \X Int
    BY DEF LinkType
  <1>2. CASE UNCHANGED vars
    BY <1>2 DEF vars, LinkType
  <1>3. CASE Enqueue
    <2>1. mailbox' \in Seq(OutMsg)
      BY <1>1, <1>3, MessageTypes, AppendFacts DEF Enqueue
    <2> QED
      BY <1>3, <2>1 DEF Enqueue, LinkType
  <1>4. CASE WriterStep
    <2> DEFINE m == Head(mailbox)
               g == [seq |-> seq + 1, kind |-> m.kind, arg |-> m.arg]
    <2>1. /\ m \in OutMsg /\ mailbox' \in Seq(OutMsg)
          /\ \/ stream' = stream \o FillOf(m.arg, m.end) /\ seq' = seq
             \/ stream' = Append(stream, g) /\ seq' = seq + 1
      BY <1>1, <1>4, TailFacts DEF WriterStep
    <2>2. g \in OutFrame
      BY <1>1, <2>1 DEF OutMsg, OutFrame
    <2>3. FillOf(m.arg, m.end) = <<>> \/ \E h \in OutFrame : FillOf(m.arg, m.end) = <<h>>
      <3>1. m.arg \in Int /\ EffectiveEnd(m.end) \in Int
        BY <1>1, <2>1 DEF OutMsg, EffectiveEnd
      <3>2. [seq |-> m.arg, kind |-> "fill", arg |-> EffectiveEnd(m.end) + 1] \in OutFrame
        BY <3>1 DEF OutFrame
      <3> QED
        BY <3>2 DEF FillOf
    <2> HIDE DEF g, m
    <2>4. stream' \in Seq(OutFrame)
      <3>1. CASE stream' = Append(stream, g)
        BY <1>1, <2>2, <3>1, AppendFacts
      <3>2. CASE stream' = stream \o FillOf(m.arg, m.end)
        <4>1. CASE FillOf(m.arg, m.end) = <<>>
          BY <1>1, <3>2, <4>1, ConcatFacts
        <4>2. ASSUME NEW h \in OutFrame, FillOf(m.arg, m.end) = <<h>>
              PROVE  stream' \in Seq(OutFrame)
          <5>1. stream' = Append(stream, h)
            BY <1>1, <3>2, <4>2, ConcatFacts
          <5> QED
            BY <1>1, <5>1, AppendFacts
        <4> QED
          BY <2>3, <4>1, <4>2
      <3> QED
        BY <2>1, <3>1, <3>2
    <2>5. seq' \in Nat
      BY <1>1, <2>1
    <2> QED
      BY <1>4, <2>1, <2>4, <2>5 DEF WriterStep, LinkType
  <1>5. CASE Read
    <2> DEFINE m == Head(inbox)
    <2>1. /\ m \in InMsg /\ inbox' \in Seq(InMsg) /\ (probe' = NoProbe \/ probe' = probe)
          /\ \/ mailbox' = mailbox
             \/ mailbox' = Append(mailbox, [kind |-> "fill", arg |-> m.arg, end |-> m.end])
      BY <1>1, <1>5, TailFacts DEF Read
    <2> DEFINE g == [kind |-> "fill", arg |-> m.arg, end |-> m.end]
    <2>2. g \in OutMsg
      BY <2>1, MessageTypes DEF InMsg
    <2>3. probe' \in [id : Nat, left : Int]
      BY <1>1, <2>1 DEF NoProbe
    <2>4. mailbox' = mailbox \/ mailbox' = Append(mailbox, g)
      BY <2>1
    <2> HIDE DEF m, g
    <2>5. mailbox' \in Seq(OutMsg)
      <3>1. CASE mailbox' = Append(mailbox, g)
        BY <1>1, <2>2, <3>1, AppendFacts
      <3> QED
        BY <1>1, <2>4, <3>1
    <2> QED
      BY <1>5, <2>1, <2>3, <2>5 DEF Read, LinkType
  <1>6. CASE SendProbe
    <2>1. mailbox' \in Seq(OutMsg)
      BY <1>1, <1>6, MessageTypes, AppendFacts DEF SendProbe
    <2>2. probe' \in [id : Nat, left : Int] /\ probes' \in Nat
      BY <1>1, <1>6, LinkAssumption DEF SendProbe
    <2> QED
      BY <1>6, <2>1, <2>2 DEF SendProbe, LinkType
  <1>7. CASE Close
    BY <1>7 DEF Close, LinkType
  <1>8. CASE Speak
    <2>1. inbox' \in Seq(InMsg)
      BY <1>1, <1>8, MessageTypes, AppendFacts DEF Speak
    <2> QED
      BY <1>8, <2>1 DEF Speak, LinkType
  <1>9. CASE PeerReads
    <2> DEFINE f == Head(stream)
    <2>1. f \in OutFrame /\ stream' \in Seq(OutFrame)
      BY <1>1, <1>9, TailFacts DEF PeerReads
    <2>2. /\ UNCHANGED <<ours, lag, cut>>
          /\ \/ Process(f)
             \/ /\ held' = held \/ held' = held \cup {f}
                /\ UNCHANGED <<expected, inbox, void, refused, ranges>>
             \/ /\ refused' = (refused \/ f.kind # "fill")
                /\ UNCHANGED <<expected, held, inbox, void, ranges>>
      BY <1>9 DEF PeerReads
    <2> HIDE DEF f
    <2>3. /\ expected' \in Int /\ held' \subseteq OutFrame /\ inbox' \in Seq(InMsg)
          /\ void' \subseteq Int
      BY <1>1, <2>1, <2>2, ProcessType DEF LinkType
    <2>4. ranges' = ranges /\ refused' \in BOOLEAN
      <3>1. Process(f) => ranges' = ranges /\ refused' = refused
        BY DEF Process
      <3> QED
        BY <2>2, <3>1 DEF LinkType
    <2> QED
      BY <2>1, <2>2, <2>3, <2>4 DEF LinkType
  <1>10. CASE PeerReleases
    <2>1. PICK f \in HeldReady : Process(f)
      BY <1>10 DEF PeerReleases
    <2>2. f \in OutFrame
      BY <1>1 DEF HeldReady
    <2>3. ranges' = ranges /\ refused' = refused
      BY <2>1 DEF Process
    <2> QED
      BY <1>10, <2>1, <2>2, <2>3, ProcessType DEF PeerReleases, LinkType
  <1>11. CASE PeerLoses
    <2>1. stream' \in Seq(OutFrame)
      BY <1>1, <1>11, TailFacts DEF PeerLoses
    <2> QED
      BY <1>11, <2>1 DEF PeerLoses, LinkType
  <1>12. ASSUME NEW b \in Int, NEW e \in Int, AskFor(b, e)
         PROVE  inbox' \in Seq(InMsg) /\ ranges' \subseteq Int \X Int
    <2> DEFINE m == [kind |-> "ask", arg |-> b, end |-> e]
    <2>1. m \in InMsg
      BY MessageTypes
    <2>2. inbox' = Append(inbox, m) /\ ranges' = ranges \cup {<<b, e>>}
      BY <1>12 DEF AskFor
    <2> HIDE DEF m
    <2> QED
      BY <1>1, <2>1, <2>2, AppendFacts
  <1>13. CASE PeerAsks
    <2>1. \E end \in Int : AskFor(expected, end)
      <3>1. PICK end \in {0} \cup {f.seq - 1 : f \in held} : AskFor(expected, end)
        BY <1>13 DEF PeerAsks
      <3>2. end \in Int
        BY <1>1 DEF OutFrame
      <3> QED
        BY <3>1, <3>2
    <2> QED
      BY <1>1, <1>12, <1>13, <2>1 DEF PeerAsks, LinkType
  <1>14. ASSUME NEW begin \in 1..(MaxSeq + 1), NEW end \in 0..(MaxSeq + 1),
                PeerAsksAnything(begin, end)
         PROVE  LinkType'
    <2>1. begin \in Int /\ end \in Int /\ AskFor(begin, end)
      BY <1>14, LinkAssumption DEF PeerAsksAnything
    <2> QED
      BY <1>12, <1>14, <2>1 DEF PeerAsksAnything, LinkType
  <1>15. CASE Cut
    <2>1. stream' \in Seq(OutFrame)
      BY <1>15 DEF Cut
    <2> QED
      BY <1>15, <2>1 DEF Cut, LinkType
  <1>16. CASE Tick
    <2>1. probe' \in [id : Nat, left : Int]
      <3>1. probe' = probe \/ probe' = [probe EXCEPT !.left = probe.left - 1]
        BY <1>16 DEF Tick
      <3> QED
        BY <1>1, <3>1
    <2>2. lag' \in [out : Nat, in : Nat]
      BY <1>16 DEF Tick, LinkType
    <2> QED
      BY <1>16, <2>1, <2>2 DEF Tick, LinkType
  <1> QED
    BY <1>2, <1>3, <1>4, <1>5, <1>6, <1>7, <1>8, <1>9, <1>10, <1>11, <1>13, <1>14, <1>15, <1>16
       DEF Next, Loop, Peer
-----------------------------------------------------------------------------
(* Numbers *)

LEMMA WithinFacts ==
  ASSUME NEW S, NEW q \in Seq(S), NEW kind, NEW R
  PROVE  /\ \A Q : R \subseteq Q /\ Within(q, kind, R) => Within(q, kind, Q)
         /\ q # <<>> /\ Within(q, kind, R) =>
              /\ Within(Tail(q), kind, R)
              /\ Head(q).kind = kind => <<Head(q).arg, Head(q).end>> \in R
         /\ \A x \in S : /\ Within(q, kind, R)
                         /\ x.kind = kind => <<x.arg, x.end>> \in R
                         => Within(Append(q, x), kind, R)
  <1>1. q # <<>> /\ Within(q, kind, R) =>
          /\ Within(Tail(q), kind, R)
          /\ Head(q).kind = kind => <<Head(q).arg, Head(q).end>> \in R
    <2> HAVE q # <<>> /\ Within(q, kind, R)
    <2>1. \A n \in DOMAIN Tail(q) : n + 1 \in DOMAIN q /\ Tail(q)[n] = q[n + 1]
      BY TailFacts
    <2>2. 1 \in DOMAIN q /\ q[1] = Head(q)
      BY TailFacts
    <2> QED
      BY <2>1, <2>2 DEF Within
  <1>2. ASSUME NEW x \in S, Within(q, kind, R), x.kind = kind => <<x.arg, x.end>> \in R
        PROVE  Within(Append(q, x), kind, R)
    <2> SUFFICES ASSUME NEW n \in DOMAIN Append(q, x), Append(q, x)[n].kind = kind
                 PROVE  <<Append(q, x)[n].arg, Append(q, x)[n].end>> \in R
      BY DEF Within
    <2>1. (n \in DOMAIN q /\ Append(q, x)[n] = q[n]) \/ Append(q, x)[n] = x
      BY AppendFacts
    <2> QED
      BY <1>2, <2>1 DEF Within
  <1> QED
    BY <1>1, <1>2 DEF Within

\* Nothing moves in our numbers, on the way or at the peer.
LEMMA NumbersStay ==
  ASSUME NumberInv, LinkType', UNCHANGED <<seq, stream, expected, held, void, refused>>,
         ranges \subseteq ranges', Within(inbox, "ask", ranges)',
         Within(mailbox, "fill", ranges)'
  PROVE  NumberInv'
  <1>1. NumbersAhead' /\ NumbersUsed' /\ ~refused'
    BY DEF NumberInv, NumbersAhead, NumbersUsed, Beyond
  <1>2. FillsAsked'
    <2>1. SentAsked'
      BY DEF NumberInv, FillsAsked, SentAsked, Covered
    <2>2. (\A f \in held : f.kind = "fill" => Covered(f.seq, f.arg))'
      BY DEF NumberInv, FillsAsked, Covered
    <2>3. (\A n \in void : Covered(n, n + 1))'
      BY DEF NumberInv, FillsAsked, Covered
    <2> QED
      BY <2>1, <2>2, <2>3 DEF FillsAsked
  <1> QED
    BY <1>1, <1>2 DEF NumberInv

\* The fields of what is on its way or held.
LEMMA FrameTypes ==
  ASSUME LinkType
  PROVE  /\ \A j \in DOMAIN stream : /\ stream[j] \in OutFrame /\ stream[j].seq \in Int
                                     /\ stream[j].arg \in Int /\ Beyond(stream[j]) \in Int
         /\ \A f \in OutFrame : f.seq \in Int /\ f.arg \in Int /\ Beyond(f) \in Int
         /\ \A j \in DOMAIN stream : j \in Int
  <1>1. \A j \in DOMAIN stream : stream[j] \in OutFrame /\ j \in Int
    BY DEF LinkType
  <1>2. \A f \in OutFrame : f.seq \in Int /\ f.arg \in Int /\ Beyond(f) \in Int
    BY DEF OutFrame, Beyond
  <1> QED
    BY <1>1, <1>2

\* A frame leaves the writer: a message with the next number, or a GapFill of a
\* range that was asked for, which ends where our numbers end.
LEMMA NumbersSent ==
  ASSUME NumberInv, NEW g \in OutFrame, stream' = Append(stream, g),
         UNCHANGED <<expected, held, void, refused, ranges>>,
         seq' \in Nat, seq <= seq', Beyond(g) <= seq' + 1,
         g.kind # "fill" => g.seq = seq + 1,
         g.kind = "fill" => Covered(g.seq, g.arg)
  PROVE  NumbersAhead' /\ NumbersUsed' /\ SentAsked'
  <1>1. LinkType /\ stream \in Seq(OutFrame) /\ seq \in Nat /\ expected \in Int
        /\ held \subseteq OutFrame
    BY DEF NumberInv, LinkType
  <1>2. \A n \in DOMAIN stream' : n \in Int /\
          \/ n \in DOMAIN stream /\ stream'[n] = stream[n]
          \/ (\A k \in DOMAIN stream : k < n) /\ (\A k \in DOMAIN stream' : ~(n < k))
             /\ stream'[n] = g
    BY <1>1, AppendFacts
  <1>3. \A f \in OutFrame : f.seq \in Int /\ f.arg \in Int /\ Beyond(f) \in Int
    BY <1>1, FrameTypes
  <1>4. \A j \in DOMAIN stream : stream[j] \in OutFrame /\ j \in Int
    BY <1>1, FrameTypes
  <1>6. NumbersUsed'
    <2>1. expected' <= seq' + 1
      <3>1. expected <= seq + 1 /\ expected' = expected
        BY DEF NumberInv, NumbersUsed
      <3>2. \A a, b, c \in Int : a <= b + 1 /\ b <= c => a <= c + 1
        OBVIOUS
      <3>3. seq \in Int /\ expected \in Int /\ seq' \in Int /\ seq <= seq'
        BY <1>1
      <3>4. expected <= seq' + 1
        BY <3>1, <3>2, <3>3
      <3> QED
        BY <3>1, <3>4
    <2>2. \A f \in held' : Beyond(f) <= seq' + 1
      BY <1>1, <1>3 DEF NumberInv, NumbersUsed
    <2>3. ASSUME NEW j \in DOMAIN stream' PROVE Beyond(stream'[j]) <= seq' + 1
      <3>1. CASE j \in DOMAIN stream /\ stream'[j] = stream[j]
        BY <1>1, <1>3, <1>4, <3>1 DEF NumberInv, NumbersUsed
      <3> QED
        BY <1>2, <3>1
    <2> QED
      BY <2>1, <2>2, <2>3 DEF NumbersUsed, Beyond
  <1>7. NumbersAhead'
    <2> SUFFICES ASSUME NEW j \in DOMAIN stream', stream'[j].kind # "fill"
                 PROVE  /\ expected <= stream'[j].seq
                        /\ \A i \in DOMAIN stream' : i < j => Beyond(stream'[i]) <= stream'[j].seq
                        /\ \A f \in held : Beyond(f) <= stream'[j].seq
      BY DEF NumbersAhead, Beyond
    <2>1. CASE j \in DOMAIN stream /\ stream'[j] = stream[j]
      <3>1. ASSUME NEW i \in DOMAIN stream', i < j PROVE Beyond(stream'[i]) <= stream'[j].seq
        <4>1. i \in DOMAIN stream /\ stream'[i] = stream[i]
          BY <1>2, <1>4, <2>1, <3>1
        <4> QED
          BY <2>1, <3>1, <4>1 DEF NumberInv, NumbersAhead
      <3> QED
        BY <2>1, <3>1 DEF NumberInv, NumbersAhead
    <2>2. CASE stream'[j] = g /\ (\A k \in DOMAIN stream : k < j)
               /\ (\A k \in DOMAIN stream' : ~(j < k))
      <3>1. stream'[j].seq = seq + 1
        BY <2>2
      <3>2. ASSUME NEW i \in DOMAIN stream', i < j PROVE Beyond(stream'[i]) <= seq + 1
        <4>1. i \in DOMAIN stream /\ stream'[i] = stream[i]
          BY <1>2, <2>2, <3>2
        <4> QED
          BY <4>1 DEF NumberInv, NumbersUsed
      <3> QED
        BY <3>1, <3>2 DEF NumberInv, NumbersUsed
    <2> QED
      BY <1>2, <2>1, <2>2
  <1>8. SentAsked'
    <2>1. ASSUME NEW j \in DOMAIN stream', stream'[j].kind = "fill"
          PROVE  Covered(stream'[j].seq, stream'[j].arg)
      BY <1>2, <2>1 DEF NumberInv, FillsAsked, SentAsked
    <2> QED
      BY <2>1 DEF SentAsked, Covered
  <1> QED
    BY <1>6, <1>7, <1>8

\* The peer takes the first frame off the line: what is left keeps its order.
LEMMA NumbersLeft ==
  ASSUME NumberInv, stream # <<>>, stream' = Tail(stream),
         UNCHANGED <<seq, ranges>>,
         expected' = expected \/ expected' = Beyond(Head(stream)),
         held' \subseteq held \cup {Head(stream)}
  PROVE  NumbersAhead' /\ NumbersUsed' /\ SentAsked'
  <1>1. LinkType /\ stream \in Seq(OutFrame) /\ seq \in Nat /\ expected \in Int
    BY DEF NumberInv, LinkType
  <1>2. \A n \in DOMAIN stream' : n \in Int /\ n + 1 \in DOMAIN stream /\ 1 < n + 1
                                /\ stream'[n] = stream[n + 1]
    BY <1>1, TailFacts
  <1>3. 1 \in DOMAIN stream /\ stream[1] = Head(stream)
    BY <1>1, TailFacts
  <1>4. NumbersAhead'
    <2> SUFFICES ASSUME NEW j \in DOMAIN stream', stream'[j].kind # "fill"
                 PROVE  /\ expected' <= stream'[j].seq
                        /\ \A i \in DOMAIN stream' : i < j => Beyond(stream'[i]) <= stream'[j].seq
                        /\ \A f \in held' : Beyond(f) <= stream'[j].seq
      BY DEF NumbersAhead, Beyond
    <2>1. /\ expected <= stream[j + 1].seq /\ Beyond(stream[1]) <= stream[j + 1].seq
          /\ \A f \in held : Beyond(f) <= stream[j + 1].seq
      BY <1>2, <1>3 DEF NumberInv, NumbersAhead
    <2>2. ASSUME NEW i \in DOMAIN stream', i < j PROVE Beyond(stream'[i]) <= stream'[j].seq
      <3>1. i + 1 < j + 1
        BY <1>2, <2>2
      <3> QED
        BY <1>2, <3>1 DEF NumberInv, NumbersAhead
    <2> QED
      BY <1>2, <1>3, <2>1, <2>2
  <1>5. NumbersUsed'
    <2>1. expected' <= seq' + 1 /\ \A f \in held' : Beyond(f) <= seq' + 1
      BY <1>3 DEF NumberInv, NumbersUsed
    <2>2. \A j \in DOMAIN stream' : Beyond(stream'[j]) <= seq' + 1
      BY <1>2 DEF NumberInv, NumbersUsed
    <2> QED
      BY <2>1, <2>2 DEF NumbersUsed, Beyond
  <1>6. SentAsked'
    <2>1. ASSUME NEW j \in DOMAIN stream', stream'[j].kind = "fill"
          PROVE  Covered(stream'[j].seq, stream'[j].arg)
      BY <1>2, <2>1 DEF NumberInv, FillsAsked, SentAsked
    <2> QED
      BY <2>1 DEF SentAsked, Covered
  <1> QED
    BY <1>4, <1>5, <1>6

\* The peer takes in a frame that has its turn or reaches beyond it.
LEMMA NumbersTaken ==
  ASSUME NumberInv, NEW f \in OutFrame, Process(f), f.seq = expected \/ Timely(f),
         f.kind = "fill" => Covered(f.seq, f.arg)
  PROVE  /\ expected' = Beyond(f) /\ held' \subseteq held
         /\ ranges' = ranges /\ refused' = refused
         /\ \A n \in void' : Covered(n, n + 1)
         /\ Within(inbox, "ask", ranges)'
  <1>1. LinkType /\ f.seq \in Int /\ f.arg \in Int /\ expected \in Int
    BY FrameTypes DEF NumberInv, LinkType
  <1>2. /\ expected' = Beyond(f) /\ held' \subseteq held
        /\ ranges' = ranges /\ refused' = refused
    BY DEF Process, Timely, Beyond
  <1>3. ASSUME NEW n \in void' PROVE Covered(n, n + 1)
    <2>1. CASE n \in void
      BY <2>1 DEF NumberInv, FillsAsked
    <2>2. CASE f.kind = "fill" /\ n \in expected..(f.arg - 1)
      <3>1. PICK r \in ranges : r[1] <= f.seq /\ (r[2] = 0 \/ f.arg <= r[2] + 1)
        BY <2>2 DEF Covered
      <3>2. r[1] \in Int /\ r[2] \in Int /\ n \in Int
        BY <1>1, <2>2 DEF LinkType
      <3>3. f.seq <= n /\ n + 1 <= f.arg
        BY <1>1, <2>2, <3>2 DEF Timely
      <3> QED
        BY <1>1, <3>1, <3>2, <3>3 DEF Covered
    <2> QED
      BY <1>3, <2>1, <2>2 DEF Process
  <1>4. Within(inbox, "ask", ranges)'
    <2> DEFINE m == Message("answer", f.arg)
    <2>1. inbox' = inbox \/ inbox' = Append(inbox, m)
      BY DEF Process
    <2>2. m \in InMsg /\ m.kind # "ask" /\ inbox \in Seq(InMsg)
      BY <1>1, MessageTypes DEF Message, LinkType
    <2>3. Within(inbox, "ask", ranges)
      BY DEF NumberInv, FillsAsked
    <2> HIDE DEF m
    <2>4. Within(inbox', "ask", ranges)
      BY <2>1, <2>2, <2>3, WithinFacts
    <2> QED
      BY <1>2, <2>4 DEF Within
  <1> QED
    BY <1>2, <1>3, <1>4

\* The range of a GapFill the writer makes out of a request.
LEMMA FillFacts ==
  ASSUME LinkType, NEW b \in Int, NEW e \in Int, NEW g, FillOf(b, e) = <<g>>,
         <<b, e>> \in ranges
  PROVE  /\ g \in OutFrame /\ g.kind = "fill" /\ Beyond(g) <= seq + 1
         /\ Covered(g.seq, g.arg)
  <1>1. g = [seq |-> b, kind |-> "fill", arg |-> EffectiveEnd(e) + 1]
    BY DEF FillOf
  <1>2. /\ EffectiveEnd(e) \in Int /\ EffectiveEnd(e) <= seq
        /\ e = 0 \/ EffectiveEnd(e) <= e
    BY DEF LinkType, EffectiveEnd
  <1>3. Covered(b, EffectiveEnd(e) + 1)
    <2>1. <<b, e>>[1] = b /\ <<b, e>>[2] = e
      OBVIOUS
    <2> QED
      BY <1>2, <2>1 DEF Covered
  <1> QED
    BY <1>1, <1>2, <1>3 DEF OutFrame, Beyond, LinkType

LEMMA NumbersInit == Init => NumberInv
  <1> SUFFICES ASSUME Init PROVE NumberInv
    OBVIOUS
  <1>1. LinkType
    BY LinkTypeInit
  <1>2. /\ stream = <<>> /\ inbox = <<>> /\ mailbox = <<>> /\ held = {} /\ void = {}
        /\ expected = 1 /\ seq = 0 /\ refused = FALSE
    BY DEF Init
  <1>3. NumbersAhead /\ NumbersUsed
    BY <1>2 DEF NumbersAhead, NumbersUsed
  <1>4. FillsAsked
    BY <1>2 DEF FillsAsked, SentAsked, Within
  <1> QED
    BY <1>1, <1>2, <1>3, <1>4 DEF NumberInv

LEMMA NumbersStep == NumberInv /\ [Next]_vars => NumberInv'
  <1> SUFFICES ASSUME NumberInv, [Next]_vars PROVE NumberInv'
    OBVIOUS
  <1> USE DEF ours, peer
  <1>1. /\ LinkType /\ LinkType' /\ mailbox \in Seq(OutMsg) /\ stream \in Seq(OutFrame)
        /\ inbox \in Seq(InMsg) /\ seq \in Nat /\ expected \in Int /\ held \subseteq OutFrame
    BY LinkTypeStep DEF NumberInv, LinkType
  <1>2. Within(inbox, "ask", ranges) /\ Within(mailbox, "fill", ranges) /\ SentAsked /\ ~refused
    BY DEF NumberInv, FillsAsked
  <1>3. ASSUME ranges' = ranges, inbox' = inbox PROVE Within(inbox, "ask", ranges)'
    BY <1>2, <1>3 DEF Within
  <1>4. ASSUME ranges \subseteq ranges', mailbox' = mailbox
        PROVE  Within(mailbox, "fill", ranges)'
    BY <1>2, <1>4 DEF Within
  <1>5. ASSUME ranges' = ranges, NEW n \in Int,
               mailbox' = Append(mailbox, Message("plain", n))
               \/ mailbox' = Append(mailbox, Message("test", n))
        PROVE  Within(mailbox, "fill", ranges)'
    <2>1. PICK m \in OutMsg : m.kind # "fill" /\ mailbox' = Append(mailbox, m)
      BY <1>5, MessageTypes DEF Message
    <2>2. Within(mailbox', "fill", ranges)
      BY <1>1, <1>2, <2>1, WithinFacts
    <2> QED
      BY <1>5, <2>2 DEF Within
  <1>6. ASSUME NEW b \in Int, NEW e \in Int, AskFor(b, e)
        PROVE  Within(inbox, "ask", ranges)' /\ ranges \subseteq ranges'
    <2> DEFINE m == [kind |-> "ask", arg |-> b, end |-> e]
    <2>1. m \in InMsg /\ <<m.arg, m.end>> = <<b, e>>
      BY MessageTypes
    <2>2. inbox' = Append(inbox, m) /\ ranges' = ranges \cup {<<b, e>>}
      BY <1>6 DEF AskFor
    <2> HIDE DEF m
    <2>3. Within(inbox, "ask", ranges')
      BY <1>1, <1>2, <2>2, WithinFacts
    <2>4. Within(inbox', "ask", ranges')
      BY <1>1, <2>1, <2>2, <2>3, WithinFacts
    <2> QED
      BY <2>2, <2>4 DEF Within
  <1>7. CASE UNCHANGED vars
    BY <1>1, <1>3, <1>4, <1>7, NumbersStay DEF vars
  <1>8. CASE Enqueue
    BY <1>1, <1>3, <1>5, <1>8, NumbersStay DEF Enqueue
  <1>9. CASE WriterStep
    <2> DEFINE m == Head(mailbox)
               h == [seq |-> seq + 1, kind |-> m.kind, arg |-> m.arg]
    <2>1. /\ m \in OutMsg /\ m.arg \in Int /\ m.end \in Int
          /\ m.kind = "fill" => <<m.arg, m.end>> \in ranges
          /\ Within(mailbox, "fill", ranges)'
      <3>1. mailbox # <<>> /\ mailbox' = Tail(mailbox) /\ ranges' = ranges
        BY <1>9 DEF WriterStep
      <3>2. m \in OutMsg
        BY <1>1, <3>1, TailFacts
      <3>3. /\ Within(mailbox', "fill", ranges)
            /\ m.kind = "fill" => <<m.arg, m.end>> \in ranges
        BY <1>1, <1>2, <3>1, WithinFacts
      <3> QED
        BY <3>1, <3>2, <3>3 DEF OutMsg, Within
    <2>2. /\ UNCHANGED <<inbox, expected, held, void, refused, ranges>>
          /\ Within(inbox, "ask", ranges)'
      BY <1>3, <1>9 DEF WriterStep
    <2>3. CASE m.kind = "fill"
      <3>1. stream' = stream \o FillOf(m.arg, m.end) /\ seq' = seq
        BY <1>9, <2>3 DEF WriterStep
      <3>2. CASE FillOf(m.arg, m.end) = <<>>
        <4>1. stream' = stream
          BY <1>1, <3>1, <3>2, ConcatFacts
        <4> QED
          BY <1>1, <2>1, <2>2, <3>1, <4>1, NumbersStay
      <3>3. ASSUME NEW g, FillOf(m.arg, m.end) = <<g>> PROVE NumberInv'
        <4>1. /\ g \in OutFrame /\ g.kind = "fill" /\ Beyond(g) <= seq + 1
              /\ Covered(g.seq, g.arg)
          BY <1>1, <2>1, <2>3, <3>3, FillFacts
        <4>2. stream' = Append(stream, g)
          BY <1>1, <3>1, <3>3, <4>1, ConcatFacts
        <4>3. seq' \in Nat /\ seq <= seq' /\ Beyond(g) <= seq' + 1
          BY <1>1, <3>1, <4>1
        <4>4. NumbersAhead' /\ NumbersUsed' /\ SentAsked'
          BY <2>2, <4>1, <4>2, <4>3, NumbersSent
        <4> QED
          BY <1>1, <2>1, <2>2, <4>4 DEF NumberInv, FillsAsked, Covered
      <3> QED
        BY <3>2, <3>3 DEF FillOf
    <2>4. CASE m.kind # "fill"
      <3>1. stream' = Append(stream, h) /\ seq' = seq + 1
        BY <1>9, <2>4 DEF WriterStep
      <3>2. /\ h \in OutFrame /\ h.kind # "fill" /\ h.seq = seq + 1 /\ Beyond(h) = seq + 2
        BY <1>1, <2>1, <2>4 DEF OutMsg, OutFrame, Beyond
      <3> HIDE DEF h, m
      <3>3. seq' \in Nat /\ seq <= seq' /\ Beyond(h) <= seq' + 1
        BY <1>1, <3>1, <3>2
      <3>4. NumbersAhead' /\ NumbersUsed' /\ SentAsked'
        BY <2>2, <3>1, <3>2, <3>3, NumbersSent
      <3> QED
        BY <1>1, <2>1, <2>2, <3>4 DEF NumberInv, FillsAsked, Covered
    <2> QED
      BY <2>3, <2>4
  <1>10. CASE Read
    <2> DEFINE m == Head(inbox)
               g == [kind |-> "fill", arg |-> m.arg, end |-> m.end]
    <2>1. /\ inbox # <<>> /\ inbox' = Tail(inbox)
          /\ \/ m.kind = "ask" /\ mailbox' = Append(mailbox, g)
             \/ mailbox' = mailbox
          /\ UNCHANGED <<seq, stream, expected, held, void, refused, ranges>>
      BY <1>10 DEF Read
    <2>2. m \in InMsg
      BY <1>1, <2>1, TailFacts
    <2>3. /\ Within(inbox', "ask", ranges)
          /\ m.kind = "ask" => <<m.arg, m.end>> \in ranges
      BY <1>1, <1>2, <2>1, WithinFacts
    <2>4. g \in OutMsg /\ <<g.arg, g.end>> = <<m.arg, m.end>>
      BY <2>2, MessageTypes DEF InMsg
    <2> HIDE DEF g, m
    <2>5. Within(mailbox', "fill", ranges)
      <3>1. CASE m.kind = "ask" /\ mailbox' = Append(mailbox, g)
        <4>1. <<g.arg, g.end>> \in ranges
          BY <2>3, <2>4, <3>1
        <4> QED
          BY <1>1, <1>2, <2>4, <3>1, <4>1, WithinFacts
      <3>2. CASE mailbox' = mailbox
        BY <1>2, <3>2
      <3> QED
        BY <2>1, <3>1, <3>2
    <2>6. Within(inbox, "ask", ranges)' /\ Within(mailbox, "fill", ranges)'
      BY <2>1, <2>3, <2>5 DEF Within
    <2> QED
      BY <1>1, <2>1, <2>6, NumbersStay
  <1>11. CASE SendProbe
    <2>1. probes + 1 \in Int
      BY <1>1 DEF LinkType
    <2>2. Within(mailbox, "fill", ranges)'
      BY <1>5, <1>11, <2>1 DEF SendProbe
    <2> QED
      BY <1>1, <1>3, <1>11, <2>2, NumbersStay DEF SendProbe
  <1>12. CASE Close
    BY <1>1, <1>3, <1>4, <1>12, NumbersStay DEF Close
  <1>13. CASE Speak
    <2>1. Message("other", 0) \in InMsg /\ Message("other", 0).kind # "ask"
      BY DEF Message, InMsg
    <2>2. inbox' = Append(inbox, Message("other", 0)) /\ ranges' = ranges
      BY <1>13 DEF Speak
    <2>3. Within(inbox', "ask", ranges)
      BY <1>1, <1>2, <2>1, <2>2, WithinFacts
    <2>4. Within(inbox, "ask", ranges)'
      BY <2>2, <2>3 DEF Within
    <2> QED
      BY <1>1, <1>4, <1>13, <2>4, NumbersStay DEF Speak
  <1>14. CASE PeerReads
    <2> DEFINE f == Head(stream)
    <2>1. /\ stream # <<>> /\ stream' = Tail(stream) /\ f \in OutFrame
          /\ seq' = seq /\ mailbox' = mailbox
      BY <1>1, <1>14, TailFacts DEF PeerReads
    <2>2. /\ f.kind # "fill" => expected <= f.seq
          /\ f.kind = "fill" => Covered(f.seq, f.arg)
      <3>1. 1 \in DOMAIN stream /\ stream[1] = f
        BY <1>1, <2>1, TailFacts
      <3> QED
        BY <1>2, <3>1 DEF NumberInv, NumbersAhead, SentAsked
    <2>3. \/ Timely(f) /\ Process(f)
          \/ /\ held' \subseteq held \cup {f}
             /\ UNCHANGED <<expected, inbox, void, refused, ranges>>
          \/ /\ f.seq < expected /\ refused' = (refused \/ f.kind # "fill")
             /\ UNCHANGED <<expected, held, inbox, void, ranges>>
      BY <1>14 DEF PeerReads
    <2>4. /\ expected' = expected \/ expected' = Beyond(f)
          /\ held' \subseteq held \cup {f} /\ ranges' = ranges /\ ~refused'
          /\ \A n \in void' : Covered(n, n + 1)
          /\ Within(inbox, "ask", ranges)'
      <3>1. CASE Timely(f) /\ Process(f)
        BY <1>2, <2>1, <2>2, <3>1, NumbersTaken
      <3>2. CASE /\ held' \subseteq held \cup {f}
                 /\ UNCHANGED <<expected, inbox, void, refused, ranges>>
        BY <1>2, <1>3, <3>2 DEF NumberInv, FillsAsked
      <3>3. CASE /\ f.seq < expected /\ refused' = (refused \/ f.kind # "fill")
                 /\ UNCHANGED <<expected, held, inbox, void, ranges>>
        <4>1. ~(expected <= f.seq)
          BY <1>1, <2>1, <3>3 DEF OutFrame
        <4> QED
          BY <1>2, <1>3, <2>2, <3>3, <4>1 DEF NumberInv, FillsAsked
      <3> QED
        BY <2>3, <3>1, <3>2, <3>3
    <2>5. NumbersAhead' /\ NumbersUsed' /\ SentAsked'
      BY <2>1, <2>4, NumbersLeft
    <2>6. \A g \in held' : g.kind = "fill" => Covered(g.seq, g.arg)
      BY <2>2, <2>4 DEF NumberInv, FillsAsked
    <2>7. Within(mailbox, "fill", ranges)'
      BY <1>4, <2>1, <2>4
    <2> QED
      BY <1>1, <2>4, <2>5, <2>6, <2>7 DEF NumberInv, FillsAsked, Covered
  <1>15. CASE PeerReleases
    <2>1. PICK f \in HeldReady : Process(f)
      BY <1>15 DEF PeerReleases
    <2>2. f \in OutFrame /\ f \in held /\ f.seq = expected
      BY <1>1 DEF HeldReady
    <2>3. /\ expected' = Beyond(f) /\ held' \subseteq held
          /\ ranges' = ranges /\ refused' = refused
          /\ \A n \in void' : Covered(n, n + 1)
          /\ Within(inbox, "ask", ranges)'
      BY <2>1, <2>2, NumbersTaken DEF NumberInv, FillsAsked
    <2>4. seq' = seq /\ stream' = stream /\ mailbox' = mailbox
      BY <1>15 DEF PeerReleases
    <2>5. NumbersAhead'
      BY <2>2, <2>3, <2>4 DEF NumberInv, NumbersAhead, Beyond
    <2>6. NumbersUsed'
      BY <2>2, <2>3, <2>4 DEF NumberInv, NumbersUsed, Beyond
    <2>7. SentAsked' /\ Within(mailbox, "fill", ranges)'
      BY <1>2, <1>4, <2>3, <2>4 DEF SentAsked, Covered
    <2> QED
      BY <1>1, <1>2, <2>3, <2>5, <2>6, <2>7 DEF NumberInv, FillsAsked, Covered
  <1>16. CASE PeerLoses
    <2>1. /\ stream # <<>> /\ stream' = Tail(stream)
          /\ UNCHANGED <<seq, mailbox, inbox, expected, held, void, refused, ranges>>
      BY <1>16 DEF PeerLoses
    <2>2. NumbersAhead' /\ NumbersUsed' /\ SentAsked'
      BY <2>1, NumbersLeft
    <2> QED
      BY <1>1, <1>3, <1>4, <2>1, <2>2 DEF NumberInv, FillsAsked, Covered
  <1>17. CASE PeerAsks
    <2>1. PICK end \in {0} \cup {f.seq - 1 : f \in held} : AskFor(expected, end)
      BY <1>17 DEF PeerAsks
    <2>2. end \in Int
      BY <1>1 DEF OutFrame
    <2> QED
      BY <1>1, <1>4, <1>6, <1>17, <2>1, <2>2, NumbersStay DEF PeerAsks
  <1>18. ASSUME NEW begin \in 1..(MaxSeq + 1), NEW end \in 0..(MaxSeq + 1),
                PeerAsksAnything(begin, end)
         PROVE  NumberInv'
    <2>1. begin \in Int /\ end \in Int /\ AskFor(begin, end)
      BY <1>18, LinkAssumption DEF PeerAsksAnything
    <2> QED
      BY <1>1, <1>4, <1>6, <1>18, <2>1, NumbersStay DEF PeerAsksAnything
  <1>19. CASE Cut
    <2>1. /\ stream' = <<>>
          /\ UNCHANGED <<seq, mailbox, inbox, expected, held, void, refused, ranges>>
      BY <1>19 DEF Cut
    <2>2. NumbersAhead' /\ NumbersUsed' /\ SentAsked'
      BY <2>1 DEF NumberInv, NumbersAhead, NumbersUsed, SentAsked, Beyond
    <2> QED
      BY <1>1, <1>3, <1>4, <2>1, <2>2 DEF NumberInv, FillsAsked, Covered
  <1>20. CASE Tick
    BY <1>1, <1>3, <1>4, <1>20, NumbersStay DEF Tick
  <1> QED
    BY <1>7, <1>8, <1>9, <1>10, <1>11, <1>12, <1>13, <1>14, <1>15, <1>16, <1>17, <1>18,
       <1>19, <1>20 DEF Next, Loop, Peer

\* Every state of the specification satisfies the invariant.
LEMMA NumbersHold == Spec => []NumberInv
  BY NumbersInit, NumbersStep, PTL DEF Spec

\* A peer stays in step with our numbers (writer_loop): whatever it loses and
\* whatever ranges it asks for, it never meets a number that is too low, no
\* GapFill takes it beyond the next number we will use, and none voids a number
\* it had not asked for.
THEOREM PeersKeepStep == Spec => []InStep
  <1>1. NumberInv => InStep
    <2> SUFFICES ASSUME NumberInv PROVE InStep
      OBVIOUS
    <2>1. ~refused /\ expected <= seq + 1
      BY DEF NumberInv, NumbersUsed
    <2>2. ASSUME NEW n \in void PROVE \E r \in ranges : r[1] <= n /\ (r[2] = 0 \/ n <= r[2])
      <3>1. PICK r \in ranges : r[1] <= n /\ (r[2] = 0 \/ n + 1 <= r[2] + 1)
        BY DEF NumberInv, FillsAsked, Covered
      <3>2. n \in Int /\ r[2] \in Int
        BY DEF NumberInv, LinkType
      <3> QED
        BY <3>1, <3>2
    <2> QED
      BY <2>1, <2>2 DEF InStep
  <1> QED
    BY <1>1, NumbersHold, PTL

-----------------------------------------------------------------------------
(* The probe *)

LEMMA CarriesFacts ==
  ASSUME NEW S, NEW q \in Seq(S), NEW kind, NEW id
  PROVE  /\ Carries(q, kind, id) => q # <<>>
         /\ \A x \in S : Carries(q, kind, id) \/ (x.kind = kind /\ x.arg = id)
                         => Carries(Append(q, x), kind, id)
         /\ Carries(q, kind, id) =>
              Carries(Tail(q), kind, id) \/ (Head(q).kind = kind /\ Head(q).arg = id)
  <1>1. Carries(q, kind, id) => q # <<>>
    BY DEF Carries
  <1>2. ASSUME NEW x \in S, Carries(q, kind, id) \/ (x.kind = kind /\ x.arg = id)
        PROVE  Carries(Append(q, x), kind, id)
    BY <1>2, AppendFacts DEF Carries
  <1>3. ASSUME Carries(q, kind, id)
        PROVE  Carries(Tail(q), kind, id) \/ (Head(q).kind = kind /\ Head(q).arg = id)
    <2>1. PICK j \in DOMAIN q : q[j].kind = kind /\ q[j].arg = id
      BY <1>3 DEF Carries
    <2>2. q[1] = Head(q) /\ (j = 1 \/ (j - 1 \in DOMAIN Tail(q) /\ Tail(q)[j - 1] = q[j]))
      BY <1>1, <1>3, TailFacts
    <2> QED
      BY <2>1, <2>2 DEF Carries
  <1> QED
    BY <1>1, <1>2, <1>3

\* The probe and the clock stand still; what bears its id goes one step further
\* at most.
LEMMA ProbeMoves ==
  ASSUME LinkType, ProbeInv, UNCHANGED <<probe, lag, closed>>,
         cut => cut', parked \subseteq parked',
         Carries(mailbox, "test", probe.id) =>
            Carries(mailbox', "test", probe.id) \/ Carries(stream', "test", probe.id),
         \/ cut' \/ probe.id \in parked'
         \/ Carries(stream, "test", probe.id) =>
              Carries(stream', "test", probe.id) \/ Carries(inbox', "answer", probe.id),
         Carries(inbox, "answer", probe.id) => Carries(inbox', "answer", probe.id)
  PROVE  ProbeInv'
  <1>1. /\ probe.left \in Int /\ lag.out \in Nat /\ lag.in \in Nat
        /\ Delay \in Nat /\ CloseAfter \in Nat
    BY LinkAssumption DEF LinkType
  <1>2. lag'.out <= Delay /\ lag'.in <= Delay
    BY DEF ProbeInv
  <1>3. closed' => cut' \/ probe'.id \in parked'
    BY DEF ProbeInv
  <1>4. ASSUME probe' # NoProbe PROVE ProbeOnItsWay'
    <2>1. ProbeOnItsWay
      BY <1>4 DEF ProbeInv
    <2>2. \/ cut' \/ probe.id \in parked'
          \/ probe.left = CloseAfter /\ Carries(mailbox', "test", probe.id)
          \/ CloseAfter - probe.left <= lag.out /\ Carries(stream', "test", probe.id)
          \/ CloseAfter - probe.left <= Delay + lag.in /\ Carries(inbox', "answer", probe.id)
      <3>1. CASE cut \/ probe.id \in parked
        BY <3>1
      <3>2. CASE probe.left = CloseAfter /\ Carries(mailbox, "test", probe.id)
        <4>1. CloseAfter - probe.left <= lag.out
          BY <1>1, <3>2
        <4> QED
          BY <3>2, <4>1
      <3>3. CASE CloseAfter - probe.left <= lag.out /\ Carries(stream, "test", probe.id)
        <4>1. CloseAfter - probe.left <= Delay + lag.in
          BY <1>1, <3>3 DEF ProbeInv
        <4> QED
          BY <3>3, <4>1
      <3>4. CASE CloseAfter - probe.left <= Delay + lag.in /\ Carries(inbox, "answer", probe.id)
        BY <3>4
      <3> QED
        BY <2>1, <3>1, <3>2, <3>3, <3>4 DEF ProbeOnItsWay
    <2> QED
      BY <2>2 DEF ProbeOnItsWay, Carries
  <1> QED
    BY <1>2, <1>3, <1>4 DEF ProbeInv

LEMMA ProbeInit == Init => ProbeInv
  <1> SUFFICES ASSUME Init PROVE ProbeInv
    OBVIOUS
  <1>1. probe = NoProbe /\ closed = FALSE /\ lag = [out |-> 0, in |-> 0]
    BY DEF Init
  <1> QED
    BY <1>1, LinkAssumption DEF ProbeInv

LEMMA ProbeStep == NumberInv /\ ProbeInv /\ [Next]_vars => ProbeInv'
  <1> SUFFICES ASSUME NumberInv, ProbeInv, [Next]_vars PROVE ProbeInv'
    OBVIOUS
  <1> USE DEF ours, peer
  <1>1. /\ LinkType /\ mailbox \in Seq(OutMsg) /\ stream \in Seq(OutFrame)
        /\ inbox \in Seq(InMsg)
    BY DEF NumberInv, LinkType
  <1>2. /\ probe.left \in Int /\ probe.id \in Nat /\ probes \in Nat
        /\ lag.out \in Nat /\ lag.in \in Nat /\ lag \in [out : Nat, in : Nat]
        /\ probe \in [id : Nat, left : Int]
        /\ Delay \in Nat /\ CloseAfter \in Nat /\ 2 * Delay < CloseAfter
    BY <1>1, LinkAssumption DEF LinkType
  <1>3. CASE UNCHANGED vars
    BY <1>1, <1>3, ProbeMoves DEF vars
  <1>4. CASE Enqueue
    <2>1. Message("plain", 0) \in OutMsg
      BY DEF Message, OutMsg
    <2>2. Carries(mailbox, "test", probe.id) => Carries(mailbox', "test", probe.id)
      BY <1>1, <1>4, <2>1, CarriesFacts DEF Enqueue
    <2> QED
      BY <1>1, <1>4, <2>2, ProbeMoves DEF Enqueue
  <1>5. CASE WriterStep
    <2> DEFINE m == Head(mailbox)
               h == [seq |-> seq + 1, kind |-> m.kind, arg |-> m.arg]
    <2>1. /\ mailbox # <<>> /\ mailbox' = Tail(mailbox)
          /\ UNCHANGED <<inbox, probe, closed, parked, lag, cut>>
          /\ \/ m.kind = "fill" /\ stream' = stream \o FillOf(m.arg, m.end)
             \/ m.kind # "fill" /\ stream' = Append(stream, h)
      BY <1>5 DEF WriterStep
    <2>2. m \in OutMsg
      BY <1>1, <2>1, TailFacts
    <2>3. Carries(stream, "test", probe.id) => Carries(stream', "test", probe.id)
      <3>1. CASE m.kind = "fill" /\ stream' = stream \o FillOf(m.arg, m.end)
        <4>1. FillOf(m.arg, m.end) = <<>> \/ \E g \in OutFrame : FillOf(m.arg, m.end) = <<g>>
          <5>1. m.arg \in Int /\ EffectiveEnd(m.end) \in Int
            BY <1>1, <2>2 DEF OutMsg, EffectiveEnd, LinkType
          <5>2. [seq |-> m.arg, kind |-> "fill", arg |-> EffectiveEnd(m.end) + 1] \in OutFrame
            BY <5>1 DEF OutFrame
          <5> QED
            BY <5>2 DEF FillOf
        <4>2. CASE FillOf(m.arg, m.end) = <<>>
          BY <1>1, <3>1, <4>2, ConcatFacts
        <4>3. ASSUME NEW g \in OutFrame, FillOf(m.arg, m.end) = <<g>>
              PROVE  Carries(stream, "test", probe.id) => Carries(stream', "test", probe.id)
          <5>1. stream' = Append(stream, g)
            BY <1>1, <3>1, <4>3, ConcatFacts
          <5> QED
            BY <1>1, <4>3, <5>1, CarriesFacts
        <4> QED
          BY <4>1, <4>2, <4>3
      <3>2. CASE m.kind # "fill" /\ stream' = Append(stream, h)
        <4>1. h \in OutFrame
          BY <1>1, <2>2 DEF OutMsg, OutFrame, LinkType
        <4> HIDE DEF h
        <4> QED
          BY <1>1, <3>2, <4>1, CarriesFacts
      <3> QED
        BY <2>1, <3>1, <3>2
    <2>4. Carries(mailbox, "test", probe.id) =>
            Carries(mailbox', "test", probe.id) \/ Carries(stream', "test", probe.id)
      <3>1. CASE m.kind = "test" /\ m.arg = probe.id
        <4>1. h \in OutFrame /\ h.kind = "test" /\ h.arg = probe.id
          BY <1>1, <2>2, <3>1 DEF OutMsg, OutFrame, LinkType
        <4>2. stream' = Append(stream, h)
          BY <2>1, <3>1
        <4> HIDE DEF h
        <4> QED
          BY <1>1, <4>1, <4>2, CarriesFacts
      <3>2. CASE ~(m.kind = "test" /\ m.arg = probe.id)
        <4>1. Carries(mailbox, "test", probe.id) => Carries(Tail(mailbox), "test", probe.id)
          BY <1>1, <3>2, CarriesFacts
        <4> QED
          BY <2>1, <4>1
      <3> QED
        BY <3>1, <3>2
    <2> HIDE DEF m, h
    <2> QED
      BY <1>1, <2>1, <2>3, <2>4, ProbeMoves
  <1>6. CASE Read
    <2> DEFINE m == Head(inbox)
               g == [kind |-> "fill", arg |-> m.arg, end |-> m.end]
    <2>1. /\ inbox # <<>> /\ inbox' = Tail(inbox) /\ ~closed
          /\ mailbox' = mailbox \/ mailbox' = Append(mailbox, g)
          /\ probe' = IF Answered(m) THEN NoProbe ELSE probe
          /\ UNCHANGED <<stream, closed, parked, lag, cut>>
      BY <1>6 DEF Read
    <2>2. m \in InMsg
      BY <1>1, <2>1, TailFacts
    <2>3. g \in OutMsg
      BY <2>2, MessageTypes DEF InMsg
    <2>4. CASE Answered(m)
      BY <2>1, <2>4 DEF ProbeInv
    <2>5. CASE ~Answered(m)
      <3> HIDE DEF g
      <3>1. Carries(mailbox, "test", probe.id) => Carries(mailbox', "test", probe.id)
        <4>1. CASE mailbox' = Append(mailbox, g)
          BY <1>1, <2>3, <4>1, CarriesFacts
        <4> QED
          BY <2>1, <4>1
      <3>2. Carries(inbox, "answer", probe.id) => Carries(inbox', "answer", probe.id)
        BY <1>1, <2>1, <2>5, CarriesFacts DEF Answered
      <3>3. probe' = probe
        BY <2>1, <2>5
      <3> QED
        BY <1>1, <2>1, <3>1, <3>2, <3>3, ProbeMoves
    <2> QED
      BY <2>4, <2>5
  <1>7. CASE SendProbe
    <2> DEFINE m == Message("test", probes + 1)
    <2>1. /\ ~closed /\ UNCHANGED <<closed, lag>>
          /\ probe' = [id |-> probes + 1, left |-> CloseAfter]
          /\ mailbox' = Append(mailbox, m)
      BY <1>7 DEF SendProbe
    <2>2. m \in OutMsg /\ m.kind = "test" /\ m.arg = probe'.id /\ probe'.left = CloseAfter
      <3>1. probes + 1 \in Int /\ probe'.id = probes + 1 /\ probe'.left = CloseAfter
        BY <1>2, <2>1
      <3>2. m \in OutMsg
        BY <3>1, MessageTypes
      <3>3. m.kind = "test" /\ m.arg = probes + 1
        BY DEF Message
      <3> QED
        BY <3>1, <3>2, <3>3
    <2> HIDE DEF m
    <2>3. Carries(mailbox', "test", probe'.id)
      BY <1>1, <2>1, <2>2, CarriesFacts
    <2>4. ProbeOnItsWay'
      BY <2>2, <2>3 DEF ProbeOnItsWay, Carries
    <2> QED
      BY <2>1, <2>4 DEF ProbeInv
  <1>8. CASE Close
    <2>1. probe # NoProbe /\ probe.left = 0 /\ UNCHANGED <<mailbox, stream, inbox, probe, parked, lag, cut>>
      BY <1>8 DEF Close, Overdue
    <2>2. cut \/ probe.id \in parked
      <3>1. ProbeOnItsWay /\ lag.out <= Delay /\ lag.in <= Delay
        BY <2>1 DEF ProbeInv
      <3>2. /\ ~(CloseAfter - probe.left <= lag.out)
            /\ ~(CloseAfter - probe.left <= Delay + lag.in) /\ probe.left # CloseAfter
        BY <1>2, <2>1, <3>1
      <3> QED
        BY <3>1, <3>2 DEF ProbeOnItsWay
    <2> QED
      BY <2>1, <2>2 DEF ProbeInv, ProbeOnItsWay
  <1>9. CASE Speak
    <2>1. Message("other", 0) \in InMsg
      BY DEF Message, InMsg
    <2>2. Carries(inbox, "answer", probe.id) => Carries(inbox', "answer", probe.id)
      BY <1>1, <1>9, <2>1, CarriesFacts DEF Speak
    <2> QED
      BY <1>1, <1>9, <2>2, ProbeMoves DEF Speak
  <1>10. ASSUME NEW f \in OutFrame, Process(f)
         PROVE  /\ Carries(inbox, "answer", probe.id) => Carries(inbox', "answer", probe.id)
                /\ f.kind = "test" /\ f.arg = probe.id => Carries(inbox', "answer", probe.id)
                /\ parked' = parked
    <2> DEFINE m == Message("answer", f.arg)
    <2>1. m \in InMsg /\ m.kind = "answer" /\ m.arg = f.arg
      BY MessageTypes DEF Message, OutFrame
    <2>2. /\ inbox' = IF f.kind = "test" THEN Append(inbox, m) ELSE inbox
          /\ parked' = parked
      BY <1>10 DEF Process
    <2> HIDE DEF m
    <2> QED
      BY <1>1, <2>1, <2>2, CarriesFacts
  <1>11. CASE PeerReads
    <2> DEFINE f == Head(stream)
    <2>1. /\ stream # <<>> /\ stream' = Tail(stream) /\ f \in OutFrame
          /\ UNCHANGED <<mailbox, probe, closed, lag, cut>>
      BY <1>1, <1>11, TailFacts DEF PeerReads
    <2>2. f.kind # "fill" => expected <= f.seq
      <3>1. 1 \in DOMAIN stream /\ stream[1] = f
        BY <1>1, <2>1, TailFacts
      <3> QED
        BY <3>1 DEF NumberInv, NumbersAhead
    <2>3. \/ Process(f)
          \/ /\ parked' = IF f.kind = "test" THEN parked \cup {f.arg} ELSE parked
             /\ inbox' = inbox
          \/ f.seq < expected /\ inbox' = inbox /\ parked' = parked
      BY <1>11 DEF PeerReads
    <2>4. /\ Carries(inbox, "answer", probe.id) => Carries(inbox', "answer", probe.id)
          /\ parked \subseteq parked'
          /\ f.kind = "test" /\ f.arg = probe.id =>
               probe.id \in parked' \/ Carries(inbox', "answer", probe.id)
      <3>1. CASE Process(f)
        BY <1>10, <2>1, <3>1
      <3>2. CASE /\ parked' = IF f.kind = "test" THEN parked \cup {f.arg} ELSE parked
                 /\ inbox' = inbox
        BY <3>2
      <3>3. CASE f.seq < expected /\ inbox' = inbox /\ parked' = parked
        <4>1. f.kind = "fill"
          BY <1>1, <2>1, <2>2, <3>3 DEF OutFrame, LinkType
        <4> QED
          BY <3>3, <4>1
      <3> QED
        BY <2>3, <3>1, <3>2, <3>3
    <2>5. \/ probe.id \in parked'
          \/ Carries(stream, "test", probe.id) =>
               Carries(stream', "test", probe.id) \/ Carries(inbox', "answer", probe.id)
      <3>1. Carries(stream, "test", probe.id) =>
              Carries(stream', "test", probe.id) \/ (f.kind = "test" /\ f.arg = probe.id)
        BY <1>1, <2>1, CarriesFacts
      <3> QED
        BY <2>4, <3>1
    <2> HIDE DEF f
    <2> QED
      BY <1>1, <2>1, <2>4, <2>5, ProbeMoves
  <1>12. CASE PeerReleases
    <2>1. PICK f \in HeldReady : Process(f)
      BY <1>12 DEF PeerReleases
    <2>2. f \in OutFrame
      BY <1>1 DEF HeldReady, LinkType
    <2>3. /\ Carries(inbox, "answer", probe.id) => Carries(inbox', "answer", probe.id)
          /\ parked' = parked
      BY <1>10, <2>1, <2>2
    <2> QED
      BY <1>1, <1>12, <2>3, ProbeMoves DEF PeerReleases
  <1>13. CASE PeerLoses
    <2>1. /\ stream # <<>> /\ stream' = Tail(stream) /\ Head(stream).kind = "plain"
          /\ UNCHANGED <<mailbox, inbox, probe, closed, parked, lag, cut>>
      BY <1>13 DEF PeerLoses
    <2>2. Carries(stream, "test", probe.id) => Carries(stream', "test", probe.id)
      BY <1>1, <2>1, CarriesFacts
    <2> QED
      BY <1>1, <2>1, <2>2, ProbeMoves
  <1>14. ASSUME NEW b \in Int, NEW e \in Int, AskFor(b, e)
         PROVE  Carries(inbox, "answer", probe.id) => Carries(inbox', "answer", probe.id)
    <2> DEFINE m == [kind |-> "ask", arg |-> b, end |-> e]
    <2>1. m \in InMsg /\ inbox' = Append(inbox, m)
      BY <1>14, MessageTypes DEF AskFor
    <2> HIDE DEF m
    <2> QED
      BY <1>1, <2>1, CarriesFacts
  <1>15. CASE PeerAsks
    <2>1. PICK end \in {0} \cup {f.seq - 1 : f \in held} : AskFor(expected, end)
      BY <1>15 DEF PeerAsks
    <2>2. end \in Int /\ expected \in Int
      BY <1>1 DEF OutFrame, LinkType
    <2>3. Carries(inbox, "answer", probe.id) => Carries(inbox', "answer", probe.id)
      BY <1>14, <2>1, <2>2
    <2> QED
      BY <1>1, <1>15, <2>3, ProbeMoves DEF PeerAsks
  <1>16. ASSUME NEW begin \in 1..(MaxSeq + 1), NEW end \in 0..(MaxSeq + 1),
                PeerAsksAnything(begin, end)
         PROVE  ProbeInv'
    <2>1. begin \in Int /\ end \in Int /\ AskFor(begin, end)
      BY <1>16, LinkAssumption DEF PeerAsksAnything
    <2>2. Carries(inbox, "answer", probe.id) => Carries(inbox', "answer", probe.id)
      BY <1>14, <2>1
    <2> QED
      BY <1>1, <1>16, <2>2, ProbeMoves DEF PeerAsksAnything
  <1>17. CASE Cut
    BY <1>1, <1>17, ProbeMoves DEF Cut
  <1>18. CASE Tick
    <2>1. /\ mailbox = <<>> /\ ~closed
          /\ inbox # <<>> => lag.in < Delay
          /\ ~cut /\ stream # <<>> => lag.out < Delay
          /\ UNCHANGED <<mailbox, stream, inbox, closed, parked, cut>>
          /\ lag' = [out |-> IF stream = <<>> \/ cut THEN 0 ELSE lag.out + 1,
                     in |-> IF inbox = <<>> THEN 0 ELSE lag.in + 1]
      BY <1>18 DEF Tick, Settled
    <2>2. lag'.out <= Delay /\ lag'.in <= Delay
      BY <1>2, <2>1
    <2>3. ASSUME probe' # NoProbe PROVE ProbeOnItsWay'
      <3>1. probe # NoProbe /\ probe' = [probe EXCEPT !.left = probe.left - 1]
        BY <1>18, <2>3 DEF Tick
      <3>2. probe'.id = probe.id /\ probe'.left = probe.left - 1
        BY <1>2, <3>1
      <3>3. ~Carries(mailbox, "test", probe.id)
        BY <1>1, <2>1, CarriesFacts
      <3>4. CASE cut \/ probe.id \in parked
        BY <2>1, <3>2, <3>4 DEF ProbeOnItsWay
      <3>5. CASE ~cut /\ CloseAfter - probe.left <= lag.out /\ Carries(stream, "test", probe.id)
        <4>1. stream # <<>>
          BY <1>1, <3>5, CarriesFacts
        <4>2. CloseAfter - probe'.left <= lag'.out
          BY <1>2, <2>1, <3>2, <3>5, <4>1
        <4> QED
          BY <2>1, <3>2, <3>5, <4>2 DEF ProbeOnItsWay, Carries
      <3>6. CASE CloseAfter - probe.left <= Delay + lag.in /\ Carries(inbox, "answer", probe.id)
        <4>1. inbox # <<>>
          BY <1>1, <3>6, CarriesFacts
        <4>2. CloseAfter - probe'.left <= Delay + lag'.in
          BY <1>2, <2>1, <3>2, <3>6, <4>1
        <4> QED
          BY <2>1, <3>2, <3>6, <4>2 DEF ProbeOnItsWay, Carries
      <3> QED
        BY <3>1, <3>3, <3>4, <3>5, <3>6 DEF ProbeInv, ProbeOnItsWay
    <2> QED
      BY <2>1, <2>2, <2>3 DEF ProbeInv
  <1> QED
    BY <1>3, <1>4, <1>5, <1>6, <1>7, <1>8, <1>9, <1>11, <1>12, <1>13, <1>15, <1>16, <1>17,
       <1>18 DEF Next, Loop, Peer

\* A peer that answers in time is not logged out, unless the TestRequest reached
\* it behind a gap in our numbers (run_common): the answer is read before the
\* deadline whenever each direction delivers within Delay and 2 * Delay is less
\* than the 2.4 heartbeats of the deadline.
THEOREM AnsweringPeersStay == Spec => []AnsweringPeerStays
  <1>1. Init => ProbeInv
    BY ProbeInit
  <1>2. NumberInv /\ ProbeInv /\ [Next]_vars => ProbeInv'
    BY ProbeStep
  <1>3. ProbeInv => AnsweringPeerStays
    BY DEF ProbeInv, AnsweringPeerStays
  <1> QED
    BY <1>1, <1>2, <1>3, NumbersHold, PTL DEF Spec
=============================================================================
