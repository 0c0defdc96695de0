-------------------------- MODULE SequencingProofs --------------------------
(***************************************************************************)
(* Sequencing implements Delivery, and logs no conforming counterparty     *)
(* out, for every number of messages, losses, repeats and places in the    *)
(* queue.  The one condition is that the counterparty sends no             *)
(* SequenceReset that decode refuses.                                      *)
(***************************************************************************)
EXTENDS Sequencing, SequenceTheorems, TLAPS

\* The kinds of messages of such a counterparty.
DecodedReset == {"app", "admin", "bad", "reset"}

-----------------------------------------------------------------------------
(* The invariant *)

SeqType ==
    /\ sent \in Seq(DecodedReset)
    /\ repeated \in Nat
    /\ abandoned \subseteq 1..Len(sent)
    /\ wire \in Seq(Msg) /\ queued \subseteq Msg
    /\ requests \in Seq(Nat \ {0})
    /\ expected \in 1..(Len(sent) + 1)
    /\ closed \in {"no", "low", "full", "newseq"}

\* What a message says is true when the kinds ks were used and the numbers in
\* void given up: it has the kind its number was used for, and a gap fill covers
\* numbers that are not, or no longer, for the application.
Genuine(m, ks, void) ==
    /\ m.seq \in 1..Len(ks)
    /\ m.kind # "gapfill" => m.kind = ks[m.seq]
    /\ m.kind = "gapfill" =>
        /\ m.dup
        /\ m.new \in (m.seq + 1)..(Len(ks) + 1)
        /\ \A n \in m.seq..(m.new - 1) : ks[n] # "app" \/ n \in void
    /\ m.kind = "reset" => m.new = m.seq + 1 /\ ~m.dup
    /\ m.kind \notin {"gapfill", "reset"} => m.new = 0

AllGenuine ==
    /\ \A k \in DOMAIN wire : Genuine(wire[k], sent, abandoned)
    /\ \A m \in queued : Genuine(m, sent, abandoned)

\* A reset voids every number up to its own.
ResetsVoid == \A n \in 1..Len(sent) : sent[n] = "reset" => 1..n \subseteq abandoned

SeqInv == SeqType /\ AllGenuine /\ ResetsVoid

\* m has nothing to say about number n and what follows it.
Below(m, n) == m.seq < n /\ m.new <= n

\* The k-th message on the wire is new: it was sent once, after all that is
\* ahead of it or waits in the queue, and the session has not passed it.
Unpassed(k) ==
    /\ expected <= wire[k].seq
    /\ \A j \in 1..(k - 1) : Below(wire[j], wire[k].seq)
    /\ \A m \in queued : Below(m, wire[k].seq)

\* As long as the counterparty repeats nothing, that is so of every message
\* without PossDupFlag, and the session was not ended over a number.
PeerInv ==
    repeated = 0 =>
        /\ closed \in {"no", "full"}
        /\ \A k \in DOMAIN wire : ~wire[k].dup => Unpassed(k)

-----------------------------------------------------------------------------
(* Messages *)

\* What is true of a message stays true when numbers are used and given up.
LEMMA GenuineStays ==
  ASSUME NEW m \in Msg, NEW ks \in Seq(DecodedReset), NEW void,
         NEW ks2 \in Seq(DecodedReset), NEW void2,
         Genuine(m, ks, void), Len(ks2) >= Len(ks),
         \A n \in 1..Len(ks) : ks2[n] = ks[n], void \subseteq void2
  PROVE  Genuine(m, ks2, void2)
  <1>1. Len(ks) \in Nat /\ Len(ks2) \in Nat
    OBVIOUS
  <1> QED
    BY <1>1 DEF Genuine, Msg

\* The message the loop takes is genuine, and due when it comes from the queue.
LEMMA IncomingGenuine ==
  ASSUME SeqInv, Take
  PROVE  /\ Incoming \in Msg /\ Genuine(Incoming, sent, abandoned)
         /\ Ready # {} => Incoming \in queued /\ Incoming.seq = expected
         /\ Ready = {} => wire # <<>> /\ Incoming = wire[1]
  <1>1. CASE Ready # {}
    <2>1. Incoming \in Ready
      BY <1>1 DEF Incoming
    <2> QED
      BY <1>1, <2>1 DEF Ready, SeqInv, SeqType, AllGenuine
  <1>2. CASE Ready = {}
    <2>1. wire # <<>> /\ Incoming = Head(wire)
      BY <1>2 DEF Take, Incoming
    <2>2. 1 \in DOMAIN wire /\ Head(wire) = wire[1] /\ wire[1] \in Msg
      BY <2>1 DEF SeqInv, SeqType
    <2> QED
      BY <1>2, <2>1, <2>2 DEF SeqInv, AllGenuine
  <1> QED
    BY <1>1, <1>2

-----------------------------------------------------------------------------
(* Steps of the counterparty *)

\* What keeps the invariant when the counterparty adds messages to the wire.
LEMMA PeerStep ==
  ASSUME SeqInv,
         NEW ms \in Seq(Msg), wire' = wire \o ms,
         sent' \in Seq(DecodedReset), Len(sent') >= Len(sent),
         \A n \in 1..Len(sent) : sent'[n] = sent[n],
         abandoned \subseteq abandoned', abandoned' \subseteq 1..Len(sent'),
         \A k \in 1..Len(ms) : Genuine(ms[k], sent', abandoned'),
         ResetsVoid', repeated' \in Nat, requests' \in Seq(Nat \ {0}),
         expected' = expected, queued' = queued, closed' = closed
  PROVE  SeqInv'
  <1>1. /\ wire' \in Seq(Msg) /\ Len(wire') = Len(wire) + Len(ms)
        /\ \A k \in 1..Len(wire') :
               wire'[k] = IF k <= Len(wire) THEN wire[k] ELSE ms[k - Len(wire)]
    BY ConcatProperties DEF SeqInv, SeqType
  <1>2. /\ Len(wire) \in Nat /\ Len(ms) \in Nat
        /\ Len(sent) \in Nat /\ Len(sent') \in Nat
        /\ \A k \in 1..Len(wire) : wire[k] \in Msg /\ Genuine(wire[k], sent, abandoned)
        /\ \A m \in queued : m \in Msg /\ Genuine(m, sent, abandoned)
    BY DEF SeqInv, SeqType, AllGenuine
  <1>3. SeqType'
    BY <1>1, <1>2 DEF SeqInv, SeqType
  <1>4. \A m \in Msg : Genuine(m, sent, abandoned) => Genuine(m, sent', abandoned')
    BY GenuineStays DEF SeqInv, SeqType
  <1>5. \A k \in 1..Len(wire') : Genuine(wire'[k], sent', abandoned')
    <2> TAKE k \in 1..Len(wire')
    <2>1. CASE k <= Len(wire)
      BY <1>1, <1>2, <1>4, <2>1
    <2>2. CASE ~(k <= Len(wire))
      <3>1. k - Len(wire) \in 1..Len(ms) /\ wire'[k] = ms[k - Len(wire)]
        BY <1>1, <1>2, <2>2
      <3> QED
        BY <3>1
    <2> QED
      BY <2>1, <2>2
  <1>6. AllGenuine'
    <2>1. DOMAIN wire' = 1..Len(wire')
      BY <1>1
    <2> QED
      BY <1>2, <1>4, <1>5, <2>1 DEF AllGenuine
  <1> QED
    BY <1>3, <1>6 DEF SeqInv

LEMMA SendKeeps ==
  ASSUME SeqInv, NEW kind \in DecodedReset, Send(kind)
  PROVE  SeqInv'
  <1> DEFINE n == Len(sent) + 1
             m == Plain(n, kind)
  <1>1. /\ sent \in Seq(DecodedReset) /\ Len(sent) \in Nat /\ abandoned \subseteq 1..Len(sent)
        /\ wire \in Seq(Msg) /\ UNCHANGED <<repeated, requests, expected, queued, closed>>
        /\ repeated \in Nat /\ requests \in Seq(Nat \ {0})
    BY DEF SeqInv, SeqType, Send
  <1>2. /\ sent' \in Seq(DecodedReset) /\ Len(sent') = n /\ sent'[n] = kind
        /\ \A k \in 1..Len(sent) : sent'[k] = sent[k]
    BY <1>1 DEF Send
  <1>3. /\ abandoned' = IF kind = "reset" THEN 1..n ELSE abandoned
        /\ abandoned \subseteq abandoned' /\ abandoned' \subseteq 1..Len(sent')
    <2>1. abandoned' = IF kind = "reset" THEN 1..n ELSE abandoned
      BY DEF Send
    <2>2. CASE kind = "reset"
      BY <1>1, <1>2, <2>1, <2>2
    <2>3. CASE kind # "reset"
      BY <1>1, <1>2, <2>1, <2>3
    <2> QED
      BY <2>1, <2>2, <2>3
  <1>4. m \in Msg /\ <<m>> \in Seq(Msg) /\ wire' = wire \o <<m>>
    <2>1. m \in Msg
      BY <1>1 DEF Plain, Msg, DecodedReset, Resets
    <2>2. wire' = Append(wire, m)
      BY DEF Send
    <2> HIDE DEF m
    <2> QED
      BY <1>1, <2>1, <2>2
  <1>5. Genuine(m, sent', abandoned')
    BY <1>1, <1>2 DEF Genuine, Plain, DecodedReset, Resets
  <1>6. ResetsVoid'
    <2> SUFFICES ASSUME NEW k \in 1..n, sent'[k] = "reset"
                 PROVE  1..k \subseteq abandoned'
      BY <1>2 DEF ResetsVoid
    <2>1. CASE k = n
      BY <1>2, <1>3, <2>1
    <2>2. CASE k # n
      BY <1>1, <1>2, <1>3, <2>2 DEF SeqInv, ResetsVoid
    <2> QED
      BY <2>1, <2>2
  <1>7. \A k \in 1..Len(<<m>>) : Genuine(<<m>>[k], sent', abandoned')
    BY <1>5
  <1> HIDE DEF m
  <1>8. Len(sent') >= Len(sent)
    BY <1>1, <1>2
  <1>9. /\ expected' = expected /\ queued' = queued /\ closed' = closed
        /\ repeated' \in Nat /\ requests' \in Seq(Nat \ {0}) /\ sent' \in Seq(DecodedReset)
    BY <1>1, <1>2
  <1> QED
    BY <1>2, <1>3, <1>4, <1>6, <1>7, <1>8, <1>9, PeerStep

LEMMA LoseKeeps ==
  ASSUME SeqInv, NEW kind \in DecodedReset, Lose(kind)
  PROVE  SeqInv'
  <1>1. /\ sent \in Seq(DecodedReset) /\ Len(sent) \in Nat /\ abandoned \subseteq 1..Len(sent)
        /\ wire \in Seq(Msg) /\ repeated \in Nat /\ requests \in Seq(Nat \ {0})
        /\ UNCHANGED <<repeated, abandoned, wire, requests, expected, queued, closed>>
    BY DEF SeqInv, SeqType, Lose
  <1>2. /\ sent' \in Seq(DecodedReset) /\ Len(sent') = Len(sent) + 1
        /\ sent'[Len(sent) + 1] = kind /\ kind # "reset"
        /\ \A k \in 1..Len(sent) : sent'[k] = sent[k]
    BY <1>1 DEF Lose, Resets
  <1>3. <<>> \in Seq(Msg) /\ wire' = wire \o <<>> /\ Len(<<>>) = 0
    BY <1>1
  <1>4. ResetsVoid'
    BY <1>1, <1>2 DEF SeqInv, ResetsVoid
  <1>5. \A k \in 1..Len(<<>>) : Genuine(<<>>[k], sent', abandoned')
    BY <1>3
  <1>6. Len(sent') >= Len(sent)
    BY <1>1, <1>2
  <1>7. abandoned \subseteq abandoned' /\ abandoned' \subseteq 1..Len(sent')
    BY <1>1, <1>2
  <1>8. /\ expected' = expected /\ queued' = queued /\ closed' = closed
        /\ repeated' \in Nat /\ requests' \in Seq(Nat \ {0}) /\ sent' \in Seq(DecodedReset)
    BY <1>1, <1>2
  <1> QED
    BY <1>2, <1>3, <1>4, <1>5, <1>6, <1>7, <1>8, PeerStep

LEMMA RepeatKeeps ==
  ASSUME SeqInv, NEW n \in Nat \ {0}, Repeat(n)
  PROVE  SeqInv'
  <1> DEFINE m == Plain(n, sent[n])
  <1>1. /\ sent \in Seq(DecodedReset) /\ Len(sent) \in Nat /\ abandoned \subseteq 1..Len(sent)
        /\ wire \in Seq(Msg) /\ repeated' \in Nat /\ requests \in Seq(Nat \ {0})
        /\ UNCHANGED <<sent, abandoned, requests, expected, queued, closed>>
    BY DEF SeqInv, SeqType, Repeat
  <1>2. n \in 1..Len(sent) /\ sent[n] \in DecodedReset
    BY <1>1 DEF Repeat
  <1>3. m \in Msg /\ <<m>> \in Seq(Msg) /\ wire' = wire \o <<m>>
    <2>1. m \in Msg
      BY <1>1, <1>2 DEF Plain, Msg, DecodedReset, Resets
    <2>2. wire' = Append(wire, m)
      BY DEF Repeat
    <2> HIDE DEF m
    <2> QED
      BY <1>1, <2>1, <2>2
  <1>4. Genuine(m, sent', abandoned')
    BY <1>1, <1>2 DEF Genuine, Plain, DecodedReset, Resets
  <1>5. ResetsVoid'
    BY <1>1 DEF SeqInv, ResetsVoid
  <1>6. \A k \in 1..Len(<<m>>) : Genuine(<<m>>[k], sent', abandoned')
    BY <1>4
  <1> HIDE DEF m
  <1>7. Len(sent') >= Len(sent) /\ \A k \in 1..Len(sent) : sent'[k] = sent[k]
    BY <1>1
  <1>8. abandoned \subseteq abandoned' /\ abandoned' \subseteq 1..Len(sent')
    BY <1>1
  <1>9. /\ expected' = expected /\ queued' = queued /\ closed' = closed
        /\ repeated' \in Nat /\ requests' \in Seq(Nat \ {0}) /\ sent' \in Seq(DecodedReset)
    BY <1>1
  <1> QED
    BY <1>3, <1>5, <1>6, <1>7, <1>8, <1>9, PeerStep

LEMMA ResendKeeps ==
  ASSUME SeqInv, Resend
  PROVE  /\ SeqInv'
         /\ \E ms \in Seq(Msg) : wire' = wire \o ms /\ \A k \in 1..Len(ms) : ms[k].dup
  <1> DEFINE from == Head(requests)
             size == IF Len(sent) + 1 - from < 0 THEN 0 ELSE Len(sent) + 1 - from
             ms == [k \in 1..(Len(sent) + 1 - from) |-> Again(from + k - 1)]
  <1>1. /\ sent \in Seq(DecodedReset) /\ Len(sent) \in Nat /\ abandoned \subseteq 1..Len(sent)
        /\ wire \in Seq(Msg) /\ repeated \in Nat
        /\ UNCHANGED <<sent, repeated, abandoned, expected, queued, closed>>
    BY DEF SeqInv, SeqType, Resend, peer
  <1>2. from \in Nat \ {0} /\ requests' \in Seq(Nat \ {0})
    BY DEF SeqInv, SeqType, Resend
  <1>3. wire' = wire \o ms
    BY DEF Resend
  <1>4. \A n \in 1..Len(sent) : /\ Again(n) \in Msg /\ Again(n).dup
                                /\ Genuine(Again(n), sent, abandoned)
    <2> TAKE n \in 1..Len(sent)
    <2>1. sent[n] \in DecodedReset
      BY <1>1
    <2>2. sent[n] = "reset" => n \in abandoned
      BY <1>1 DEF SeqInv, ResetsVoid
    <2>3. CASE sent[n] \in {"app", "bad"}
      <3>1. Again(n) = [seq |-> n, kind |-> sent[n], dup |-> TRUE, new |-> 0]
        BY <2>3 DEF Again, Plain, Resets
      <3> QED
        BY <1>1, <2>3, <3>1 DEF Genuine, Msg
    <2>4. CASE sent[n] \notin {"app", "bad"}
      <3>1. Again(n) = GapFill(n, n + 1)
        BY <2>4 DEF Again
      <3> QED
        BY <1>1, <2>4, <3>1 DEF Genuine, Msg, GapFill
    <2> QED
      BY <2>3, <2>4
  <1>5. /\ size \in Nat /\ 1..(Len(sent) + 1 - from) = 1..size
        /\ \A k \in 1..size : from + k - 1 \in 1..Len(sent)
    <2> HIDE DEF from
    <2>1. CASE Len(sent) + 1 - from < 0
      BY <1>1, <1>2, <2>1
    <2>2. CASE ~(Len(sent) + 1 - from < 0)
      BY <1>1, <1>2, <2>2
    <2> QED
      BY <2>1, <2>2
  <1> HIDE DEF size, from
  <1>6. /\ ms \in Seq(Msg) /\ Len(ms) = size
        /\ \A k \in 1..size : ms[k] = Again(from + k - 1)
    <2>1. ms \in [1..size -> Msg] /\ \A k \in 1..size : ms[k] = Again(from + k - 1)
      BY <1>4, <1>5
    <2> HIDE DEF ms
    <2> QED
      BY <1>5, <2>1
  <1>7. \A k \in 1..Len(ms) : Genuine(ms[k], sent', abandoned') /\ ms[k].dup
    <2> HIDE DEF ms
    <2> QED
      BY <1>1, <1>4, <1>5, <1>6
  <1>8. ResetsVoid'
    BY <1>1 DEF SeqInv, ResetsVoid
  <1> HIDE DEF ms
  <1>9. SeqInv'
    <2>1. Len(sent') >= Len(sent) /\ \A k \in 1..Len(sent) : sent'[k] = sent[k]
      BY <1>1
    <2>2. abandoned \subseteq abandoned' /\ abandoned' \subseteq 1..Len(sent')
      BY <1>1
    <2>3. /\ expected' = expected /\ queued' = queued /\ closed' = closed
          /\ repeated' \in Nat /\ requests' \in Seq(Nat \ {0}) /\ sent' \in Seq(DecodedReset)
      BY <1>1, <1>2
    <2> QED
      BY <1>3, <1>6, <1>7, <1>8, <2>1, <2>2, <2>3, PeerStep
  <1> QED
    BY <1>3, <1>6, <1>7, <1>9

LEMMA FillKeeps ==
  ASSUME SeqInv, Fill
  PROVE  /\ SeqInv'
         /\ \E ms \in Seq(Msg) : wire' = wire \o ms /\ \A k \in 1..Len(ms) : ms[k].dup
  <1> DEFINE from == Head(requests)
             m == GapFill(from, Len(sent) + 1)
  <1>1. /\ sent \in Seq(DecodedReset) /\ Len(sent) \in Nat /\ abandoned \subseteq 1..Len(sent)
        /\ wire \in Seq(Msg) /\ repeated \in Nat
        /\ UNCHANGED <<sent, repeated, expected, queued, closed>>
    BY DEF SeqInv, SeqType, Fill
  <1>2. from \in 1..Len(sent) /\ requests' \in Seq(Nat \ {0})
    BY DEF SeqInv, SeqType, Fill
  <1>3. abandoned' = abandoned \cup (from..Len(sent))
    BY DEF Fill
  <1>4. m \in Msg /\ <<m>> \in Seq(Msg) /\ wire' = wire \o <<m>> /\ m.dup
    <2>1. m \in Msg /\ m.dup
      BY <1>1, <1>2 DEF GapFill, Msg
    <2>2. wire' = Append(wire, m)
      BY DEF Fill
    <2> HIDE DEF m
    <2> QED
      BY <1>1, <2>1, <2>2
  <1>5. Genuine(m, sent', abandoned')
    BY <1>1, <1>2, <1>3 DEF Genuine, GapFill
  <1>6. ResetsVoid'
    BY <1>1, <1>3 DEF SeqInv, ResetsVoid
  <1>7. \A k \in 1..Len(<<m>>) : Genuine(<<m>>[k], sent', abandoned') /\ <<m>>[k].dup
    BY <1>4, <1>5
  <1>8. abandoned \subseteq abandoned' /\ abandoned' \subseteq 1..Len(sent')
    <2>1. from..Len(sent) \subseteq 1..Len(sent)
      BY <1>1, <1>2
    <2> QED
      BY <1>1, <1>3, <2>1
  <1> HIDE DEF m, from
  <1>9. SeqInv'
    <2>1. Len(sent') >= Len(sent) /\ \A k \in 1..Len(sent) : sent'[k] = sent[k]
      BY <1>1
    <2>2. /\ expected' = expected /\ queued' = queued /\ closed' = closed
          /\ repeated' \in Nat /\ requests' \in Seq(Nat \ {0}) /\ sent' \in Seq(DecodedReset)
      BY <1>1, <1>2
    <2> QED
      BY <1>4, <1>6, <1>7, <1>8, <2>1, <2>2, PeerStep
  <1> QED
    BY <1>4, <1>7, <1>9

-----------------------------------------------------------------------------
(* Steps of the connection loop *)

\* A step of the loop takes one message, and adds no other to the queue.
LEMMA LoopStep ==
  ASSUME SeqInv, Take,
         sent' = sent, repeated' = repeated, abandoned' = abandoned,
         queued' \subseteq queued \cup {Incoming},
         expected' \in 1..(Len(sent) + 1), requests' \in Seq(Nat \ {0}),
         closed' \in {"no", "low", "full", "newseq"}
  PROVE  SeqInv'
  <1>1. Incoming \in Msg /\ Genuine(Incoming, sent, abandoned)
    BY IncomingGenuine
  <1>2. /\ wire \in Seq(Msg) /\ \A k \in 1..Len(wire) : Genuine(wire[k], sent, abandoned)
        /\ queued \subseteq Msg /\ \A m \in queued : Genuine(m, sent, abandoned)
    BY DEF SeqInv, SeqType, AllGenuine
  <1>3. wire' \in Seq(Msg) /\ \A k \in 1..Len(wire') : Genuine(wire'[k], sent, abandoned)
    <2>1. CASE wire' = wire
      BY <1>2, <2>1
    <2>2. CASE wire # <<>> /\ wire' = Tail(wire)
      <3>1. /\ wire' \in Seq(Msg) /\ Len(wire') = Len(wire) - 1
            /\ \A k \in 1..Len(wire') : wire'[k] = wire[k + 1] /\ k + 1 \in 1..Len(wire)
        BY <1>2, <2>2
      <3> QED
        BY <1>2, <3>1
    <2> QED
      BY <2>1, <2>2 DEF Take
  <1>4. SeqType'
    BY <1>1, <1>2, <1>3 DEF SeqInv, SeqType
  <1>5. AllGenuine'
    <2>1. DOMAIN wire' = 1..Len(wire')
      BY <1>3
    <2> QED
      BY <1>1, <1>2, <1>3, <2>1 DEF AllGenuine
  <1>6. ResetsVoid'
    BY DEF SeqInv, ResetsVoid
  <1> QED
    BY <1>4, <1>5, <1>6 DEF SeqInv

\* What classify lets through besides SequenceResets is the expected number.
LEMMA DueIsExpected ==
  ASSUME SeqInv, Take, Due(Incoming), Incoming.kind \notin {"gapfill", "reset"}
  PROVE  /\ Incoming.seq = expected /\ expected \in 1..Len(sent)
         /\ Incoming.kind = sent[expected] /\ Incoming.kind # "badreset"
  <1>1. Incoming \in Msg /\ Genuine(Incoming, sent, abandoned)
    BY IncomingGenuine
  <1>2. sent \in Seq(DecodedReset) /\ Len(sent) \in Nat
    BY DEF SeqInv, SeqType
  <1>3. Incoming.kind = sent[Incoming.seq] /\ Incoming.seq \in 1..Len(sent)
    BY <1>1 DEF Genuine
  <1>4. Incoming.kind \in DecodedReset
    BY <1>2, <1>3
  <1> QED
    BY <1>3, <1>4 DEF Due, Overrides, Resets, DecodedReset

\* A SequenceReset never goes beyond what the counterparty has used, and what it
\* passes is not for the application.
LEMMA JumpIsVoid ==
  ASSUME SeqInv, Take, Due(Incoming), Incoming.kind \in {"gapfill", "reset"},
         Incoming.new > expected
  PROVE  /\ Incoming.new \in 1..(Len(sent) + 1)
         /\ \A n \in expected..(Incoming.new - 1) : sent[n] # "app" \/ n \in abandoned
  <1>1. Incoming \in Msg /\ Genuine(Incoming, sent, abandoned)
    BY IncomingGenuine
  <1>2. /\ Len(sent) \in Nat /\ expected \in 1..(Len(sent) + 1)
        /\ \A n \in 1..Len(sent) : sent[n] = "reset" => 1..n \subseteq abandoned
    BY DEF SeqInv, SeqType, ResetsVoid
  <1>3. Incoming.seq \in Nat /\ Incoming.new \in Nat
    BY <1>1 DEF Msg
  <1>4. CASE Incoming.kind = "reset"
    <2>1. /\ Incoming.seq \in 1..Len(sent) /\ sent[Incoming.seq] = "reset"
          /\ Incoming.new = Incoming.seq + 1
      BY <1>1, <1>4 DEF Genuine
    <2>2. 1..Incoming.seq \subseteq abandoned
      BY <1>2, <2>1
    <2> QED
      BY <1>2, <1>3, <2>1, <2>2
  <1>5. CASE Incoming.kind = "gapfill"
    <2>1. /\ Incoming.seq \in 1..Len(sent)
          /\ Incoming.new \in (Incoming.seq + 1)..(Len(sent) + 1)
          /\ \A n \in Incoming.seq..(Incoming.new - 1) : sent[n] # "app" \/ n \in abandoned
      BY <1>1, <1>5 DEF Genuine
    <2>2. Incoming.seq <= expected
      BY <1>2, <1>3, <1>5 DEF Due, Overrides, Resets
    <2> QED
      BY <1>2, <1>3, <2>1, <2>2
  <1> QED
    BY <1>4, <1>5

LEMMA LoopKeeps ==
  ASSUME SeqInv, Loop
  PROVE  SeqInv'
  <1>1. /\ Len(sent) \in Nat /\ expected \in 1..(Len(sent) + 1)
        /\ requests \in Seq(Nat \ {0}) /\ closed \in {"no", "low", "full", "newseq"}
        /\ Kept \subseteq queued
    BY DEF SeqInv, SeqType, Kept
  <1>2. CASE Duplicate
    BY <1>1, <1>2, LoopStep DEF Duplicate, peer
  <1>3. CASE TooLow
    BY <1>1, <1>3, LoopStep DEF TooLow, peer
  <1>4. CASE Gap
    <2>1. requests' \in Seq(Nat \ {0})
      BY <1>1, <1>4 DEF Gap
    <2> QED
      BY <1>1, <1>4, <2>1, LoopStep DEF Gap, peer
  <1>5. CASE TooMany
    BY <1>1, <1>5, LoopStep DEF TooMany, peer
  <1>6. CASE Reject
    <2>1. Incoming.kind \notin {"gapfill", "reset"} /\ expected' = expected + 1
      BY <1>6 DEF Reject
    <2>2. expected' \in 1..(Len(sent) + 1)
      BY <1>1, <1>6, <2>1, DueIsExpected DEF Reject
    <2> QED
      BY <1>1, <1>6, <2>2, LoopStep DEF Reject, peer
  <1>7. CASE Accept
    <2>1. Incoming.kind \notin {"gapfill", "reset"} /\ expected' = expected + 1
      BY <1>7 DEF Accept
    <2>2. expected' \in 1..(Len(sent) + 1)
      BY <1>1, <1>7, <2>1, DueIsExpected DEF Accept
    <2> QED
      BY <1>1, <1>7, <2>2, LoopStep DEF Accept, peer
  <1>8. CASE Jump
    <2>1. expected' \in 1..(Len(sent) + 1)
      BY <1>8, JumpIsVoid DEF Jump
    <2> QED
      BY <1>1, <1>8, <2>1, LoopStep DEF Jump, peer
  <1>9. CASE JumpBack
    BY <1>1, <1>9, LoopStep DEF JumpBack, peer
  <1> QED
    BY <1>2, <1>3, <1>4, <1>5, <1>6, <1>7, <1>8, <1>9 DEF Loop

-----------------------------------------------------------------------------
(* The invariant holds *)

LEMMA SeqInit ==
  ASSUME "badreset" \notin Kind, Init
  PROVE  /\ SeqInv /\ sent \in Seq(Kind \cup {"admin"}) /\ sent # <<>>
         /\ expected = IF Len(sent) = 1 THEN 2 ELSE 1
  <1>1. PICK first \in 1..MaxFirst :
            /\ \E before \in [1..(first - 1) -> Kind \ Resets] :
                   sent = Append(before, "admin")
            /\ expected = IF first = 1 THEN 2 ELSE 1
            /\ queued = IF first = 1 THEN {} ELSE {Plain(first, "admin")}
            /\ requests = IF first = 1 THEN <<>> ELSE <<1>>
    BY DEF Init
  <1>2. PICK before \in [1..(first - 1) -> Kind \ Resets] : sent = Append(before, "admin")
    BY <1>1
  <1>3. first \in Nat /\ first >= 1
    BY SequencingAssumption
  <1>4. Kind \ Resets \subseteq DecodedReset \ {"reset"} /\ "admin" \in DecodedReset
    BY SequencingAssumption DEF Resets, DecodedReset
  <1>5. before \in Seq(Kind \ Resets) /\ Len(before) = first - 1
    BY <1>3
  <1>6. /\ sent \in Seq(DecodedReset) /\ Len(sent) = first /\ sent[first] = "admin"
        /\ \A n \in 1..Len(sent) : sent[n] # "reset"
    BY <1>2, <1>3, <1>4, <1>5
  <1>7. queued \subseteq Msg /\ \A m \in queued : Genuine(m, sent, abandoned)
    <2>1. CASE first = 1
      BY <1>1, <2>1
    <2>2. CASE first # 1
      <3>1. queued = {[seq |-> first, kind |-> "admin", dup |-> FALSE, new |-> 0]}
        BY <1>1, <2>2 DEF Plain, Resets
      <3> QED
        BY <1>3, <1>6, <3>1 DEF Msg, Genuine
    <2> QED
      BY <2>1, <2>2
  <1>8. SeqType
    <2>1. requests \in Seq(Nat \ {0}) /\ expected \in 1..(first + 1)
      <3>1. <<>> \in Seq(Nat \ {0}) /\ <<1>> \in Seq(Nat \ {0})
        OBVIOUS
      <3>2. requests \in Seq(Nat \ {0})
        BY <1>1, <3>1
      <3>3. expected \in 1..(first + 1)
        BY <1>1, <1>3
      <3> QED
        BY <3>2, <3>3
    <2> QED
      BY <1>6, <1>7, <2>1 DEF SeqType, Init
  <1>9. AllGenuine /\ ResetsVoid
    BY <1>6, <1>7 DEF AllGenuine, ResetsVoid, Init
  <1>10. sent \in Seq(Kind \cup {"admin"}) /\ sent # <<>>
    BY <1>2, <1>3, <1>5, <1>6
  <1> QED
    BY <1>1, <1>6, <1>8, <1>9, <1>10 DEF SeqInv

LEMMA SeqStep ==
  ASSUME "badreset" \notin Kind, SeqInv, [Next]_vars
  PROVE  SeqInv'
  <1>1. Kind \subseteq DecodedReset /\ 1..MaxSeq \subseteq Nat \ {0}
    BY SequencingAssumption DEF DecodedReset
  <1>2. CASE \E kind \in Kind : Send(kind)
    BY <1>1, <1>2, SendKeeps
  <1>3. CASE \E kind \in Kind : Lose(kind)
    BY <1>1, <1>3, LoseKeeps
  <1>4. CASE \E n \in 1..MaxSeq : Repeat(n)
    BY <1>1, <1>4, RepeatKeeps
  <1>5. CASE Resend
    BY <1>5, ResendKeeps
  <1>6. CASE Fill
    BY <1>6, FillKeeps
  <1>7. CASE Loop
    BY <1>7, LoopKeeps
  <1>8. CASE UNCHANGED vars
    BY <1>8 DEF vars, SeqInv, SeqType, AllGenuine, ResetsVoid
  <1> QED
    BY <1>2, <1>3, <1>4, <1>5, <1>6, <1>7, <1>8 DEF Next

-----------------------------------------------------------------------------
(* Refinement *)

\* Each step of the model is a step of Delivery.
LEMMA DeliveryStep ==
  ASSUME SeqInv, [Next]_vars
  PROVE  [D!Use \/ D!Deliver \/ D!Pass \/ D!End]_(D!deliveryVars)
  <1>1. /\ sent \in Seq(DecodedReset) /\ Len(sent) \in Nat /\ abandoned \subseteq 1..Len(sent)
        /\ expected \in 1..(Len(sent) + 1)
    BY DEF SeqInv, SeqType
  <1>2. ASSUME NEW kind, Send(kind) \/ Lose(kind)
        PROVE  D!Use
    <2>1. /\ sent' = Append(sent, kind) /\ closed = "no"
          /\ UNCHANGED <<expected, handed, closed>>
      BY <1>2 DEF Send, Lose
    <2>2. Len(sent') = Len(sent) + 1 /\ SubSeq(sent', 1, Len(sent)) = sent
      BY <1>1, <2>1
    <2>3. /\ abandoned' = abandoned \/ abandoned' = 1..(Len(sent) + 1)
      BY <1>2 DEF Send, Lose
    <2>4. abandoned \subseteq abandoned' /\ abandoned' \subseteq 1..Len(sent')
      <3>1. CASE abandoned' = abandoned
        BY <1>1, <2>2, <3>1
      <3>2. CASE abandoned' = 1..(Len(sent) + 1)
        BY <1>1, <2>2, <3>2
      <3> QED
        BY <2>3, <3>1, <3>2
    <2> QED
      BY <2>1, <2>2, <2>4 DEF D!Use
  <1>3. CASE Fill
    <2>1. /\ closed = "no" /\ UNCHANGED <<sent, expected, handed, closed>>
          /\ abandoned' = abandoned \cup (Head(requests)..Len(sent))
          /\ Head(requests) \in Nat \ {0}
      BY <1>3 DEF Fill, SeqInv, SeqType
    <2>2. abandoned \subseteq abandoned' /\ abandoned' \subseteq 1..Len(sent')
      <3>1. Head(requests)..Len(sent) \subseteq 1..Len(sent)
        BY <1>1, <2>1
      <3> QED
        BY <1>1, <2>1, <3>1
    <2> QED
      BY <2>1, <2>2 DEF D!Use
  <1>4. CASE \/ Resend \/ Duplicate \/ Gap \/ UNCHANGED vars
             \/ \E n \in 1..MaxSeq : Repeat(n)
    BY <1>4 DEF Resend, Duplicate, Gap, Repeat, vars, peer, D!deliveryVars
  <1>5. CASE TooLow \/ TooMany \/ JumpBack
    BY <1>5 DEF TooLow, TooMany, JumpBack, peer, D!End
  <1>6. CASE Reject
    <2>1. /\ Take /\ Due(Incoming) /\ Incoming.kind \notin {"gapfill", "reset", "app"}
          /\ expected' = expected + 1 /\ closed = "no"
          /\ UNCHANGED <<sent, abandoned, handed, closed>>
      BY <1>6 DEF Reject, Take, peer
    <2>2. expected <= Len(sent) /\ sent[expected] # "app"
      BY <1>1, <2>1, DueIsExpected
    <2> QED
      BY <1>1, <2>1, <2>2 DEF D!Pass
  <1>7. CASE Accept
    <2>1. /\ Take /\ Due(Incoming) /\ Incoming.kind \notin {"gapfill", "reset"}
          /\ expected' = expected + 1 /\ closed = "no"
          /\ handed' = IF Incoming.kind = "app" THEN Append(handed, Incoming.seq) ELSE handed
          /\ UNCHANGED <<sent, abandoned, closed>>
      BY <1>7 DEF Accept, Take, peer
    <2>2. /\ expected <= Len(sent) /\ Incoming.kind = sent[expected]
          /\ Incoming.seq = expected
      BY <1>1, <2>1, DueIsExpected
    <2>3. CASE Incoming.kind = "app"
      BY <1>1, <2>1, <2>2, <2>3 DEF D!Deliver
    <2>4. CASE Incoming.kind # "app"
      BY <1>1, <2>1, <2>2, <2>4 DEF D!Pass
    <2> QED
      BY <2>3, <2>4
  <1>8. CASE Jump
    <2>1. /\ Take /\ Due(Incoming) /\ Incoming.kind \in {"gapfill", "reset"}
          /\ Incoming.new > expected /\ expected' = Incoming.new /\ closed = "no"
          /\ UNCHANGED <<sent, abandoned, handed, closed>>
      BY <1>8 DEF Jump, Take, peer
    <2> QED
      BY <1>1, <2>1, JumpIsVoid DEF D!Pass
  <1> QED
    BY <1>2, <1>3, <1>4, <1>5, <1>6, <1>7, <1>8 DEF Next, Loop

\* However the counterparty's losses, resends, gap fills and resets interleave,
\* classify, advance and take_ready hand each business message to the
\* application once, in the order of the numbers, and pass over a number only
\* when the counterparty gave it up: unless it sends a SequenceReset that decode
\* refuses.
THEOREM SequencingImplements ==
  ASSUME "badreset" \notin Kind
  PROVE  Spec => ImplementsDelivery
  <1>1. Init => SeqInv
    BY SeqInit
  <1>2. SeqInv /\ [Next]_vars => SeqInv'
    BY SeqStep
  <1>3. Init => D!DeliveryInit
    <2> SUFFICES ASSUME Init PROVE D!DeliveryInit
      OBVIOUS
    <2> QED
      BY SeqInit DEF Init, D!DeliveryInit
  <1>4. SeqInv /\ [Next]_vars => [D!Use \/ D!Deliver \/ D!Pass \/ D!End]_(D!deliveryVars)
    BY DeliveryStep
  <1> QED
    BY <1>1, <1>2, <1>3, <1>4, PTL DEF Spec, ImplementsDelivery, D!DeliverySpec

-----------------------------------------------------------------------------
(* A conforming counterparty *)

\* Messages with PossDupFlag at the end of the wire disturb nothing.
LEMMA DupsKeepPeer ==
  ASSUME SeqInv, PeerInv, NEW ms \in Seq(Msg), wire' = wire \o ms,
         \A k \in 1..Len(ms) : ms[k].dup,
         repeated' = repeated, expected' = expected, queued' = queued, closed' = closed
  PROVE  PeerInv'
  <1> SUFFICES ASSUME repeated = 0
               PROVE  /\ closed' \in {"no", "full"}
                      /\ \A k \in DOMAIN wire' : ~wire'[k].dup => Unpassed(k)'
    BY DEF PeerInv
  <1>1. /\ wire' \in Seq(Msg) /\ Len(wire') = Len(wire) + Len(ms)
        /\ \A k \in 1..Len(wire') :
               wire'[k] = IF k <= Len(wire) THEN wire[k] ELSE ms[k - Len(wire)]
        /\ Len(wire) \in Nat /\ Len(ms) \in Nat
    BY ConcatProperties DEF SeqInv, SeqType
  <1>2. closed' \in {"no", "full"} /\ \A k \in 1..Len(wire) : ~wire[k].dup => Unpassed(k)
    BY DEF PeerInv, SeqInv, SeqType
  <1>3. \A k \in 1..Len(wire') : ~wire'[k].dup => Unpassed(k)'
    <2> SUFFICES ASSUME NEW k \in 1..Len(wire'), ~wire'[k].dup PROVE Unpassed(k)'
      OBVIOUS
    <2>1. k <= Len(wire)
      <3> SUFFICES ASSUME ~(k <= Len(wire)) PROVE FALSE
        OBVIOUS
      <3>1. k - Len(wire) \in 1..Len(ms) /\ wire'[k] = ms[k - Len(wire)]
        BY <1>1
      <3> QED
        BY <3>1
    <2>2. \A j \in 1..k : j \in 1..Len(wire') /\ wire'[j] = wire[j]
      BY <1>1, <2>1
    <2>3. Unpassed(k)
      BY <1>1, <1>2, <2>1, <2>2
    <2> QED
      BY <2>2, <2>3 DEF Unpassed
  <1> QED
    BY <1>1, <1>2, <1>3

\* A fresh number is above all that the counterparty has said.
LEMMA SendKeepsPeer ==
  ASSUME SeqInv, PeerInv, NEW kind \in DecodedReset, Send(kind)
  PROVE  PeerInv'
  <1> SUFFICES ASSUME repeated = 0
               PROVE  /\ closed' \in {"no", "full"}
                      /\ \A k \in DOMAIN wire' : ~wire'[k].dup => Unpassed(k)'
    BY DEF PeerInv, Send
  <1> DEFINE n == Len(sent) + 1
             m == Plain(n, kind)
  <1>1. /\ Len(sent) \in Nat /\ wire \in Seq(Msg) /\ queued \subseteq Msg
        /\ expected \in 1..n /\ Len(wire) \in Nat
        /\ UNCHANGED <<expected, queued, closed>>
    BY DEF SeqInv, SeqType, Send
  <1>2. m \in Msg /\ m.seq = n
    BY <1>1 DEF Plain, Msg, DecodedReset, Resets
  <1>3. /\ wire' \in Seq(Msg) /\ Len(wire') = Len(wire) + 1
        /\ wire'[Len(wire) + 1] = m
        /\ \A k \in 1..Len(wire) : wire'[k] = wire[k]
    <2>1. wire' = Append(wire, m)
      BY DEF Send
    <2> HIDE DEF m
    <2> QED
      BY <1>1, <1>2, <2>1
  <1>4. /\ \A k \in 1..Len(wire) : Below(wire[k], n)
        /\ \A q \in queued : Below(q, n)
    <2>1. \A q \in Msg : Genuine(q, sent, abandoned) => Below(q, n)
      BY <1>1 DEF Genuine, Below, Msg
    <2>2. /\ \A k \in 1..Len(wire) : wire[k] \in Msg /\ Genuine(wire[k], sent, abandoned)
          /\ \A q \in queued : Genuine(q, sent, abandoned)
      BY <1>1 DEF SeqInv, AllGenuine
    <2> QED
      BY <1>1, <2>1, <2>2
  <1>5. closed' \in {"no", "full"} /\ \A k \in 1..Len(wire) : ~wire[k].dup => Unpassed(k)
    BY <1>1 DEF PeerInv
  <1> HIDE DEF m
  <1>6. \A k \in 1..Len(wire') : ~wire'[k].dup => Unpassed(k)'
    <2> SUFFICES ASSUME NEW k \in 1..Len(wire'), ~wire'[k].dup PROVE Unpassed(k)'
      OBVIOUS
    <2>1. CASE k = Len(wire) + 1
      <3>1. wire'[k].seq = n /\ \A j \in 1..(k - 1) : wire'[j] = wire[j] /\ j \in 1..Len(wire)
        BY <1>1, <1>2, <1>3, <2>1
      <3> QED
        BY <1>1, <1>4, <3>1 DEF Unpassed
    <2>2. CASE k # Len(wire) + 1
      <3>1. k \in 1..Len(wire) /\ wire'[k] = wire[k] /\ \A j \in 1..(k - 1) : wire'[j] = wire[j]
        BY <1>1, <1>3, <2>2
      <3>2. Unpassed(k)
        BY <1>5, <3>1
      <3> QED
        BY <1>1, <3>1, <3>2 DEF Unpassed
    <2> QED
      BY <2>1, <2>2
  <1> QED
    BY <1>3, <1>5, <1>6

\* A step of the loop goes no further than the message it takes.
LEMMA LoopStepPeer ==
  ASSUME SeqInv, PeerInv, Take, repeated' = repeated,
         queued' \subseteq queued \cup {Incoming},
         \/ expected' = expected
         \/ Incoming.seq = expected /\ expected' = expected + 1
         \/ expected' = Incoming.new,
         repeated = 0 => closed' \in {"no", "full"}
  PROVE  PeerInv'
  <1> SUFFICES ASSUME repeated = 0
               PROVE  \A k \in DOMAIN wire' : ~wire'[k].dup => Unpassed(k)'
    BY DEF PeerInv
  <1>1. /\ wire \in Seq(Msg) /\ Len(wire) \in Nat /\ queued \subseteq Msg /\ expected \in Nat
        /\ \A k \in 1..Len(wire) : ~wire[k].dup => Unpassed(k)
    BY DEF PeerInv, SeqInv, SeqType
  <1>2. /\ Incoming \in Msg
        /\ Ready # {} => Incoming \in queued
        /\ Ready = {} => wire # <<>> /\ Incoming = wire[1]
    BY IncomingGenuine
  <1>3. CASE Ready # {}
    <2>1. wire' = wire /\ Incoming \in queued
      BY <1>2, <1>3 DEF Take
    <2> SUFFICES ASSUME NEW k \in 1..Len(wire), ~wire[k].dup PROVE Unpassed(k)'
      BY <1>1, <2>1
    <2>2. /\ Unpassed(k) /\ Below(Incoming, wire[k].seq)
          /\ \A m \in queued' : Below(m, wire[k].seq)
      BY <1>1, <2>1 DEF Unpassed
    <2>3. expected' <= wire[k].seq
      <3>1. wire[k] \in Msg
        BY <1>1
      <3> QED
        BY <1>1, <1>2, <2>2, <3>1 DEF Unpassed, Below, Msg
    <2> QED
      BY <2>1, <2>2, <2>3 DEF Unpassed
  <1>4. CASE Ready = {}
    <2>1. wire' = Tail(wire) /\ wire # <<>> /\ Incoming = wire[1]
      BY <1>2, <1>4 DEF Take
    <2>2. /\ wire' \in Seq(Msg) /\ Len(wire') = Len(wire) - 1
          /\ \A k \in 1..Len(wire') : wire'[k] = wire[k + 1] /\ k + 1 \in 2..Len(wire)
      BY <1>1, <2>1
    <2> SUFFICES ASSUME NEW k \in 1..Len(wire'), ~wire'[k].dup PROVE Unpassed(k)'
      BY <2>2
    <2> DEFINE s == wire'[k].seq
    <2>3. wire'[k] = wire[k + 1] /\ k + 1 \in 2..Len(wire)
      BY <2>2
    <2>4. Unpassed(k + 1)
      BY <1>1, <2>3
    <2>5. /\ expected <= s
          /\ \A j \in 1..k : Below(wire[j], s)
          /\ \A m \in queued : Below(m, s)
      BY <2>3, <2>4 DEF Unpassed
    <2>6. Below(Incoming, s)
      BY <2>1, <2>5
    <2>7. \A j \in 1..(k - 1) : Below(wire'[j], s)
      BY <2>2, <2>5
    <2>8. \A m \in queued' : Below(m, s)
      BY <2>5, <2>6
    <2>9. expected' <= s
      <3>1. wire'[k] \in Msg
        BY <2>2
      <3> QED
        BY <1>1, <1>2, <2>5, <2>6, <3>1 DEF Below, Msg
    <2> QED
      BY <2>7, <2>8, <2>9 DEF Unpassed
  <1> QED
    BY <1>3, <1>4

LEMMA LoopKeepsPeer ==
  ASSUME SeqInv, PeerInv, Loop
  PROVE  PeerInv'
  <1>1. Take /\ repeated' = repeated /\ closed = "no" /\ Kept \subseteq queued
    BY DEF Loop, Duplicate, TooLow, Gap, TooMany, Reject, Accept, Jump, JumpBack, Take,
           Kept, peer
  <1>2. /\ Incoming \in Msg /\ Genuine(Incoming, sent, abandoned)
        /\ Ready # {} => Incoming.seq = expected
        /\ Ready = {} => wire # <<>> /\ Incoming = wire[1]
    BY <1>1, IncomingGenuine
  <1>3. expected \in Nat /\ wire \in Seq(Msg)
    BY DEF SeqInv, SeqType
  \* a message without PossDupFlag is never below the expected number
  <1>4. repeated = 0 /\ ~Incoming.dup => expected <= Incoming.seq
    <2> SUFFICES ASSUME repeated = 0, ~Incoming.dup PROVE expected <= Incoming.seq
      OBVIOUS
    <2>1. CASE Ready # {}
      BY <1>2, <1>3, <2>1
    <2>2. CASE Ready = {}
      <3>1. 1 \in DOMAIN wire /\ ~wire[1].dup /\ Incoming = wire[1]
        BY <1>2, <1>3, <2>2
      <3> QED
        BY <3>1 DEF PeerInv, Unpassed
    <2> QED
      BY <2>1, <2>2
  <1>5. CASE Duplicate
    BY <1>1, <1>5, LoopStepPeer DEF Duplicate
  <1>6. CASE TooLow
    <2>1. repeated # 0
      BY <1>2, <1>3, <1>4, <1>6 DEF TooLow, Msg
    <2> QED
      BY <1>1, <2>1 DEF PeerInv
  <1>7. CASE Gap
    BY <1>1, <1>7, LoopStepPeer DEF Gap
  <1>8. CASE TooMany
    BY <1>1, <1>8, LoopStepPeer DEF TooMany
  <1>9. CASE Reject
    <2>1. Incoming.kind \notin {"gapfill", "reset"}
      BY <1>9 DEF Reject
    <2>2. Incoming.seq = expected
      BY <1>1, <1>9, <2>1, DueIsExpected DEF Reject
    <2> QED
      BY <1>1, <1>9, <2>2, LoopStepPeer DEF Reject
  <1>10. CASE Accept
    <2>1. Incoming.kind \notin {"gapfill", "reset"}
      BY <1>10 DEF Accept
    <2>2. Incoming.seq = expected
      BY <1>1, <1>10, <2>1, DueIsExpected DEF Accept
    <2> QED
      BY <1>1, <1>10, <2>2, LoopStepPeer DEF Accept
  <1>11. CASE Jump
    BY <1>1, <1>11, LoopStepPeer DEF Jump
  <1>12. CASE JumpBack
    <2>1. /\ Due(Incoming) /\ Incoming.new <= expected
          /\ Incoming.kind \in {"gapfill", "reset"}
      BY <1>12 DEF JumpBack
    <2>2. CASE Incoming.kind = "gapfill"
      BY <1>2, <1>3, <2>1, <2>2 DEF Due, Overrides, Resets, Genuine, Msg
    <2>3. CASE Incoming.kind = "reset"
      <3>1. repeated # 0
        BY <1>2, <1>3, <1>4, <2>1, <2>3 DEF Genuine, Msg
      <3> QED
        BY <1>1, <3>1 DEF PeerInv
    <2> QED
      BY <2>1, <2>2, <2>3
  <1> QED
    BY <1>5, <1>6, <1>7, <1>8, <1>9, <1>10, <1>11, <1>12 DEF Loop

LEMMA PeerInvStep ==
  ASSUME "badreset" \notin Kind, SeqInv, PeerInv, [Next]_vars
  PROVE  PeerInv'
  <1>1. Kind \subseteq DecodedReset
    BY SequencingAssumption DEF DecodedReset
  <1>2. CASE \E kind \in Kind : Send(kind)
    BY <1>1, <1>2, SendKeepsPeer
  <1>3. CASE UNCHANGED vars \/ \E kind \in Kind : Lose(kind)
    BY <1>3 DEF Lose, vars, PeerInv, Unpassed
  <1>4. CASE \E n \in 1..MaxSeq : Repeat(n)
    BY <1>4 DEF Repeat, PeerInv, SeqInv, SeqType
  <1>5. CASE Resend
    BY <1>5, ResendKeeps, DupsKeepPeer DEF Resend, peer
  <1>6. CASE Fill
    BY <1>6, FillKeeps, DupsKeepPeer DEF Fill
  <1>7. CASE Loop
    BY <1>7, LoopKeepsPeer
  <1> QED
    BY <1>2, <1>3, <1>4, <1>5, <1>6, <1>7 DEF Next

\* A counterparty that repeats no number is never logged out by classify or
\* advance over a sequence number, whatever it loses, resends, fills or resets,
\* under the same condition.
THEOREM ConformingPeersStay ==
  ASSUME "badreset" \notin Kind
  PROVE  Spec => []ConformingPeerStays
  <1>1. Init => SeqInv /\ PeerInv
    <2> SUFFICES ASSUME Init PROVE SeqInv /\ PeerInv
      OBVIOUS
    <2>1. wire = <<>> /\ closed = "no" /\ DOMAIN wire = {}
      BY DEF Init
    <2> QED
      BY <2>1, SeqInit DEF PeerInv
  <1>2. SeqInv /\ PeerInv /\ [Next]_vars => (SeqInv /\ PeerInv)'
    BY SeqStep, PeerInvStep
  <1>3. SeqInv /\ PeerInv => ConformingPeerStays
    BY DEF PeerInv, ConformingPeerStays
  <1> QED
    BY <1>1, <1>2, <1>3, PTL DEF Spec
=============================================================================
