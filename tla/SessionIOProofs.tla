--------------------------- MODULE SessionIOProofs ---------------------------
(***************************************************************************)
(* The log and the stream of a session, for every size of its frames,      *)
(* every retention, every number of days, frames, records and failures:    *)
(* each record is in the file of its day until it is old enough to go, and *)
(* nothing the reader took off the stream is missing; and what it took off *)
(* the stream is the frames the peer wrote, in their order, up to the      *)
(* first that is wrong.                                                    *)
(***************************************************************************)
EXTENDS SessionIO, FiniteSetTheorems, SequenceTheorems, TLAPS

-----------------------------------------------------------------------------
(* The invariant *)

LogRecord == [from : {"old", "in", "out"}, n : Nat, day : Day]

LogType ==
    /\ retention \in Nat
    /\ today \in Day /\ newest \in Day
    /\ log \in [date : Day, handle : Day]
    /\ files \in [Day -> SUBSET LogRecord]
    /\ written \subseteq LogRecord /\ IsFiniteSet(written)
    /\ faults \in Nat
    /\ stamp \in [reader : {0} \cup Day, writer : {0} \cup Day]
    /\ out \in Nat /\ taken \in Nat
    /\ \E S : delivered \in Seq(S)

\* The open files are those of the log's date, the latest of which newest keeps.
LogDates == log.handle = log.date /\ log.date <= newest

Incoming == {r \in written : r.from = "in"}

\* The reader's records are numbered, and none is missing but for failures.
Numbered ==
    /\ \A r \in Incoming : r.n <= taken
    /\ faults = 0 => Cardinality(Incoming) = taken

\* What the reader took off the stream and is still to log.
InHand == IF stamp.reader # 0 THEN 1 ELSE 0

Refusals == IF reader \in {"invalid", "broken"} THEN 1 ELSE 0

\* The reader goes on only when it has logged what it took.
ReaderCounts ==
    /\ taken + InHand = Len(delivered) + Refusals
    /\ stamp.reader # 0 => reader \in Loggable

LogInv == LogType /\ LogDates /\ Filed /\ Numbered /\ ReaderCounts

-----------------------------------------------------------------------------
(* The files *)

LEMMA DayFacts ==
  /\ Day \subseteq Nat \ {0} /\ 1 \in Day /\ 2 \in Day
  /\ retention \in Nat => \A d \in Day : ~Expired(d, d)
  <1>1. Day \subseteq Nat \ {0} /\ 1 \in Day /\ 2 \in Day
    BY LogAssumption DEF Day
  <1> QED
    BY <1>1 DEF Expired

\* A day that is old enough to delete stays so.
LEMMA ExpiredStays ==
  ASSUME NEW d \in Day, NEW e \in Day, NEW f \in Day, e <= f, retention \in Nat, Expired(d, e)
  PROVE  Expired(d, f)
  BY DayFacts DEF Expired

\* A record is written, or its file cannot be opened.
LEMMA FilesKept ==
  ASSUME LogType, LogDates, Filed, NEW r \in LogRecord, WriteRecord(r) \/ OpenFails(r)
  PROVE  /\ retention' = retention /\ today' = today /\ newest' \in Day
         /\ log' \in [date : Day, handle : Day] /\ LogDates'
         /\ files' \in [Day -> SUBSET LogRecord] /\ Filed'
         /\ faults' \in Nat /\ faults <= faults'
         /\ (written' = written \cup {r} \/ (written' = written /\ faults' # 0))
  <1>1. /\ retention \in Nat /\ newest \in Day /\ log \in [date : Day, handle : Day]
        /\ files \in [Day -> SUBSET LogRecord] /\ written \subseteq LogRecord
        /\ faults \in Nat /\ r.day \in Day /\ log.handle = log.date /\ log.date <= newest
        /\ \A d \in Day : d \in Nat
    BY DayFacts DEF LogType, LogDates, LogRecord
  <1>2. CASE OpenFails(r)
    <2>1. /\ log' = log /\ faults' = faults + 1
          /\ UNCHANGED <<today, retention, files, written, newest, spared>>
      BY <1>2 DEF OpenFails, Unopened
    <2>2. Filed' /\ LogDates'
      BY <2>1 DEF Filed, LogDates, Expired
    <2> QED
      BY <1>1, <2>1, <2>2
  <1>3. CASE WriteRecord(r)
    <2>1. PICK unpruned \in {0, 1}, unwritten \in {0, 1} :
            LET turn == r.day # log.date
                kept == IF turn /\ unpruned = 0 THEN Pruned(r.day) ELSE files
                to == IF turn THEN r.day ELSE log.handle
                new == IF unwritten = 0 THEN {r} ELSE {}
            IN  /\ unpruned = 1 => turn
                /\ faults' = faults + unpruned + unwritten
                /\ log' = [date |-> r.day, handle |-> to]
                /\ files' = [kept EXCEPT ![to] = @ \cup new]
                /\ written' = written \cup new
                /\ newest' = IF r.day > newest THEN r.day ELSE newest
                /\ spared' = CASE ~turn -> spared
                               [] turn /\ unpruned = 0 -> {}
                               [] turn /\ unpruned = 1 -> {d \in Day : Expired(d, r.day)}
                /\ UNCHANGED <<today, retention>>
      BY <1>3 DEF WriteRecord
    <2> DEFINE turn == r.day # log.date
               kept == IF turn /\ unpruned = 0 THEN Pruned(r.day) ELSE files
               new == IF unwritten = 0 THEN {r} ELSE {}
    <2>2. /\ log' = [date |-> r.day, handle |-> r.day]
          /\ files' = [kept EXCEPT ![r.day] = @ \cup new]
          /\ written' = written \cup new
          /\ UNCHANGED <<today, retention>>
      BY <1>1, <2>1
    <2>3. /\ faults' \in Nat /\ faults <= faults'
          /\ new = {r} \/ (new = {} /\ faults' # 0)
      BY <1>1, <2>1
    <2>4. newest' \in Day /\ r.day <= newest' /\ newest <= newest'
      BY <1>1, <2>1
    <2>5. /\ kept \in [Day -> SUBSET LogRecord]
          /\ \A d \in Day : kept[d] = files[d] \/ (kept[d] = {} /\ Expired(d, r.day))
      BY <1>1 DEF Pruned
    <2>6. \A d \in Day : kept[d] # {} => ~Expired(d, r.day) \/ d \in spared'
      <3>1. CASE ~turn
        BY <2>1, <3>1 DEF Filed
      <3>2. CASE turn /\ unpruned = 0
        BY <3>2 DEF Pruned
      <3>3. CASE turn /\ unpruned = 1
        BY <2>1, <3>3
      <3> QED
        BY <3>1, <3>2, <3>3
    <2> HIDE DEF kept, new, turn
    <2>7. /\ files' \in [Day -> SUBSET LogRecord] /\ files'[r.day] = kept[r.day] \cup new
          /\ \A d \in Day : d # r.day => files'[d] = kept[d]
      BY <1>1, <2>2, <2>3, <2>5
    <2>8. Filed'
      <3>1. ASSUME NEW d \in Day, NEW x \in files'[d] PROVE x.day = d
        BY <2>3, <2>5, <2>7, <3>1 DEF Filed
      <3>2. ASSUME NEW x \in written' PROVE Expired(x.day, newest') \/ x \in files'[x.day]
        <4>1. CASE x \in new
          BY <2>3, <2>7, <4>1
        <4>2. CASE x \in written
          <5>1. x.day \in Day
            BY <1>1, <4>2 DEF LogRecord
          <5>2. CASE Expired(x.day, newest)
            BY <1>1, <2>4, <5>1, <5>2, ExpiredStays
          <5>3. CASE x \in files[x.day] /\ kept[x.day] = files[x.day]
            BY <2>7, <5>1, <5>3
          <5>4. CASE Expired(x.day, r.day)
            BY <1>1, <2>4, <5>1, <5>4, ExpiredStays
          <5> QED
            BY <2>5, <4>2, <5>1, <5>2, <5>3, <5>4 DEF Filed
        <4> QED
          BY <2>2, <3>2, <4>1, <4>2
      <3>3. ASSUME NEW d \in Day, files'[d] # {} PROVE ~Expired(d, r.day) \/ d \in spared'
        <4>1. CASE d = r.day
          BY <1>1, <4>1, DayFacts
        <4>2. CASE d # r.day
          BY <2>6, <2>7, <3>3, <4>2
        <4> QED
          BY <4>1, <4>2
      <3>4. /\ \A d \in Day : \A x \in files'[d] : x.day = d
            /\ \A x \in written' : Expired(x.day, newest') \/ x \in files'[x.day]
            /\ \A d \in Day : files'[d] # {} => ~Expired(d, log'.date) \/ d \in spared'
        BY <2>2, <3>1, <3>2, <3>3
      <3> QED
        BY <2>2, <3>4 DEF Filed, Expired
    <2>9. log' \in [date : Day, handle : Day] /\ LogDates'
      BY <1>1, <2>2, <2>4 DEF LogDates
    <2> QED
      BY <2>2, <2>3, <2>4, <2>7, <2>8, <2>9
  <1> QED
    BY <1>2, <1>3

-----------------------------------------------------------------------------
(* The records *)

LEMMA IncomingFinite ==
  ASSUME LogType
  PROVE  IsFiniteSet(Incoming)
  BY FS_Subset DEF LogType, Incoming

\* The reader logs under a number of its own.
LEMMA ReaderNumbers ==
  ASSUME LogType, Numbered, NEW d \in Day,
         LET r == Record("in", taken + 1, d)
         IN  written' = written \cup {r} \/ (written' = written /\ faults' # 0),
         taken' = taken + 1, faults \in Nat, faults' \in Nat, faults <= faults'
  PROVE  Numbered' /\ IsFiniteSet(written')
  <1> DEFINE r == Record("in", taken + 1, d)
  <1>1. taken \in Nat /\ IsFiniteSet(written) /\ IsFiniteSet(Incoming)
    BY IncomingFinite DEF LogType
  <1>2. r.from = "in" /\ r.n = taken + 1
    BY DEF Record
  <1>3. CASE written' = written \cup {r}
    <2>1. Incoming' = Incoming \cup {r}
      BY <1>2, <1>3 DEF Incoming
    <2>2. r \notin Incoming
      BY <1>1, <1>2 DEF Numbered
    <2> HIDE DEF r
    <2>3. Cardinality(Incoming') = Cardinality(Incoming) + 1 /\ IsFiniteSet(written')
      BY <1>1, <1>3, <2>1, <2>2, FS_AddElement
    <2>4. \A x \in Incoming : x.n \in Nat
      BY DEF Incoming, LogType, LogRecord
    <2> QED
      BY <1>1, <1>2, <2>1, <2>3, <2>4 DEF Numbered
  <1>4. CASE written' = written /\ faults' # 0
    <2>1. \A x \in Incoming : x.n \in Nat
      BY DEF Incoming, LogType, LogRecord
    <2> QED
      BY <1>1, <1>4, <2>1 DEF Numbered, Incoming
  <1> QED
    BY <1>3, <1>4

\* The writer's records are not the reader's.
LEMMA WriterNumbers ==
  ASSUME LogType, Numbered, NEW n, NEW d,
         LET r == Record("out", n, d)
         IN  written' = written \cup {r} \/ (written' = written /\ faults' # 0),
         taken' = taken, faults' \in Nat, faults <= faults'
  PROVE  Numbered' /\ IsFiniteSet(written')
  <1> DEFINE r == Record("out", n, d)
  <1>1. r.from # "in"
    BY DEF Record
  <1> HIDE DEF r
  <1>2. Incoming' = Incoming
    BY <1>1 DEF r, Incoming
  <1>3. IsFiniteSet(written')
    BY FS_AddElement DEF r, LogType
  <1> QED
    BY <1>2, <1>3 DEF Numbered, LogType

-----------------------------------------------------------------------------
(* The steps *)

LEMMA LogStart == Init => LogInv
  <1> SUFFICES ASSUME Init PROVE LogInv
    OBVIOUS
  <1> DEFINE old == Record("old", 1, 1)
  <1>1. /\ today = 2 /\ newest = 2 /\ retention \in Retentions /\ faults = 0
        /\ log = [date |-> 2, handle |-> 2] /\ written = {old}
        /\ files = [d \in Day |-> IF d = 1 /\ ~Expired(1, 2) THEN written ELSE {}]
        /\ stamp = [reader |-> 0, writer |-> 0] /\ out = 0 /\ taken = 0
        /\ delivered = <<>> /\ reader = "loop"
    BY DEF Init, LogInit, FramingInit
  <1>2. old \in LogRecord /\ old.day = 1 /\ old.from # "in"
    BY DayFacts DEF Record, LogRecord
  <1> HIDE DEF old
  <1>3. LogType
    <2>1. retention \in Nat
      BY <1>1, LogAssumption
    <2>2. files \in [Day -> SUBSET LogRecord]
      BY <1>1, <1>2
    <2>3. IsFiniteSet(written)
      BY <1>1, FS_Singleton
    <2>4. \E S : delivered \in Seq(S)
      <3>1. <<>> \in Seq({})
        OBVIOUS
      <3> QED
        BY <1>1, <3>1
    <2> QED
      BY <1>1, <1>2, <2>1, <2>2, <2>3, <2>4, DayFacts DEF LogType
  <1>4. LogDates
    BY <1>1 DEF LogDates
  <1>5. Filed
    BY <1>1, <1>2, DayFacts DEF Filed
  <1>6. Numbered
    <2>1. Incoming = {}
      BY <1>1, <1>2 DEF Incoming
    <2> QED
      BY <1>1, <2>1, FS_EmptySet DEF Numbered
  <1>7. ReaderCounts
    BY <1>1 DEF ReaderCounts, InHand, Refusals
  <1> QED
    BY <1>3, <1>4, <1>5, <1>6, <1>7 DEF LogInv

\* A step that leaves the log alone.
LEMMA LogRests ==
  ASSUME LogInv, UNCHANGED <<retention, log, files, written, newest, spared, faults, taken, out>>,
         today' \in Day, stamp' \in [reader : {0} \cup Day, writer : {0} \cup Day],
         \E S : delivered' \in Seq(S), ReaderCounts'
  PROVE  LogInv'
  <1>1. LogType' /\ LogDates'
    BY DEF LogInv, LogType, LogDates
  <1>2. Filed'
    BY DEF LogInv, Filed, Expired
  <1>3. Numbered'
    BY DEF LogInv, Numbered, Incoming
  <1> QED
    BY <1>1, <1>2, <1>3 DEF LogInv

LEMMA LogStep == LogInv /\ [Next]_vars => LogInv'
  <1> SUFFICES ASSUME LogInv, [Next]_vars PROVE LogInv'
    OBVIOUS
  <1>1. /\ LogType /\ taken \in Nat /\ out \in Nat /\ today \in Day /\ faults \in Nat
        /\ stamp \in [reader : {0} \cup Day, writer : {0} \cup Day]
        /\ stamp.reader \in {0} \cup Day /\ stamp.writer \in {0} \cup Day
        /\ Day \subseteq Nat \ {0}
    BY DayFacts DEF LogInv, LogType
  <1>2. /\ \E S : delivered \in Seq(S)
        /\ taken + InHand = Len(delivered) + Refusals
        /\ stamp.reader # 0 => reader \in Loggable
    BY DEF LogInv, LogType, ReaderCounts
  <1>3. CASE UNCHANGED vars
    <2>1. UNCHANGED <<logging, stamp, out, taken, delivered, reader>>
      BY <1>3 DEF vars, framing
    <2>2. ReaderCounts'
      BY <2>1 DEF LogInv, ReaderCounts, InHand, Refusals
    <2> QED
      BY <1>1, <1>2, <2>1, <2>2, LogRests DEF logging
  <1>4. CASE Peer
    <2>1. UNCHANGED <<logging, stamp, out, taken, delivered, reader>>
      BY <1>4 DEF Peer, Send, HangUp
    <2>2. ReaderCounts'
      BY <2>1 DEF LogInv, ReaderCounts, InHand, Refusals
    <2> QED
      BY <1>1, <1>2, <2>1, <2>2, LogRests DEF logging
  <1>5. CASE Reading
    <2>1. /\ reader = "reading" /\ stamp.reader = 0
          /\ Stamped /\ UNCHANGED <<logging, out, taken>>
      BY <1>2, <1>5 DEF Reading, ReadBytes, ReadEnd, Loggable
    <2>2. \/ /\ \E p : delivered' = Append(delivered, p)
             /\ reader' = "message"
          \/ delivered' = delivered /\ reader' \in {"invalid", "broken"}
          \/ delivered' = delivered /\ reader' \in {"reading", "end"}
      <3>1. CASE ReadBytes
        <4>1. PICK n \in 1..Want : Examine(pending \o SubSeq(net, 1, n))
          BY <3>1 DEF ReadBytes
        <4> QED
          BY <2>1, <4>1 DEF Examine
      <3>2. CASE ReadEnd
        BY <3>2 DEF ReadEnd
      <3> QED
        BY <1>5, <3>1, <3>2 DEF Reading
    <2>3. /\ (\E S : delivered' \in Seq(S))
          /\ Len(delivered) \in Nat
          /\ delivered' = delivered \/ Len(delivered') = Len(delivered) + 1
      <3>1. PICK S : delivered \in Seq(S)
        BY <1>2
      <3>2. ASSUME NEW p, delivered' = Append(delivered, p)
            PROVE  delivered' \in Seq(S \cup {p}) /\ Len(delivered') = Len(delivered) + 1
        <4>1. delivered \in Seq(S \cup {p})
          BY <3>1
        <4> QED
          BY <3>2, <4>1
      <3>3. Len(delivered) \in Nat
        BY <3>1
      <3> QED
        BY <2>2, <3>1, <3>2, <3>3
    <2>4. stamp' = IF reader' \in Loggable THEN [stamp EXCEPT !.reader = today] ELSE stamp
      BY <2>1 DEF Stamped
    <2>5. stamp' \in [reader : {0} \cup Day, writer : {0} \cup Day]
      BY <1>1, <2>4
    <2>6. ReaderCounts'
      <3>1. taken = Len(delivered)
        BY <1>1, <1>2, <2>1, <2>3 DEF InHand, Refusals
      <3>2. CASE reader' = "message" /\ Len(delivered') = Len(delivered) + 1
        BY <1>1, <2>1, <2>3, <2>4, <3>1, <3>2 DEF ReaderCounts, InHand, Refusals, Loggable
      <3>3. CASE delivered' = delivered /\ reader' \in {"invalid", "broken"}
        BY <1>1, <2>1, <2>3, <2>4, <3>1, <3>3 DEF ReaderCounts, InHand, Refusals, Loggable
      <3>4. CASE delivered' = delivered /\ reader' \in {"reading", "end"}
        BY <1>1, <2>1, <2>3, <2>4, <3>1, <3>4 DEF ReaderCounts, InHand, Refusals, Loggable
      <3>5. reader' = "message" => Len(delivered') = Len(delivered) + 1
        <4>1. PICK S : delivered \in Seq(S)
          BY <1>2
        <4>2. ASSUME NEW p, delivered' = Append(delivered, p)
              PROVE  Len(delivered') = Len(delivered) + 1
          BY <4>1, <4>2
        <4> QED
          BY <2>2, <4>2
      <3> QED
        BY <2>2, <3>2, <3>3, <3>4, <3>5
    <2> QED
      BY <1>1, <2>1, <2>3, <2>5, <2>6, LogRests DEF logging
  <1>6. CASE Polling
    <2>1. /\ UNCHANGED <<logging, stamp, out, taken, delivered>>
          /\ reader \in {"loop", "reading"} /\ reader' \in {"loop", "reading"}
      BY <1>6 DEF Polling, Call, TimeOut
    <2>2. ReaderCounts'
      BY <1>2, <2>1 DEF ReaderCounts, InHand, Refusals, Loggable
    <2> QED
      BY <1>1, <1>2, <2>1, <2>2, LogRests DEF logging
  <1>7. CASE ReaderLogs
    <2> DEFINE r == Record("in", taken + 1, stamp.reader)
    <2>1. /\ stamp.reader # 0
          /\ WriteRecord(r) \/ OpenFails(r)
          /\ stamp' = [stamp EXCEPT !.reader = 0] /\ taken' = taken + 1
          /\ reader' = IF reader = "message" THEN "loop" ELSE reader
          /\ delivered' = delivered /\ out' = out
      BY <1>7 DEF ReaderLogs
    <2>2. r \in LogRecord /\ stamp.reader \in Day
      BY <1>1, <2>1 DEF Record, LogRecord
    <2>3. /\ retention' = retention /\ today' = today /\ newest' \in Day
          /\ log' \in [date : Day, handle : Day] /\ LogDates'
          /\ files' \in [Day -> SUBSET LogRecord] /\ Filed'
          /\ faults' \in Nat /\ faults <= faults'
          /\ written' = written \cup {r} \/ (written' = written /\ faults' # 0)
      <3> HIDE DEF r
      <3> QED
        BY <2>1, <2>2, FilesKept DEF LogInv
    <2>4. Numbered' /\ IsFiniteSet(written')
      BY <1>1, <2>1, <2>2, <2>3, ReaderNumbers DEF LogInv
    <2> HIDE DEF r
    <2>5. LogType'
      <3>1. written' \subseteq LogRecord
        <4>1. written \subseteq LogRecord
          BY <1>1 DEF LogType
        <4> QED
          BY <2>2, <2>3, <4>1
      <3>2. taken' \in Nat /\ out' \in Nat
        BY <1>1, <2>1
      <3>3. stamp' \in [reader : {0} \cup Day, writer : {0} \cup Day]
        BY <1>1, <2>1
      <3>4. retention' \in Nat /\ today' \in Day /\ \E S : delivered' \in Seq(S)
        BY <1>1, <1>2, <2>1, <2>3 DEF LogType
      <3> QED
        BY <2>3, <2>4, <3>1, <3>2, <3>3, <3>4 DEF LogType
    <2>6. ReaderCounts'
      <3>1. Len(delivered) \in Nat
        BY <1>2
      <3>2. stamp'.reader = 0 /\ reader \in Loggable
        BY <1>1, <1>2, <2>1
      <3> QED
        BY <1>1, <1>2, <2>1, <3>1, <3>2 DEF ReaderCounts, InHand, Refusals, Loggable
    <2> QED
      BY <2>3, <2>4, <2>5, <2>6 DEF LogInv
  <1>8. CASE WriterStamps
    <2>1. /\ UNCHANGED <<logging, out, taken, delivered, reader>>
          /\ stamp' = [stamp EXCEPT !.writer = today]
      BY <1>8 DEF WriterStamps, framing
    <2>2. stamp' \in [reader : {0} \cup Day, writer : {0} \cup Day]
          /\ stamp'.reader = stamp.reader
      BY <1>1, <2>1
    <2>3. ReaderCounts'
      BY <1>2, <2>1, <2>2 DEF ReaderCounts, InHand, Refusals
    <2> QED
      BY <1>1, <1>2, <2>1, <2>2, <2>3, LogRests DEF logging
  <1>9. CASE WriterLogs
    <2> DEFINE r == Record("out", out + 1, stamp.writer)
    <2>1. /\ stamp.writer # 0
          /\ WriteRecord(r) \/ OpenFails(r)
          /\ stamp' = [stamp EXCEPT !.writer = 0] /\ out' = out + 1
          /\ UNCHANGED <<taken, delivered, reader>>
      BY <1>9 DEF WriterLogs, framing
    <2>2. r \in LogRecord
      BY <1>1, <2>1 DEF Record, LogRecord
    <2>3. /\ retention' = retention /\ today' = today /\ newest' \in Day
          /\ log' \in [date : Day, handle : Day] /\ LogDates'
          /\ files' \in [Day -> SUBSET LogRecord] /\ Filed'
          /\ faults' \in Nat /\ faults <= faults'
          /\ written' = written \cup {r} \/ (written' = written /\ faults' # 0)
      <3> HIDE DEF r
      <3> QED
        BY <2>1, <2>2, FilesKept DEF LogInv
    <2>4. Numbered' /\ IsFiniteSet(written')
      BY <1>1, <2>1, <2>3, WriterNumbers DEF LogInv
    <2> HIDE DEF r
    <2>5. LogType'
      <3>1. written' \subseteq LogRecord
        <4>1. written \subseteq LogRecord
          BY <1>1 DEF LogType
        <4> QED
          BY <2>2, <2>3, <4>1
      <3>2. taken' \in Nat /\ out' \in Nat
        BY <1>1, <2>1
      <3>3. stamp' \in [reader : {0} \cup Day, writer : {0} \cup Day]
        BY <1>1, <2>1
      <3>4. retention' \in Nat /\ today' \in Day /\ \E S : delivered' \in Seq(S)
        BY <1>1, <1>2, <2>1, <2>3 DEF LogType
      <3> QED
        BY <2>3, <2>4, <3>1, <3>2, <3>3, <3>4 DEF LogType
    <2>6. ReaderCounts'
      <3>1. stamp'.reader = stamp.reader
        BY <1>1, <2>1
      <3> QED
        BY <1>2, <2>1, <3>1 DEF ReaderCounts, InHand, Refusals
    <2> QED
      BY <2>3, <2>4, <2>5, <2>6 DEF LogInv
  <1>10. CASE Night
    <2>1. /\ today' = today + 1 /\ today < MaxDay
          /\ UNCHANGED <<retention, log, files, written, newest, spared, faults>>
          /\ UNCHANGED <<stamp, out, taken, delivered, reader>>
      BY <1>10 DEF Night, Midnight, framing
    <2>2. today' \in Day
      BY <1>1, <2>1, LogAssumption DEF Day
    <2>3. ReaderCounts'
      BY <2>1 DEF LogInv, ReaderCounts, InHand, Refusals
    <2> QED
      BY <1>1, <1>2, <2>1, <2>2, <2>3, LogRests
  <1> QED
    BY <1>3, <1>4, <1>5, <1>6, <1>7, <1>8, <1>9, <1>10 DEF Next

\* Nothing the reader takes off the stream escapes the log, under any
\* interleaving of the reader, the writer and midnight (SessionLog, rotate,
\* prune_session_logs): each record is in the file of its own day until it is
\* old enough to delete, and without failures of the file system there is one
\* for every message and for the frame that ended the connection.
THEOREM NothingEscapesTheLog == Spec => []Logged
  <1>1. LogInv => Logged
    <2> SUFFICES ASSUME LogInv PROVE Logged
      OBVIOUS
    <2>1. Filed
      BY DEF LogInv
    <2>2. ASSUME faults = 0, stamp.reader = 0
          PROVE  Cardinality({r \in written : r.from = "in"})
                     = Len(delivered) + (IF reader \in {"invalid", "broken"} THEN 1 ELSE 0)
      <3>1. Cardinality(Incoming) = taken /\ taken + 0 = Len(delivered) + Refusals
        BY <2>2 DEF LogInv, Numbered, ReaderCounts, InHand
      <3>2. taken \in Nat
        BY DEF LogInv, LogType
      <3> QED
        BY <3>1, <3>2 DEF Incoming, Refusals
    <2> QED
      BY <2>1, <2>2 DEF Logged
  <1> QED
    BY <1>1, LogStart, LogStep, PTL DEF Spec

-----------------------------------------------------------------------------
(* Frames put end to end *)

\* Every non-empty set of naturals has a least member.
LEMMA LeastNatural ==
  ASSUME NEW S, S \subseteq Nat, S # {}
  PROVE  \E x \in S : \A y \in S : x <= y
  <1>1. PICK x \in S : \A y \in S : ~(<<y, x>> \in OpToRel(<, Nat))
    BY NatLessThanWellFounded, WFMin
  <1>2. \A y \in S : x <= y
    <2> TAKE y \in S
    <2>1. y < x => <<y, x>> \in OpToRel(<, Nat)
      BY Zenon DEF OpToRel
    <2>2. ~(y < x)
      BY <1>1, <2>1, Zenon
    <2> QED
      BY <2>2
  <1> QED
    BY <1>2

\* A set of numbers that holds 0 and with every number the next holds them all.
LEMMA EveryNatural ==
  ASSUME NEW S, 0 \in S, \A n \in Nat : n \in S => n + 1 \in S
  PROVE  Nat \subseteq S
  <1> SUFFICES ASSUME Nat \ S # {} PROVE FALSE
    OBVIOUS
  <1>1. PICK n \in Nat \ S : \A m \in Nat \ S : n <= m
    <2> DEFINE T == Nat \ S
    <2>1. T \subseteq Nat /\ T # {}
      OBVIOUS
    <2> HIDE DEF T
    <2>2. \E n \in T : \A m \in T : n <= m
      BY <2>1, LeastNatural
    <2> QED
      BY <2>2 DEF T
  <1>2. n - 1 \in Nat /\ n - 1 \notin Nat \ S /\ n - 1 + 1 = n
    BY <1>1
  <1> QED
    BY <1>1, <1>2

\* The recursion of FlattenSeq: f[i] is the first i of the sequences.
Flattens(s, n, f) ==
    f = [i \in 1..n |-> IF i = 1 THEN s[i] ELSE f[i - 1] \o s[i]]

\* What FlattenSeq makes of the frames is the last value of that recursion.
LEMMA FlattenDef ==
  ASSUME NEW s, Len(s) # 0
  PROVE  FlattenSeq(s) = (CHOOSE f : Flattens(s, Len(s), f))[Len(s)]
  BY DEF FlattenSeq, Flattens

\* The recursion has a solution,
LEMMA FlattenExists ==
  ASSUME NEW s, NEW n \in Nat
  PROVE  \E f : Flattens(s, n, f)
  <1> DEFINE Done == {m \in Nat : \E f : Flattens(s, m, f)}
  <1>1. 0 \in Done
    <2> DEFINE f == [i \in {} |-> s[i]]
    <2>1. 1..0 = {}
      OBVIOUS
    <2>2. Flattens(s, 0, f)
      BY <2>1 DEF Flattens
    <2> QED
      BY <2>2
  <1>2. ASSUME NEW m \in Nat, m \in Done PROVE m + 1 \in Done
    <2>1. PICK f : Flattens(s, m, f)
      BY <1>2
    <2> DEFINE g == [i \in 1..(m + 1) |->
                        IF i <= m THEN f[i]
                        ELSE IF i = 1 THEN s[i] ELSE f[i - 1] \o s[i]]
    <2>2. ASSUME NEW i \in 1..(m + 1)
          PROVE  g[i] = IF i = 1 THEN s[i] ELSE g[i - 1] \o s[i]
      <3>1. i # 1 => i - 1 \in 1..(m + 1) /\ i - 1 <= m
        OBVIOUS
      <3>2. i # 1 => g[i - 1] = f[i - 1]
        BY <3>1
      <3>3. CASE i <= m
        <4>1. i \in 1..m
          BY <3>3
        <4>2. f[i] = IF i = 1 THEN s[i] ELSE f[i - 1] \o s[i]
          BY <2>1, <4>1 DEF Flattens
        <4> QED
          BY <3>2, <3>3, <4>2
      <3>4. CASE ~(i <= m)
        BY <3>2, <3>4
      <3> QED
        BY <3>3, <3>4
    <2>3. g = [i \in 1..(m + 1) |-> g[i]]
      OBVIOUS
    <2> HIDE DEF g
    <2>4. g = [i \in 1..(m + 1) |-> IF i = 1 THEN s[i] ELSE g[i - 1] \o s[i]]
      BY <2>2, <2>3
    <2>5. Flattens(s, m + 1, g)
      BY <2>4 DEF Flattens
    <2> QED
      BY <2>5
  <1> HIDE DEF Done
  <1>3. n \in Done
    BY <1>1, <1>2, EveryNatural
  <1> QED
    BY <1>3 DEF Done

\* and no other: it depends on the sequences up to i alone.
TwoSolutions(s, n, f, t, m, g) ==
    /\ n \in Nat /\ m \in Nat /\ n <= m
    /\ \A i \in 1..n : s[i] = t[i]
    /\ Flattens(s, n, f) /\ Flattens(t, m, g)

\* On the frames two streams share, their recursions agree.
LEMMA FlattensAgree ==
  ASSUME NEW s, NEW n, NEW f, NEW t, NEW m, NEW g, TwoSolutions(s, n, f, t, m, g)
  PROVE  \A k \in 1..n : f[k] = g[k]
  <1> USE DEF TwoSolutions
  <1> SUFFICES ASSUME NEW k \in 1..n PROVE f[k] = g[k]
    OBVIOUS
  <1> DEFINE Done == {j \in Nat : j \in 1..n => f[j] = g[j]}
  <1>1. 0 \in Done
    OBVIOUS
  <1>2. ASSUME NEW j \in Nat, j \in Done PROVE j + 1 \in Done
    <2> SUFFICES ASSUME j + 1 \in 1..n PROVE f[j + 1] = g[j + 1]
      OBVIOUS
    <2> DEFINE i == j + 1
    <2>1. i \in 1..n /\ i \in 1..m /\ i - 1 = j /\ (i # 1 => j \in 1..n)
      OBVIOUS
    <2> HIDE DEF i
    <2>2. f[i] = IF i = 1 THEN s[i] ELSE f[i - 1] \o s[i]
      BY <2>1 DEF Flattens
    <2>3. g[i] = IF i = 1 THEN t[i] ELSE g[i - 1] \o t[i]
      BY <2>1 DEF Flattens
    <2>4. i # 1 => f[j] = g[j]
      BY <1>2, <2>1
    <2> QED
      BY <2>1, <2>2, <2>3, <2>4 DEF i
  <1> HIDE DEF Done
  <1>3. k \in Done
    BY <1>1, <1>2, EveryNatural
  <1> QED
    BY <1>3 DEF Done

\* So the recursion has one solution, and FlattenSeq is its last value.
LEMMA FlattenIs ==
  ASSUME NEW s, Len(s) \in Nat \ {0}
  PROVE  \E f : Flattens(s, Len(s), f) /\ FlattenSeq(s) = f[Len(s)]
  <1>1. \E f : Flattens(s, Len(s), f)
    BY FlattenExists
  <1> DEFINE f == CHOOSE h : Flattens(s, Len(s), h)
  <1>2. Flattens(s, Len(s), f)
    BY <1>1, Zenon
  <1>3. FlattenSeq(s) = f[Len(s)]
    BY FlattenDef
  <1> QED
    BY <1>2, <1>3, Zenon

\* No frames, no bytes.
LEMMA FlattenEmpty == FlattenSeq(<<>>) = <<>>
  BY DEF FlattenSeq

\* A frame more goes to the end.
LEMMA FlattenAppend ==
  ASSUME NEW S, NEW s \in Seq(Seq(S)), NEW x \in Seq(S)
  PROVE  FlattenSeq(Append(s, x)) = FlattenSeq(s) \o x
  <1>1. PICK t : t = Append(s, x)
    OBVIOUS
  <1>2. PICK n \in Nat : n = Len(s)
    OBVIOUS
  <1>3. PICK m \in Nat : m = n + 1
    OBVIOUS
  <1>4. /\ Len(t) = m /\ t[m] = x /\ \A i \in 1..n : t[i] = s[i]
        /\ m # 0 /\ m \in 1..m /\ m - 1 = n /\ n <= m
    BY <1>1, <1>2, <1>3
  <1>5. PICK g : Flattens(t, m, g) /\ FlattenSeq(t) = g[m]
    BY <1>4, FlattenIs
  <1>6. g[m] = IF m = 1 THEN x ELSE g[n] \o x
    BY <1>4, <1>5 DEF Flattens
  <1>7. CASE n = 0
    <2>1. s = <<>> /\ m = 1
      <3>1. s # <<>> => Len(s) # 0
        BY EmptySeq
      <3> QED
        BY <1>2, <1>3, <1>7, <3>1
    <2>2. <<>> \o x = x
      BY ConcatEmptySeq
    <2> QED
      BY <1>1, <1>5, <1>6, <2>1, <2>2, FlattenEmpty
  <1>8. CASE n # 0
    <2>1. PICK f : Flattens(s, n, f) /\ FlattenSeq(s) = f[n]
      BY <1>2, <1>8, FlattenIs
    <2>2. n \in 1..n /\ m # 1
      BY <1>3, <1>8
    <2>3. \A i \in 1..n : s[i] = t[i]
      BY <1>4
    <2>4. TwoSolutions(s, n, f, t, m, g)
      BY <1>4, <1>5, <2>1, <2>3 DEF TwoSolutions
    <2>5. f[n] = g[n]
      <3>1. \A k \in 1..n : f[k] = g[k]
        BY <2>4, FlattensAgree
      <3> QED
        BY <2>2, <3>1
    <2>6. FlattenSeq(s) = g[n] /\ FlattenSeq(t) = g[n] \o x
      BY <1>5, <1>6, <2>1, <2>2, <2>5, Zenon
    <2> QED
      BY <1>1, <2>6, Zenon
  <1> QED
    BY <1>7, <1>8

-----------------------------------------------------------------------------
(* The frames *)

\* The bytes of the model.
Bytes == [k : {"8", "9", "soh", "x", "y", "10", "11"}, n : Nat]

\* What each kind of byte is.
LEMMA ByteFacts ==
  /\ {B("8"), B("soh"), B("x"), B("y"), B("10"), B("11")} \subseteq Bytes
  /\ B("8").k = "8" /\ B("soh").k = "soh" /\ B("x").k = "x" /\ B("y").k = "y"
  /\ B("10").k = "10" /\ B("11").k = "11"
  /\ \A n \in Nat : /\ Byte("9", n) \in Bytes
                    /\ Byte("9", n).k = "9" /\ Byte("9", n).n = n
  BY DEF B, Byte, Bytes

\* The sizes the reader decides by.
LEMMA Sizes ==
  /\ MinBody \in Nat /\ MinBody >= 1 /\ MinBody - 1 \in Nat /\ MinBody + 1 \in Nat
  /\ MaxMessage \in Nat /\ MaxMessage >= MinBody + 6 /\ MaxMessage - 4 \in Nat
  /\ MaxPrefix \in Nat /\ MaxPrefix > 4 /\ MaxPrefix - 2 \in Nat
  /\ MaxRead \in Nat /\ MaxRead >= 1
  BY FramingAssumption

\* A body of n bytes.
LEMMA BodyFacts ==
  ASSUME NEW n \in Nat
  PROVE  /\ Body(n) \in Seq(Bytes) /\ Len(Body(n)) = n
         /\ \A i \in 1..n : Body(n)[i] = B("x")
  <1>1. PICK x \in Bytes : x = B("x")
    BY ByteFacts
  <1>2. /\ [i \in 1..n |-> x] \in Seq(Bytes) /\ Len([i \in 1..n |-> x]) = n
        /\ \A i \in 1..n : [j \in 1..n |-> x][i] = x
    OBVIOUS
  <1> QED
    BY <1>1, <1>2 DEF Body

\* u is s and then t.
Joined(u, s, t) ==
    /\ u \in Seq(Bytes) /\ Len(u) = Len(s) + Len(t)
    /\ \A i \in 1..Len(s) : u[i] = s[i]
    /\ \A i \in 1..Len(t) : u[Len(s) + i] = t[i]

\* Concatenation, byte by byte.
LEMMA Joins ==
  ASSUME NEW s \in Seq(Bytes), NEW t \in Seq(Bytes)
  PROVE  Joined(s \o t, s, t)
  <1>1. PICK u : u = s \o t
    OBVIOUS
  <1>2. /\ u \in Seq(Bytes) /\ Len(u) = Len(s) + Len(t)
        /\ \A i \in 1..(Len(s) + Len(t)) : u[i] = IF i <= Len(s) THEN s[i] ELSE t[i - Len(s)]
    BY <1>1, ConcatProperties
  <1>3. Len(s) \in Nat /\ Len(t) \in Nat
    OBVIOUS
  <1>4. \A i \in 1..Len(s) : u[i] = s[i]
    BY <1>2, <1>3
  <1>5. \A i \in 1..Len(t) : u[Len(s) + i] = t[i]
    <2> TAKE i \in 1..Len(t)
    <2>1. /\ Len(s) + i \in 1..(Len(s) + Len(t)) /\ ~(Len(s) + i <= Len(s))
          /\ Len(s) + i - Len(s) = i
      BY <1>3
    <2> QED
      BY <1>2, <2>1
  <1> QED
    BY <1>1, <1>2, <1>4, <1>5 DEF Joined

\* A head of four, a body and what comes after it.
Assembly(F, a, b, c, d, n, t) ==
    /\ F \in Seq(Bytes) /\ Len(F) = n + 4 + Len(t)
    /\ F[1] = a /\ F[2] = b /\ F[3] = c /\ F[4] = d
    /\ \A i \in 5..(n + 4) : F[i] = B("x")
    /\ \A i \in 1..Len(t) : F[n + 4 + i] = t[i]

\* Every frame is put together so.
LEMMA Assembled ==
  ASSUME NEW a \in Bytes, NEW b \in Bytes, NEW c \in Bytes, NEW d \in Bytes,
         NEW n \in Nat, NEW t \in Seq(Bytes)
  PROVE  Assembly(<<a, b, c, d>> \o Body(n) \o t, a, b, c, d, n, t)
  <1>1. PICK h : h = <<a, b, c, d>>
    OBVIOUS
  <1>2. /\ h \in Seq(Bytes) /\ Len(h) = 4
        /\ h[1] = a /\ h[2] = b /\ h[3] = c /\ h[4] = d
    BY <1>1
  <1>3. PICK m : m = Body(n)
    OBVIOUS
  <1>4. m \in Seq(Bytes) /\ Len(m) = n /\ \A i \in 1..n : m[i] = B("x")
    BY <1>3, BodyFacts
  <1>5. PICK g : g = h \o m /\ Joined(g, h, m)
    BY <1>2, <1>4, Joins
  <1>6. PICK F : F = g \o t /\ Joined(F, g, t)
    <2>1. g \in Seq(Bytes)
      BY <1>5 DEF Joined
    <2> QED
      BY <2>1, Joins
  <1>7. Len(t) \in Nat /\ Len(g) = n + 4 /\ F \in Seq(Bytes) /\ Len(F) = n + 4 + Len(t)
    BY <1>2, <1>4, <1>5, <1>6 DEF Joined
  <1>8. \A i \in 1..4 : F[i] = h[i]
    <2> TAKE i \in 1..4
    <2>1. i \in 1..Len(h) /\ i \in 1..Len(g)
      BY <1>2, <1>7
    <2> QED
      BY <1>5, <1>6, <2>1 DEF Joined
  <1>9. \A i \in 5..(n + 4) : F[i] = B("x")
    <2> TAKE i \in 5..(n + 4)
    <2>1. PICK j \in 1..n : i = Len(h) + j
      BY <1>2
    <2>2. i \in 1..Len(g) /\ j \in 1..Len(m)
      BY <1>4, <1>7
    <2>3. g[i] = m[j] /\ F[i] = g[i]
      BY <1>5, <1>6, <2>1, <2>2 DEF Joined
    <2> QED
      BY <1>4, <2>3
  <1>10. \A i \in 1..Len(t) : F[n + 4 + i] = t[i]
    BY <1>6, <1>7 DEF Joined
  <1>11. Assembly(F, a, b, c, d, n, t)
    BY <1>2, <1>7, <1>8, <1>9, <1>10 DEF Assembly
  <1>12. F = <<a, b, c, d>> \o Body(n) \o t
    BY <1>1, <1>3, <1>5, <1>6
  <1> QED
    BY <1>11, <1>12

\* What follows the body.
LEMMA Trailer ==
  /\ \A x \in Bytes : <<x>> \in Seq(Bytes) /\ Len(<<x>>) = 1 /\ <<x>>[1] = x
  /\ \A x, y \in Bytes : /\ <<x, y>> \in Seq(Bytes) /\ Len(<<x, y>>) = 2
                         /\ <<x, y>>[1] = x /\ <<x, y>>[2] = y
  OBVIOUS

\* A frame with the trailer alone behind its body,
LEMMA OneByte ==
  ASSUME NEW F, NEW a, NEW b, NEW c, NEW d, NEW n \in Nat, NEW x \in Bytes,
         Assembly(F, a, b, c, d, n, <<x>>)
  PROVE  Len(F) = n + 5 /\ F[n + 5] = x
  <1>1. PICK t : t = <<x>>
    OBVIOUS
  <1>2. Len(t) = 1 /\ t[1] = x /\ Assembly(F, a, b, c, d, n, t)
    BY <1>1
  <1>3. 1 \in 1..Len(t) /\ n + 4 + 1 = n + 5
    BY <1>2
  <1> QED
    BY <1>2, <1>3 DEF Assembly

\* and one with a byte before the trailer.
LEMMA TwoBytes ==
  ASSUME NEW F, NEW a, NEW b, NEW c, NEW d, NEW n \in Nat, NEW x \in Bytes, NEW y \in Bytes,
         Assembly(F, a, b, c, d, n, <<x, y>>)
  PROVE  Len(F) = n + 6 /\ F[n + 5] = x /\ F[n + 6] = y
  <1>1. PICK t : t = <<x, y>>
    OBVIOUS
  <1>2. Len(t) = 2 /\ t[1] = x /\ t[2] = y /\ Assembly(F, a, b, c, d, n, t)
    BY <1>1
  <1>3. /\ 1 \in 1..Len(t) /\ n + 4 + 1 = n + 5
        /\ 2 \in 1..Len(t) /\ n + 4 + 2 = n + 6
    BY <1>2
  <1> QED
    BY <1>2, <1>3 DEF Assembly

\* What the reader sees of a frame's head, and where it looks for the trailer.
Refusable(F) ==
    \/ F[1].k # "8" \/ F[3].k # "9"
    \/ F[3].n + 5 > MaxMessage \/ F[3].n < MinBody

\* Where the BodyLength of the head puts the trailer.
Ends(F) == F[3].n + 5

\* A good frame is as long as it says, and is text.
Sound(F) ==
    /\ ~Refusable(F)
    /\ Len(F) = Ends(F)
    /\ F[Len(F)].k = "10" /\ \A i \in 5..(Len(F) - 1) : F[i].k = "x"

\* The others have a wrong head, or show something else where they should end.
Flawed(F) ==
    \/ Refusable(F)
    \/ /\ Ends(F) \in 6..Len(F)
       /\ F[Ends(F)].k # "10" \/ (Ends(F) # 5 /\ F[Ends(F) - 1].k # "x")

\* A frame that wants the first byte of the next.
Hungry(F) == Ends(F) = Len(F) + 1

\* What all frames begin with.
Headed(F) ==
    /\ F \in Seq(Bytes) /\ Len(F) >= 5
    /\ F[1].k \notin {"soh", "10"} /\ F[2].k = "soh" /\ F[3].k # "soh" /\ F[4].k = "soh"

\* A head that goes on past what the reader accepts.
Endless(F) ==
    /\ F \in Seq(Bytes) /\ Len(F) = MaxPrefix
    /\ F[1].k \notin {"soh", "10"} /\ F[2].k = "soh"
    /\ \A i \in 3..Len(F) : F[i].k = "x"

\* The two good frames.
LEMMA FrameOne ==
  ASSUME NEW F, F = Frames.one
  PROVE  Headed(F) /\ Sound(F)
  <1>0. PICK n \in Nat : n = MinBody
    BY Sizes
  <1>1. /\ B("8") \in Bytes /\ B("soh") \in Bytes /\ Byte("9", MinBody) \in Bytes
        /\ <<B("10")>> \in Seq(Bytes) /\ B("10") \in Bytes
    BY ByteFacts, Sizes, Trailer
  <1>2. Assembly(F, B("8"), B("soh"), Byte("9", MinBody), B("soh"), n, <<B("10")>>)
    <2>1. F = <<B("8"), B("soh"), Byte("9", MinBody), B("soh")>> \o Body(n) \o <<B("10")>>
      BY <1>0 DEF Frames, Head4
    <2> QED
      BY <1>1, <2>1, Assembled
  <1>3. Len(F) = MinBody + 5 /\ F[MinBody + 5] = B("10")
    <2>1. Len(F) = n + 5 /\ F[n + 5] = B("10")
      BY <1>1, <1>2, OneByte
    <2> QED
      BY <1>0, <2>1, Sizes
  <1>4. Headed(F)
    BY <1>2, <1>3, ByteFacts, Sizes DEF Assembly, Headed
  <1>5. Sound(F)
    <2>1. /\ F[1].k = "8" /\ F[3].k = "9" /\ F[3].n = n
          /\ \A i \in 5..(n + 4) : F[i].k = "x"
      BY <1>0, <1>2, ByteFacts DEF Assembly
    <2>2. Ends(F) = Len(F) /\ Len(F) = n + 5 /\ ~Refusable(F) /\ F[Len(F)].k = "10"
      BY <1>0, <1>3, <2>1, ByteFacts, Sizes DEF Ends, Refusable
    <2> QED
      BY <2>1, <2>2 DEF Sound
  <1> QED
    BY <1>4, <1>5

\* The larger good frame.
LEMMA FrameTwo ==
  ASSUME NEW F, F = Frames.two
  PROVE  Headed(F) /\ Sound(F)
  <1>0. PICK n \in Nat : n = MinBody + 1
    BY Sizes
  <1>1. /\ B("8") \in Bytes /\ B("soh") \in Bytes /\ Byte("9", MinBody + 1) \in Bytes
        /\ <<B("10")>> \in Seq(Bytes) /\ B("10") \in Bytes
    BY ByteFacts, Sizes, Trailer
  <1>2. Assembly(F, B("8"), B("soh"), Byte("9", MinBody + 1), B("soh"), n, <<B("10")>>)
    <2>1. F = <<B("8"), B("soh"), Byte("9", MinBody + 1), B("soh")>> \o Body(n) \o <<B("10")>>
      BY <1>0 DEF Frames, Head4
    <2> QED
      BY <1>1, <2>1, Assembled
  <1>3. Len(F) = MinBody + 6 /\ F[MinBody + 6] = B("10")
    <2>1. Len(F) = n + 5 /\ F[n + 5] = B("10")
      BY <1>1, <1>2, OneByte
    <2> QED
      BY <1>0, <2>1, Sizes
  <1>4. Headed(F)
    BY <1>2, <1>3, ByteFacts, Sizes DEF Assembly, Headed
  <1>5. Sound(F)
    <2>1. /\ F[1].k = "8" /\ F[3].k = "9" /\ F[3].n = n
          /\ \A i \in 5..(n + 4) : F[i].k = "x"
      BY <1>0, <1>2, ByteFacts DEF Assembly
    <2>2. Ends(F) = Len(F) /\ Len(F) = n + 5 /\ ~Refusable(F) /\ F[Len(F)].k = "10"
      BY <1>0, <1>3, <2>1, ByteFacts, Sizes DEF Ends, Refusable
    <2> QED
      BY <2>1, <2>2 DEF Sound
  <1> QED
    BY <1>4, <1>5

\* The wrong ones.
LEMMA FrameBegin ==
  ASSUME NEW F, F = Frames.begin
  PROVE  Headed(F) /\ Flawed(F)
  <1>0. PICK n \in Nat : n = MinBody
    BY Sizes
  <1>1. /\ B("x") \in Bytes /\ B("soh") \in Bytes /\ Byte("9", MinBody) \in Bytes
        /\ <<B("10")>> \in Seq(Bytes) /\ B("10") \in Bytes
    BY ByteFacts, Sizes, Trailer
  <1>2. Assembly(F, B("x"), B("soh"), Byte("9", MinBody), B("soh"), n, <<B("10")>>)
    <2>1. F = <<B("x"), B("soh"), Byte("9", MinBody), B("soh")>> \o Body(n) \o <<B("10")>>
      BY <1>0 DEF Frames, Head4
    <2> QED
      BY <1>1, <2>1, Assembled
  <1>3. Len(F) = MinBody + 5 /\ F[MinBody + 5] = B("10")
    <2>1. Len(F) = n + 5 /\ F[n + 5] = B("10")
      BY <1>1, <1>2, OneByte
    <2> QED
      BY <1>0, <2>1, Sizes
  <1>4. Headed(F)
    BY <1>2, <1>3, ByteFacts, Sizes DEF Assembly, Headed
  <1>5. Flawed(F)
    <2>1. F[1].k # "8"
      BY <1>2, ByteFacts DEF Assembly
    <2> QED
      BY <2>1 DEF Flawed, Refusable
  <1> QED
    BY <1>4, <1>5

\* The second field is not the length.
LEMMA FrameLength ==
  ASSUME NEW F, F = Frames.length
  PROVE  Headed(F) /\ Flawed(F)
  <1>0. PICK n \in Nat : n = MinBody
    BY Sizes
  <1>1. /\ B("8") \in Bytes /\ B("soh") \in Bytes /\ B("x") \in Bytes
        /\ <<B("10")>> \in Seq(Bytes) /\ B("10") \in Bytes
    BY ByteFacts, Sizes, Trailer
  <1>2. Assembly(F, B("8"), B("soh"), B("x"), B("soh"), n, <<B("10")>>)
    <2>1. F = <<B("8"), B("soh"), B("x"), B("soh")>> \o Body(n) \o <<B("10")>>
      BY <1>0 DEF Frames, Head4
    <2> QED
      BY <1>1, <2>1, Assembled
  <1>3. Len(F) = MinBody + 5 /\ F[MinBody + 5] = B("10")
    <2>1. Len(F) = n + 5 /\ F[n + 5] = B("10")
      BY <1>1, <1>2, OneByte
    <2> QED
      BY <1>0, <2>1, Sizes
  <1>4. Headed(F)
    BY <1>2, <1>3, ByteFacts, Sizes DEF Assembly, Headed
  <1>5. Flawed(F)
    <2>1. F[3].k # "9"
      BY <1>2, ByteFacts DEF Assembly
    <2> QED
      BY <2>1 DEF Flawed, Refusable
  <1> QED
    BY <1>4, <1>5

\* A body shorter than the least.
LEMMA FrameEmpty ==
  ASSUME NEW F, F = Frames.empty
  PROVE  Headed(F) /\ Flawed(F)
  <1>0. PICK n \in Nat : n = MinBody - 1
    BY Sizes
  <1>1. /\ B("8") \in Bytes /\ B("soh") \in Bytes /\ Byte("9", MinBody - 1) \in Bytes
        /\ <<B("10")>> \in Seq(Bytes) /\ B("10") \in Bytes
    BY ByteFacts, Sizes, Trailer
  <1>2. Assembly(F, B("8"), B("soh"), Byte("9", MinBody - 1), B("soh"), n, <<B("10")>>)
    <2>1. F = <<B("8"), B("soh"), Byte("9", MinBody - 1), B("soh")>> \o Body(n) \o <<B("10")>>
      BY <1>0 DEF Frames, Head4
    <2> QED
      BY <1>1, <2>1, Assembled
  <1>3. Len(F) = MinBody + 4 /\ F[MinBody + 4] = B("10")
    <2>1. Len(F) = n + 5 /\ F[n + 5] = B("10")
      BY <1>1, <1>2, OneByte
    <2> QED
      BY <1>0, <2>1, Sizes
  <1>4. Headed(F)
    BY <1>2, <1>3, ByteFacts, Sizes DEF Assembly, Headed
  <1>5. Flawed(F)
    <2>1. F[3].n < MinBody
      BY <1>2, ByteFacts, Sizes DEF Assembly
    <2> QED
      BY <2>1 DEF Flawed, Refusable
  <1> QED
    BY <1>4, <1>5

\* A byte that no body may hold.
LEMMA FrameText ==
  ASSUME NEW F, F = Frames.text
  PROVE  Headed(F) /\ Flawed(F)
  <1>0. PICK n \in Nat : n = MinBody - 1
    BY Sizes
  <1>1. /\ B("8") \in Bytes /\ B("soh") \in Bytes /\ Byte("9", MinBody) \in Bytes
        /\ <<B("y"), B("10")>> \in Seq(Bytes) /\ B("y") \in Bytes /\ B("10") \in Bytes
    BY ByteFacts, Sizes, Trailer
  <1>2. Assembly(F, B("8"), B("soh"), Byte("9", MinBody), B("soh"), n, <<B("y"), B("10")>>)
    <2>1. F = <<B("8"), B("soh"), Byte("9", MinBody), B("soh")>> \o Body(n) \o <<B("y"), B("10")>>
      BY <1>0 DEF Frames, Head4
    <2> QED
      BY <1>1, <2>1, Assembled
  <1>3. Len(F) = MinBody + 5 /\ F[MinBody + 4] = B("y") /\ F[MinBody + 5] = B("10")
    <2>1. Len(F) = n + 6 /\ F[n + 5] = B("y") /\ F[n + 6] = B("10")
      BY <1>1, <1>2, TwoBytes
    <2> QED
      <3>1. n + 5 = MinBody + 4 /\ n + 6 = MinBody + 5
        BY <1>0, Sizes
      <3> QED
        BY <2>1, <3>1
  <1>4. Headed(F)
    BY <1>2, <1>3, ByteFacts, Sizes DEF Assembly, Headed
  <1>5. Flawed(F)
    <2>1. F[3].n = MinBody
      BY <1>2, ByteFacts, Sizes DEF Assembly
    <2>2. Ends(F) = MinBody + 5 /\ Ends(F) - 1 = MinBody + 4
      BY <2>1, Sizes DEF Ends
    <2>3. F[Ends(F) - 1].k = "y"
      BY <1>3, <2>2, ByteFacts
    <2>4. Ends(F) \in 6..Len(F) /\ Ends(F) # 5
      BY <1>3, <2>2, Sizes
    <2> QED
      BY <2>3, <2>4 DEF Flawed
  <1> QED
    BY <1>4, <1>5

\* A wrong sum.
LEMMA FrameSum ==
  ASSUME NEW F, F = Frames.sum
  PROVE  Headed(F) /\ Flawed(F)
  <1>0. PICK n \in Nat : n = MinBody
    BY Sizes
  <1>1. /\ B("8") \in Bytes /\ B("soh") \in Bytes /\ Byte("9", MinBody) \in Bytes
        /\ <<B("11")>> \in Seq(Bytes) /\ B("11") \in Bytes
    BY ByteFacts, Sizes, Trailer
  <1>2. Assembly(F, B("8"), B("soh"), Byte("9", MinBody), B("soh"), n, <<B("11")>>)
    <2>1. F = <<B("8"), B("soh"), Byte("9", MinBody), B("soh")>> \o Body(n) \o <<B("11")>>
      BY <1>0 DEF Frames, Head4
    <2> QED
      BY <1>1, <2>1, Assembled
  <1>3. Len(F) = MinBody + 5 /\ F[MinBody + 5] = B("11")
    <2>1. Len(F) = n + 5 /\ F[n + 5] = B("11")
      BY <1>1, <1>2, OneByte
    <2> QED
      BY <1>0, <2>1, Sizes
  <1>4. Headed(F)
    BY <1>2, <1>3, ByteFacts, Sizes DEF Assembly, Headed
  <1>5. Flawed(F)
    <2>1. F[3].n = MinBody
      BY <1>2, ByteFacts, Sizes DEF Assembly
    <2>2. F[Ends(F)].k = "11" /\ Ends(F) \in 6..Len(F)
      BY <1>3, <2>1, ByteFacts, Sizes DEF Ends
    <2> QED
      BY <2>2 DEF Flawed
  <1> QED
    BY <1>4, <1>5

\* A byte more than the head says.
LEMMA FrameMore ==
  ASSUME NEW F, F = Frames.more
  PROVE  Headed(F) /\ Flawed(F)
  <1>0. PICK n \in Nat : n = MinBody + 1
    BY Sizes
  <1>1. /\ B("8") \in Bytes /\ B("soh") \in Bytes /\ Byte("9", MinBody) \in Bytes
        /\ <<B("10")>> \in Seq(Bytes) /\ B("10") \in Bytes
    BY ByteFacts, Sizes, Trailer
  <1>2. Assembly(F, B("8"), B("soh"), Byte("9", MinBody), B("soh"), n, <<B("10")>>)
    <2>1. F = <<B("8"), B("soh"), Byte("9", MinBody), B("soh")>> \o Body(n) \o <<B("10")>>
      BY <1>0 DEF Frames, Head4
    <2> QED
      BY <1>1, <2>1, Assembled
  <1>3. Len(F) = MinBody + 6 /\ F[MinBody + 6] = B("10")
    <2>1. Len(F) = n + 5 /\ F[n + 5] = B("10")
      BY <1>1, <1>2, OneByte
    <2> QED
      BY <1>0, <2>1, Sizes
  <1>4. Headed(F)
    BY <1>2, <1>3, ByteFacts, Sizes DEF Assembly, Headed
  <1>5. Flawed(F)
    <2>1. Ends(F) = MinBody + 5
      BY <1>2, ByteFacts, Sizes DEF Assembly, Ends
    <2>2. MinBody + 5 \in 5..(n + 4)
      BY <1>0, Sizes
    <2>3. F[MinBody + 5] = B("x")
      BY <1>2, <2>2 DEF Assembly
    <2>4. F[Ends(F)].k = "x" /\ Ends(F) \in 6..Len(F)
      BY <1>3, <2>1, <2>3, ByteFacts, Sizes
    <2> QED
      BY <2>4 DEF Flawed
  <1> QED
    BY <1>4, <1>5

\* A byte fewer: the reader takes the next frame's first for the trailer.
LEMMA FrameFewer ==
  ASSUME NEW F, F = Frames.fewer
  PROVE  Headed(F) /\ Hungry(F)
  <1>0. PICK n \in Nat : n = MinBody
    BY Sizes
  <1>1. /\ B("8") \in Bytes /\ B("soh") \in Bytes /\ Byte("9", MinBody + 1) \in Bytes
        /\ <<B("10")>> \in Seq(Bytes) /\ B("10") \in Bytes
    BY ByteFacts, Sizes, Trailer
  <1>2. Assembly(F, B("8"), B("soh"), Byte("9", MinBody + 1), B("soh"), n, <<B("10")>>)
    <2>1. F = <<B("8"), B("soh"), Byte("9", MinBody + 1), B("soh")>> \o Body(n) \o <<B("10")>>
      BY <1>0 DEF Frames, Head4
    <2> QED
      BY <1>1, <2>1, Assembled
  <1>3. Len(F) = MinBody + 5 /\ F[MinBody + 5] = B("10")
    <2>1. Len(F) = n + 5 /\ F[n + 5] = B("10")
      BY <1>1, <1>2, OneByte
    <2> QED
      BY <1>0, <2>1, Sizes
  <1>4. Headed(F)
    BY <1>2, <1>3, ByteFacts, Sizes DEF Assembly, Headed
  <1>5. Hungry(F)
    <2>1. F[3].n = MinBody + 1
      BY <1>2, ByteFacts, Sizes DEF Assembly
    <2> QED
      BY <1>3, <2>1, Sizes DEF Hungry, Ends
  <1> QED
    BY <1>4, <1>5

\* A length past the limit.
LEMMA FrameHuge ==
  ASSUME NEW F, F = Frames.huge
  PROVE  Headed(F) /\ Flawed(F)
  <1>1. PICK c \in Bytes : c = Byte("9", MaxMessage - 4) /\ c.k = "9" /\ c.n = MaxMessage - 4
    BY ByteFacts, Sizes
  <1>2. PICK h : h = <<B("8"), B("soh"), c, B("soh")>>
    OBVIOUS
  <1>3. /\ h \in Seq(Bytes) /\ Len(h) = 4
        /\ h[1] = B("8") /\ h[2] = B("soh") /\ h[3] = c
        /\ h[4] = B("soh")
    BY <1>1, <1>2, ByteFacts
  <1>4. PICK m \in Seq(Bytes) : m = Body(1) /\ Len(m) = 1
    BY BodyFacts
  <1>5. Joined(F, h, m)
    <2>1. F = h \o Body(1)
      BY <1>1, <1>2 DEF Frames, Head4
    <2> QED
      BY <1>3, <1>4, <2>1, Joins
  <1>6. /\ F \in Seq(Bytes) /\ Len(F) = 5
        /\ F[1] = B("8") /\ F[2] = B("soh") /\ F[3] = c /\ F[4] = B("soh")
    <2>1. F \in Seq(Bytes) /\ Len(F) = 5
      <3>1. F \in Seq(Bytes) /\ Len(F) = Len(h) + Len(m)
        BY <1>5 DEF Joined
      <3> QED
        BY <1>3, <1>4, <3>1
    <2>2. \A i \in 1..4 : F[i] = h[i]
      <3> TAKE i \in 1..4
      <3>1. i \in 1..Len(h)
        BY <1>3
      <3> QED
        BY <1>5, <3>1, Zenon DEF Joined
    <2>3. F[1] = h[1] /\ F[2] = h[2] /\ F[3] = h[3] /\ F[4] = h[4]
      BY <2>2
    <2> QED
      BY <1>3, <2>1, <2>3
  <1>7. Headed(F)
    BY <1>1, <1>6, ByteFacts DEF Headed
  <1>8. Flawed(F)
    BY <1>1, <1>6, ByteFacts, Sizes DEF Flawed, Refusable
  <1> QED
    BY <1>7, <1>8

\* A head without a second separator.
LEMMA FrameEndless ==
  ASSUME NEW F, F = Frames.endless
  PROVE  Endless(F)
  <1>1. PICK h : h = <<B("8"), B("soh")>>
    OBVIOUS
  <1>2. h \in Seq(Bytes) /\ Len(h) = 2 /\ h[1] = B("8") /\ h[2] = B("soh")
    BY <1>1, ByteFacts, Trailer
  <1>3. PICK m : m = Body(MaxPrefix - 2)
    OBVIOUS
  <1>4. /\ m \in Seq(Bytes) /\ Len(m) = MaxPrefix - 2
        /\ \A i \in 1..(MaxPrefix - 2) : m[i] = B("x")
    BY <1>3, BodyFacts, Sizes
  <1>5. Joined(F, h, m)
    <2>1. F = h \o m
      BY <1>1, <1>3 DEF Frames
    <2> QED
      BY <1>2, <1>4, <2>1, Joins
  <1>6. F \in Seq(Bytes) /\ Len(F) = MaxPrefix /\ F[1] = B("8") /\ F[2] = B("soh")
    BY <1>2, <1>4, <1>5, Sizes DEF Joined
  <1>7. \A i \in 3..Len(F) : F[i].k = "x"
    <2> TAKE i \in 3..Len(F)
    <2>1. PICK j \in 1..(MaxPrefix - 2) : i = 2 + j
      BY <1>6, Sizes
    <2>2. F[2 + j] = m[j]
      BY <1>2, <1>4, <1>5 DEF Joined
    <2> QED
      BY <1>4, <2>1, <2>2, ByteFacts
  <1> QED
    BY <1>6, <1>7, ByteFacts DEF Endless

\* The names of the frames.
Names == {"one", "two", "begin", "length", "endless", "huge", "empty", "text", "sum", "more",
          "fewer"}

\* Every frame the peer may write is of one of four kinds.
LEMMA FrameKinds ==
  /\ DOMAIN Frames = Names
  /\ \A f \in Names :
        /\ f \in GoodFrame => Headed(Frames[f]) /\ Sound(Frames[f])
        /\ f = "fewer" => Headed(Frames[f]) /\ Hungry(Frames[f])
        /\ f = "endless" => Endless(Frames[f])
        /\ f \notin GoodFrame \cup {"fewer", "endless"} =>
                Headed(Frames[f]) /\ Flawed(Frames[f])
  <1>1. DOMAIN Frames = Names
    BY DEF Frames, Names
  <1>2. /\ Frames["one"] = Frames.one /\ Frames["two"] = Frames.two
        /\ Frames["begin"] = Frames.begin /\ Frames["length"] = Frames.length
        /\ Frames["endless"] = Frames.endless /\ Frames["huge"] = Frames.huge
        /\ Frames["empty"] = Frames.empty /\ Frames["text"] = Frames.text
        /\ Frames["sum"] = Frames.sum /\ Frames["more"] = Frames.more
        /\ Frames["fewer"] = Frames.fewer
    OBVIOUS
  <1>3. \A f \in GoodFrame : Headed(Frames[f]) /\ Sound(Frames[f])
    BY <1>2, FrameOne, FrameTwo DEF GoodFrame
  <1>4. Headed(Frames["fewer"]) /\ Hungry(Frames["fewer"])
    BY <1>2, FrameFewer
  <1>5. Endless(Frames["endless"])
    BY <1>2, FrameEndless
  <1>6. \A f \in {"begin", "length", "huge", "empty", "text", "sum", "more"} :
            Headed(Frames[f]) /\ Flawed(Frames[f])
    <2> TAKE f \in {"begin", "length", "huge", "empty", "text", "sum", "more"}
    <2>1. CASE f \in {"begin", "length"}
      BY <1>2, <2>1, FrameBegin, FrameLength
    <2>2. CASE f \in {"huge", "empty"}
      BY <1>2, <2>2, FrameHuge, FrameEmpty
    <2>3. CASE f \in {"text", "sum", "more"}
      BY <1>2, <2>3, FrameText, FrameSum, FrameMore
    <2> QED
      BY <2>1, <2>2, <2>3
  <1>7. \A f \in Names : \/ f \in GoodFrame \/ f = "fewer" \/ f = "endless"
                         \/ f \in {"begin", "length", "huge", "empty", "text", "sum", "more"}
    BY DEF Names, GoodFrame
  <1>8. /\ "fewer" \notin GoodFrame /\ "endless" \notin GoodFrame
        /\ \A f \in {"begin", "length", "huge", "empty", "text", "sum", "more"} :
              f \notin GoodFrame /\ f # "fewer" /\ f # "endless"
    BY DEF GoodFrame
  <1> QED
    BY <1>1, <1>3, <1>4, <1>5, <1>6, <1>7, <1>8

-----------------------------------------------------------------------------
(* What the reader makes of the bytes of a frame *)

\* p is what has come of the frame f, and of the next when f is short.
Opens(p, f) ==
    /\ p \in Seq(Bytes)
    /\ \A i \in DOMAIN p : i <= Len(Frames[f]) => p[i] = Frames[f][i]
    /\ Len(p) > Len(Frames[f]) =>
        f \in GoodFrame \cup {"fewer"} /\ p[Len(Frames[f]) + 1].k # "10"

\* The length is not known while there is one separator at most,
LEMMA HeadBefore ==
  ASSUME NEW p \in Seq(Bytes), \A i \in DOMAIN p : p[i].k = "soh" => i = 2
  PROVE  ~HeadDone(p)
  <1>1. Separators(p) = {} \/ Separators(p) = {2}
    <2>1. \A i \in Separators(p) : i = 2
      BY DEF Separators
    <2> QED
      BY <2>1
  <1>2. Cardinality({}) = 0 /\ Cardinality({2}) = 1
    BY FS_EmptySet, FS_Singleton
  <1>3. Cardinality(Separators(p)) = 0 \/ Cardinality(Separators(p)) = 1
    BY <1>1, <1>2, Zenon
  <1> QED
    BY <1>3 DEF HeadDone

\* and is the third byte's when the second and the fourth are separators.
LEMMA HeadAfter ==
  ASSUME NEW p \in Seq(Bytes), Len(p) >= 4,
         p[1].k # "soh", p[2].k = "soh", p[3].k # "soh", p[4].k = "soh"
  PROVE  HeadDone(p) /\ HeadEnd(p) = 4 /\ TotalOf(p) = p[3].n + 5
  <1> DEFINE S == Separators(p)
             Left(i) == {j \in S : j < i}
  <1>1. /\ Len(p) \in Nat /\ DOMAIN p = 1..Len(p)
        /\ S \subseteq 1..Len(p) /\ 2 \in S /\ 4 \in S /\ 1 \notin S /\ 3 \notin S
    <2>1. Len(p) \in Nat /\ DOMAIN p = 1..Len(p)
      OBVIOUS
    <2>2. 2 \in DOMAIN p /\ 4 \in DOMAIN p
      BY <2>1
    <2> QED
      BY <2>1, <2>2 DEF Separators
  <1>2. IsFiniteSet(S)
    <2>1. IsFiniteSet(1..Len(p))
      BY <1>1, FS_Interval
    <2> QED
      BY <1>1, <2>1, FS_Subset
  <1>3. Cardinality({2, 4}) = 2 /\ Cardinality({2}) = 1 /\ Cardinality({}) = 0
    <2>1. {2, 4} = {2} \cup {4} /\ 4 \notin {2}
      OBVIOUS
    <2>2. Cardinality({2} \cup {4}) = Cardinality({2}) + 1
      BY <2>1, FS_Singleton, FS_AddElement
    <2>3. Cardinality({2}) = 1 /\ Cardinality({}) = 0
      BY FS_EmptySet, FS_Singleton
    <2> QED
      BY <2>1, <2>2, <2>3
  <1> HIDE DEF S
  <1>4. Cardinality(S) >= 2
    <2>1. {2, 4} \subseteq S
      BY <1>1
    <2>2. Cardinality({2, 4}) <= Cardinality(S)
      BY <1>2, <2>1, FS_Subset
    <2>3. Cardinality(S) \in Nat
      BY <1>2, FS_CardinalityType
    <2> QED
      BY <1>3, <2>2, <2>3
  <1>5. Left(4) = {2} /\ Left(2) = {}
    <2>1. \A j \in S : j \in Nat /\ j >= 1 /\ j # 1 /\ j # 3
      BY <1>1
    <2>2. \A j \in S : j < 4 <=> j = 2
      BY <2>1
    <2>3. \A j \in S : ~(j < 2)
      BY <2>1
    <2> QED
      BY <1>1, <2>2, <2>3
  <1>6. ASSUME NEW i \in S, Cardinality(Left(i)) = 1 PROVE i = 4
    <2>1. CASE i = 2
      BY <1>3, <1>5, <1>6, <2>1
    <2>2. CASE i > 4
      <3>1. {2, 4} \subseteq Left(i) /\ Left(i) \subseteq S
        BY <1>1, <2>2
      <3> HIDE DEF Left
      <3>2. IsFiniteSet(Left(i))
        BY <1>2, <3>1, FS_Subset
      <3>3. Cardinality({2, 4}) <= Cardinality(Left(i))
        BY <3>1, <3>2, FS_Subset
      <3> QED
        BY <1>3, <1>6, <3>3
    <2>3. i \in Nat /\ i >= 1 /\ i # 1 /\ i # 3
      BY <1>1
    <2> QED
      BY <2>1, <2>2, <2>3
  <1>7. HeadEnd(p) = 4
    <2>1. Cardinality(Left(4)) = 1
      BY <1>3, <1>5
    <2>2. HeadEnd(p) = CHOOSE i \in S : Cardinality(Left(i)) = 1
      BY DEF HeadEnd, S
    <2> HIDE DEF Left
    <2> QED
      BY <1>1, <1>6, <2>1, <2>2
  <1>8. p[3].n \in Nat
    <2>1. p[3] \in Bytes
      BY <1>1
    <2> QED
      BY <2>1 DEF Bytes
  <1> QED
    BY <1>4, <1>7, <1>8 DEF HeadDone, TotalOf, S

\* How much of the head is there.
LEMMA HeadIs ==
  ASSUME NEW f \in Names, NEW p, Opens(p, f)
  PROVE  /\ Len(p) < 4 => ~HeadDone(p)
         /\ f = "endless" => ~HeadDone(p)
         /\ f # "endless" /\ Len(p) >= 4 =>
                /\ HeadDone(p) /\ HeadEnd(p) = 4
                /\ TotalOf(p) = Ends(Frames[f])
                /\ HeadRefused(p) <=> Refusable(Frames[f])
  <1>1. PICK F : F = Frames[f]
    OBVIOUS
  <1>2. /\ p \in Seq(Bytes) /\ Len(p) \in Nat /\ DOMAIN p = 1..Len(p)
        /\ \A i \in DOMAIN p : i <= Len(F) => p[i] = F[i]
    BY <1>1 DEF Opens
  <1>3. CASE f = "endless"
    <2>1. Endless(F) /\ ~(Len(p) > Len(F))
      BY <1>1, <1>3, FrameKinds DEF Opens, GoodFrame
    <2>2. \A i \in DOMAIN p : p[i].k = "soh" => i = 2
      BY <1>2, <2>1, Sizes DEF Endless
    <2>3. ~HeadDone(p)
      BY <1>2, <2>2, HeadBefore
    <2> QED
      BY <1>3, <2>3
  <1>4. CASE f # "endless"
    <2>1. Headed(F)
      BY <1>1, <1>4, FrameKinds
    <2>2. Len(F) \in Nat /\ Len(F) >= 5
      BY <2>1 DEF Headed
    <2>3. ASSUME Len(p) < 4 PROVE ~HeadDone(p)
      <3>1. \A i \in DOMAIN p : p[i].k = "soh" => i = 2
        BY <1>2, <2>1, <2>2, <2>3 DEF Headed
      <3> QED
        BY <1>2, <3>1, HeadBefore
    <2>4. ASSUME Len(p) >= 4
          PROVE  /\ HeadDone(p) /\ HeadEnd(p) = 4
                 /\ TotalOf(p) = Ends(F) /\ (HeadRefused(p) <=> Refusable(F))
      <3>1. p[1] = F[1] /\ p[2] = F[2] /\ p[3] = F[3] /\ p[4] = F[4]
        BY <1>2, <2>2, <2>4
      <3>2. HeadDone(p) /\ HeadEnd(p) = 4 /\ TotalOf(p) = p[3].n + 5
        BY <1>2, <2>1, <2>4, <3>1, HeadAfter DEF Headed
      <3>3. p[HeadEnd(p) - 1] = F[3]
        BY <3>1, <3>2
      <3> QED
        BY <3>1, <3>2, <3>3 DEF HeadRefused, Refusable, Ends
    <2> QED
      BY <1>1, <1>4, <2>3, <2>4
  <1> QED
    BY <1>3, <1>4

\* A prefix of what has come has come.
LEMMA OpensBefore ==
  ASSUME NEW f, NEW q, Opens(q, f), NEW p \in Seq(Bytes), Len(p) <= Len(q),
         \A i \in DOMAIN p : p[i] = q[i], Len(Frames[f]) \in Nat
  PROVE  Opens(p, f)
  <1>1. /\ Len(p) \in Nat /\ DOMAIN p = 1..Len(p)
        /\ q \in Seq(Bytes) /\ Len(q) \in Nat /\ DOMAIN q = 1..Len(q)
    BY DEF Opens
  <1>2. \A i \in DOMAIN p : i \in DOMAIN q /\ (i <= Len(Frames[f]) => p[i] = Frames[f][i])
    BY <1>1 DEF Opens
  <1>3. ASSUME Len(p) > Len(Frames[f])
        PROVE  f \in GoodFrame \cup {"fewer"} /\ p[Len(Frames[f]) + 1].k # "10"
    <2>1. Len(Frames[f]) + 1 \in DOMAIN p /\ Len(q) > Len(Frames[f])
      BY <1>1, <1>3
    <2>2. p[Len(Frames[f]) + 1] = q[Len(Frames[f]) + 1]
      BY <2>1
    <2> QED
      BY <2>1, <2>2 DEF Opens
  <1> QED
    BY <1>2, <1>3 DEF Opens

\* Every frame has five bytes, the first of which is no trailer.
LEMMA FrameSizes ==
  \A f \in Names : /\ Frames[f] \in Seq(Bytes)
                   /\ Len(Frames[f]) \in Nat /\ Len(Frames[f]) >= 5
                   /\ Frames[f][1].k # "10"
  <1> TAKE f \in Names
  <1>1. Headed(Frames[f]) \/ Endless(Frames[f])
    BY FrameKinds
  <1> QED
    BY <1>1, Sizes DEF Headed, Endless

\* A frame is refused only if it is wrong, and returned only if it is good.
LEMMA Verdict ==
  ASSUME NEW f \in Names, NEW p, Opens(p, f)
  PROVE  /\ HeadRefused(p) => f \notin GoodFrame
         /\ HeadDone(p) /\ ~HeadRefused(p) /\ Len(p) = TotalOf(p) =>
                IF Parses(p) THEN f \in GoodFrame /\ p = Frames[f]
                             ELSE f \notin GoodFrame
         /\ f \in GoodFrame /\ Len(p) >= Len(Frames[f]) =>
                HeadDone(p) /\ TotalOf(p) <= Len(p)
  <1>1. PICK F : F = Frames[f]
    OBVIOUS
  <1>2. F \in Seq(Bytes) /\ Len(F) \in Nat /\ Len(F) >= 5 /\ DOMAIN F = 1..Len(F)
    BY <1>1, FrameSizes
  <1>3. /\ p \in Seq(Bytes) /\ Len(p) \in Nat /\ DOMAIN p = 1..Len(p)
        /\ \A i \in DOMAIN p : i <= Len(F) => p[i] = F[i]
        /\ Len(p) > Len(F) => f \in GoodFrame \cup {"fewer"} /\ p[Len(F) + 1].k # "10"
    BY <1>1 DEF Opens
  <1>4. /\ Len(p) < 4 => ~HeadDone(p)
        /\ f = "endless" => ~HeadDone(p)
        /\ f # "endless" /\ Len(p) >= 4 =>
                /\ HeadDone(p) /\ HeadEnd(p) = 4 /\ TotalOf(p) = Ends(F)
                /\ HeadRefused(p) <=> Refusable(F)
    BY <1>1, HeadIs
  <1>5. f \in GoodFrame => Sound(F) /\ f # "endless"
    BY <1>1, FrameKinds DEF GoodFrame
  <1>6. ASSUME HeadRefused(p), f \in GoodFrame PROVE FALSE
    <2>1. HeadDone(p)
      BY <1>3, <1>4, <1>5, <1>6, Sizes DEF HeadRefused
    <2>2. Refusable(F)
      BY <1>3, <1>4, <1>5, <1>6, <2>1
    <2> QED
      BY <1>5, <1>6, <2>2 DEF Sound
  <1>7. ASSUME HeadDone(p), ~HeadRefused(p), Len(p) = TotalOf(p)
        PROVE  IF Parses(p) THEN f \in GoodFrame /\ p = F ELSE f \notin GoodFrame
    <2>1. Len(p) >= 4 /\ f # "endless"
      BY <1>3, <1>4, <1>7
    <2>2. /\ HeadEnd(p) = 4 /\ Len(p) = Ends(F) /\ ~Refusable(F)
      BY <1>4, <1>7, <2>1
    <2>3. CASE f \in GoodFrame
      <3>1. Sound(F) /\ Len(p) = Len(F)
        BY <1>5, <2>2, <2>3 DEF Sound
      <3>2. \A i \in 1..Len(p) : p[i] = F[i]
        BY <1>2, <1>3, <3>1
      <3>3. p = F
        BY <1>2, <1>3, <3>1, <3>2, SeqEqual
      <3>4. Parses(p)
        BY <2>2, <3>1, <3>3 DEF Parses, Sound
      <3> QED
        BY <2>3, <3>3, <3>4
    <2>4. CASE f = "fewer"
      <3>1. Len(p) = Len(F) + 1
        BY <1>1, <2>2, <2>4, FrameKinds DEF Hungry
      <3>2. p[Len(p)].k # "10"
        BY <1>2, <1>3, <3>1
      <3> QED
        BY <2>4, <3>2 DEF Parses, GoodFrame
    <2>5. CASE f \notin GoodFrame \cup {"fewer"}
      <3>1. Flawed(F)
        BY <1>1, <2>1, <2>5, FrameKinds
      <3>2. /\ Len(p) \in 6..Len(F)
            /\ F[Len(p)].k # "10" \/ F[Len(p) - 1].k # "x"
        BY <2>2, <3>1 DEF Flawed
      <3>3. p[Len(p)] = F[Len(p)] /\ p[Len(p) - 1] = F[Len(p) - 1]
        BY <1>2, <1>3, <3>2
      <3>4. Len(p) - 1 \in (HeadEnd(p) + 1)..(Len(p) - 1)
        BY <1>3, <2>2, <3>2
      <3>5. ~Parses(p)
        BY <3>2, <3>3, <3>4 DEF Parses
      <3> QED
        BY <2>5, <3>5
    <2> QED
      BY <2>3, <2>4, <2>5
  <1>8. ASSUME f \in GoodFrame, Len(p) >= Len(F)
        PROVE  HeadDone(p) /\ TotalOf(p) <= Len(p)
    BY <1>2, <1>3, <1>4, <1>5, <1>8 DEF Sound
  <1> QED
    BY <1>1, <1>6, <1>7, <1>8

\* What the reader knew of a head stays so when more comes.
LEMMA Growth ==
  ASSUME NEW f \in Names, NEW p, Opens(p, f), NEW q, Opens(q, f), Len(p) <= Len(q)
  PROVE  /\ HeadDone(p) => /\ HeadDone(q) /\ TotalOf(q) = TotalOf(p)
                           /\ HeadRefused(q) <=> HeadRefused(p)
         /\ HeadDone(q) /\ ~HeadDone(p) => Len(p) < 4
         /\ HeadDone(q) => Len(q) >= 4
         /\ HeadDone(q) /\ ~HeadRefused(q) => TotalOf(q) \in Nat /\ TotalOf(q) > 4
  <1>1. Len(p) \in Nat /\ Len(q) \in Nat
    BY DEF Opens
  <1>2. /\ Len(p) < 4 => ~HeadDone(p)
        /\ f = "endless" => ~HeadDone(p)
        /\ f # "endless" /\ Len(p) >= 4 =>
                /\ HeadDone(p) /\ TotalOf(p) = Ends(Frames[f])
                /\ HeadRefused(p) <=> Refusable(Frames[f])
    BY HeadIs
  <1>3. /\ Len(q) < 4 => ~HeadDone(q)
        /\ f = "endless" => ~HeadDone(q)
        /\ f # "endless" /\ Len(q) >= 4 =>
                /\ HeadDone(q) /\ TotalOf(q) = Ends(Frames[f])
                /\ HeadRefused(q) <=> Refusable(Frames[f])
    BY HeadIs
  <1>4. ASSUME HeadDone(q) PROVE Ends(Frames[f]) \in Nat /\ Ends(Frames[f]) > 4
    <2>1. f # "endless"
      BY <1>3, <1>4
    <2>2. Frames[f] \in Seq(Bytes) /\ Len(Frames[f]) \in Nat /\ Len(Frames[f]) >= 5
      BY FrameSizes
    <2>3. Frames[f][3] \in Bytes
      BY <2>2
    <2> QED
      BY <2>3 DEF Ends, Bytes
  <1> QED
    BY <1>1, <1>2, <1>3, <1>4

-----------------------------------------------------------------------------
(* The stream *)

\* The types, and the streams that are sequences of bytes.
StreamType ==
    /\ sent \in Seq(Names)
    /\ net \in Seq(Bytes) /\ pending \in Seq(Bytes) /\ total \in Nat
    /\ delivered \in Seq(Seq(Bytes)) /\ FlattenSeq(delivered) \in Seq(Bytes)
    /\ Written(Len(sent)) \in Seq(Bytes)
    /\ torn => eof

\* What was delivered is what was sent.
DeliveredRight ==
    /\ Len(delivered) <= Len(sent) /\ AllGood(Len(delivered))
    /\ \A i \in DOMAIN delivered : delivered[i] = Frames[sent[i]]

\* Then comes what the reader holds, what is on its way and, when the peer
\* broke off, what is lost.
Continues ==
    \E lost \in Seq(Bytes) :
        /\ Written(Len(sent)) = FlattenSeq(delivered) \o (pending \o (net \o lost))
        /\ lost # <<>> => torn

\* What was written starts, behind its first i frames, with the next.
Layout ==
    \A i \in 0..(Len(sent) - 1) :
        /\ Written(i) \in Seq(Bytes)
        /\ \E tail \in Seq(Bytes) :
            /\ Written(Len(sent)) = Written(i) \o (Frames[sent[i + 1]] \o tail)
            /\ tail # <<>> => /\ sent[i + 1] \in GoodFrame \cup {"fewer"}
                              /\ tail[1].k # "10"

\* The decoder knows the length as soon as it has the head, and holds less.
Decoding ==
    reader # "invalid" =>
        /\ total = IF HeadDone(pending) THEN TotalOf(pending) ELSE 0
        /\ HeadDone(pending) => ~HeadRefused(pending) /\ Len(pending) < total

\* The reader refuses, or misses the end of, none but a wrong frame.
Verdicts ==
    /\ reader = "invalid" =>
        Len(delivered) < Len(sent) /\ sent[Len(delivered) + 1] \notin GoodFrame
    /\ reader = "broken" => torn \/ ~AllGood(Len(sent))

\* The inductive invariant of the stream.
StreamInv ==
    StreamType /\ DeliveredRight /\ Continues /\ Layout /\ Decoding /\ Verdicts

\* What has come of a stream that starts with f.
LEMMA OpensStream ==
  ASSUME NEW f \in Names, NEW tail \in Seq(Bytes), NEW q \in Seq(Bytes), NEW r \in Seq(Bytes),
         q \o r = Frames[f] \o tail,
         tail # <<>> => f \in GoodFrame \cup {"fewer"} /\ tail[1].k # "10"
  PROVE  Opens(q, f) /\ Len(q) + Len(r) >= Len(Frames[f])
  <1>1. PICK F : F = Frames[f]
    OBVIOUS
  <1>2. F \in Seq(Bytes) /\ Len(F) \in Nat
    BY <1>1, FrameSizes
  <1>3. PICK s : s = q \o r
    OBVIOUS
  <1>4. Joined(s, q, r) /\ Joined(s, F, tail)
    BY <1>1, <1>2, <1>3, Joins
  <1>5. /\ Len(q) \in Nat /\ Len(r) \in Nat /\ Len(tail) \in Nat /\ DOMAIN q = 1..Len(q)
        /\ Len(q) + Len(r) = Len(F) + Len(tail)
    <2>1. Len(s) = Len(q) + Len(r) /\ Len(s) = Len(F) + Len(tail)
      BY <1>4 DEF Joined
    <2>2. Len(q) \in Nat /\ Len(r) \in Nat /\ Len(tail) \in Nat /\ DOMAIN q = 1..Len(q)
      OBVIOUS
    <2> QED
      BY <2>1, <2>2
  <1>6. \A i \in DOMAIN q : i <= Len(F) => q[i] = F[i]
    <2> TAKE i \in DOMAIN q
    <2> SUFFICES ASSUME i <= Len(F) PROVE q[i] = F[i]
      OBVIOUS
    <2>1. i \in 1..Len(q) /\ i \in 1..Len(F)
      BY <1>2, <1>5
    <2> QED
      BY <1>4, <2>1 DEF Joined
  <1>7. ASSUME Len(q) > Len(F)
        PROVE  f \in GoodFrame \cup {"fewer"} /\ q[Len(F) + 1].k # "10"
    <2>1. 1 \in 1..Len(tail) /\ Len(F) + 1 \in 1..Len(q)
      BY <1>2, <1>5, <1>7
    <2>2. q[Len(F) + 1] = tail[1]
      BY <1>4, <2>1 DEF Joined
    <2>3. tail # <<>>
      BY <2>1
    <2> QED
      BY <2>2, <2>3
  <1> QED
    BY <1>1, <1>2, <1>5, <1>6, <1>7 DEF Opens

\* The frames delivered are the first that were written.
LEMMA DeliveredWritten ==
  ASSUME StreamType, DeliveredRight
  PROVE  Written(Len(delivered)) = FlattenSeq(delivered)
  <1>1. /\ delivered \in Seq(Seq(Bytes)) /\ DOMAIN delivered = 1..Len(delivered)
        /\ delivered = [i \in 1..Len(delivered) |-> delivered[i]]
    BY DEF StreamType
  <1>2. [j \in 1..Len(delivered) |-> Frames[sent[j]]] = delivered
    BY <1>1 DEF DeliveredRight
  <1> QED
    BY <1>2 DEF Written

\* Where the reader is: in the frame behind those it delivered.
LEMMA Position ==
  ASSUME StreamInv, NEW lost \in Seq(Bytes),
         Written(Len(sent)) = FlattenSeq(delivered) \o (pending \o (net \o lost))
  PROVE  /\ Len(delivered) \in Nat /\ Len(sent) \in Nat
         /\ Len(delivered) = Len(sent) => pending = <<>> /\ net = <<>>
         /\ Len(delivered) < Len(sent) =>
              LET f == sent[Len(delivered) + 1]
              IN  /\ f \in Names
                  /\ \A q, r \in Seq(Bytes) :
                        q \o r = pending \o (net \o lost) =>
                            Opens(q, f) /\ Len(q) + Len(r) >= Len(Frames[f])
  <1>1. /\ sent \in Seq(Names) /\ net \in Seq(Bytes) /\ pending \in Seq(Bytes)
        /\ delivered \in Seq(Seq(Bytes)) /\ FlattenSeq(delivered) \in Seq(Bytes)
        /\ Len(delivered) <= Len(sent) /\ Layout
    BY DEF StreamInv, StreamType, DeliveredRight
  <1>2. Len(delivered) \in Nat /\ Len(sent) \in Nat
    BY <1>1
  <1>3. Written(Len(delivered)) = FlattenSeq(delivered)
    BY DeliveredWritten DEF StreamInv
  <1>4. net \o lost \in Seq(Bytes) /\ pending \o (net \o lost) \in Seq(Bytes)
    BY <1>1, ConcatProperties
  <1>5. ASSUME Len(delivered) = Len(sent) PROVE pending = <<>> /\ net = <<>>
    <2>1. pending \o (net \o lost) = <<>>
      BY <1>1, <1>3, <1>4, <1>5, ConcatEqualIffEmpty
    <2>2. pending = <<>> /\ net \o lost = <<>>
      BY <1>1, <1>4, <2>1, ConcatEqualIffEmpty
    <2> QED
      BY <1>1, <2>2, ConcatEqualIffEmpty
  <1>6. ASSUME Len(delivered) < Len(sent)
        PROVE  LET f == sent[Len(delivered) + 1]
               IN  /\ f \in Names
                   /\ \A q, r \in Seq(Bytes) :
                         q \o r = pending \o (net \o lost) =>
                             Opens(q, f) /\ Len(q) + Len(r) >= Len(Frames[f])
    <2>1. PICK f \in Names : f = sent[Len(delivered) + 1]
      BY <1>1, <1>2, <1>6
    <2>2. Len(delivered) \in 0..(Len(sent) - 1)
      BY <1>2, <1>6
    <2>3. PICK tail \in Seq(Bytes) :
            /\ Written(Len(sent)) = Written(Len(delivered)) \o (Frames[f] \o tail)
            /\ tail # <<>> => f \in GoodFrame \cup {"fewer"} /\ tail[1].k # "10"
      BY <1>1, <2>1, <2>2 DEF Layout
    <2>4. Frames[f] \o tail \in Seq(Bytes)
      BY FrameSizes, ConcatProperties
    <2>5. pending \o (net \o lost) = Frames[f] \o tail
      <3>1. \A s, t, v \in Seq(Bytes) : s \o t = s \o v => t = v
        BY ConcatSimplifications
      <3>2. FlattenSeq(delivered) \o (pending \o (net \o lost))
                = FlattenSeq(delivered) \o (Frames[f] \o tail)
        BY <1>3, <2>3
      <3> QED
        BY <1>1, <1>4, <2>4, <3>1, <3>2, Zenon
    <2>6. \A q, r \in Seq(Bytes) : q \o r = pending \o (net \o lost) =>
                Opens(q, f) /\ Len(q) + Len(r) >= Len(Frames[f])
      BY <2>3, <2>5, OpensStream
    <2> QED
      BY <2>1, <2>6
  <1> QED
    BY <1>2, <1>5, <1>6

-----------------------------------------------------------------------------
(* The steps of the peer *)

\* At the start nothing is written, held or delivered.
LEMMA StreamStart == Init => StreamInv
  <1> SUFFICES ASSUME Init PROVE StreamInv
    OBVIOUS
  <1>1. /\ sent = <<>> /\ net = <<>> /\ eof = FALSE /\ torn = FALSE
        /\ pending = <<>> /\ total = 0 /\ delivered = <<>> /\ reader = "loop"
    BY DEF Init, FramingInit
  <1>2. /\ Len(<<>>) = 0 /\ <<>> \in Seq(Bytes) /\ <<>> \in Seq(Names)
        /\ <<>> \in Seq(Seq(Bytes)) /\ DOMAIN <<>> = {}
    OBVIOUS
  <1>3. Written(0) = <<>>
    <2>1. [j \in 1..0 |-> Frames[sent[j]]] = <<>>
      OBVIOUS
    <2> QED
      BY <2>1, FlattenEmpty DEF Written
  <1>4. StreamType
    BY <1>1, <1>2, <1>3, FlattenEmpty DEF StreamType
  <1>5. DeliveredRight
    BY <1>1, <1>2 DEF DeliveredRight, AllGood
  <1>6. Continues
    <2>1. <<>> \o <<>> = <<>>
      BY <1>2, ConcatEmptySeq
    <2>2. Written(Len(sent)) = FlattenSeq(delivered) \o (pending \o (net \o <<>>))
      BY <1>1, <1>2, <1>3, <2>1, FlattenEmpty
    <2> QED
      BY <1>2, <2>2 DEF Continues
  <1>7. Layout
    BY <1>1, <1>2 DEF Layout
  <1>8. Decoding
    <2>1. ~HeadDone(<<>>)
      BY <1>2, HeadBefore
    <2> QED
      BY <1>1, <2>1 DEF Decoding
  <1>9. Verdicts
    BY <1>1 DEF Verdicts
  <1> QED
    BY <1>4, <1>5, <1>6, <1>7, <1>8, <1>9 DEF StreamInv

\* A frame more.
LEMMA WrittenMore ==
  ASSUME sent \in Seq(Names), NEW f \in Names, sent' = Append(sent, f),
         NEW n \in Nat, n = Len(sent)
  PROVE  /\ \A i \in 0..n : Written(i)' = Written(i)
         /\ Written(n + 1)' = Written(n) \o Frames[f]
         /\ Len(sent') = n + 1 /\ sent' \in Seq(Names)
         /\ \A i \in 1..n : sent'[i] = sent[i]
         /\ sent'[n + 1] = f
  <1>1. /\ Len(sent') = n + 1 /\ sent' \in Seq(Names)
        /\ \A i \in 1..n : sent'[i] = sent[i]
        /\ sent'[n + 1] = f
    OBVIOUS
  <1>2. ASSUME NEW i \in 0..n PROVE Written(i)' = Written(i)
    <2>1. \A j \in 1..i : sent'[j] = sent[j]
      BY <1>1
    <2>2. [j \in 1..i |-> Frames[sent'[j]]] = [j \in 1..i |-> Frames[sent[j]]]
      BY <2>1
    <2> QED
      BY <2>2 DEF Written
  <1>3. Written(n + 1)' = Written(n) \o Frames[f]
    <2>1. PICK s : s = [j \in 1..n |-> Frames[sent[j]]]
      OBVIOUS
    <2>2. \A j \in 1..n : Frames[sent[j]] \in Seq(Bytes)
      BY FrameSizes
    <2>3. s \in Seq(Seq(Bytes)) /\ Len(s) = n /\ \A j \in 1..n : s[j] = Frames[sent[j]]
      BY <2>1, <2>2
    <2>4. Frames[f] \in Seq(Bytes)
      BY FrameSizes
    <2>5. [j \in 1..(n + 1) |-> Frames[sent'[j]]] = Append(s, Frames[f])
      <3>1. PICK t : t = Append(s, Frames[f])
        OBVIOUS
      <3>2. /\ t = [j \in 1..(n + 1) |-> t[j]]
            /\ t[n + 1] = Frames[f] /\ \A j \in 1..n : t[j] = s[j]
        BY <2>3, <2>4, <3>1
      <3>3. \A j \in 1..(n + 1) : t[j] = Frames[sent'[j]]
        <4> TAKE j \in 1..(n + 1)
        <4>1. CASE j = n + 1
          BY <1>1, <3>2, <4>1
        <4>2. CASE j \in 1..n
          BY <1>1, <2>3, <3>2, <4>2
        <4>3. j = n + 1 \/ j \in 1..n
          OBVIOUS
        <4> QED
          BY <4>1, <4>2, <4>3
      <3> QED
        BY <3>1, <3>2, <3>3
    <2>6. FlattenSeq(Append(s, Frames[f])) = FlattenSeq(s) \o Frames[f]
      BY <2>3, <2>4, FlattenAppend
    <2>7. Written(n) = FlattenSeq(s)
      BY <2>1 DEF Written
    <2>8. Written(n + 1)' = FlattenSeq(Append(s, Frames[f]))
      BY <2>5 DEF Written
    <2> QED
      BY <2>6, <2>7, <2>8
  <1> QED
    BY <1>1, <1>2, <1>3

\* What the reader depends on and the peer does not touch.
LEMMA ReaderRests ==
  ASSUME StreamInv, NEW n \in Nat, Len(sent) = n, NEW m \in Nat, Len(sent') = m, n <= m,
         \A i \in 1..n : sent'[i] = sent[i],
         UNCHANGED <<pending, total, delivered, reader>>, torn => torn'
  PROVE  DeliveredRight' /\ Decoding' /\ Verdicts'
  <1>1. /\ delivered \in Seq(Seq(Bytes)) /\ Len(delivered) \in Nat /\ Len(delivered) <= n
        /\ DOMAIN delivered = 1..Len(delivered)
        /\ AllGood(Len(delivered))
        /\ \A i \in DOMAIN delivered : delivered[i] = Frames[sent[i]]
    BY DEF StreamInv, StreamType, DeliveredRight
  <1>2. \A i \in 1..Len(delivered) : sent'[i] = sent[i]
    BY <1>1
  <1>3. DeliveredRight'
    BY <1>1, <1>2 DEF DeliveredRight, AllGood
  <1>4. Decoding'
    BY DEF StreamInv, Decoding
  <1>5. ASSUME reader = "invalid"
        PROVE  Len(delivered) < m /\ sent'[Len(delivered) + 1] \notin GoodFrame
    <2>1. Len(delivered) < n /\ sent[Len(delivered) + 1] \notin GoodFrame
      BY <1>5 DEF StreamInv, Verdicts
    <2>2. Len(delivered) + 1 \in 1..n
      BY <1>1, <2>1
    <2> QED
      BY <1>1, <2>1, <2>2
  <1>6. ASSUME reader = "broken", ~torn'
        PROVE  ~AllGood(Len(sent))'
    <2>1. ~AllGood(n)
      BY <1>6 DEF StreamInv, Verdicts
    <2>2. PICK j \in 1..n : sent[j] \notin GoodFrame
      BY <2>1 DEF AllGood
    <2>3. j \in 1..m /\ sent'[j] \notin GoodFrame
      BY <2>2
    <2> QED
      BY <2>3 DEF AllGood
  <1>7. Verdicts'
    BY <1>5, <1>6 DEF Verdicts
  <1> QED
    BY <1>3, <1>4, <1>7

\* Bringing three sequences, and four, into another order of joining.
LEMMA Associates ==
  ASSUME NEW a \in Seq(Bytes), NEW b \in Seq(Bytes), NEW c \in Seq(Bytes)
  PROVE  a \o b \in Seq(Bytes) /\ (a \o b) \o c = a \o (b \o c)
  <1>1. (a \o b) \o c = a \o (b \o c)
    BY ConcatAssociative
  <1> QED
    BY <1>1, ConcatProperties

\* Concatenation as a name of its own, which the provers do not rewrite.
Cat(a, b) == a \o b

\* Concatenation keeps to bytes and is associative.
LEMMA CatFacts ==
  /\ \A a, b \in Seq(Bytes) : Cat(a, b) \in Seq(Bytes)
  /\ \A a, b, c \in Seq(Bytes) : Cat(Cat(a, b), c) = Cat(a, Cat(b, c))
  <1>1. ASSUME NEW a \in Seq(Bytes), NEW b \in Seq(Bytes) PROVE Cat(a, b) \in Seq(Bytes)
    BY ConcatProperties DEF Cat
  <1>2. ASSUME NEW a \in Seq(Bytes), NEW b \in Seq(Bytes), NEW c \in Seq(Bytes)
        PROVE  Cat(Cat(a, b), c) = Cat(a, Cat(b, c))
    BY Associates DEF Cat
  <1> QED
    BY <1>1, <1>2, Zenon

\* Four pieces of the stream, joined in two orders.
LEMMA Reassociate ==
  ASSUME NEW a \in Seq(Bytes), NEW b \in Seq(Bytes), NEW c \in Seq(Bytes), NEW d \in Seq(Bytes)
  PROVE  /\ Cat(Cat(a, Cat(b, c)), d) = Cat(a, Cat(b, Cat(c, d)))
         /\ Cat(a, Cat(b, Cat(c, d))) = Cat(Cat(a, b), Cat(c, d))
  <1>1. Cat(b, c) \in Seq(Bytes) /\ Cat(c, d) \in Seq(Bytes)
    BY CatFacts, Zenon
  <1>2. Cat(Cat(a, Cat(b, c)), d) = Cat(a, Cat(Cat(b, c), d))
    BY <1>1, CatFacts
  <1>3. Cat(Cat(a, b), Cat(c, d)) = Cat(a, Cat(b, Cat(c, d)))
    BY <1>1, CatFacts
  <1>4. Cat(Cat(b, c), d) = Cat(b, Cat(c, d))
    BY CatFacts
  <1> QED
    BY <1>2, <1>3, <1>4, Zenon

\* The peer writes a frame.
LEMMA SendStep ==
  ASSUME StreamInv, NEW f \in Names, Send(f)
  PROVE  StreamInv'
  <1>1. /\ ~eof /\ sent' = Append(sent, f) /\ net' = net \o Frames[f]
        /\ \A i \in DOMAIN sent : sent[i] \in GoodFrame \cup {"fewer"}
        /\ UNCHANGED <<eof, torn, pending, total, delivered, reader>>
    BY DEF Send
  <1>2. /\ sent \in Seq(Names) /\ net \in Seq(Bytes) /\ pending \in Seq(Bytes) /\ total \in Nat
        /\ delivered \in Seq(Seq(Bytes)) /\ FlattenSeq(delivered) \in Seq(Bytes)
        /\ Written(Len(sent)) \in Seq(Bytes) /\ ~torn /\ Continues /\ Layout
    BY <1>1 DEF StreamInv, StreamType
  <1>3. PICK n \in Nat : n = Len(sent)
    BY <1>2
  <1>4. /\ \A i \in 0..n : Written(i)' = Written(i)
        /\ Written(n + 1)' = Written(n) \o Frames[f]
        /\ Len(sent') = n + 1 /\ sent' \in Seq(Names)
        /\ \A i \in 1..n : sent'[i] = sent[i]
        /\ sent'[n + 1] = f
    BY <1>1, <1>2, <1>3, WrittenMore
  <1>5. PICK F \in Seq(Bytes) : F = Frames[f] /\ Len(F) >= 5 /\ F[1].k # "10"
    BY FrameSizes
  <1>6. PICK W \in Seq(Bytes) : W = Written(n)
    BY <1>2, <1>3
  <1>7. Written(Len(sent))' = W \o F
    <2>1. Written(Len(sent))' = Written(n + 1)'
      BY <1>4 DEF Written
    <2> QED
      BY <1>4, <1>5, <1>6, <2>1
  <1>8. StreamType'
    <2>1. W \o F \in Seq(Bytes) /\ net \o F \in Seq(Bytes)
      BY <1>2, ConcatProperties
    <2>2. FlattenSeq(delivered)' = FlattenSeq(delivered)
      BY <1>1
    <2> QED
      BY <1>1, <1>2, <1>4, <1>5, <1>7, <2>1, <2>2 DEF StreamType
  <1>9. DeliveredRight' /\ Decoding' /\ Verdicts'
    <2>1. n + 1 \in Nat /\ n <= n + 1
      OBVIOUS
    <2> QED
      BY <1>1, <1>3, <1>4, <2>1, ReaderRests
  <1>10. Continues'
    <2>1. W = FlattenSeq(delivered) \o (pending \o (net \o <<>>))
      BY <1>2, <1>3, <1>6 DEF Continues
    <2>2. W = FlattenSeq(delivered) \o (pending \o net)
      BY <1>2, <2>1, ConcatEmptySeq
    <2>3. W \o F = FlattenSeq(delivered) \o (pending \o (net \o F))
      <3>1. PICK d \in Seq(Bytes), p \in Seq(Bytes), q \in Seq(Bytes) :
                d = FlattenSeq(delivered) /\ p = pending /\ q = net
        BY <1>2
      <3>2. Cat(Cat(d, Cat(p, q)), F) = Cat(d, Cat(p, Cat(q, F)))
        BY Reassociate
      <3> QED
        BY <2>2, <3>1, <3>2, Zenon DEF Cat
    <2>4. net \o F \in Seq(Bytes) /\ <<>> \in Seq(Bytes)
      BY <1>2, ConcatProperties
    <2>5. (net \o F) \o <<>> = net \o F
      BY <2>4, ConcatEmptySeq
    <2>6. Written(Len(sent))' = FlattenSeq(delivered') \o (pending' \o (net' \o <<>>))
      BY <1>1, <1>5, <1>7, <2>3, <2>5
    <2> QED
      BY <2>4, <2>6 DEF Continues
  <1>11. Layout'
    <2>1. ASSUME NEW i \in 0..n
          PROVE  /\ Written(i)' \in Seq(Bytes)
                 /\ \E tail \in Seq(Bytes) :
                      /\ W \o F = Written(i)' \o (Frames[sent'[i + 1]] \o tail)
                      /\ tail # <<>> => /\ sent'[i + 1] \in GoodFrame \cup {"fewer"}
                                        /\ tail[1].k # "10"
      <3>1. Written(i)' = Written(i)
        BY <1>4
      <3>2. CASE i = n
        <4>1. <<>> \in Seq(Bytes) /\ F \o <<>> = F
          BY ConcatEmptySeq
        <4>2. W \o F = Written(i)' \o (Frames[sent'[i + 1]] \o <<>>)
          BY <1>4, <1>5, <1>6, <3>1, <3>2, <4>1
        <4> QED
          BY <1>6, <3>1, <3>2, <4>1, <4>2
      <3>3. CASE i # n
        <4>1. i \in 0..(Len(sent) - 1) /\ i + 1 \in 1..n /\ i + 1 \in DOMAIN sent
          BY <1>2, <1>3, <3>3
        <4>2. PICK V \in Seq(Bytes), tail \in Seq(Bytes) :
                /\ V = Written(i) /\ W = V \o (Frames[sent[i + 1]] \o tail)
                /\ tail # <<>> => /\ sent[i + 1] \in GoodFrame \cup {"fewer"}
                                  /\ tail[1].k # "10"
          BY <1>2, <1>3, <1>6, <4>1 DEF Layout
        <4>3. PICK G \in Seq(Bytes) : G = Frames[sent[i + 1]]
          <5>1. sent[i + 1] \in Names
            BY <1>2, <4>1
          <5> QED
            BY <5>1, FrameSizes
        <4>4. W \o F = V \o (G \o (tail \o F))
          <5>1. Cat(Cat(V, Cat(G, tail)), F) = Cat(V, Cat(G, Cat(tail, F)))
            BY Reassociate
          <5> QED
            BY <4>2, <4>3, <5>1, Zenon DEF Cat
        <4>5. PICK u \in Seq(Bytes) : u = tail \o F /\ Joined(u, tail, F)
          <5>1. tail \o F \in Seq(Bytes)
            BY ConcatProperties
          <5>2. Joined(tail \o F, tail, F)
            BY Joins, Zenon
          <5> QED
            BY <5>1, <5>2, Zenon
        <4>6. u[1].k # "10"
          <5>1. CASE tail = <<>>
            BY <1>5, <4>5, <5>1, ConcatEmptySeq
          <5>2. CASE tail # <<>>
            <6>1. 1 \in 1..Len(tail)
              BY <5>2, EmptySeq
            <6> QED
              BY <4>2, <4>5, <5>2, <6>1 DEF Joined
          <5> QED
            BY <5>1, <5>2
        <4>7. /\ sent'[i + 1] = sent[i + 1] /\ sent[i + 1] \in GoodFrame \cup {"fewer"}
          BY <1>1, <1>4, <4>1
        <4> QED
          BY <3>1, <4>2, <4>3, <4>4, <4>5, <4>6, <4>7
      <3> QED
        BY <3>2, <3>3
    <2>2. \A i \in 0..(Len(sent') - 1) : i \in 0..n
      BY <1>4
    <2> QED
      BY <1>7, <2>1, <2>2 DEF Layout
  <1> QED
    BY <1>8, <1>9, <1>10, <1>11 DEF StreamInv

\* A stream cut in two is the two parts joined.
LEMMA Cut ==
  ASSUME NEW s \in Seq(Bytes), NEW k \in 0..Len(s)
  PROVE  /\ SubSeq(s, 1, k) \in Seq(Bytes) /\ Len(SubSeq(s, 1, k)) = k
         /\ SubSeq(s, k + 1, Len(s)) \in Seq(Bytes)
         /\ Len(SubSeq(s, k + 1, Len(s))) = Len(s) - k
         /\ s = Cat(SubSeq(s, 1, k), SubSeq(s, k + 1, Len(s)))
  <1>1. Len(s) \in Nat /\ \A i \in 1..Len(s) : s[i] \in Bytes
    OBVIOUS
  <1>2. SubSeq(s, 1, k) \in Seq(Bytes) /\ Len(SubSeq(s, 1, k)) = k
    BY <1>1, SubSeqProperties
  <1>3. /\ SubSeq(s, k + 1, Len(s)) \in Seq(Bytes)
        /\ Len(SubSeq(s, k + 1, Len(s))) = Len(s) - k
    BY <1>1, SubSeqProperties
  <1>4. SubSeq(s, 1, k) \o SubSeq(s, k + 1, Len(s)) = SubSeq(s, 1, Len(s))
    <2>1. PICK l \in Nat : l = Len(s)
      BY <1>1
    <2>2. 1 \in 1..(l + 1) /\ k \in (1 - 1)..l /\ l \in k..l
      BY <2>1
    <2>3. \A m \in 1..(Len(s) + 1) : \A i \in (m - 1)..Len(s) : \A n \in i..Len(s) :
            SubSeq(s, m, i) \o SubSeq(s, i + 1, n) = SubSeq(s, m, n)
      BY ConcatAdjacentSubSeq, Zenon
    <2> QED
      BY <2>1, <2>2, <2>3, Zenon
  <1>5. SubSeq(s, 1, Len(s)) = s
    BY SubSeqFull
  <1> QED
    BY <1>2, <1>3, <1>4, <1>5, Zenon DEF Cat

\* What was written stays as it is while nothing is sent.
LEMMA LayoutRests ==
  ASSUME Layout, sent' = sent
  PROVE  Layout' /\ Written(Len(sent))' = Written(Len(sent))
  BY DEF Layout, Written

\* The peer closes its end: what it does not get rid of is lost.
LEMMA HangUpStep ==
  ASSUME StreamInv, HangUp
  PROVE  StreamInv'
  <1>1. PICK k \in 0..Len(net) :
            /\ ~eof /\ eof' /\ net' = SubSeq(net, 1, k) /\ torn' = (k < Len(net))
            /\ UNCHANGED <<sent, pending, total, delivered, reader>>
    BY DEF HangUp
  <1>2. /\ sent \in Seq(Names) /\ net \in Seq(Bytes) /\ pending \in Seq(Bytes) /\ total \in Nat
        /\ delivered \in Seq(Seq(Bytes)) /\ FlattenSeq(delivered) \in Seq(Bytes)
        /\ Written(Len(sent)) \in Seq(Bytes) /\ ~torn /\ Continues /\ Layout
    BY <1>1 DEF StreamInv, StreamType
  <1>3. PICK a \in Seq(Bytes), b \in Seq(Bytes) :
            a = net' /\ net = Cat(a, b) /\ Len(b) = Len(net) - k
    BY <1>1, <1>2, Cut
  <1>4. Layout' /\ Written(Len(sent))' = Written(Len(sent))
    BY <1>1, <1>2, LayoutRests
  <1>5. StreamType'
    <2>1. FlattenSeq(delivered)' = FlattenSeq(delivered)
      BY <1>1
    <2> QED
      BY <1>1, <1>2, <1>3, <1>4, <2>1 DEF StreamType
  <1>6. DeliveredRight' /\ Decoding' /\ Verdicts'
    <2>1. /\ Len(sent) \in Nat /\ Len(sent') = Len(sent) /\ Len(sent) <= Len(sent)
          /\ \A i \in 1..Len(sent) : sent'[i] = sent[i]
      BY <1>1, <1>2
    <2> QED
      BY <1>1, <1>2, <2>1, ReaderRests
  <1>7. Continues'
    <2>1. Written(Len(sent)) = FlattenSeq(delivered) \o (pending \o (net \o <<>>))
      BY <1>2 DEF Continues
    <2>2. net \o <<>> = net
      BY <1>2, ConcatEmptySeq
    <2>3. Written(Len(sent))' = FlattenSeq(delivered') \o (pending' \o (net' \o b))
      BY <1>1, <1>3, <1>4, <2>1, <2>2, Zenon DEF Cat
    <2>4. b # <<>> => torn'
      <3>1. b # <<>> => Len(b) # 0
        BY EmptySeq
      <3>2. PICK l \in Nat : l = Len(net)
        BY <1>2
      <3>3. k \in 0..l /\ Len(b) = l - k
        BY <1>3, <3>2
      <3>4. Len(b) # 0 => k < l
        BY <3>3
      <3>5. torn' = (k < l)
        BY <1>1, <3>2
      <3> QED
        BY <3>1, <3>4, <3>5, Zenon
    <2> QED
      BY <2>3, <2>4 DEF Continues
  <1> QED
    BY <1>4, <1>5, <1>6, <1>7 DEF StreamInv

-----------------------------------------------------------------------------
(* The steps of the reader *)

\* What the reader has read, and the frame it is in.
Reads(p, b, lost, f) ==
    /\ p \in Seq(Bytes) /\ b \in Seq(Bytes) /\ lost \in Seq(Bytes) /\ f \in Names
    /\ Len(delivered) < Len(sent) /\ f = sent[Len(delivered) + 1]
    /\ Opens(pending, f) /\ Opens(p, f)
    /\ net' = b /\ Written(Len(sent)) = Cat(FlattenSeq(delivered), Cat(p, Cat(b, lost)))
    /\ lost # <<>> => torn
    /\ Len(pending) <= Len(p)
    /\ total = 0 => Len(p) = Len(pending) + 1
    /\ total # 0 => Len(p) <= total

\* A read moves the first bytes on their way to what the reader holds.
LEMMA ReadBytesMeans ==
  ASSUME StreamInv, ReadBytes
  PROVE  \E p, b, lost, f : Reads(p, b, lost, f) /\ Examine(p)
  <1>1. PICK n \in 1..Want :
            /\ n <= Len(net) /\ Examine(pending \o SubSeq(net, 1, n))
            /\ net' = SubSeq(net, n + 1, Len(net))
    BY DEF ReadBytes
  <1>2. /\ sent \in Seq(Names) /\ net \in Seq(Bytes) /\ pending \in Seq(Bytes) /\ total \in Nat
        /\ delivered \in Seq(Seq(Bytes)) /\ FlattenSeq(delivered) \in Seq(Bytes)
        /\ Len(delivered) <= Len(sent) /\ Continues
    BY DEF StreamInv, StreamType, DeliveredRight
  <1>3. PICK lost \in Seq(Bytes) :
            /\ Written(Len(sent)) = FlattenSeq(delivered) \o (pending \o (net \o lost))
            /\ lost # <<>> => torn
    BY <1>2 DEF Continues
  <1>4. Len(net) \in Nat /\ Len(pending) \in Nat /\ Want \in Int
    BY <1>2, Sizes DEF Want
  <1>5. n \in 0..Len(net) /\ n >= 1
    BY <1>1, <1>4
  <1>6. PICK a \in Seq(Bytes), b \in Seq(Bytes) :
            /\ a = SubSeq(net, 1, n) /\ Len(a) = n /\ net = Cat(a, b) /\ b = net'
    BY <1>1, <1>2, <1>5, Cut
  <1>7. PICK p \in Seq(Bytes) : p = Cat(pending, a) /\ Len(p) = Len(pending) + n
    <2>1. pending \o a \in Seq(Bytes) /\ Len(pending \o a) = Len(pending) + Len(a)
      BY <1>2, ConcatProperties, Zenon
    <2>2. Cat(pending, a) \in Seq(Bytes) /\ Len(Cat(pending, a)) = Len(pending) + n
      BY <1>6, <2>1, Zenon DEF Cat
    <2> QED
      BY <2>2, Zenon
  <1>8. Cat(pending, Cat(net, lost)) = Cat(p, Cat(b, lost)) /\ Cat(b, lost) \in Seq(Bytes)
    <2>1. Cat(Cat(a, b), lost) = Cat(a, Cat(b, lost)) /\ Cat(b, lost) \in Seq(Bytes)
      BY CatFacts
    <2>2. Cat(pending, Cat(a, Cat(b, lost))) = Cat(Cat(pending, a), Cat(b, lost))
      BY <1>2, <2>1, CatFacts
    <2> QED
      BY <1>6, <1>7, <2>1, <2>2, Zenon
  <1>9. PICK f \in Names :
            /\ Len(delivered) < Len(sent) /\ f = sent[Len(delivered) + 1]
            /\ Opens(pending, f) /\ Opens(p, f)
    <2>1. net # <<>>
      BY <1>1, <1>4, <1>5
    <2>2. Len(delivered) < Len(sent)
      <3>1. Len(delivered) = Len(sent) => net = <<>>
        BY <1>3, Position
      <3>2. Len(delivered) \in Nat /\ Len(sent) \in Nat
        BY <1>2
      <3> QED
        BY <1>2, <2>1, <3>1, <3>2
    <2>3. PICK f \in Names :
            /\ f = sent[Len(delivered) + 1]
            /\ \A q, r \in Seq(Bytes) : q \o r = pending \o (net \o lost) => Opens(q, f)
      BY <1>3, <2>2, Position
    <2>4. Cat(net, lost) \in Seq(Bytes)
      BY <1>2, CatFacts
    <2>5. Opens(pending, f)
      BY <1>2, <2>3, <2>4, Zenon DEF Cat
    <2>6. Opens(p, f)
      BY <1>8, <2>3, Zenon DEF Cat
    <2> QED
      BY <2>2, <2>3, <2>5, <2>6
  <1>10. /\ total = 0 => n = 1
         /\ total # 0 => n <= total - Len(pending)
    BY <1>1, <1>2, <1>4, Sizes DEF Want
  <1>11. Written(Len(sent)) = Cat(FlattenSeq(delivered), Cat(p, Cat(b, lost)))
    BY <1>3, <1>8, Zenon DEF Cat
  <1>12. /\ Len(pending) <= Len(p) /\ (total = 0 => Len(p) = Len(pending) + 1)
         /\ (total # 0 => Len(p) <= total)
    BY <1>2, <1>4, <1>5, <1>7, <1>10
  <1>13. Reads(p, b, lost, f)
    BY <1>3, <1>6, <1>9, <1>11, <1>12 DEF Reads
  <1>14. Examine(p)
    BY <1>1, <1>6, <1>7, Zenon DEF Cat
  <1> QED
    BY <1>13, <1>14

\* What becomes of the bytes read, without the reader's memory: the frame is
\* refused, returned, refused at its end, or not over.
Refuses(p) ==
    /\ HeadRefused(p)
    /\ pending' = p /\ reader' = "invalid" /\ total' = total /\ delivered' = delivered

\* The frame is complete and right.
Returns(p) ==
    /\ HeadDone(p) /\ ~HeadRefused(p) /\ Len(p) = TotalOf(p) /\ Parses(p)
    /\ delivered' = Append(delivered, p) /\ pending' = <<>> /\ total' = 0
    /\ reader' = "message"

\* The frame is complete, and its trailer or its text is wrong.
RefusesAtEnd(p) ==
    /\ HeadDone(p) /\ ~HeadRefused(p) /\ Len(p) = TotalOf(p) /\ ~Parses(p)
    /\ pending' = p /\ reader' = "invalid" /\ total' \in Nat /\ delivered' = delivered

\* The frame is not over.
GoesOn(p) ==
    /\ HeadDone(p) => ~HeadRefused(p) /\ Len(p) < TotalOf(p)
    /\ pending' = p /\ total' = (IF HeadDone(p) THEN TotalOf(p) ELSE 0) /\ total' \in Nat
    /\ delivered' = delivered /\ reader' = reader

\* The total it remembers is the one the head tells.
LEMMA ReaderKnows ==
  ASSUME StreamInv, reader # "invalid",
         NEW p, NEW b, NEW lost, NEW f, Reads(p, b, lost, f)
  PROVE  /\ total # 0 => HeadDone(p) /\ ~HeadRefused(p) /\ total = TotalOf(p)
         /\ HeadDone(p) /\ ~HeadRefused(p) =>
                TotalOf(p) \in Nat \ {0} /\ Len(p) <= TotalOf(p)
  <1>1. /\ pending \in Seq(Bytes) /\ total \in Nat
        /\ total = IF HeadDone(pending) THEN TotalOf(pending) ELSE 0
        /\ HeadDone(pending) => ~HeadRefused(pending) /\ Len(pending) < total
    BY DEF StreamInv, StreamType, Decoding
  <1>2. /\ p \in Seq(Bytes) /\ f \in Names /\ Opens(pending, f) /\ Opens(p, f)
        /\ Len(pending) <= Len(p)
        /\ total = 0 => Len(p) = Len(pending) + 1
        /\ total # 0 => Len(p) <= total
    BY DEF Reads
  <1>3. /\ HeadDone(pending) => /\ HeadDone(p) /\ TotalOf(p) = TotalOf(pending)
                                /\ HeadRefused(p) <=> HeadRefused(pending)
        /\ HeadDone(p) /\ ~HeadDone(pending) => Len(pending) < 4
        /\ HeadDone(p) /\ ~HeadRefused(p) => TotalOf(p) \in Nat /\ TotalOf(p) > 4
    BY <1>2, Growth
  <1>4. Len(pending) \in Nat /\ Len(p) \in Nat
    BY <1>1, <1>2
  <1>5. total # 0 => HeadDone(p) /\ ~HeadRefused(p) /\ total = TotalOf(p)
    BY <1>1, <1>3
  <1>6. ASSUME HeadDone(p), ~HeadRefused(p)
        PROVE  TotalOf(p) \in Nat \ {0} /\ Len(p) <= TotalOf(p)
    <2>1. CASE HeadDone(pending)
      BY <1>1, <1>2, <1>3, <1>4, <1>6, <2>1
    <2>2. CASE ~HeadDone(pending)
      BY <1>1, <1>2, <1>3, <1>4, <1>6, <2>2
    <2> QED
      BY <2>1, <2>2
  <1> QED
    BY <1>5, <1>6

\* The four outcomes of a read are those of Examine.
LEMMA ExamineMeans ==
  ASSUME StreamInv, reader # "invalid",
         NEW p, NEW b, NEW lost, NEW f, Reads(p, b, lost, f), Examine(p)
  PROVE  Refuses(p) \/ Returns(p) \/ RefusesAtEnd(p) \/ GoesOn(p)
  <1> DEFINE t == IF total # 0 THEN total ELSE IF HeadDone(p) THEN TotalOf(p) ELSE 0
             done == t # 0 /\ Len(p) = t
  <1>1. /\ total # 0 => HeadDone(p) /\ ~HeadRefused(p) /\ total = TotalOf(p)
        /\ HeadDone(p) /\ ~HeadRefused(p) =>
                TotalOf(p) \in Nat \ {0} /\ Len(p) <= TotalOf(p)
    BY ReaderKnows
  <1>2. Len(p) \in Nat
    BY DEF Reads
  <1>3. \/ /\ total = 0 /\ HeadRefused(p)
           /\ pending' = p /\ reader' = "invalid"
           /\ UNCHANGED <<total, delivered>>
        \/ /\ ~(total = 0 /\ HeadRefused(p)) /\ done /\ Parses(p)
           /\ delivered' = Append(delivered, p)
           /\ pending' = <<>> /\ total' = 0 /\ reader' = "message"
        \/ /\ ~(total = 0 /\ HeadRefused(p)) /\ done /\ ~Parses(p)
           /\ pending' = p /\ total' = t /\ reader' = "invalid"
           /\ UNCHANGED delivered
        \/ /\ ~(total = 0 /\ HeadRefused(p)) /\ ~done
           /\ pending' = p /\ total' = t
           /\ UNCHANGED <<delivered, reader>>
    BY Zenon DEF Examine
  <1>4. ASSUME ~(total = 0 /\ HeadRefused(p))
        PROVE  /\ ~HeadRefused(p) /\ t = (IF HeadDone(p) THEN TotalOf(p) ELSE 0) /\ t \in Nat
               /\ HeadDone(p) => t # 0 /\ Len(p) <= t
    BY <1>1, <1>4
  <1> HIDE DEF t
  <1>5. CASE total = 0 /\ HeadRefused(p)
    BY <1>3, <1>5 DEF Refuses
  <1>6. CASE ~(total = 0 /\ HeadRefused(p)) /\ done /\ Parses(p)
    BY <1>3, <1>4, <1>6 DEF Returns
  <1>7. CASE ~(total = 0 /\ HeadRefused(p)) /\ done /\ ~Parses(p)
    BY <1>3, <1>4, <1>7 DEF RefusesAtEnd
  <1>8. CASE ~(total = 0 /\ HeadRefused(p)) /\ ~done
    BY <1>2, <1>3, <1>4, <1>8 DEF GoesOn
  <1> QED
    BY <1>5, <1>6, <1>7, <1>8

\* The reader takes bytes off the stream: what it holds grows, or becomes a
\* message.
LEMMA ReadStep ==
  ASSUME StreamInv, reader = "reading", NEW p, NEW b, NEW lost, NEW f, Reads(p, b, lost, f),
         Examine(p), UNCHANGED <<sent, eof, torn>>
  PROVE  StreamInv'
  <1>1. /\ sent \in Seq(Names) /\ Len(sent) \in Nat
        /\ delivered \in Seq(Seq(Bytes)) /\ FlattenSeq(delivered) \in Seq(Bytes)
        /\ Written(Len(sent)) \in Seq(Bytes) /\ Layout /\ DeliveredRight
        /\ (torn => eof)
    BY DEF StreamInv, StreamType
  <1>2. /\ p \in Seq(Bytes) /\ b \in Seq(Bytes) /\ lost \in Seq(Bytes) /\ f \in Names
        /\ Len(delivered) < Len(sent) /\ f = sent[Len(delivered) + 1]
        /\ Opens(p, f) /\ net' = b
        /\ Written(Len(sent)) = Cat(FlattenSeq(delivered), Cat(p, Cat(b, lost)))
        /\ lost # <<>> => torn
    BY DEF Reads
  <1>3. Refuses(p) \/ Returns(p) \/ RefusesAtEnd(p) \/ GoesOn(p)
    BY ExamineMeans
  <1>4. Layout' /\ Written(Len(sent))' = Written(Len(sent))
    BY <1>1, LayoutRests
  <1>5. ASSUME delivered' = delivered, pending' = p, total' \in Nat
        PROVE  StreamType' /\ DeliveredRight' /\ Continues'
    <2>1. FlattenSeq(delivered)' = FlattenSeq(delivered)
      BY <1>5
    <2>2. StreamType'
      BY <1>1, <1>2, <1>4, <1>5, <2>1 DEF StreamType
    <2>3. DeliveredRight'
      BY <1>1, <1>5 DEF DeliveredRight, AllGood
    <2>4. Written(Len(sent))' = FlattenSeq(delivered') \o (pending' \o (net' \o lost))
      BY <1>2, <1>4, <1>5, Zenon DEF Cat
    <2>5. Continues'
      BY <1>2, <2>4 DEF Continues
    <2> QED
      BY <2>2, <2>3, <2>5
  <1>6. ASSUME delivered' = delivered, pending' = p, total' \in Nat, reader' = "invalid",
               f \notin GoodFrame
        PROVE  StreamInv'
    <2>1. Decoding'
      BY <1>6 DEF Decoding
    <2>2. Verdicts'
      BY <1>1, <1>2, <1>6 DEF Verdicts
    <2> QED
      BY <1>4, <1>5, <1>6, <2>1, <2>2 DEF StreamInv
  <1>7. /\ HeadRefused(p) => f \notin GoodFrame
        /\ HeadDone(p) /\ ~HeadRefused(p) /\ Len(p) = TotalOf(p) =>
                IF Parses(p) THEN f \in GoodFrame /\ p = Frames[f] ELSE f \notin GoodFrame
    BY <1>2, Verdict
  <1>8. CASE Refuses(p)
    <2>1. total' \in Nat
      BY <1>8 DEF Refuses, StreamInv, StreamType
    <2> QED
      BY <1>6, <1>7, <1>8, <2>1 DEF Refuses
  <1>9. CASE RefusesAtEnd(p)
    BY <1>6, <1>7, <1>9 DEF RefusesAtEnd
  <1>10. CASE GoesOn(p)
    <2>1. Decoding'
      BY <1>10 DEF GoesOn, Decoding
    <2>2. Verdicts'
      BY <1>10 DEF GoesOn, Verdicts
    <2> QED
      BY <1>4, <1>5, <1>10, <2>1, <2>2 DEF StreamInv, GoesOn
  <1>11. CASE Returns(p)
    <2>1. /\ f \in GoodFrame /\ p = Frames[f]
          /\ delivered' = Append(delivered, p) /\ pending' = <<>> /\ total' = 0
          /\ reader' = "message"
      BY <1>7, <1>11 DEF Returns
    <2>2. PICK k \in Nat : k = Len(delivered)
      BY <1>1
    <2>3. /\ delivered' \in Seq(Seq(Bytes)) /\ Len(delivered') = k + 1
          /\ DOMAIN delivered' = 1..(k + 1) /\ delivered'[k + 1] = p
          /\ \A i \in 1..k : delivered'[i] = delivered[i]
      BY <1>1, <1>2, <2>1, <2>2
    <2>4. FlattenSeq(delivered') = Cat(FlattenSeq(delivered), p)
      BY <1>1, <1>2, <2>1, FlattenAppend DEF Cat
    <2>5. FlattenSeq(delivered') \in Seq(Bytes)
      BY <1>1, <1>2, <2>4, CatFacts
    <2>6. StreamType'
      <3>1. <<>> \in Seq(Bytes) /\ 0 \in Nat
        OBVIOUS
      <3> QED
        BY <1>1, <1>2, <1>4, <2>1, <2>3, <2>5, <3>1 DEF StreamType
    <2>7. DeliveredRight'
      <3>1. /\ \A i \in 1..k : sent[i] \in GoodFrame /\ delivered[i] = Frames[sent[i]]
            /\ k < Len(sent) /\ f = sent[k + 1]
        <4>1. DOMAIN delivered = 1..k
          BY <1>1, <2>2
        <4> QED
          BY <1>1, <1>2, <2>2, <4>1 DEF DeliveredRight, AllGood
      <3>2. \A i \in 1..(k + 1) : sent[i] \in GoodFrame /\ delivered'[i] = Frames[sent[i]]
        <4> TAKE i \in 1..(k + 1)
        <4>1. CASE i = k + 1
          BY <2>1, <2>3, <3>1, <4>1
        <4>2. CASE i \in 1..k
          BY <2>3, <3>1, <4>2
        <4>3. i = k + 1 \/ i \in 1..k
          BY <2>2
        <4> QED
          BY <4>1, <4>2, <4>3
      <3>3. k + 1 <= Len(sent)
        BY <1>1, <2>2, <3>1
      <3> QED
        BY <1>1, <2>3, <3>2, <3>3 DEF DeliveredRight, AllGood
    <2>8. Continues'
      <3>1. Cat(b, lost) \in Seq(Bytes)
        BY <1>2, CatFacts
      <3>2. Cat(Cat(FlattenSeq(delivered), p), Cat(b, lost))
                = Cat(FlattenSeq(delivered), Cat(p, Cat(b, lost)))
        BY <1>1, <1>2, <3>1, CatFacts
      <3>3. Cat(<<>>, Cat(b, lost)) = Cat(b, lost)
        BY <3>1, ConcatEmptySeq DEF Cat
      <3>4. Written(Len(sent))' = Cat(FlattenSeq(delivered'), Cat(<<>>, Cat(b, lost)))
        BY <1>2, <1>4, <2>4, <3>2, <3>3, Zenon
      <3>5. Written(Len(sent))' = FlattenSeq(delivered') \o (pending' \o (net' \o lost))
        BY <1>2, <2>1, <3>4, Zenon DEF Cat
      <3> QED
        BY <1>2, <3>5 DEF Continues
    <2>9. Decoding'
      <3>1. <<>> \in Seq(Bytes) /\ DOMAIN <<>> = {}
        OBVIOUS
      <3>2. ~HeadDone(<<>>)
        BY <3>1, HeadBefore
      <3> QED
        BY <2>1, <3>2 DEF Decoding
    <2>10. Verdicts'
      BY <2>1 DEF Verdicts
    <2> QED
      BY <1>4, <2>6, <2>7, <2>8, <2>9, <2>10 DEF StreamInv
  <1> QED
    BY <1>3, <1>8, <1>9, <1>10, <1>11

\* The stream ends: inside a frame only if the peer broke off, or wrote a frame
\* that is wrong.
LEMMA EndStep ==
  ASSUME StreamInv, ReadEnd
  PROVE  StreamInv'
  <1>1. /\ reader = "reading" /\ net = <<>>
        /\ reader' = (IF pending = <<>> THEN "end" ELSE "broken")
        /\ UNCHANGED <<sent, net, eof, torn, pending, total, delivered>>
    BY DEF ReadEnd
  <1>2. /\ pending \in Seq(Bytes) /\ net \in Seq(Bytes) /\ Len(delivered) <= Len(sent)
        /\ Continues
    BY DEF StreamInv, StreamType, DeliveredRight
  <1>3. StreamType' /\ DeliveredRight' /\ Continues' /\ Layout' /\ Written(Len(sent))' \in Seq(Bytes)
    <2>1. FlattenSeq(delivered)' = FlattenSeq(delivered)
      BY <1>1
    <2>2. Layout' /\ Written(Len(sent))' = Written(Len(sent))
      BY <1>1, LayoutRests DEF StreamInv
    <2>3. StreamType'
      BY <1>1, <2>1, <2>2 DEF StreamInv, StreamType
    <2>4. DeliveredRight'
      BY <1>1 DEF StreamInv, DeliveredRight, AllGood
    <2>5. Continues'
      BY <1>1, <2>1, <2>2 DEF StreamInv, Continues
    <2> QED
      BY <2>2, <2>3, <2>4, <2>5 DEF StreamType
  <1>4. Decoding'
    BY <1>1 DEF StreamInv, Decoding
  <1>5. ASSUME pending # <<>>, ~torn PROVE ~AllGood(Len(sent))
    <2>1. PICK lost \in Seq(Bytes) :
            /\ Written(Len(sent)) = FlattenSeq(delivered) \o (pending \o (net \o lost))
            /\ lost # <<>> => torn
      BY <1>2 DEF Continues
    <2>2. lost = <<>> /\ net \o lost = <<>>
      BY <1>1, <1>2, <1>5, <2>1, ConcatEmptySeq
    <2>3. /\ Len(delivered) \in Nat /\ Len(sent) \in Nat /\ Len(delivered) < Len(sent)
      <3>1. /\ Len(delivered) \in Nat /\ Len(sent) \in Nat
            /\ Len(delivered) = Len(sent) => pending = <<>>
        BY <2>1, Position
      <3> QED
        BY <1>2, <1>5, <3>1
    <2>4. PICK f \in Names :
            /\ f = sent[Len(delivered) + 1]
            /\ \A q, r \in Seq(Bytes) : q \o r = pending \o (net \o lost) =>
                    Opens(q, f) /\ Len(q) + Len(r) >= Len(Frames[f])
      BY <2>1, <2>3, Position
    <2>5. Opens(pending, f) /\ Len(pending) >= Len(Frames[f])
      <3>1. <<>> \in Seq(Bytes) /\ Len(<<>>) = 0 /\ Len(pending) \in Nat
        BY <1>2
      <3>2. pending \o <<>> = pending \o (net \o lost)
        BY <2>2
      <3>3. Opens(pending, f) /\ Len(pending) + Len(<<>>) >= Len(Frames[f])
        BY <1>2, <2>4, <3>1, <3>2, Zenon
      <3>4. Len(pending) + Len(<<>>) = Len(pending)
        BY <3>1
      <3> QED
        BY <3>3, <3>4, Zenon
    <2>6. f \notin GoodFrame
      <3>1. f \in GoodFrame => HeadDone(pending) /\ TotalOf(pending) <= Len(pending)
        BY <2>5, Verdict
      <3>2. HeadDone(pending) => Len(pending) < TotalOf(pending)
        BY <1>1 DEF StreamInv, Decoding
      <3>3. total \in Nat /\ (HeadDone(pending) => TotalOf(pending) = total)
        BY <1>1 DEF StreamInv, StreamType, Decoding
      <3> QED
        BY <1>2, <3>1, <3>2, <3>3
    <2> QED
      BY <2>3, <2>4, <2>6 DEF AllGood
  <1>6. Verdicts'
    <2>1. AllGood(Len(sent))' = AllGood(Len(sent))
      BY <1>1 DEF AllGood
    <2> QED
      BY <1>1, <1>5, <2>1 DEF Verdicts
  <1> QED
    BY <1>3, <1>4, <1>6 DEF StreamInv

\* The stream does not care where the loop is between two reads.
LEMMA RestStep ==
  ASSUME StreamInv, UNCHANGED <<sent, net, eof, torn, pending, total, delivered>>,
         reader' \in {"loop", "reading"} \/ reader' = reader,
         reader = "invalid" => reader' = reader
  PROVE  StreamInv'
  <1>1. FlattenSeq(delivered)' = FlattenSeq(delivered)
    OBVIOUS
  <1>2. Layout' /\ Written(Len(sent))' = Written(Len(sent))
    BY LayoutRests DEF StreamInv
  <1>3. StreamType'
    BY <1>1, <1>2 DEF StreamInv, StreamType
  <1>4. DeliveredRight'
    BY DEF StreamInv, DeliveredRight, AllGood
  <1>5. Continues'
    BY <1>1, <1>2 DEF StreamInv, Continues
  <1>6. Decoding'
    BY DEF StreamInv, Decoding
  <1>7. Verdicts'
    <2>1. AllGood(Len(sent))' = AllGood(Len(sent))
      BY DEF AllGood
    <2>2. Verdicts
      BY DEF StreamInv
    <2> QED
      BY <2>1, <2>2 DEF Verdicts
  <1> QED
    BY <1>2, <1>3, <1>4, <1>5, <1>6, <1>7 DEF StreamInv

\* Every step of the session keeps the invariant.
LEMMA StreamStep == StreamInv /\ [Next]_vars => StreamInv'
  <1> SUFFICES ASSUME StreamInv, [Next]_vars PROVE StreamInv'
    OBVIOUS
  <1>1. CASE Peer
    <2>1. ASSUME NEW f \in DOMAIN Frames, Send(f) PROVE StreamInv'
      <3>1. f \in Names
        BY FrameKinds
      <3> QED
        BY <2>1, <3>1, SendStep
    <2> QED
      BY <1>1, <2>1, HangUpStep DEF Peer
  <1>2. CASE Reading
    <2>1. CASE ReadBytes
      <3>1. PICK p, b, lost, f : Reads(p, b, lost, f) /\ Examine(p)
        BY <2>1, ReadBytesMeans
      <3>2. reader = "reading" /\ UNCHANGED <<sent, eof, torn>>
        BY <2>1 DEF ReadBytes
      <3> QED
        BY <3>1, <3>2, ReadStep
    <2> QED
      BY <1>2, <2>1, EndStep DEF Reading
  <1>3. CASE Polling
    <2>1. CASE Call
      BY <2>1, RestStep DEF Call, Kept
    <2>2. CASE TimeOut
      BY <2>2, RestStep DEF TimeOut
    <2> QED
      BY <1>3, <2>1, <2>2 DEF Polling
  <1>4. CASE ReaderLogs
    BY <1>4, RestStep DEF ReaderLogs
  <1>5. CASE WriterStamps \/ WriterLogs \/ Night \/ UNCHANGED vars
    <2>1. UNCHANGED framing
      BY <1>5 DEF WriterStamps, WriterLogs, Night, vars
    <2> QED
      BY <2>1, RestStep DEF framing
  <1> QED
    BY <1>1, <1>2, <1>3, <1>4, <1>5 DEF Next

\* The invariant says what the frames in order mean.
LEMMA StreamMeans == StreamInv => FramesInOrder
  <1> SUFFICES ASSUME StreamInv PROVE FramesInOrder
    OBVIOUS
  <1>1. /\ pending \in Seq(Bytes) /\ net \in Seq(Bytes) /\ FlattenSeq(delivered) \in Seq(Bytes)
        /\ DeliveredRight /\ Verdicts /\ Continues
    BY DEF StreamInv, StreamType
  <1>2. PICK lost \in Seq(Bytes) :
            Written(Len(sent)) = FlattenSeq(delivered) \o (pending \o (net \o lost))
    BY <1>1 DEF Continues
  <1>3. PICK r \in Seq(Bytes) : r = net \o lost
    BY <1>1, ConcatProperties
  <1>4. PICK g \in Seq(Bytes) : g = FlattenSeq(delivered) \o pending
    BY <1>1, ConcatProperties
  <1>5. Written(Len(sent)) = g \o r
    <2>1. (FlattenSeq(delivered) \o pending) \o r = FlattenSeq(delivered) \o (pending \o r)
      <3>1. Cat(Cat(FlattenSeq(delivered), pending), r) = Cat(FlattenSeq(delivered), Cat(pending, r))
        BY <1>1, CatFacts
      <3> QED
        BY <3>1, Zenon DEF Cat
    <2> QED
      BY <1>2, <1>3, <1>4, <2>1, Zenon
  <1>6. IsPrefix(g, g \o r)
    <2>1. PICK u : u = g \o r /\ Joined(u, g, r)
      BY Joins
    <2>2. Len(g) \in Nat /\ Len(r) \in Nat /\ Len(u) \in Nat /\ Len(u) = Len(g) + Len(r)
      BY <2>1 DEF Joined
    <2>3. SubSeq(g, 1, Len(g)) = SubSeq(u, 1, Len(g))
      <3>1. CASE Len(g) = 0
        <4>1. SubSeq(g, 1, 0) = <<>> /\ SubSeq(u, 1, 0) = <<>>
          BY SubSeqEmpty
        <4> QED
          BY <3>1, <4>1, Zenon
      <3>2. CASE Len(g) # 0
        <4>1. 1 \in 1..Len(g) /\ Len(g) \in 1..Len(g)
          BY <2>2, <3>2
        <4>2. SubSeq(g \o r, 1, Len(g)) = SubSeq(g, 1, Len(g))
          BY <4>1, SubSeqOfConcat1, Zenon
        <4> QED
          BY <2>1, <4>2, Zenon
      <3> QED
        BY <3>1, <3>2
    <2> QED
      BY <2>1, <2>2, <2>3 DEF IsPrefix
  <1>7. IsPrefix(FlattenSeq(delivered) \o pending, Written(Len(sent)))
    BY <1>4, <1>5, <1>6, Zenon
  <1> QED
    BY <1>1, <1>7 DEF FramesInOrder, DeliveredRight, Verdicts

\* However the bytes are split and whenever a read times out, the connection
\* loop gets the frames the peer wrote, each once, whole and in order, and
\* refuses none but a wrong one (FrameReader::read_message).
THEOREM FramesComeInOrder == Spec => []FramesInOrder
  <1>1. Init => StreamInv
    BY StreamStart
  <1>2. StreamInv /\ [Next]_vars => StreamInv'
    BY StreamStep
  <1>3. StreamInv => FramesInOrder
    BY StreamMeans
  <1> QED
    BY <1>1, <1>2, <1>3, PTL DEF Spec

=============================================================================
