--------------------------- MODULE AcceptorProofs ---------------------------
(***************************************************************************)
(* The connections of the exchange, for any number of them, any names,     *)
(* any queue capacity and any number of instruments: reports go to live    *)
(* sessions, what a peer reads has the shape of a session, and a session   *)
(* that ends in order is complete.                                         *)
(***************************************************************************)
EXTENDS Acceptor, FiniteSetTheorems, SequenceTheorems, TLAPS

-----------------------------------------------------------------------------
(* Types *)

Letter == [to : Conn, msg : Frame]

AcceptorType ==
    /\ pc \in [Conn -> Pc] /\ logout \in [Conn -> BOOLEAN]
    /\ todo \in [Conn -> Seq(Letter)] /\ step \in [Conn -> {"load", "try", "store"}]
    /\ active \subseteq Name /\ lock \in Conn \cup {NoConn}
    /\ sinks \in [Name -> Conn \cup {NoConn}]
    /\ queue \in [Conn -> Seq(Frame)] /\ failed \in [Conn -> BOOLEAN]
    /\ writer \in [Conn -> {"none", "check", "recv", "write", "done"}]
    /\ writing \in [Conn -> Frame \cup {"none"}]
    /\ out \in [Conn -> Seq(Frame)] /\ due \in [Conn -> Nat]
    /\ \A c \in Conn : writer[c] = "write" <=> writing[c] # "none"
    /\ \A c \in Conn : pc[c] \in {"connect", "setup"} => writer[c] = "none"

LEMMA ExceptType ==
  ASSUME NEW D, NEW S, NEW f \in [D -> S], NEW c \in D, NEW v \in S
  PROVE  [f EXCEPT ![c] = v] \in [D -> S]
  OBVIOUS

LEMMA MailType ==
  ASSUME NEW c \in Conn, NEW f \in Frame
  PROVE  Mail(c, f) \in Letter /\ Mail(c, f).to = c /\ Mail(c, f).msg = f
  BY DEF Mail, Letter

LEMMA MailsDiffer ==
  ASSUME NEW m \in Letter, NEW c, NEW f
  PROVE  m = Mail(c, f) <=> m.to = c /\ m.msg = f
  BY DEF Mail, Letter

\* Whom the engine reports to, and what a request is answered.
LEMMA MailsType ==
  ASSUME AcceptorType, NEW c \in Conn, NEW mails \in Addressed \cup Answers(c)
  PROVE  /\ mails \in Seq(Letter) /\ mails # <<>>
         /\ \A i \in DOMAIN mails :
              \/ mails[i].msg = "report" /\ \E n \in Parties : mails[i].to = sinks[n]
              \/ mails[i].msg = "own" /\ mails[i].to = c
         /\ mails \in Addressed =>
              \A i \in DOMAIN mails :
                 mails[i].msg = "report" /\ \E n \in Parties : mails[i].to = sinks[n]
  <1>1. \A n \in Parties :
          /\ Mail(sinks[n], "report") \in Letter
          /\ Mail(sinks[n], "report").to = sinks[n] /\ Mail(sinks[n], "report").msg = "report"
    BY MailType DEF AcceptorType, Parties, Frame
  <1>2. Mail(c, "own") \in Letter /\ Mail(c, "own").to = c /\ Mail(c, "own").msg = "own"
    BY MailType DEF Frame
  <1>3. ASSUME NEW a \in Letter
        PROVE  /\ <<a>> \in Seq(Letter) /\ <<a>> # <<>> /\ DOMAIN <<a>> = {1} /\ <<a>>[1] = a
               /\ \A b \in Letter :
                    /\ <<a, b>> \in Seq(Letter) /\ <<a, b>> # <<>> /\ DOMAIN <<a, b>> = {1, 2}
                    /\ <<a, b>>[1] = a /\ <<a, b>>[2] = b
    OBVIOUS
  <1>4. CASE \E n \in Parties : mails = <<Mail(sinks[n], "report")>>
    BY <1>1, <1>3, <1>4
  <1>5. CASE \E n, m \in Parties : mails = <<Mail(sinks[n], "report"), Mail(sinks[m], "report")>>
    BY <1>1, <1>3, <1>5
  <1>6. CASE mails \notin Addressed /\ mails = <<Mail(c, "own")>>
    BY <1>2, <1>3, <1>6
  <1>7. CASE /\ mails \notin Addressed
             /\ \E n \in Parties : mails = <<Mail(sinks[n], "report"), Mail(c, "own")>>
    BY <1>1, <1>2, <1>3, <1>7
  <1> QED
    BY <1>4, <1>5, <1>6, <1>7 DEF Addressed, Answers

\* Sets of places in a sequence are finite.
LEMMA PlacesFinite ==
  ASSUME NEW S, NEW s \in Seq(S), NEW T \in SUBSET DOMAIN s
  PROVE  IsFiniteSet(T) /\ Cardinality(T) \in Nat
  <1>1. DOMAIN s = 1..Len(s) /\ Len(s) \in Nat
    OBVIOUS
  <1>2. IsFiniteSet(1..Len(s))
    BY <1>1, FS_Interval
  <1> QED
    BY <1>1, <1>2, FS_Subset, FS_CardinalityType

\* Sender::send.
Sends(c) == SendLoad(c) \/ SendTry(c) \/ SendStore(c)

\* Steps of a connection thread between its sends that change neither a queue
\* nor what is to be sent.
Moves(c) ==
    \/ Reserve(c) \/ Refuse(c) \/ SetupFails(c) \/ Register(c) \/ Check(c)
    \/ NothingExpires(c) \/ ExpireDone(c) \/ Poll(c) \/ BusinessDone(c) \/ Eof(c)
    \/ Ends(c) \/ Closed(c) \/ Join(c)

\* Steps after which it has something to send.
Posts(c) == Bootstrap(c) \/ Expire(c) \/ Own(c) \/ Business(c) \/ Disconnect(c)

LEMMA NextCases ==
  ASSUME [Next]_vars
  PROVE  \/ UNCHANGED vars
         \/ \E c \in Conn : Sends(c) \/ Moves(c) \/ Posts(c) \/ Writer(c) \/ PeerCloses(c)
  BY DEF Next, Thread, Sends, Moves, Posts

\* What Moves leaves alone.
LEMMA MovesFrame ==
  ASSUME NEW c \in Conn, Moves(c)
  PROVE  UNCHANGED <<todo, step, queue, failed, writer, writing, out, due, work>>
  BY DEF Moves, Reserve, Refuse, SetupFails, Register, Check, NothingExpires, ExpireDone,
         Poll, BusinessDone, Eof, Ends, Closed, Join, sending, output, engine

LEMMA SendsType ==
  ASSUME AcceptorType, NEW c \in Conn, Sends(c)
  PROVE  AcceptorType'
  <1>1. /\ todo[c] # <<>> /\ todo[c] \in Seq(Letter) /\ Head(todo[c]) \in Letter
        /\ Tail(todo[c]) \in Seq(Letter)
        /\ UNCHANGED <<thread, active, engine, writer, writing, up, out, due, work>>
    BY DEF Sends, SendLoad, SendTry, SendStore, AcceptorType, output
  <1>2. Head(todo[c]).to \in Conn /\ Head(todo[c]).msg \in Frame
    BY <1>1 DEF Letter
  <1>3. /\ todo' \in [Conn -> Seq(Letter)] /\ step' \in [Conn -> {"load", "try", "store"}]
    <2>1. todo' = [todo EXCEPT ![c] = Tail(@)] \/ todo' = todo
      BY DEF Sends, SendLoad, SendTry, SendStore, SendDone
    <2>2. \E p \in {"load", "try", "store"} : step' = [step EXCEPT ![c] = p]
      BY DEF Sends, SendLoad, SendTry, SendStore, SendDone
    <2> QED
      BY <1>1, <2>1, <2>2 DEF AcceptorType
  <1>4. queue' \in [Conn -> Seq(Frame)] /\ failed' \in [Conn -> BOOLEAN]
    <2>1. CASE SendLoad(c)
      BY <2>1 DEF SendLoad, AcceptorType, output
    <2>2. CASE SendTry(c)
      <3> DEFINE to == Head(todo[c]).to
                 s == Append(queue[to], Head(todo[c]).msg)
      <3>1. queue' = queue \/ queue' = [queue EXCEPT ![to] = s]
        BY <2>2 DEF SendTry
      <3>2. failed' = failed
        BY <2>2 DEF SendTry
      <3>3. s \in Seq(Frame)
        BY <1>2 DEF AcceptorType
      <3>4. queue \in [Conn -> Seq(Frame)] /\ failed \in [Conn -> BOOLEAN] /\ to \in Conn
        BY <1>2 DEF AcceptorType
      <3> HIDE DEF s, to
      <3>5. [queue EXCEPT ![to] = s] \in [Conn -> Seq(Frame)]
        BY <3>3, <3>4, ExceptType
      <3> QED
        BY <3>1, <3>2, <3>4, <3>5
    <2>3. CASE SendStore(c)
      BY <1>2, <2>3 DEF SendStore, AcceptorType
    <2> QED
      BY <2>1, <2>2, <2>3 DEF Sends
  <1> QED
    BY <1>1, <1>3, <1>4 DEF AcceptorType, thread, engine

LEMMA MovesType ==
  ASSUME AcceptorType, NEW c \in Conn, Moves(c)
  PROVE  AcceptorType'
  <1>1. UNCHANGED <<todo, step, queue, failed, writer, writing, out, due, work>>
    BY MovesFrame
  <1>2. \E p \in Pc : /\ pc' = [pc EXCEPT ![c] = p]
                      /\ p \in {"connect", "setup"} => pc[c] = "connect"
    BY DEF Moves, Reserve, Refuse, SetupFails, Register, Check, NothingExpires, ExpireDone,
           Poll, BusinessDone, Eof, Ends, Closed, Join, Goto, At, Pc
  <1>3. logout' \in [Conn -> BOOLEAN]
    <2>1. logout' = logout \/ logout' = [logout EXCEPT ![c] = TRUE]
      BY DEF Moves, Reserve, Refuse, SetupFails, Register, Check, NothingExpires,
             ExpireDone, Poll, BusinessDone, Eof, Ends, Closed, Join
    <2> QED
      BY <2>1 DEF AcceptorType
  <1>4. active' \subseteq Name
    BY AcceptorAssumption
       DEF Moves, Reserve, Refuse, SetupFails, Register, Check, NothingExpires, ExpireDone,
           Poll, BusinessDone, Eof, Ends, Closed, Join, AcceptorType
  <1>5. lock' \in Conn \cup {NoConn} /\ sinks' \in [Name -> Conn \cup {NoConn}]
    <2>1. /\ lock' = lock \/ lock' = NoConn
          /\ sinks' = sinks \/ sinks' = [sinks EXCEPT ![NameOf[c]] = c]
      BY DEF Moves, Reserve, Refuse, SetupFails, Register, Check, NothingExpires,
             ExpireDone, Poll, BusinessDone, Eof, Ends, Closed, Join, engine
    <2>2. NameOf[c] \in Name /\ c \in Conn \cup {NoConn}
      BY AcceptorAssumption
    <2>3. sinks \in [Name -> Conn \cup {NoConn}] /\ lock \in Conn \cup {NoConn}
      BY DEF AcceptorType
    <2>4. [sinks EXCEPT ![NameOf[c]] = c] \in [Name -> Conn \cup {NoConn}]
      BY <2>2, <2>3, ExceptType
    <2> QED
      BY <2>1, <2>3, <2>4
  <1>6. /\ pc' \in [Conn -> Pc]
        /\ \A d \in Conn : pc'[d] \in {"connect", "setup"} => writer[d] = "none"
    BY <1>2 DEF AcceptorType
  <1> QED
    BY <1>1, <1>3, <1>4, <1>5, <1>6 DEF AcceptorType

\* Locked takes the mutex and addresses the reports.
LEMMA LockedType ==
  ASSUME AcceptorType, NEW c \in Conn, NEW mails \in Seq(Letter), Locked(c, mails)
  PROVE  lock' = c /\ todo' \in [Conn -> Seq(Letter)] /\ due' \in [Conn -> Nat]
  <1>1. \A d \in Conn : Cardinality(ReportsTo(d, mails)) \in Nat
    BY PlacesFinite DEF ReportsTo
  <1>2. due' \in [Conn -> Nat]
    BY <1>1 DEF Locked, AcceptorType
  <1>3. lock' = c /\ todo' = [todo EXCEPT ![c] = mails]
    BY DEF Locked
  <1> QED
    BY <1>2, <1>3 DEF AcceptorType

LEMMA OpeningType == Opening \in Seq(Frame) /\ Len(Opening) = Symbols + 1
  <1>1. Opening \in [1..(Symbols + 1) -> Frame] /\ Symbols + 1 \in Nat
    BY AcceptorAssumption DEF Opening, Frame
  <1> QED
    BY <1>1

LEMMA PostsType ==
  ASSUME AcceptorType, NEW c \in Conn, Posts(c)
  PROVE  AcceptorType'
  <1>1. CASE Bootstrap(c)
    <2> DEFINE s == [k \in DOMAIN Opening |-> Mail(c, Opening[k])]
    <2>1. s \in Seq(Letter)
      <3>1. s \in [1..(Symbols + 1) -> Letter] /\ Symbols + 1 \in Nat
        BY OpeningType, MailType, AcceptorAssumption
      <3> QED
        BY <3>1
    <2> HIDE DEF s
    <2>2. todo' = [todo EXCEPT ![c] = s]
      BY <1>1 DEF Bootstrap, s
    <2> QED
      <3>1. /\ UNCHANGED <<logout, step, active, lock, sinks, queue, failed, writing, out, due>>
            /\ pc' = [pc EXCEPT ![c] = "boot"] /\ writer' = [writer EXCEPT ![c] = "check"]
        BY <1>1 DEF Bootstrap, Goto, engine
      <3>2. todo' \in [Conn -> Seq(Letter)]
        BY <2>1, <2>2 DEF AcceptorType
      <3>3. writer[c] = "none"
        BY <1>1 DEF Bootstrap, At, AcceptorType
      <3> QED
        BY <3>1, <3>2, <3>3 DEF Pc, AcceptorType
  <1>2. CASE Expire(c)
    <2>1. PICK mails \in Addressed : Locked(c, mails)
      BY <1>2 DEF Expire
    <2>2. mails \in Seq(Letter)
      BY MailsType
    <2> QED
      BY <1>2, <2>1, <2>2, LockedType DEF Expire, Goto, Pc, AcceptorType, output
  <1>3. CASE Own(c)
    <2>1. <<Mail(c, "own")>> \in Seq(Letter)
      BY MailType DEF Frame
    <2> QED
      BY <1>3, <2>1 DEF Own, Goto, Pc, AcceptorType, output, engine
  <1>4. CASE Business(c)
    <2>1. PICK mails \in Addressed \cup Answers(c) : Locked(c, mails)
      BY <1>4 DEF Business
    <2>2. mails \in Seq(Letter)
      BY MailsType
    <2> QED
      BY <1>4, <2>1, <2>2, LockedType DEF Business, Goto, Pc, AcceptorType, output
  <1>5. CASE Disconnect(c)
    <2> DEFINE f == IF logout[c] THEN "logout" ELSE "shutdown"
    <2>1. <<Mail(c, f)>> \in Seq(Letter)
      BY MailType DEF Frame
    <2>2. todo' = [todo EXCEPT ![c] = <<Mail(c, f)>>]
      BY <1>5 DEF Disconnect
    <2> HIDE DEF f
    <2> QED
      <3>1. /\ UNCHANGED <<logout, step, active, queue, failed, writer, writing, out, due>>
            /\ pc' = [pc EXCEPT ![c] = "closing"] /\ lock' = c
            /\ sinks' = [sinks EXCEPT ![NameOf[c]] = NoConn]
        BY <1>5 DEF Disconnect, Goto, output
      <3>2. todo' \in [Conn -> Seq(Letter)]
        BY <2>1, <2>2 DEF AcceptorType
      <3> QED
        BY <3>1, <3>2, AcceptorAssumption DEF Pc, AcceptorType
  <1> QED
    BY <1>1, <1>2, <1>3, <1>4, <1>5 DEF Posts

LEMMA WriterType ==
  ASSUME AcceptorType, NEW c \in Conn, Writer(c)
  PROVE  AcceptorType'
  <1>1. UNCHANGED <<thread, sending, active, engine, failed, due, work>>
    BY DEF Writer, WriterCheck, WriterRecv, WriterWrite, WriteFails
  <1>2. \E p \in {"check", "recv", "write", "done"} : writer' = [writer EXCEPT ![c] = p]
    BY DEF Writer, WriterCheck, WriterRecv, WriterWrite, WriteFails, WriterEnds
  <1>3. CASE WriterRecv(c)
    <2>1. queue[c] \in Seq(Frame) /\ (queue[c] # <<>> => Head(queue[c]) \in Frame)
      BY DEF AcceptorType
    <2>2. queue' \in [Conn -> Seq(Frame)]
      BY <1>3, <2>1 DEF WriterRecv, AcceptorType
    <2>3. writing' \in [Conn -> Frame \cup {"none"}]
      <3>1. (IF queue[c] = <<>> THEN "beat" ELSE Head(queue[c])) \in Frame
        BY <2>1 DEF Frame
      <3> QED
        BY <1>3, <3>1 DEF WriterRecv, AcceptorType
    <2>4. \A d \in Conn : writer'[d] = "write" <=> writing'[d] # "none"
      <3>1. (IF queue[c] = <<>> THEN "beat" ELSE Head(queue[c])) # "none"
        BY <2>1 DEF Frame
      <3>2. writer[c] = "recv"
        BY <1>3 DEF WriterRecv
      <3> QED
        BY <1>3, <3>1, <3>2 DEF WriterRecv, WriterEnds, AcceptorType
    <2> QED
      BY <1>1, <1>2, <1>3, <2>2, <2>3, <2>4
         DEF WriterRecv, AcceptorType, thread, sending, engine
  <1>4. CASE WriterWrite(c)
    <2>1. Written(out[c], writing[c]) \in Seq(Frame)
      BY <1>4 DEF Written, AcceptorType, WriterWrite
    <2>2. /\ writer' = [writer EXCEPT ![c] = "done"] \/ writer' = [writer EXCEPT ![c] = "check"]
          /\ writer[c] = "write"
      BY <1>4 DEF WriterWrite, WriterEnds
    <2>3. /\ writing' = [writing EXCEPT ![c] = "none"] /\ queue' = queue
          /\ out' = [out EXCEPT ![c] = Written(out[c], writing[c])]
      BY <1>4 DEF WriterWrite
    <2>4. writing' \in [Conn -> Frame \cup {"none"}] /\ out' \in [Conn -> Seq(Frame)]
      BY <2>1, <2>3 DEF AcceptorType
    <2>5. /\ writer' \in [Conn -> {"none", "check", "recv", "write", "done"}]
          /\ \A d \in Conn : writer'[d] = "write" <=> writing'[d] # "none"
          /\ \A d \in Conn : pc[d] \in {"connect", "setup"} => writer'[d] = "none"
      BY <2>2, <2>3 DEF AcceptorType
    <2> QED
      BY <1>1, <2>3, <2>4, <2>5 DEF AcceptorType, thread, sending, engine
  <1>5. CASE WriterCheck(c)
    <2>1. UNCHANGED <<queue, writing, out>> /\ writer[c] = "check"
      BY <1>5 DEF WriterCheck
    <2>2. \E p \in {"recv", "done"} : writer' = [writer EXCEPT ![c] = p]
      BY <1>5 DEF WriterCheck, WriterEnds
    <2>3. /\ writer' \in [Conn -> {"none", "check", "recv", "write", "done"}]
          /\ \A d \in Conn : writer'[d] = "write" <=> writing'[d] # "none"
          /\ \A d \in Conn : pc[d] \in {"connect", "setup"} => writer'[d] = "none"
      BY <2>1, <2>2 DEF AcceptorType
    <2> QED
      BY <1>1, <2>1, <2>3 DEF AcceptorType, thread, sending, engine
  <1>6. CASE WriteFails(c)
    <2>1. /\ UNCHANGED <<queue, out>> /\ writing' = [writing EXCEPT ![c] = "none"]
          /\ writer' = [writer EXCEPT ![c] = "done"] /\ writer[c] = "write"
      BY <1>6 DEF WriteFails, WriterEnds
    <2>2. /\ writer' \in [Conn -> {"none", "check", "recv", "write", "done"}]
          /\ \A d \in Conn : writer'[d] = "write" <=> writing'[d] # "none"
          /\ \A d \in Conn : pc[d] \in {"connect", "setup"} => writer'[d] = "none"
      BY <2>1 DEF AcceptorType
    <2> QED
      BY <1>1, <2>1, <2>2 DEF AcceptorType, thread, sending, engine
  <1> QED
    BY <1>3, <1>4, <1>5, <1>6 DEF Writer

-----------------------------------------------------------------------------
(* Reservations, the lock and the destinations of reports *)

\* The connection thread has reserved its name.
Reserved(c) == pc[c] \notin {"connect", "done"}

\* A name is reserved by one connection at a time, and only that one is the
\* destination of the name's reports.
NamesInv ==
    /\ \A c \in Conn : Reserved(c) => NameOf[c] \in active
    /\ \A c, d \in Conn : Reserved(c) /\ Reserved(d) /\ NameOf[c] = NameOf[d] => c = d
    /\ SinkIsLive

LockInv == \A c \in Conn : lock = c <=> pc[c] \in {"expiring", "business", "closing"}

\* What Sends, Writer and PeerCloses leave alone.
LEMMA OthersFrame ==
  ASSUME NEW c \in Conn, Sends(c) \/ Writer(c) \/ PeerCloses(c)
  PROVE  UNCHANGED <<pc, logout, active, lock, sinks, due, work>>
  BY DEF Sends, SendLoad, SendTry, SendStore, Writer, WriterCheck, WriterRecv, WriterWrite,
         WriteFails, PeerCloses, thread, engine

\* The thread goes on where it neither reserves, releases, registers nor leaves.
LEMMA NamesMove ==
  ASSUME AcceptorType, NamesInv, NEW c \in Conn, NEW p \in Pc, pc' = [pc EXCEPT ![c] = p],
         UNCHANGED <<active, sinks>>,
         \/ pc[c] = "connect" /\ p = "done"
         \/ pc[c] \in {"setup", "boot", "closing", "join"} /\ p \notin {"connect", "done"}
         \/ Reserved(c) /\ p \in {"loop", "expire", "expiring", "read", "business", "leave"}
  PROVE  NamesInv'
  <1>1. \A d \in Conn : Reserved(d)' => Reserved(d)
    BY DEF AcceptorType, Reserved
  <1>2. SinkIsLive'
    BY DEF AcceptorType, NamesInv, SinkIsLive, Reserved
  <1> QED
    BY <1>1, <1>2 DEF NamesInv

LEMMA MovesNames ==
  ASSUME AcceptorType, NamesInv, NEW c \in Conn, Moves(c)
  PROVE  NamesInv'
  <1> USE AcceptorAssumption
  <1>1. CASE Reserve(c)
    <2>1. /\ pc[c] = "connect" /\ pc' = [pc EXCEPT ![c] = "setup"] /\ NameOf[c] \notin active
          /\ active' = active \cup {NameOf[c]} /\ sinks' = sinks
      BY <1>1 DEF Reserve, At, Goto, engine
    <2>2. \A d \in Conn : Reserved(d)' => d = c \/ Reserved(d)
      BY <2>1 DEF AcceptorType, Reserved
    <2>3. SinkIsLive'
      BY <2>1 DEF AcceptorType, NamesInv, SinkIsLive
    <2> QED
      BY <2>1, <2>2, <2>3 DEF NamesInv
  <1>2. CASE SetupFails(c) \/ Join(c)
    <2>1. /\ pc[c] \in {"setup", "join"} /\ pc' = [pc EXCEPT ![c] = "done"]
          /\ active' = active \ {NameOf[c]} /\ sinks' = sinks
      BY <1>2 DEF SetupFails, Join, At, Goto, engine
    <2>2. \A d \in Conn : Reserved(d)' => Reserved(d) /\ d # c
      BY <2>1 DEF AcceptorType, Reserved
    <2>3. SinkIsLive'
      BY <2>1 DEF AcceptorType, NamesInv, SinkIsLive
    <2>4. Reserved(c)
      BY <2>1 DEF Reserved
    <2> QED
      BY <2>1, <2>2, <2>3, <2>4 DEF NamesInv
  <1>3. CASE Register(c)
    <2>1. /\ pc[c] = "boot" /\ pc' = [pc EXCEPT ![c] = "loop"]
          /\ sinks' = [sinks EXCEPT ![NameOf[c]] = c] /\ active' = active
      BY <1>3 DEF Register, At, Goto
    <2>2. \A d \in Conn : Reserved(d)' => Reserved(d)
      BY <2>1 DEF AcceptorType, Reserved
    <2>3. SinkIsLive'
      BY <2>1 DEF AcceptorType, NamesInv, SinkIsLive
    <2> QED
      BY <2>1, <2>2, <2>3 DEF NamesInv
  <1>4. CASE Refuse(c) \/ Closed(c)
    <2>1. \/ pc[c] = "connect" /\ pc' = [pc EXCEPT ![c] = "done"]
          \/ pc[c] = "closing" /\ pc' = [pc EXCEPT ![c] = "join"]
      BY <1>4 DEF Refuse, Closed, At, Goto
    <2>2. UNCHANGED <<active, sinks>>
      BY <1>4 DEF Refuse, Closed, engine
    <2> QED
      BY <2>1, <2>2, NamesMove DEF Pc
  <1>5. CASE \/ Check(c) \/ NothingExpires(c) \/ ExpireDone(c) \/ Poll(c)
             \/ BusinessDone(c) \/ Eof(c) \/ Ends(c)
    <2>1. /\ Reserved(c) /\ UNCHANGED <<active, sinks>>
          /\ \E p \in {"loop", "expire", "read", "leave"} : pc' = [pc EXCEPT ![c] = p]
      BY <1>5 DEF Check, NothingExpires, ExpireDone, Poll, BusinessDone, Eof, Ends, At, Goto,
                  Reserved, engine
    <2> QED
      BY <2>1, NamesMove DEF Pc
  <1> QED
    BY <1>1, <1>2, <1>3, <1>4, <1>5 DEF Moves

LEMMA PostsNames ==
  ASSUME AcceptorType, NamesInv, NEW c \in Conn, Posts(c)
  PROVE  NamesInv'
  <1> USE AcceptorAssumption
  <1>1. CASE Bootstrap(c)
    <2>1. pc[c] = "setup" /\ pc' = [pc EXCEPT ![c] = "boot"] /\ UNCHANGED <<active, sinks>>
      BY <1>1 DEF Bootstrap, At, Goto, engine
    <2> QED
      BY <2>1, NamesMove DEF Pc
  <1>2. CASE Expire(c) \/ Own(c) \/ Business(c)
    <2>1. /\ Reserved(c) /\ UNCHANGED <<active, sinks>>
          /\ \E p \in {"loop", "expiring", "business"} : pc' = [pc EXCEPT ![c] = p]
      BY <1>2 DEF Expire, Own, Business, At, Goto, Reserved, engine
    <2> QED
      BY <2>1, NamesMove DEF Pc
  <1>3. CASE Disconnect(c)
    <2>1. /\ pc[c] = "leave" /\ pc' = [pc EXCEPT ![c] = "closing"] /\ active' = active
          /\ sinks' = [sinks EXCEPT ![NameOf[c]] = NoConn]
      BY <1>3 DEF Disconnect, At, Goto
    <2>2. \A d \in Conn : Reserved(d)' => Reserved(d)
      BY <2>1 DEF AcceptorType, Reserved
    <2>3. SinkIsLive'
      BY <2>1 DEF AcceptorType, NamesInv, SinkIsLive
    <2> QED
      BY <2>1, <2>2, <2>3 DEF NamesInv
  <1> QED
    BY <1>1, <1>2, <1>3 DEF Posts

LEMMA LockStep ==
  ASSUME AcceptorType, LockInv, NEW c \in Conn, Moves(c) \/ Posts(c)
  PROVE  LockInv'
  <1> USE AcceptorAssumption
  <1>1. CASE Moves(c)
    <2>1. CASE ExpireDone(c) \/ BusinessDone(c) \/ Closed(c)
      <3>1. /\ pc[c] \in {"expiring", "business", "closing"} /\ lock' = NoConn
            /\ \E p \in {"read", "loop", "join"} : pc' = [pc EXCEPT ![c] = p]
        BY <2>1 DEF ExpireDone, BusinessDone, Closed, At, Goto
      <3> QED
        BY <3>1 DEF LockInv, AcceptorType
    <2>2. CASE ~(ExpireDone(c) \/ BusinessDone(c) \/ Closed(c))
      <3>1. /\ pc[c] \notin {"expiring", "business", "closing"} /\ lock' = lock
            /\ \E p \in Pc \ {"expiring", "business", "closing"} : pc' = [pc EXCEPT ![c] = p]
        BY <1>1, <2>2
           DEF Moves, Reserve, Refuse, SetupFails, Register, Check, NothingExpires, Poll,
               Eof, Ends, Join, At, Goto, Pc, engine
      <3> QED
        BY <3>1 DEF LockInv, AcceptorType
    <2> QED
      BY <2>1, <2>2
  <1>2. CASE Posts(c)
    <2>1. CASE Expire(c) \/ Business(c) \/ Disconnect(c)
      <3>1. /\ lock = NoConn /\ lock' = c
            /\ \E p \in {"expiring", "business", "closing"} : pc' = [pc EXCEPT ![c] = p]
        BY <2>1 DEF Expire, Business, Disconnect, Locked, Goto
      <3> QED
        BY <3>1 DEF LockInv, AcceptorType
    <2>2. CASE Bootstrap(c) \/ Own(c)
      <3>1. /\ pc[c] \in {"setup", "read"} /\ lock' = lock
            /\ \E p \in {"boot", "loop"} : pc' = [pc EXCEPT ![c] = p]
        BY <2>2 DEF Bootstrap, Own, At, Goto, engine
      <3> QED
        BY <3>1 DEF LockInv, AcceptorType
    <2> QED
      BY <1>2, <2>1, <2>2 DEF Posts
  <1> QED
    BY <1>1, <1>2

-----------------------------------------------------------------------------
(* What threads have to send *)

Live == {"loop", "expire", "expiring", "read", "business", "leave"}

\* Thread d may have letter m to send: a report, under the lock, to a live
\* session, or something of its own at the place where it sends that.
Proper(at, d, m) ==
    \/ m.msg = "report" /\ at[d] \in {"expiring", "business"} /\ at[m.to] \in Live
    \/ m.to = d /\ m.msg = "own" /\ at[d] \in {"loop", "business"}
    \/ m.to = d /\ m.msg \in {"logon", "def"} /\ at[d] = "boot"
    \/ m.to = d /\ m.msg \in {"logout", "shutdown"} /\ at[d] = "closing"

TodoInv ==
    \A d \in Conn :
        /\ todo[d] = <<>> => step[d] = "load"
        /\ pc[d] = "closing" => Len(todo[d]) <= 1
        /\ \A i \in 1..Len(todo[d]) : Proper(pc, d, todo[d][i])

\* The letter thread d is about to send.
LEMMA FirstLetter ==
  ASSUME AcceptorType, TodoInv, NEW d \in Conn, todo[d] # <<>>
  PROVE  /\ todo[d][1] \in Letter /\ todo[d][1] = Head(todo[d])
         /\ todo[d][1].to \in Conn /\ todo[d][1].msg \in Frame
         /\ Proper(pc, d, todo[d][1])
         /\ pc[d] \in {"boot", "loop", "expiring", "business", "closing"}
  <1>1. todo[d] \in Seq(Letter)
    BY DEF AcceptorType
  <1>2. 1 \in 1..Len(todo[d]) /\ todo[d][1] \in Letter /\ todo[d][1] = Head(todo[d])
    BY <1>1
  <1>3. Proper(pc, d, todo[d][1])
    BY <1>2 DEF TodoInv
  <1> QED
    BY <1>2, <1>3 DEF Proper, Letter

LEMMA SendsTodo ==
  ASSUME AcceptorType, TodoInv, NEW c \in Conn, Sends(c)
  PROVE  TodoInv'
  <1>1. todo[c] # <<>> /\ todo[c] \in Seq(Letter) /\ pc' = pc
    BY DEF Sends, SendLoad, SendTry, SendStore, AcceptorType, thread
  <1>2. \/ todo' = [todo EXCEPT ![c] = Tail(todo[c])] /\ step' = [step EXCEPT ![c] = "load"]
        \/ todo' = todo /\ \E p : step' = [step EXCEPT ![c] = p]
    BY DEF Sends, SendLoad, SendTry, SendStore, SendDone
  <1>4. CASE todo' = [todo EXCEPT ![c] = Tail(todo[c])] /\ step' = [step EXCEPT ![c] = "load"]
    <2>1. /\ Len(Tail(todo[c])) = Len(todo[c]) - 1
          /\ \A i \in 1..Len(Tail(todo[c])) :
                 Tail(todo[c])[i] = todo[c][i + 1] /\ i + 1 \in 1..Len(todo[c])
          /\ Len(todo[c]) \in Nat
      BY <1>1
    <2>2. todo'[c] = Tail(todo[c]) /\ \A d \in Conn \ {c} : todo'[d] = todo[d]
      BY <1>4 DEF AcceptorType
    <2>3. step'[c] = "load" /\ \A d \in Conn \ {c} : step'[d] = step[d]
      BY <1>4 DEF AcceptorType
    <2> SUFFICES ASSUME NEW d \in Conn
                 PROVE  /\ todo'[d] = <<>> => step'[d] = "load"
                        /\ pc'[d] = "closing" => Len(todo'[d]) <= 1
                        /\ \A i \in 1..Len(todo'[d]) : Proper(pc, d, todo'[d][i])
      BY <1>1 DEF TodoInv
    <2>4. CASE d = c
      <3>1. \A i \in 1..Len(todo[c]) : Proper(pc, c, todo[c][i])
        BY DEF TodoInv
      <3>2. \A i \in 1..Len(todo'[c]) : Proper(pc, c, todo'[c][i])
        BY <2>1, <2>2, <3>1
      <3>3. pc'[c] = "closing" => Len(todo'[c]) <= 1
        BY <1>1, <2>1, <2>2 DEF TodoInv
      <3> QED
        BY <2>3, <2>4, <3>2, <3>3
    <2>5. CASE d # c
      BY <1>1, <2>2, <2>3, <2>5 DEF TodoInv
    <2> QED
      BY <2>4, <2>5
  <1>5. CASE todo' = todo /\ \E p : step' = [step EXCEPT ![c] = p]
    BY <1>1, <1>5 DEF TodoInv, AcceptorType
  <1> QED
    BY <1>2, <1>4, <1>5

\* A thread moves on without a letter, and stays live if it was.
LEMMA TodoMove ==
  ASSUME AcceptorType, TodoInv, NEW c \in Conn, NEW p \in Pc, pc' = [pc EXCEPT ![c] = p],
         todo[c] = <<>>, pc[c] \in Live => p \in Live
  PROVE  \A d \in Conn \ {c} : \A m \in Letter : Proper(pc, d, m) => Proper(pc', d, m)
  BY DEF Proper, AcceptorType, Letter

LEMMA MovesTodo ==
  ASSUME AcceptorType, TodoInv, NEW c \in Conn, Moves(c)
  PROVE  TodoInv'
  <1>1. UNCHANGED <<todo, step>>
    BY MovesFrame
  <1>2. /\ todo[c] = <<>>
        /\ \E p \in Pc : pc' = [pc EXCEPT ![c] = p] /\ (pc[c] \in Live => p \in Live)
    BY DEF Moves, Reserve, Refuse, SetupFails, Register, Check, NothingExpires, ExpireDone,
           Poll, BusinessDone, Eof, Ends, Closed, Join, Goto, At, Pc, Live
  <1>3. \A d \in Conn \ {c} : pc'[d] = pc[d]
    BY <1>2 DEF AcceptorType
  <1>4. \A d \in Conn \ {c} : \A m \in Letter : Proper(pc, d, m) => Proper(pc', d, m)
    BY <1>2, TodoMove
  <1> SUFFICES ASSUME NEW d \in Conn
               PROVE  /\ todo[d] = <<>> => step[d] = "load"
                      /\ pc'[d] = "closing" => Len(todo[d]) <= 1
                      /\ \A i \in 1..Len(todo[d]) : Proper(pc', d, todo[d][i])
    BY <1>1 DEF TodoInv
  <1>5. CASE d = c
    BY <1>2, <1>5 DEF TodoInv
  <1>6. CASE d # c
    <2>1. \A i \in 1..Len(todo[d]) : todo[d][i] \in Letter
      BY DEF AcceptorType
    <2> QED
      BY <1>3, <1>4, <1>6, <2>1 DEF TodoInv
  <1> QED
    BY <1>5, <1>6

\* A thread puts letters before itself.
LEMMA TodoPost ==
  ASSUME AcceptorType, TodoInv, NEW c \in Conn, NEW p \in Pc, pc' = [pc EXCEPT ![c] = p],
         todo[c] = <<>>, step' = step,
         NEW mails \in Seq(Letter), todo' = [todo EXCEPT ![c] = mails],
         \A i \in 1..Len(mails) : Proper(pc', c, mails[i]),
         mails # <<>>, p = "closing" => Len(mails) <= 1,
         \A d \in Conn \ {c} : \A i \in 1..Len(todo[d]) : Proper(pc', d, todo[d][i])
  PROVE  TodoInv'
  <1>1. /\ todo'[c] = mails /\ pc'[c] = p
        /\ \A d \in Conn \ {c} : todo'[d] = todo[d] /\ pc'[d] = pc[d]
    BY DEF AcceptorType
  <1> QED
    BY <1>1 DEF TodoInv

LEMMA PostsTodo ==
  ASSUME AcceptorType, NamesInv, LockInv, TodoInv, NEW c \in Conn, Posts(c)
  PROVE  TodoInv'
  <1>1. todo[c] = <<>> /\ \A d \in Conn : \A i \in 1..Len(todo[d]) : todo[d][i] \in Letter
    BY DEF Posts, Bootstrap, Expire, Own, Business, Disconnect, At, AcceptorType
  <1>2. CASE Bootstrap(c)
    <2> DEFINE s == [k \in DOMAIN Opening |-> Mail(c, Opening[k])]
    <2>1. s \in Seq(Letter) /\ Len(s) = Symbols + 1 /\ s # <<>>
      <3>1. s \in [1..(Symbols + 1) -> Letter] /\ Symbols \in Nat
        BY OpeningType, MailType, AcceptorAssumption
      <3> HIDE DEF s
      <3> QED
        BY <3>1
    <2>2. \A i \in 1..Len(s) : s[i].to = c /\ s[i].msg \in {"logon", "def"}
      <3>1. \A i \in 1..(Symbols + 1) : s[i] = Mail(c, Opening[i])
        BY DEF Opening
      <3>2. \A i \in 1..(Symbols + 1) : Opening[i] \in {"logon", "def"}
        BY DEF Opening
      <3> QED
        BY <2>1, <3>1, <3>2, MailType DEF Frame
    <2>3. /\ pc' = [pc EXCEPT ![c] = "boot"] /\ pc[c] = "setup" /\ step' = step
          /\ todo' = [todo EXCEPT ![c] = s]
      BY <1>2 DEF Bootstrap, Goto, At
    <2> HIDE DEF s
    <2>4. \A i \in 1..Len(s) : Proper(pc', c, s[i])
      BY <2>2, <2>3 DEF Proper, AcceptorType
    <2>5. \A d \in Conn \ {c} : \A i \in 1..Len(todo[d]) : Proper(pc', d, todo[d][i])
      BY <1>1, <2>3, TodoMove DEF TodoInv, Live, Pc
    <2> QED
      BY <1>1, <2>1, <2>3, <2>4, <2>5, TodoPost DEF Pc
  <1>3. CASE Expire(c)
    <2>1. PICK mails \in Addressed : todo' = [todo EXCEPT ![c] = mails]
      BY <1>3 DEF Expire, Locked
    <2>2. pc' = [pc EXCEPT ![c] = "expiring"] /\ pc[c] = "expire" /\ step' = step
      BY <1>3 DEF Expire, Goto, At
    <2>3. /\ mails \in Seq(Letter) /\ mails # <<>>
          /\ \A i \in 1..Len(mails) :
                mails[i].msg = "report" /\ \E n \in Parties : mails[i].to = sinks[n]
      BY MailsType
    <2>4. \A i \in 1..Len(mails) : mails[i].to \in Conn /\ pc[mails[i].to] \in Live
      <3>1. \A n \in Parties : sinks[n] \in Conn /\ pc[sinks[n]] \in Live
        BY DEF NamesInv, SinkIsLive, Parties, Live, AcceptorType
      <3> QED
        BY <2>3, <3>1
    <2>5. \A i \in 1..Len(mails) : Proper(pc', c, mails[i])
      BY <2>2, <2>3, <2>4 DEF Proper, AcceptorType, Live
    <2>6. \A d \in Conn \ {c} : \A i \in 1..Len(todo[d]) : Proper(pc', d, todo[d][i])
      BY <1>1, <2>2, TodoMove DEF TodoInv, Live, Pc
    <2> QED
      BY <1>1, <2>1, <2>2, <2>3, <2>5, <2>6, TodoPost DEF Pc
  <1>4. CASE Own(c)
    <2> DEFINE m == Mail(c, "own")
    <2>1. /\ m \in Letter /\ m.to = c /\ m.msg = "own"
          /\ <<m>> \in Seq(Letter) /\ Len(<<m>>) = 1 /\ <<m>>[1] = m
      BY MailType DEF Frame
    <2>2. /\ pc' = [pc EXCEPT ![c] = "loop"] /\ pc[c] = "read" /\ step' = step
          /\ todo' = [todo EXCEPT ![c] = <<m>>]
      BY <1>4 DEF Own, Goto, At
    <2> HIDE DEF m
    <2>3. \A i \in 1..Len(<<m>>) : Proper(pc', c, <<m>>[i])
      BY <2>1, <2>2 DEF Proper, AcceptorType
    <2>4. \A d \in Conn \ {c} : \A i \in 1..Len(todo[d]) : Proper(pc', d, todo[d][i])
      BY <1>1, <2>2, TodoMove DEF TodoInv, Live, Pc
    <2> QED
      BY <1>1, <2>1, <2>2, <2>3, <2>4, TodoPost DEF Pc
  <1>5. CASE Business(c)
    <2>1. PICK mails \in Addressed \cup Answers(c) : todo' = [todo EXCEPT ![c] = mails]
      BY <1>5 DEF Business, Locked
    <2>2. pc' = [pc EXCEPT ![c] = "business"] /\ pc[c] = "read" /\ step' = step
      BY <1>5 DEF Business, Goto, At
    <2>3. /\ mails \in Seq(Letter) /\ mails # <<>>
          /\ \A i \in 1..Len(mails) :
              \/ mails[i].msg = "report" /\ \E n \in Parties : mails[i].to = sinks[n]
              \/ mails[i].msg = "own" /\ mails[i].to = c
      BY MailsType
    <2>4. \A n \in Parties : sinks[n] \in Conn /\ pc[sinks[n]] \in Live
      BY DEF NamesInv, SinkIsLive, Parties, Live, AcceptorType
    <2>5. \A i \in 1..Len(mails) : Proper(pc', c, mails[i])
      BY <2>2, <2>3, <2>4 DEF Proper, AcceptorType, Live
    <2>6. \A d \in Conn \ {c} : \A i \in 1..Len(todo[d]) : Proper(pc', d, todo[d][i])
      BY <1>1, <2>2, TodoMove DEF TodoInv, Live, Pc
    <2> QED
      BY <1>1, <2>1, <2>2, <2>3, <2>5, <2>6, TodoPost DEF Pc
  \* nobody else has the lock, so nobody has a report to c any more
  <1>6. CASE Disconnect(c)
    <2> DEFINE m == Mail(c, IF logout[c] THEN "logout" ELSE "shutdown")
    <2>1. /\ m \in Letter /\ m.to = c /\ m.msg \in {"logout", "shutdown"}
          /\ <<m>> \in Seq(Letter) /\ Len(<<m>>) = 1 /\ <<m>>[1] = m
          /\ Len(<<m>>) <= 1 /\ <<m>> # <<>>
      BY MailType DEF Frame
    <2>2. /\ pc' = [pc EXCEPT ![c] = "closing"] /\ pc[c] = "leave" /\ step' = step
          /\ todo' = [todo EXCEPT ![c] = <<m>>] /\ lock = NoConn
      BY <1>6 DEF Disconnect, Goto, At
    <2> HIDE DEF m
    <2>3. \A i \in 1..Len(<<m>>) : Proper(pc', c, <<m>>[i])
      BY <2>1, <2>2 DEF Proper, AcceptorType
    <2>4. \A d \in Conn \ {c} : \A i \in 1..Len(todo[d]) : Proper(pc', d, todo[d][i])
      <3> TAKE d \in Conn \ {c}
      <3> TAKE i \in 1..Len(todo[d])
      <3>1. Proper(pc, d, todo[d][i]) /\ pc[d] \notin {"expiring", "business", "closing"}
        BY <2>2, AcceptorAssumption DEF TodoInv, LockInv
      <3> QED
        BY <2>2, <3>1 DEF Proper, AcceptorType
    <2>5. "closing" \in Pc
      BY DEF Pc
    <2> QED
      BY <1>1, <2>1, <2>2, <2>3, <2>4, <2>5, TodoPost
  <1> QED
    BY <1>2, <1>3, <1>4, <1>5, <1>6 DEF Posts

\* What the other results rest on.
BaseInv == AcceptorType /\ NamesInv /\ LockInv /\ TodoInv

LEMMA BaseInit == Init => BaseInv
  <1> SUFFICES ASSUME Init PROVE BaseInv
    OBVIOUS
  <1> USE AcceptorAssumption
  <1>1. \A c \in Conn : todo[c] = <<>> /\ step[c] = "load" /\ pc[c] = "connect" /\ Len(todo[c]) = 0
    BY DEF Init
  <1>2. AcceptorType
    BY DEF Init, AcceptorType, Pc
  <1>3. NamesInv
    BY <1>1 DEF Init, NamesInv, SinkIsLive, Reserved
  <1>4. LockInv
    BY <1>1 DEF Init, LockInv
  <1>5. TodoInv
    BY <1>1 DEF TodoInv
  <1> QED
    BY <1>2, <1>3, <1>4, <1>5 DEF BaseInv

LEMMA BaseStep == BaseInv /\ [Next]_vars => BaseInv'
  <1> SUFFICES ASSUME BaseInv, [Next]_vars PROVE BaseInv'
    OBVIOUS
  <1> USE DEF BaseInv
  <1>1. CASE UNCHANGED vars
    BY <1>1 DEF vars, AcceptorType, NamesInv, Reserved, SinkIsLive, LockInv, TodoInv, Proper
  <1>2. ASSUME NEW c \in Conn, Sends(c) PROVE BaseInv'
    <2>1. UNCHANGED <<pc, active, lock, sinks>>
      BY <1>2, OthersFrame
    <2>2. NamesInv' /\ LockInv'
      BY <2>1 DEF NamesInv, Reserved, SinkIsLive, LockInv
    <2> QED
      BY <1>2, <2>2, SendsType, SendsTodo
  <1>3. ASSUME NEW c \in Conn, Moves(c) PROVE BaseInv'
    BY <1>3, MovesType, MovesNames, LockStep, MovesTodo
  <1>4. ASSUME NEW c \in Conn, Posts(c) PROVE BaseInv'
    BY <1>4, PostsType, PostsNames, LockStep, PostsTodo
  <1>5. ASSUME NEW c \in Conn, Writer(c) \/ PeerCloses(c) PROVE BaseInv'
    <2>1. UNCHANGED <<pc, active, lock, sinks>>
      BY <1>5, OthersFrame
    <2>2. NamesInv' /\ LockInv'
      BY <2>1 DEF NamesInv, Reserved, SinkIsLive, LockInv
    <2>3. UNCHANGED <<todo, step>>
      BY <1>5 DEF Writer, WriterCheck, WriterRecv, WriterWrite, WriteFails, PeerCloses, sending
    <2>4. TodoInv'
      BY <2>1, <2>3 DEF TodoInv, Proper
    <2>5. AcceptorType'
      <3>1. CASE Writer(c)
        BY <3>1, WriterType
      <3>2. CASE PeerCloses(c)
        BY <3>2 DEF PeerCloses, AcceptorType, thread, sending, engine
      <3> QED
        BY <1>5, <3>1, <3>2
    <2> QED
      BY <2>2, <2>4, <2>5
  <1> QED
    BY <1>1, <1>2, <1>3, <1>4, <1>5, NextCases

\* Reports go to live sessions: the destination of a name is the connection
\* that reserved it, between its registration and its disconnection, whatever
\* Logons arrive in between.
THEOREM SinksAreLive == Spec => []SinkIsLive
  <1>1. BaseInv => SinkIsLive
    BY DEF BaseInv, NamesInv
  <1> QED
    BY BaseInit, BaseStep, <1>1, PTL DEF Spec

-----------------------------------------------------------------------------
(* The stream of a connection: what is written, held and queued *)

Held(f) == IF f \in {"none"} \cup Minor THEN <<>> ELSE <<f>>

Stream(o, w, q) == o \o Held(w) \o q

Flow(c) == Stream(out[c], writing[c], queue[c])

\* t is s without its element at k.
Skip(j, k) == IF j < k THEN j ELSE j + 1

CutAt(t, s, k) ==
    /\ Len(t) = Len(s) - 1
    /\ \A j \in 1..Len(t) : t[j] = s[Skip(j, k)]

LEMMA StreamType ==
  ASSUME NEW o \in Seq(Frame), NEW w \in Frame \cup {"none"}, NEW q \in Seq(Frame)
  PROVE  /\ Stream(o, w, q) \in Seq(Frame)
         /\ Len(Stream(o, w, q)) >= Len(o) /\ Len(Stream(o, w, q)) \in Nat
         /\ \A i \in 1..Len(o) : Stream(o, w, q)[i] = o[i]
  <1>1. Held(w) \in Seq(Frame)
    BY DEF Held
  <1> QED
    BY <1>1 DEF Stream

\* A message joins the queue.
LEMMA StreamAppend ==
  ASSUME NEW o \in Seq(Frame), NEW w \in Frame \cup {"none"}, NEW q \in Seq(Frame),
         NEW m \in Frame
  PROVE  Stream(o, w, Append(q, m)) = Append(Stream(o, w, q), m)
  <1>1. Held(w) \in Seq(Frame)
    BY DEF Held
  <1>2. ASSUME NEW a \in Seq(Frame) PROVE a \o Append(q, m) = Append(a \o q, m)
    OBVIOUS
  <1> QED
    BY <1>1, <1>2 DEF Stream

\* The writer takes the next message.
LEMMA StreamTake ==
  ASSUME NEW o \in Seq(Frame), NEW q \in Seq(Frame), q # <<>>
  PROVE  /\ Head(q) \notin Minor => Stream(o, Head(q), Tail(q)) = Stream(o, "none", q)
         /\ Head(q) \in Minor =>
              /\ CutAt(Stream(o, Head(q), Tail(q)), Stream(o, "none", q), Len(o) + 1)
              /\ Stream(o, "none", q)[Len(o) + 1] = Head(q)
              /\ Len(o) + 1 \in 1..Len(Stream(o, "none", q))
  <1>1. Head(q) \in Frame /\ Tail(q) \in Seq(Frame) /\ Head(q) # "none"
    BY DEF Frame
  <1>2. Stream(o, "none", q) = o \o q
    BY DEF Stream, Held
  <1>3. CASE Head(q) \notin Minor
    <2>1. Stream(o, Head(q), Tail(q)) = (o \o <<Head(q)>>) \o Tail(q)
      BY <1>1, <1>3 DEF Stream, Held
    <2>2. (o \o <<Head(q)>>) \o Tail(q) = o \o (<<Head(q)>> \o Tail(q))
      BY <1>1
    <2>3. <<Head(q)>> \o Tail(q) = q
      BY <1>1
    <2> QED
      BY <1>2, <1>3, <2>1, <2>2, <2>3
  <1>4. CASE Head(q) \in Minor
    <2>1. Stream(o, Head(q), Tail(q)) = o \o Tail(q)
      <3>1. Held(Head(q)) = <<>> /\ o \o <<>> = o
        BY <1>4 DEF Held
      <3> QED
        BY <3>1 DEF Stream
    <2>2. CutAt(o \o Tail(q), o \o q, Len(o) + 1)
      BY <1>1 DEF CutAt, Skip
    <2>3. (o \o q)[Len(o) + 1] = Head(q) /\ Len(o) + 1 \in 1..Len(o \o q)
      OBVIOUS
    <2> QED
      BY <1>2, <1>4, <2>1, <2>2, <2>3
  <1> QED
    BY <1>3, <1>4

\* With nothing queued it takes a heartbeat.
LEMMA StreamBeat ==
  ASSUME NEW o \in Seq(Frame)
  PROVE  Stream(o, "beat", <<>>) = Stream(o, "none", <<>>)
  BY DEF Stream, Held, Minor

\* It writes what it holds.
LEMMA StreamWrite ==
  ASSUME NEW o \in Seq(Frame), NEW w \in Frame, NEW q \in Seq(Frame), ~Contains(o, "logout")
  PROVE  /\ Stream(Written(o, w), "none", q) = Stream(o, w, q)
         /\ Written(o, w) \in Seq(Frame)
         /\ Written(o, w) = o \/ (Written(o, w) = Append(o, w) /\ w \notin Minor)
  <1>1. w # "none"
    BY DEF Frame
  <1>2. CASE w \in Minor
    <2>1. Written(o, w) = o
      BY <1>2 DEF Written
    <2>2. Held(w) = Held("none")
      BY <1>2 DEF Held
    <2> QED
      BY <2>1, <2>2 DEF Stream
  <1>3. CASE w \notin Minor
    <2>1. Written(o, w) = Append(o, w) /\ Append(o, w) = o \o <<w>>
      BY <1>3 DEF Written
    <2>2. (o \o <<w>>) \o <<>> = o \o <<w>>
      OBVIOUS
    <2> QED
      BY <1>1, <1>3, <2>1, <2>2 DEF Stream, Held
  <1> QED
    BY <1>2, <1>3

\* Nothing is written after a Logout, and the writer that wrote it is gone.
LogoutInv ==
    \A c \in Conn : \A k \in 1..Len(out[c]) :
        out[c][k] = "logout" => k = Len(out[c]) /\ writer[c] = "done"

LEMMA ContainsIn ==
  ASSUME NEW s \in Seq(Frame), NEW f
  PROVE  Contains(s, f) <=> \E k \in 1..Len(s) : s[k] = f
  BY DEF Contains

\* What the writer does to its connection: it changes the stream only by
\* taking out a minor message.
LEMMA WriterSteps ==
  ASSUME AcceptorType, LogoutInv, NEW c \in Conn, Writer(c)
  PROVE  /\ UNCHANGED <<todo, step, failed>> /\ writer[c] \notin {"none", "done"}
         /\ \A d \in Conn \ {c} : /\ out'[d] = out[d] /\ writing'[d] = writing[d]
                                  /\ queue'[d] = queue[d] /\ writer'[d] = writer[d]
         /\ writer'[c] # "none"
         /\ \/ out'[c] = out[c]
            \/ /\ out'[c] = Append(out[c], writing[c])
               /\ writing[c] \in Frame \ Minor
               /\ writing[c] = "logout" => writer'[c] = "done"
         /\ writer'[c] # "done" =>
              \/ Flow(c)' = Flow(c)
              \/ \E k \in 1..Len(Flow(c)) : Flow(c)[k] \in Minor /\ CutAt(Flow(c)', Flow(c), k)
  <1>1. UNCHANGED <<todo, step, failed>> /\ writer[c] \notin {"none", "done"}
    BY DEF Writer, WriterCheck, WriterRecv, WriterWrite, WriteFails, sending
  <1>2. /\ out[c] \in Seq(Frame) /\ queue[c] \in Seq(Frame)
        /\ writing[c] \in Frame \cup {"none"} /\ (writer[c] # "write" => writing[c] = "none")
        /\ c \in DOMAIN out /\ c \in DOMAIN writing /\ c \in DOMAIN queue /\ c \in DOMAIN writer
    BY DEF AcceptorType
  <1>3. ~Contains(out[c], "logout")
    BY <1>1, <1>2, ContainsIn DEF LogoutInv
  <1>4. \A d \in Conn \ {c} : /\ out'[d] = out[d] /\ writing'[d] = writing[d]
                              /\ queue'[d] = queue[d] /\ writer'[d] = writer[d]
    BY DEF Writer, WriterCheck, WriterRecv, WriterWrite, WriteFails, WriterEnds, AcceptorType
  <1>5. writer'[c] # "none"
    BY <1>2 DEF Writer, WriterCheck, WriterRecv, WriterWrite, WriteFails, WriterEnds
  <1> DEFINE goal == /\ \/ out'[c] = out[c]
                        \/ /\ out'[c] = Append(out[c], writing[c])
                           /\ writing[c] \in Frame \ Minor
                           /\ writing[c] = "logout" => writer'[c] = "done"
                     /\ writer'[c] # "done" =>
                          \/ Flow(c)' = Flow(c)
                          \/ \E k \in 1..Len(Flow(c)) :
                                Flow(c)[k] \in Minor /\ CutAt(Flow(c)', Flow(c), k)
  <1> SUFFICES goal
    BY <1>1, <1>4, <1>5
  <1>6. CASE WriterCheck(c)
    BY <1>6 DEF WriterCheck, Flow
  <1>7. CASE WriteFails(c)
    BY <1>2, <1>7 DEF WriteFails, WriterEnds
  <1>8. CASE WriterWrite(c)
    <2>1. /\ writing[c] \in Frame /\ out'[c] = Written(out[c], writing[c])
          /\ writing'[c] = "none" /\ queue'[c] = queue[c]
      BY <1>2, <1>8 DEF WriterWrite, AcceptorType
    <2>2. writing[c] = "logout" => writer'[c] = "done"
      BY <1>2, <1>8 DEF WriterWrite, WriterEnds
    <2> QED
      BY <1>2, <1>3, <2>1, <2>2, StreamWrite DEF Flow
  <1>9. CASE WriterRecv(c)
    <2>1. out' = out /\ writing[c] = "none"
      BY <1>2, <1>9 DEF WriterRecv
    <2>2. CASE queue[c] = <<>>
      <3>1. queue'[c] = <<>> /\ writing'[c] = "beat"
        BY <1>2, <1>9, <2>2 DEF WriterRecv
      <3> QED
        BY <1>2, <2>1, <2>2, <3>1, StreamBeat DEF Flow
    <2>3. CASE queue[c] # <<>> /\ Head(queue[c]) # "shutdown"
      <3>1. queue'[c] = Tail(queue[c]) /\ writing'[c] = Head(queue[c])
        BY <1>2, <1>9, <2>3 DEF WriterRecv
      <3>2. Len(out[c]) \in Nat
        BY <1>2
      <3> QED
        BY <1>2, <2>1, <2>3, <3>1, <3>2, StreamTake DEF Flow
    <2>4. CASE queue[c] # <<>> /\ Head(queue[c]) = "shutdown"
      BY <1>2, <1>9, <2>1, <2>4 DEF WriterRecv, WriterEnds
    <2> QED
      BY <2>2, <2>3, <2>4
  <1> QED
    BY <1>6, <1>7, <1>8, <1>9 DEF Writer

LEMMA WriterLogout ==
  ASSUME AcceptorType, LogoutInv, NEW c \in Conn, Writer(c)
  PROVE  LogoutInv'
  <1>1. /\ writer[c] # "done" /\ out[c] \in Seq(Frame)
        /\ \A d \in Conn \ {c} : out'[d] = out[d] /\ writer'[d] = writer[d]
        /\ \/ out'[c] = out[c]
           \/ /\ out'[c] = Append(out[c], writing[c])
              /\ writing[c] \in Frame
              /\ writing[c] = "logout" => writer'[c] = "done"
    BY WriterSteps DEF AcceptorType
  <1>2. \A k \in 1..Len(out[c]) : out[c][k] # "logout"
    BY <1>1 DEF LogoutInv
  <1>3. \A k \in 1..Len(out'[c]) : out'[c][k] = "logout" => k = Len(out'[c]) /\ writer'[c] = "done"
    BY <1>1, <1>2
  <1> QED
    BY <1>1, <1>3 DEF LogoutInv

-----------------------------------------------------------------------------
(* The opening of a stream *)

Agrees(s) == \A j \in 1..Len(s) : j <= Symbols + 1 => s[j] = Opening[j]

Full(s) == Len(s) >= Symbols + 1

\* Thread d has found connection c in order and is about to queue for it.
Trying(d, c) == step[d] = "try" /\ todo[d] # <<>> /\ todo[d][1].to = c

\* The rest of the opening is what the connection's own thread has to send.
Pending(c) ==
    pc[c] = "boot" /\ ~failed[c] /\ step[c] # "store" =>
        /\ Len(Flow(c)) + Len(todo[c]) = Symbols + 1
        /\ \A i \in 1..Len(todo[c]) : todo[c][i].msg = Opening[Len(Flow(c)) + i]

OpeningOf(c) ==
    /\ Agrees(out[c])
    /\ writer[c] = "none" =>
         out[c] = <<>> /\ queue[c] = <<>> /\ pc[c] \in {"connect", "setup", "done"}
    /\ pc[c] = "boot" /\ step[c] # "load" => ~failed[c]
    /\ writer[c] # "done" =>
         /\ Agrees(Flow(c)) /\ Pending(c)
         /\ pc[c] \notin {"connect", "setup", "boot", "done"} /\ ~failed[c] => Full(Flow(c))
         /\ \A d \in Conn : Trying(d, c) /\ pc[c] # "boot" => Full(Flow(c))

\* A stream begins with the opening and is not added to before that is whole.
OpeningInv == \A c \in Conn : OpeningOf(c)

LEMMA AgreesAppend ==
  ASSUME NEW s \in Seq(Frame), NEW m \in Frame, Agrees(s),
         Len(s) + 1 <= Symbols + 1 => m = Opening[Len(s) + 1]
  PROVE  Agrees(Append(s, m)) /\ (Full(s) => Full(Append(s, m)))
  BY AcceptorAssumption DEF Agrees, Full

LEMMA AgreesCut ==
  ASSUME NEW s \in Seq(Frame), NEW t, NEW k \in 1..Len(s), s[k] \in Minor, CutAt(t, s, k),
         Agrees(s)
  PROVE  Agrees(t) /\ Full(t) /\ Full(s) /\ Len(s) # Symbols + 1
  <1>1. \A j \in 1..(Symbols + 1) : Opening[j] \notin Minor
    BY DEF Opening, Minor
  <1>2. k > Symbols + 1
    BY <1>1, AcceptorAssumption DEF Agrees
  <1> QED
    BY <1>2, AcceptorAssumption DEF Agrees, CutAt, Skip, Full

LEMMA FlowType ==
  ASSUME AcceptorType, NEW c \in Conn
  PROVE  Flow(c) \in Seq(Frame) /\ Len(Flow(c)) \in Nat /\ Len(Flow(c)) >= Len(out[c])
  BY StreamType DEF Flow, AcceptorType

\* A connection that the step does not concern.
LEMMA OpeningFrame ==
  ASSUME NEW c \in Conn, OpeningOf(c),
         pc'[c] = pc[c], failed'[c] = failed[c] \/ (failed'[c] /\ pc[c] # "boot"),
         step'[c] = step[c], todo'[c] = todo[c], writer'[c] = writer[c], out'[c] = out[c],
         queue'[c] = queue[c], writing'[c] = writing[c],
         \A d \in Conn : Trying(d, c)' => Trying(d, c)
  PROVE  OpeningOf(c)'
  BY DEF OpeningOf, Pending, Flow

\* The writer holds a message that will be written next.
LEMMA HeldNext ==
  ASSUME NEW o \in Seq(Frame), NEW w \in Frame, w \notin Minor, NEW q \in Seq(Frame)
  PROVE  /\ Len(Stream(o, w, q)) = Len(o) + 1 + Len(q)
         /\ Stream(o, w, q)[Len(o) + 1] = w
         /\ Len(q) = 0 => Stream(o, w, q) = Append(o, w)
  <1>1. w \in Frame /\ w # "none" /\ w \notin Minor
    BY DEF Frame
  <1>2. Stream(o, w, q) = (o \o <<w>>) \o q
    BY <1>1 DEF Stream, Held
  <1>3. /\ Len((o \o <<w>>) \o q) = Len(o) + 1 + Len(q)
        /\ ((o \o <<w>>) \o q)[Len(o) + 1] = w
    BY <1>1
  <1>4. Len(q) = 0 => (o \o <<w>>) \o q = Append(o, w)
    BY <1>1
  <1> QED
    BY <1>2, <1>3, <1>4

LEMMA WriterOpening ==
  ASSUME AcceptorType, LogoutInv, OpeningInv, NEW c \in Conn, Writer(c)
  PROVE  OpeningInv'
  <1>1. UNCHANGED <<todo, step, failed, pc>>
    BY WriterSteps, OthersFrame
  <1> SUFFICES ASSUME NEW d \in Conn PROVE OpeningOf(d)'
    BY DEF OpeningInv
  <1>2. \A e \in Conn : Trying(e, d)' <=> Trying(e, d)
    BY <1>1 DEF Trying
  <1>3. CASE d # c
    BY <1>1, <1>2, <1>3, WriterSteps, OpeningFrame DEF OpeningInv
  <1>4. CASE d = c
    <2>1. /\ writer[c] \notin {"none", "done"} /\ writer'[c] # "none"
          /\ Agrees(out[c]) /\ Agrees(Flow(c)) /\ out[c] \in Seq(Frame)
          /\ queue[c] \in Seq(Frame)
      BY WriterSteps DEF OpeningInv, OpeningOf, AcceptorType
    <2>2. Agrees(out'[c])
      <3>1. CASE out'[c] = out[c]
        BY <2>1, <3>1
      <3>2. CASE out'[c] = Append(out[c], writing[c]) /\ writing[c] \in Frame \ Minor
        <4>1. /\ Len(Flow(c)) = Len(out[c]) + 1 + Len(queue[c])
              /\ Flow(c)[Len(out[c]) + 1] = writing[c]
          <5>1. /\ writing[c] \in Frame /\ writing[c] \notin Minor
                /\ out[c] \in Seq(Frame) /\ queue[c] \in Seq(Frame)
            BY <2>1, <3>2
          <5>2. /\ Len(Stream(out[c], writing[c], queue[c])) = Len(out[c]) + 1 + Len(queue[c])
                /\ Stream(out[c], writing[c], queue[c])[Len(out[c]) + 1] = writing[c]
            <6> DEFINE o == out[c]
                       w == writing[c]
                       q == queue[c]
            <6>1. o \in Seq(Frame) /\ w \in Frame /\ w \notin Minor /\ q \in Seq(Frame)
              BY <5>1
            <6> HIDE DEF o, w, q
            <6>2. /\ Len(Stream(o, w, q)) = Len(o) + 1 + Len(q)
                  /\ Stream(o, w, q)[Len(o) + 1] = w
              BY <6>1, HeldNext
            <6> QED
              BY <6>2 DEF o, w, q
          <5> QED
            BY <5>2, Zenon DEF Flow
        <4>2. Len(out[c]) \in Nat /\ Len(queue[c]) \in Nat
          BY <2>1
        <4>3. Len(out[c]) + 1 \in 1..Len(Flow(c))
          <5>1. \A m, n \in Nat : n + 1 \in 1..(n + 1 + m)
            OBVIOUS
          <5> QED
            BY <4>1, <4>2, <5>1
        <4>4. Len(out[c]) + 1 <= Symbols + 1 => writing[c] = Opening[Len(out[c]) + 1]
          BY <2>1, <4>1, <4>3 DEF Agrees
        <4> QED
          BY <2>1, <3>2, <4>4, AgreesAppend
      <3> QED
        BY <3>1, <3>2, WriterSteps
    <2>3. CASE Flow(c)' = Flow(c)
      BY <1>1, <1>2, <1>4, <2>1, <2>2, <2>3 DEF OpeningInv, OpeningOf, Pending
    <2>4. CASE /\ writer'[c] # "done"
               /\ \E k \in 1..Len(Flow(c)) : Flow(c)[k] \in Minor /\ CutAt(Flow(c)', Flow(c), k)
      <3>1. Agrees(Flow(c)') /\ Full(Flow(c)') /\ Len(Flow(c)) # Symbols + 1 /\ Full(Flow(c))
        BY <2>1, <2>4, AgreesCut, FlowType
      <3>2. /\ pc[c] = "boot" /\ step[c] # "load" => ~failed[c]
            /\ Pending(c)
        BY <2>1 DEF OpeningInv, OpeningOf
      <3>3. Len(todo[c]) \in Nat /\ Len(Flow(c)) \in Nat
        BY FlowType DEF AcceptorType
      <3>4. ~(pc[c] = "boot" /\ ~failed[c] /\ step[c] # "store")
        BY <3>1, <3>2, <3>3, AcceptorAssumption DEF Pending, Full
      <3> QED
        BY <1>1, <1>4, <2>1, <2>2, <3>1, <3>2, <3>4 DEF OpeningOf, Pending
    <2>5. CASE writer'[c] = "done"
      BY <1>1, <1>4, <2>1, <2>2, <2>5 DEF OpeningInv, OpeningOf
    <2> QED
      BY <2>3, <2>4, <2>5, WriterSteps
  <1> QED
    BY <1>3, <1>4

\* What one step of a send does, with the letter it is about.
LEMMA SendSteps ==
  ASSUME BaseInv, NEW c \in Conn, Sends(c)
  PROVE  LET m == todo[c][1]
         IN  /\ m.to \in Conn /\ m.msg \in Frame /\ Proper(pc, c, m)
             /\ todo[c] # <<>> /\ UNCHANGED <<pc, lock, due, writer, writing, out>>
             /\ \/ /\ step[c] = "load" /\ failed[m.to] /\ UNCHANGED <<failed, queue>>
                   /\ SendDone(c)
                \/ /\ step[c] = "load" /\ ~failed[m.to] /\ UNCHANGED <<failed, queue, todo>>
                   /\ step' = [step EXCEPT ![c] = "try"]
                \/ /\ step[c] = "try" /\ writer[m.to] # "done" /\ UNCHANGED failed
                   /\ queue' = [queue EXCEPT ![m.to] = Append(@, m.msg)]
                   /\ SendDone(c)
                \/ /\ step[c] = "try" /\ UNCHANGED <<failed, queue, todo>>
                   /\ step' = [step EXCEPT ![c] = "store"]
                \/ /\ step[c] = "store" /\ UNCHANGED queue
                   /\ failed' = [failed EXCEPT ![m.to] = TRUE]
                   /\ SendDone(c)
  <1>1. todo[c] # <<>>
    BY DEF Sends, SendLoad, SendTry, SendStore
  <1>2. /\ todo[c][1] = Head(todo[c]) /\ todo[c][1].to \in Conn /\ todo[c][1].msg \in Frame
        /\ Proper(pc, c, todo[c][1])
    BY <1>1, FirstLetter DEF BaseInv
  <1>3. UNCHANGED <<pc, lock, due, writer, writing, out>>
    BY DEF Sends, SendLoad, SendTry, SendStore, output, thread, engine
  <1>4. CASE SendLoad(c)
    BY <1>1, <1>2, <1>3, <1>4 DEF SendLoad, output
  <1>5. CASE SendTry(c)
    BY <1>1, <1>2, <1>3, <1>5 DEF SendTry
  <1>6. CASE SendStore(c)
    BY <1>1, <1>2, <1>3, <1>6 DEF SendStore
  <1> QED
    BY <1>4, <1>5, <1>6 DEF Sends

\* A send that is done leaves the rest of the letters.
LEMMA DoneTail ==
  ASSUME AcceptorType, NEW c \in Conn, todo[c] # <<>>, SendDone(c)
  PROVE  /\ step'[c] = "load" /\ Len(todo'[c]) = Len(todo[c]) - 1
         /\ \A i \in 1..Len(todo'[c]) : todo'[c][i] = todo[c][i + 1]
         /\ \A d \in Conn \ {c} : step'[d] = step[d] /\ todo'[d] = todo[d]
         /\ \A d \in Conn, e \in Conn : Trying(d, e)' => Trying(d, e) /\ d # c
  <1>1. /\ todo[c] \in Seq(Letter) /\ todo'[c] = Tail(todo[c]) /\ step'[c] = "load"
        /\ \A d \in Conn \ {c} : step'[d] = step[d] /\ todo'[d] = todo[d]
    BY DEF SendDone, AcceptorType
  <1>2. /\ Len(Tail(todo[c])) = Len(todo[c]) - 1
        /\ \A i \in 1..Len(Tail(todo[c])) : Tail(todo[c])[i] = todo[c][i + 1]
    BY <1>1
  <1>3. \A d \in Conn, e \in Conn : Trying(d, e)' => Trying(d, e) /\ d # c
    BY <1>1 DEF Trying
  <1> QED
    BY <1>1, <1>2, <1>3

\* Only its own thread sends to a connection that is not live.
LEMMA ToOther ==
  ASSUME AcceptorType, NEW c \in Conn, NEW m, m.to # c, Proper(pc, c, m)
  PROVE  m.msg = "report" /\ pc[m.to] \in Live /\ pc[c] \in {"expiring", "business"}
  BY DEF Proper

\* A message is queued for connection c.
LEMMA QueuedFlow ==
  ASSUME AcceptorType, NEW c \in Conn, NEW f \in Frame, UNCHANGED <<writing, out>>,
         queue'[c] = Append(queue[c], f)
  PROVE  Flow(c)' = Append(Flow(c), f) /\ Flow(c) \in Seq(Frame)
  <1>1. PICK o \in Seq(Frame), w \in Frame \cup {"none"}, q \in Seq(Frame) :
           o = out[c] /\ w = writing[c] /\ q = queue[c]
    BY DEF AcceptorType
  <1>2. Flow(c) = Stream(o, w, q) /\ Flow(c)' = Stream(o, w, Append(q, f))
    BY <1>1 DEF Flow
  <1>3. Stream(o, w, Append(q, f)) = Append(Stream(o, w, q), f)
    BY StreamAppend
  <1>4. Stream(o, w, q) \in Seq(Frame)
    BY StreamType
  <1> QED
    BY <1>2, <1>3, <1>4

\* Thread c queues message f for connection d.
Queues(c, d, f) ==
    /\ step[c] = "try" /\ todo[c][1].to = d /\ todo[c][1].msg = f
    /\ writer[d] # "done" /\ SendDone(c) /\ UNCHANGED failed
    /\ queue' = [queue EXCEPT ![d] = Append(@, f)]

\* A message joins the stream of c.
LEMMA QueuedOpening ==
  ASSUME BaseInv, OpeningInv, NEW c \in Conn, Sends(c), NEW to \in Conn, NEW f \in Frame,
         Queues(c, to, f)
  PROVE  OpeningInv'
  <1>1. /\ Proper(pc, c, todo[c][1]) /\ todo[c] # <<>> /\ AcceptorType
        /\ UNCHANGED <<pc, writer, writing, out>>
        /\ step[c] = "try" /\ todo[c][1].to = to /\ todo[c][1].msg = f
        /\ writer[to] # "done" /\ SendDone(c) /\ UNCHANGED failed
    BY SendSteps DEF BaseInv, Queues
  <1>2. queue'[to] = Append(queue[to], f) /\ \A d \in Conn \ {to} : queue'[d] = queue[d]
    <2>1. DOMAIN queue = Conn
      BY <1>1 DEF AcceptorType
    <2> QED
      BY <2>1 DEF Queues
  <1>3. Flow(to)' = Append(Flow(to), f)
    BY <1>1, <1>2, QueuedFlow
  <1>4. Trying(c, to) /\ (to # c => pc[to] # "boot")
    BY <1>1, ToOther DEF Trying, Live
  <1>5. CASE pc[to] = "boot"
    <2>1. to = c /\ ~failed[c] /\ Pending(c) /\ Agrees(Flow(c)) /\ Agrees(out[c])
      BY <1>1, <1>4, <1>5 DEF OpeningInv, OpeningOf
    <2>2. Len(Flow(c)) + Len(todo[c]) = Symbols + 1 /\ f = Opening[Len(Flow(c)) + 1]
      <3>1. Len(todo[c]) \in Nat \ {0}
        BY <1>1 DEF AcceptorType
      <3>2. /\ Len(Flow(c)) + Len(todo[c]) = Symbols + 1
            /\ \A i \in 1..Len(todo[c]) : todo[c][i].msg = Opening[Len(Flow(c)) + i]
        BY <1>1, <1>5, <2>1 DEF Pending
      <3>3. 1 \in 1..Len(todo[c])
        BY <3>1
      <3> QED
        BY <1>1, <3>2, <3>3
    <2>3. Flow(c) \in Seq(Frame) /\ Len(Flow(c)) \in Nat /\ Len(todo[c]) \in Nat
      <3>1. Len(todo[c]) \in Nat
        BY <1>1 DEF AcceptorType
      <3> QED
        BY <1>1, <3>1, FlowType
    <2>4. Agrees(Flow(c)')
      BY <1>1, <1>3, <2>1, <2>2, <2>3, AgreesAppend
    <2>5. Pending(c)'
      <3>1. Len(Flow(c)') = Len(Flow(c)) + 1
        BY <1>1, <1>3, <2>1, <2>3
      <3>2. Len(Flow(c)') + Len(todo'[c]) = Symbols + 1
        <4>1. Len(todo'[c]) = Len(todo[c]) - 1
          BY <1>1, DoneTail
        <4>2. \A a, b \in Nat : (a + 1) + (b - 1) = a + b
          OBVIOUS
        <4> QED
          BY <2>2, <2>3, <3>1, <4>1, <4>2, Zenon
      <3>3. \A i \in 1..Len(todo'[c]) : todo'[c][i].msg = Opening[Len(Flow(c)') + i]
        <4>1. \A i \in 1..Len(todo[c]) : todo[c][i].msg = Opening[Len(Flow(c)) + i]
          BY <1>1, <1>5, <2>1 DEF Pending
        <4> TAKE i \in 1..Len(todo'[c])
        <4>2. i + 1 \in 1..Len(todo[c]) /\ todo'[c][i] = todo[c][i + 1]
          <5>1. Len(todo'[c]) = Len(todo[c]) - 1 /\ todo'[c][i] = todo[c][i + 1]
            BY <1>1, DoneTail
          <5>2. i \in 1..(Len(todo[c]) - 1)
            BY <5>1
          <5>3. \A n \in Nat : \A j \in 1..(n - 1) : j + 1 \in 1..n
            OBVIOUS
          <5> QED
            BY <2>3, <5>1, <5>2, <5>3
        <4>3. Len(Flow(c)) + (i + 1) = Len(Flow(c)') + i
          BY <2>3, <3>1
        <4> QED
          BY <4>1, <4>2, <4>3
      <3> QED
        BY <3>2, <3>3 DEF Pending
    <2>6. OpeningOf(c)'
      <3>1. \A d \in Conn : ~(Trying(d, c)' /\ pc'[c] # "boot")
        BY <1>1, <1>5, <2>1
      <3>2. writer[c] # "none" /\ pc'[c] = "boot" /\ step'[c] = "load"
        BY <1>1, <1>5, <2>1, DoneTail DEF OpeningInv, OpeningOf
      <3> QED
        BY <1>1, <2>1, <2>4, <2>5, <3>1, <3>2 DEF OpeningOf
    <2>7. \A d \in Conn \ {c} : OpeningOf(d)'
      <3> TAKE d \in Conn \ {c}
      <3> QED
        BY <1>1, <1>2, <2>1, DoneTail, OpeningFrame DEF OpeningInv
    <2> QED
      BY <2>6, <2>7 DEF OpeningInv
  <1>6. CASE pc[to] # "boot"
    <2>1. Full(Flow(to)) /\ Agrees(Flow(to)) /\ Agrees(out[to]) /\ OpeningOf(to)
      BY <1>1, <1>4, <1>6 DEF OpeningInv, OpeningOf
    <2>2. Flow(to) \in Seq(Frame) /\ Len(Flow(to)) \in Nat
      BY <1>1, FlowType
    <2>3. Agrees(Flow(to)') /\ Full(Flow(to)')
      <3>1. ~(Len(Flow(to)) + 1 <= Symbols + 1)
        BY <2>1, <2>2, AcceptorAssumption DEF Full
      <3> QED
        BY <1>1, <1>3, <2>1, <2>2, <3>1, AgreesAppend
    <2>4. OpeningOf(to)'
      <3>1. writer[to] # "none"
        <4>1. pc[to] \notin {"connect", "setup", "done"}
          BY <1>1 DEF Proper, Live
        <4> QED
          BY <2>1, <4>1 DEF OpeningOf
      <3> QED
        BY <1>1, <1>6, <2>1, <2>3, <3>1 DEF OpeningOf, Pending
    <2>5. \A d \in Conn \ {to} : OpeningOf(d)'
      <3> TAKE d \in Conn \ {to}
      <3>1. pc[c] = "boot" => to = c
        BY <1>1 DEF Proper
      <3>2. CASE d # c
        BY <1>1, <1>2, <3>2, DoneTail, OpeningFrame DEF OpeningInv
      <3>3. CASE d = c
        <4>1. OpeningOf(c) /\ pc[c] # "boot" /\ Flow(c)' = Flow(c)
          BY <1>1, <1>2, <3>1, <3>3 DEF OpeningInv, Flow
        <4>2. step'[c] = "load" /\ \A e \in Conn : Trying(e, c)' => Trying(e, c)
          BY <1>1, DoneTail
        <4>3. /\ pc'[c] = pc[c] /\ writer'[c] = writer[c] /\ out'[c] = out[c]
              /\ queue'[c] = queue[c] /\ failed'[c] = failed[c]
          BY <1>1, <1>2, <3>3
        <4> QED
          BY <3>3, <4>1, <4>2, <4>3 DEF OpeningOf, Pending
      <3> QED
        BY <3>2, <3>3
    <2> QED
      BY <2>4, <2>5 DEF OpeningInv
  <1> QED
    BY <1>5, <1>6

LEMMA SendsOpening ==
  ASSUME BaseInv, OpeningInv, NEW c \in Conn, Sends(c)
  PROVE  OpeningInv'
  <1> PICK m : m = todo[c][1]
    OBVIOUS
  <1>1. /\ m.to \in Conn /\ m.msg \in Frame /\ Proper(pc, c, m) /\ todo[c] # <<>>
        /\ UNCHANGED <<pc, lock, due, writer, writing, out>> /\ AcceptorType
        /\ (pc[c] = "boot" => m.to = c) /\ (m.to # c => pc[m.to] # "boot")
    BY SendSteps DEF BaseInv, Proper, Live
  \* the connection has failed: the message is dropped
  <1>2. CASE step[c] = "load" /\ failed[m.to] /\ UNCHANGED <<failed, queue>> /\ SendDone(c)
    <2> SUFFICES ASSUME NEW d \in Conn PROVE OpeningOf(d)'
      BY DEF OpeningInv
    <2>1. CASE d # c
      BY <1>1, <1>2, <2>1, DoneTail, OpeningFrame DEF OpeningInv
    <2>2. CASE d = c
      <3>1. Flow(c)' = Flow(c)
        BY <1>1, <1>2 DEF Flow
      <3> QED
        BY <1>1, <1>2, <2>2, <3>1, DoneTail DEF OpeningInv, OpeningOf, Pending
    <2> QED
      BY <2>1, <2>2
  \* it has not: the stream is whole, or the thread's own
  <1>3. CASE /\ step[c] = "load" /\ ~failed[m.to] /\ UNCHANGED <<failed, queue, todo>>
             /\ step' = [step EXCEPT ![c] = "try"]
    <2> SUFFICES ASSUME NEW d \in Conn PROVE OpeningOf(d)'
      BY DEF OpeningInv
    <2>1. Flow(d)' = Flow(d) /\ OpeningOf(d)
      BY <1>1, <1>3 DEF Flow, OpeningInv
    <2>2. step'[c] = "try" /\ \A e \in Conn \ {c} : step'[e] = step[e]
      BY <1>1, <1>3 DEF AcceptorType
    <2>3. ASSUME NEW e \in Conn, Trying(e, d)', pc[d] # "boot", writer[d] # "done"
          PROVE  Full(Flow(d))
      <3>1. CASE e # c
        <4>1. Trying(e, d)
          BY <1>3, <2>2, <2>3, <3>1 DEF Trying
        <4> QED
          BY <2>1, <2>3, <4>1 DEF OpeningOf
      <3>2. CASE e = c
        <4>1. d = m.to
          BY <1>3, <2>3, <3>2 DEF Trying
        <4>2. pc[d] \notin {"connect", "setup", "done"}
          BY <1>1, <4>1 DEF Proper, Live
        <4> QED
          BY <1>3, <2>1, <2>3, <4>1, <4>2 DEF OpeningOf
      <3> QED
        BY <3>1, <3>2
    <2>4. pc[d] = "boot" /\ step'[d] # "load" => ~failed[d]
      BY <1>1, <1>3, <2>1, <2>2 DEF OpeningOf
    <2>5. step'[d] # "store" => step[d] # "store"
      BY <1>3, <2>2
    <2>6. writer[d] # "done" => Pending(d)'
      BY <1>1, <1>3, <2>1, <2>5 DEF OpeningOf, Pending
    <2> QED
      BY <1>1, <1>3, <2>1, <2>3, <2>4, <2>6 DEF OpeningOf
  \* it is queued
  <1>4. CASE /\ step[c] = "try" /\ writer[m.to] # "done" /\ UNCHANGED failed
             /\ queue' = [queue EXCEPT ![m.to] = Append(@, m.msg)]
             /\ SendDone(c)
    BY <1>1, <1>4, QueuedOpening DEF Queues
  \* there is no room, or no writer
  <1>5. CASE /\ step[c] = "try" /\ UNCHANGED <<failed, queue, todo>>
             /\ step' = [step EXCEPT ![c] = "store"]
    <2> SUFFICES ASSUME NEW d \in Conn PROVE OpeningOf(d)'
      BY DEF OpeningInv
    <2>1. Flow(d)' = Flow(d) /\ OpeningOf(d)
      BY <1>1, <1>5 DEF Flow, OpeningInv
    <2>2. step'[c] = "store" /\ \A e \in Conn \ {c} : step'[e] = step[e]
      BY <1>1, <1>5 DEF AcceptorType
    <2>3. \A e \in Conn : Trying(e, d)' => Trying(e, d)
      BY <1>5, <2>2 DEF Trying
    <2>4. step'[d] # "store" => step'[d] = step[d]
      BY <2>2
    <2>5. step'[d] # "load" => step[d] # "load"
      BY <1>5, <2>2
    <2>6. writer[d] # "done" => Pending(d)'
      BY <1>1, <1>5, <2>1, <2>4 DEF OpeningOf, Pending
    <2> QED
      BY <1>1, <1>5, <2>1, <2>3, <2>5, <2>6 DEF OpeningOf
  \* the connection fails
  <1>6. CASE /\ step[c] = "store" /\ UNCHANGED queue
             /\ failed' = [failed EXCEPT ![m.to] = TRUE] /\ SendDone(c)
    <2> SUFFICES ASSUME NEW d \in Conn PROVE OpeningOf(d)'
      BY DEF OpeningInv
    <2>1. Flow(d)' = Flow(d) /\ OpeningOf(d)
      BY <1>1, <1>6 DEF Flow, OpeningInv
    <2>2. failed'[m.to] = TRUE /\ \A e \in Conn \ {m.to} : failed'[e] = failed[e]
      BY <1>1, <1>6 DEF AcceptorType
    <2>3. CASE d # c
      <3>1. failed'[d] = failed[d] \/ (failed'[d] /\ pc[d] # "boot")
        BY <1>1, <2>2, <2>3
      <3> QED
        BY <1>1, <1>6, <2>1, <2>3, <3>1, DoneTail, OpeningFrame
    <2>4. CASE d = c
      <3>1. pc[c] = "boot" => failed'[c]
        BY <1>1, <2>2
      <3>2. step'[c] = "load" /\ \A e \in Conn : Trying(e, c)' => Trying(e, c)
        BY <1>1, <1>6, DoneTail
      <3>3. ~failed'[c] => ~failed[c]
        BY <2>2, <1>1
      <3> QED
        BY <1>1, <1>6, <2>1, <2>4, <3>1, <3>2, <3>3 DEF OpeningOf, Pending
    <2> QED
      BY <2>3, <2>4
  <1> QED
    BY <1>2, <1>3, <1>4, <1>5, <1>6, SendSteps

LEMMA MovesOpening ==
  ASSUME BaseInv, OpeningInv, NEW c \in Conn, Moves(c)
  PROVE  OpeningInv'
  <1>1. UNCHANGED <<todo, step, queue, failed, writer, writing, out>> /\ AcceptorType /\ TodoInv
    BY MovesFrame DEF BaseInv
  <1>2. /\ todo[c] = <<>>
        /\ \E p \in Pc : /\ pc' = [pc EXCEPT ![c] = p] /\ p \notin {"connect", "boot"}
                         /\ pc[c] = "connect" => p \in {"setup", "done"}
                         /\ pc[c] = "setup" => p = "done"
                         /\ p = "setup" => pc[c] = "connect"
    BY DEF Moves, Reserve, Refuse, SetupFails, Register, Check, NothingExpires, ExpireDone,
           Poll, BusinessDone, Eof, Ends, Closed, Join, Goto, At, Pc
  <1>3. pc[c] # "done" /\ (pc[c] = "join" => writer[c] = "done")
    BY DEF Moves, Reserve, Refuse, SetupFails, Register, Check, NothingExpires, ExpireDone,
           Poll, BusinessDone, Eof, Ends, Closed, Join, At
  <1>4. \A d \in Conn \ {c} : pc'[d] = pc[d]
    BY <1>1, <1>2 DEF AcceptorType
  <1> SUFFICES ASSUME NEW d \in Conn PROVE OpeningOf(d)'
    BY DEF OpeningInv
  <1>5. Flow(d)' = Flow(d) /\ OpeningOf(d)
    BY <1>1 DEF Flow, OpeningInv
  <1>6. \A e \in Conn : Trying(e, d)' <=> Trying(e, d)
    BY <1>1 DEF Trying
  <1>7. CASE d # c
    BY <1>1, <1>4, <1>5, <1>6, <1>7, OpeningFrame
  <1>8. CASE d = c
    <2>1. pc'[c] \notin {"connect", "boot"} /\ (pc[c] = "setup" => pc'[c] = "done")
          /\ (pc[c] = "connect" => pc'[c] \in {"setup", "done"})
      BY <1>1, <1>2 DEF AcceptorType
    <2>2. step[c] = "load"
      BY <1>1, <1>2 DEF TodoInv
    \* after the boot the opening is whole
    <2>3. pc[c] = "boot" /\ ~failed[c] /\ writer[c] # "done" => Full(Flow(c))
      <3>1. Len(todo[c]) = 0 /\ Len(Flow(c)) \in Nat
        BY <1>1, <1>2, FlowType
      <3>2. pc[c] = "boot" /\ ~failed[c] /\ writer[c] # "done" => Len(Flow(c)) + 0 = Symbols + 1
        BY <1>5, <1>8, <2>2, <3>1 DEF OpeningOf, Pending
      <3> QED
        BY <3>1, <3>2, AcceptorAssumption DEF Full
    <2>4. \A e \in Conn : Trying(e, c) => pc[c] # "boot"
      <3> SUFFICES ASSUME NEW e \in Conn, Trying(e, c) PROVE pc[c] # "boot"
        OBVIOUS
      <3>1. e # c /\ todo[e] # <<>> /\ todo[e][1].to = c
        BY <1>2 DEF Trying
      <3>2. Proper(pc, e, todo[e][1])
        BY <1>1, <3>1, FirstLetter
      <3> QED
        BY <3>1, <3>2 DEF Proper, Live
    <2>5. writer[c] = "none" => pc'[c] \in {"setup", "done"}
      BY <1>3, <1>5, <1>8, <2>1 DEF OpeningOf
    <2>6. Pending(c)'
      BY <2>1 DEF Pending
    <2>7. /\ Agrees(out[c])
          /\ writer[c] = "none" => out[c] = <<>> /\ queue[c] = <<>>
          /\ writer[c] # "done" =>
             /\ Agrees(Flow(c))
             /\ pc[c] \notin {"connect", "setup", "boot", "done"} /\ ~failed[c] => Full(Flow(c))
             /\ \A e \in Conn : Trying(e, c) /\ pc[c] # "boot" => Full(Flow(c))
      BY <1>5, <1>8 DEF OpeningOf
    <2>8. pc'[c] \notin {"connect", "setup", "boot", "done"} => pc[c] \notin {"connect", "setup", "done"}
      BY <1>3, <2>1
    <2> QED
      BY <1>1, <1>5, <1>6, <1>8, <2>1, <2>3, <2>4, <2>5, <2>6, <2>7, <2>8 DEF OpeningOf
  <1> QED
    BY <1>7, <1>8

LEMMA PostsOpening ==
  ASSUME BaseInv, OpeningInv, NEW c \in Conn, Posts(c)
  PROVE  OpeningInv'
  <1>1. UNCHANGED <<step, queue, failed, writing, out>> /\ AcceptorType /\ TodoInv
    BY DEF BaseInv, Posts, Bootstrap, Expire, Own, Business, Disconnect, output
  <1>2. todo[c] = <<>> /\ step[c] = "load" /\ \A d \in Conn \ {c} : todo'[d] = todo[d]
    <2>1. todo[c] = <<>> /\ \E t : todo' = [todo EXCEPT ![c] = t]
      BY DEF Posts, Bootstrap, Expire, Own, Business, Disconnect, At, Locked
    <2> QED
      BY <1>1, <2>1 DEF AcceptorType, TodoInv
  <1>3. \A d, e \in Conn : Trying(d, e)' => Trying(d, e)
    BY <1>1, <1>2 DEF Trying
  <1>4. \A d \in Conn \ {c} : pc'[d] = pc[d] /\ writer'[d] = writer[d]
    <2>1. (\E p : pc' = [pc EXCEPT ![c] = p]) /\ (\E w : writer' = [writer EXCEPT ![c] = w] \/ writer' = writer)
      BY DEF Posts, Bootstrap, Expire, Own, Business, Disconnect, Goto, output
    <2> QED
      BY <1>1, <2>1 DEF AcceptorType
  <1> SUFFICES ASSUME NEW d \in Conn PROVE OpeningOf(d)'
    BY DEF OpeningInv
  <1>5. Flow(d)' = Flow(d) /\ OpeningOf(d)
    BY <1>1 DEF Flow, OpeningInv
  <1>6. CASE d # c
    BY <1>1, <1>2, <1>3, <1>4, <1>5, <1>6, OpeningFrame
  <1>7. CASE d = c /\ Bootstrap(c)
    <2>1. /\ writer[c] = "none" /\ writer'[c] = "check" /\ pc'[c] = "boot"
          /\ todo'[c] = [k \in DOMAIN Opening |-> Mail(c, Opening[k])]
      BY <1>1, <1>7 DEF Bootstrap, At, Goto, AcceptorType
    <2>2. out[c] = <<>> /\ queue[c] = <<>> /\ writing[c] = "none"
      BY <1>1, <1>5, <1>7, <2>1 DEF OpeningOf, AcceptorType
    <2>3. Flow(c) = <<>>
      BY <2>2 DEF Flow, Stream, Held
    <2>4. /\ DOMAIN Opening = 1..(Symbols + 1) /\ Symbols + 1 \in Nat
          /\ \A k \in 1..(Symbols + 1) : Opening[k] \in Frame
      BY AcceptorAssumption DEF Opening, Frame
    <2>5. Len(todo'[c]) = Symbols + 1 /\ \A k \in 1..(Symbols + 1) : todo'[c][k] = Mail(c, Opening[k])
      BY <2>1, <2>4
    <2>6. \A k \in 1..(Symbols + 1) : todo'[c][k].msg = Opening[0 + k]
      BY <2>4, <2>5, MailType
    <2>7. Pending(c)'
      <3>1. Len(Flow(c)') = 0
        BY <1>5, <1>7, <2>3
      <3>2. Len(Flow(c)') + Len(todo'[c]) = Symbols + 1
        BY <2>4, <2>5, <3>1
      <3> QED
        BY <2>5, <2>6, <3>1, <3>2 DEF Pending
    <2>8. Agrees(<<>>)
      BY DEF Agrees
    <2> QED
      BY <1>1, <1>2, <1>5, <1>7, <2>1, <2>2, <2>3, <2>7, <2>8 DEF OpeningOf
  <1>8. CASE d = c /\ ~Bootstrap(c)
    <2>1. /\ writer' = writer /\ pc[c] \in {"expire", "read", "leave"}
          /\ \E p \in {"expiring", "loop", "business", "closing"} : pc' = [pc EXCEPT ![c] = p]
      BY <1>8 DEF Posts, Expire, Own, Business, Disconnect, At, Goto, output
    <2>2. pc'[c] \in {"expiring", "loop", "business", "closing"}
      BY <1>1, <2>1 DEF AcceptorType
    <2>3. Pending(c)'
      BY <2>2 DEF Pending
    <2> QED
      BY <1>1, <1>3, <1>5, <1>8, <2>1, <2>2, <2>3 DEF OpeningOf
  <1> QED
    BY <1>6, <1>7, <1>8

ShapeInv == BaseInv /\ LogoutInv /\ OpeningInv

LEMMA ShapeInit == Init => ShapeInv
  <1> SUFFICES ASSUME Init PROVE ShapeInv
    OBVIOUS
  <1>1. BaseInv
    BY BaseInit
  <1>2. \A c \in Conn : /\ out[c] = <<>> /\ queue[c] = <<>> /\ writing[c] = "none"
                        /\ pc[c] = "connect" /\ writer[c] = "none" /\ step[c] = "load"
    BY DEF Init
  <1>3. LogoutInv
    BY <1>2 DEF LogoutInv
  <1>4. \A c \in Conn : Flow(c) = <<>>
    BY <1>2 DEF Flow, Stream, Held
  <1>5. Agrees(<<>>)
    BY DEF Agrees
  <1>6. OpeningInv
    BY <1>2, <1>4, <1>5 DEF OpeningInv, OpeningOf, Pending, Trying
  <1> QED
    BY <1>1, <1>3, <1>6 DEF ShapeInv

LEMMA ShapeStep == ShapeInv /\ [Next]_vars => ShapeInv'
  <1> SUFFICES ASSUME ShapeInv, [Next]_vars PROVE ShapeInv'
    OBVIOUS
  <1> USE DEF ShapeInv
  <1>1. BaseInv' /\ AcceptorType
    BY BaseStep DEF BaseInv
  <1>2. CASE UNCHANGED vars
    <2>1. \A c \in Conn : Flow(c)' = Flow(c)
      BY <1>2 DEF Flow, vars
    <2> QED
      BY <1>1, <1>2, <2>1 DEF vars, LogoutInv, OpeningInv, OpeningOf, Pending, Trying
  <1>3. ASSUME NEW c \in Conn, Writer(c) PROVE ShapeInv'
    BY <1>1, <1>3, WriterLogout, WriterOpening
  <1>4. ASSUME NEW c \in Conn, Sends(c) \/ Moves(c) \/ PeerCloses(c) PROVE LogoutInv'
    <2>1. UNCHANGED <<writer, out>>
      BY <1>4, MovesFrame DEF Sends, SendLoad, SendTry, SendStore, PeerCloses, output
    <2> QED
      BY <2>1 DEF LogoutInv
  <1>5. ASSUME NEW c \in Conn, Posts(c) PROVE LogoutInv'
    <2>1. /\ out' = out
          /\ writer' = writer \/ (writer' = [writer EXCEPT ![c] = "check"] /\ pc[c] = "setup")
      BY <1>5 DEF Posts, Bootstrap, Expire, Own, Business, Disconnect, output, At
    <2>2. \A d \in Conn : writer[d] = "done" => writer'[d] = "done"
      BY <1>1, <2>1 DEF AcceptorType
    <2> QED
      BY <2>1, <2>2 DEF LogoutInv
  <1>6. ASSUME NEW c \in Conn, PeerCloses(c) PROVE OpeningInv'
    <2>1. UNCHANGED <<pc, todo, step, queue, failed, writer, writing, out>>
      BY <1>6 DEF PeerCloses, thread, sending
    <2>2. \A d \in Conn : Flow(d)' = Flow(d)
      BY <2>1 DEF Flow
    <2> QED
      BY <2>1, <2>2 DEF OpeningInv, OpeningOf, Pending, Trying
  <1> QED
    BY <1>1, <1>2, <1>3, <1>4, <1>5, <1>6, NextCases, SendsOpening, MovesOpening, PostsOpening

\* What a peer reads has the shape of a session: before the first report come
\* the Logon reply and one definition per instrument, and nothing follows a
\* Logout, in whatever order threads and writers run and whatever is dropped.
THEOREM StreamsAreShaped == Spec => []StreamShape
  <1>1. ShapeInv => StreamShape
    <2> SUFFICES ASSUME ShapeInv, NEW c \in Conn, NEW k \in DOMAIN out[c]
                 PROVE  /\ out[c][k] = "report" => SubSeq(out[c], 1, Symbols + 1) = Opening
                        /\ out[c][k] = "logout" => k = Len(out[c])
      BY DEF StreamShape
    <2>1. out[c] \in Seq(Frame) /\ DOMAIN out[c] = 1..Len(out[c]) /\ Len(out[c]) \in Nat
      BY DEF ShapeInv, BaseInv, AcceptorType
    <2>2. out[c][k] = "logout" => k = Len(out[c])
      BY <2>1 DEF ShapeInv, LogoutInv
    <2>3. ASSUME out[c][k] = "report" PROVE SubSeq(out[c], 1, Symbols + 1) = Opening
      <3>1. Agrees(out[c])
        BY DEF ShapeInv, OpeningInv, OpeningOf
      <3>2. \A j \in 1..(Symbols + 1) : Opening[j] # "report"
        BY DEF Opening
      <3>3. Len(out[c]) >= Symbols + 1
        BY <2>1, <2>3, <3>1, <3>2, AcceptorAssumption DEF Agrees
      <3>4. \A j \in 1..(Symbols + 1) : out[c][j] = Opening[j]
        BY <2>1, <3>1, <3>3, AcceptorAssumption DEF Agrees
      <3>5. /\ SubSeq(out[c], 1, Symbols + 1) \in Seq(Frame)
            /\ Len(SubSeq(out[c], 1, Symbols + 1)) = Symbols + 1
            /\ \A j \in 1..(Symbols + 1) : SubSeq(out[c], 1, Symbols + 1)[j] = out[c][j]
        BY <2>1, <3>3, AcceptorAssumption
      <3> QED
        BY <3>4, <3>5, OpeningType, SeqEqual
    <2> QED
      BY <2>2, <2>3
  <1> QED
    BY ShapeInit, ShapeStep, <1>1, PTL DEF Spec

-----------------------------------------------------------------------------
(* Counting reports *)

\* The places P of a sequence of length n, after its element at k is taken out.
Places(P, n, k) == {j \in 1..(n - 1) : Skip(j, k) \in P}

LEMMA CountShift ==
  ASSUME NEW n \in Nat, NEW k \in 1..n, NEW P \in SUBSET (1..n)
  PROVE  Cardinality(Places(P, n, k)) = Cardinality(P \ {k})
  <1> DEFINE Q == Places(P, n, k)
  <1> USE DEF Places
  <1> DEFINE f == [j \in Q |-> Skip(j, k)]
  <1>1. f \in [Q -> P \ {k}]
    BY DEF Skip
  <1>2. \A a, b \in Q : f[a] = f[b] => a = b
    BY DEF Skip
  <1>3. \A p \in P \ {k} : \E j \in Q : f[j] = p
    <2> TAKE p \in P \ {k}
    <2> DEFINE j == IF p < k THEN p ELSE p - 1
    <2>1. j \in 1..(n - 1) /\ Skip(j, k) = p
      BY DEF Skip
    <2>2. j \in Q /\ f[j] = p
      BY <2>1
    <2> QED
      BY <2>2
  <1>4. f \in Bijection(Q, P \ {k})
    BY <1>1, <1>2, <1>3 DEF Bijection, Injection, Surjection, IsInjective
  <1>5. IsFiniteSet(Q)
    <2>1. 1 \in Int /\ n - 1 \in Int
      OBVIOUS
    <2> QED
      BY <2>1, FS_Interval, FS_Subset
  <1> QED
    BY <1>4, <1>5, FS_Bijection DEF ExistsBijection

LEMMA CountType ==
  ASSUME NEW S, NEW s \in Seq(S)
  PROVE  IsFiniteSet(Reports(s)) /\ Cardinality(Reports(s)) \in Nat
  BY PlacesFinite DEF Reports

LEMMA CountAppend ==
  ASSUME NEW s \in Seq(Frame), NEW f \in Frame
  PROVE  Cardinality(Reports(Append(s, f))) =
           Cardinality(Reports(s)) + (IF f = "report" THEN 1 ELSE 0)
  <1>1. Len(s) + 1 \notin Reports(s) /\ IsFiniteSet(Reports(s)) /\ Cardinality(Reports(s)) \in Nat
    BY CountType DEF Reports
  <1>2. CASE f = "report"
    <2>1. Reports(Append(s, f)) = Reports(s) \cup {Len(s) + 1}
      BY <1>2 DEF Reports
    <2> QED
      BY <1>1, <1>2, <2>1, FS_AddElement
  <1>3. CASE f # "report"
    <2>1. Reports(Append(s, f)) = Reports(s)
      BY <1>3 DEF Reports
    <2> QED
      BY <1>1, <1>3, <2>1
  <1> QED
    BY <1>2, <1>3

LEMMA CountCut ==
  ASSUME NEW s \in Seq(Frame), NEW t \in Seq(Frame), NEW k \in 1..Len(s), s[k] # "report",
         CutAt(t, s, k)
  PROVE  Cardinality(Reports(t)) = Cardinality(Reports(s))
  <1>1. Len(s) \in Nat /\ Reports(s) \in SUBSET (1..Len(s)) /\ Reports(s) \ {k} = Reports(s)
    BY DEF Reports
  <1>2. Reports(t) = Places(Reports(s), Len(s), k)
    <2>1. /\ DOMAIN t = 1..(Len(s) - 1) /\ DOMAIN s = 1..Len(s)
          /\ \A j \in 1..(Len(s) - 1) : t[j] = s[Skip(j, k)] /\ Skip(j, k) \in 1..Len(s)
      BY DEF CutAt, Skip
    <2> QED
      BY <2>1 DEF Reports, Places
  <1>3. Cardinality(Reports(t)) = Cardinality(Reports(s) \ {k})
    BY <1>1, <1>2, CountShift
  <1> QED
    BY <1>1, <1>3

LEMMA CountTail ==
  ASSUME NEW mails \in Seq(Letter), mails # <<>>, NEW c \in Conn
  PROVE  Cardinality(ReportsTo(c, mails)) =
           Cardinality(ReportsTo(c, Tail(mails)))
             + (IF mails[1].to = c /\ mails[1].msg = "report" THEN 1 ELSE 0)
  <1> DEFINE P == ReportsTo(c, mails)
             Q == ReportsTo(c, Tail(mails))
             n == Len(mails)
  <1>1. /\ n \in Nat /\ 1 \in 1..n /\ P \in SUBSET (1..n) /\ mails[1] \in Letter
        /\ Len(Tail(mails)) = n - 1
        /\ \A j \in 1..(n - 1) : Tail(mails)[j] = mails[j + 1] /\ j + 1 \in 1..n
        /\ DOMAIN Tail(mails) = 1..(n - 1) /\ DOMAIN mails = 1..n
    BY DEF ReportsTo
  <1>2. Q = Places(P, n, 1)
    <2>1. Q \in SUBSET (1..(n - 1)) /\ \A j \in 1..(n - 1) : j \in Q <=> j + 1 \in P
      BY <1>1 DEF ReportsTo
    <2>2. \A j \in 1..(n - 1) : Skip(j, 1) = j + 1
      BY <1>1 DEF Skip
    <2> HIDE DEF P, Q, n
    <2> QED
      BY <2>1, <2>2 DEF Places
  <1>3. 1 \in P <=> mails[1].to = c /\ mails[1].msg = "report"
    BY <1>1, MailsDiffer DEF ReportsTo
  <1>4. IsFiniteSet(P) /\ Cardinality(P) \in Nat
    BY <1>1, PlacesFinite
  <1> HIDE DEF P, Q, n
  <1>5. Cardinality(Q) = Cardinality(P \ {1})
    BY <1>1, <1>2, CountShift
  <1>6. Cardinality(P \ {1}) = IF 1 \in P THEN Cardinality(P) - 1 ELSE Cardinality(P)
    BY <1>4, FS_RemoveElement
  <1>7. Cardinality(P) = Cardinality(Q) + (IF mails[1].to = c /\ mails[1].msg = "report" THEN 1 ELSE 0)
    BY <1>3, <1>4, <1>5, <1>6
  <1> QED
    BY <1>7 DEF P, Q

-----------------------------------------------------------------------------
(* Complete streams *)

N(s) == Cardinality(Reports(s))

\* Reports to c that the holder of the lock has still to send.
OwedBy(holder, letters, c) ==
    IF holder = NoConn THEN 0 ELSE Cardinality(ReportsTo(c, letters[holder]))

Owed(c) == OwedBy(lock, todo, c)

\* Thread d could not queue for c and is about to say so.
Storing(d, c) == step[d] = "store" /\ todo[d] # <<>> /\ todo[d][1].to = c

\* A message to c may have been dropped.
Lossy(c) == failed[c] \/ writer[c] = "done" \/ \E d \in Conn : Storing(d, c)

Over == {"closing", "join", "done"}

CompleteOf(c) ==
    /\ ~Lossy(c) => N(Flow(c)) + Owed(c) = due[c]
    /\ pc[c] = "closing" /\ step[c] = "try" /\ writer[c] # "done" => N(Flow(c)) = due[c]
    /\ writer[c] # "done" =>
         \A k \in 1..Len(Flow(c)) : Flow(c)[k] = "logout" =>
            k = Len(Flow(c)) /\ N(Flow(c)) = due[c] /\ pc[c] \in Over /\ todo[c] = <<>>
    /\ \A k \in 1..Len(out[c]) : out[c][k] = "logout" => N(out[c]) = due[c] /\ pc[c] \in Over

\* As long as nothing was dropped, what is in the stream and what is owed are
\* all the reports addressed to c; a Logout finds nothing owed.
CompleteInv == \A c \in Conn : CompleteOf(c)

LEMMA OwedType ==
  ASSUME NEW c \in Conn, NEW d \in Conn \cup {NoConn}, NEW t \in [Conn -> Seq(Letter)]
  PROVE  OwedBy(d, t, c) \in Nat
  <1>1. d # NoConn => t[d] \in Seq(Letter)
    OBVIOUS
  <1> QED
    BY <1>1, PlacesFinite DEF OwedBy, ReportsTo

\* A step that leaves the stream of c alone.
LEMMA CompleteKeep ==
  ASSUME AcceptorType, AcceptorType', NEW c \in Conn, CompleteOf(c),
         Flow(c)' = Flow(c), out'[c] = out[c], writer[c] = "done" <=> writer'[c] = "done",
         pc[c] \in Over => /\ pc'[c] \in Over /\ due'[c] = due[c]
                           /\ todo[c] = <<>> => todo'[c] = <<>>,
         pc'[c] = "closing" /\ step'[c] = "try" =>
            pc[c] = "closing" /\ step[c] = "try" /\ due'[c] = due[c],
         ~Lossy(c)' => ~Lossy(c) /\ Owed(c)' + due[c] = Owed(c) + due'[c]
  PROVE  CompleteOf(c)'
  <1>1. ASSUME ~Lossy(c)' PROVE N(Flow(c)) + Owed(c)' = due'[c]
    <2>1. /\ Owed(c) \in Nat /\ due[c] \in Nat /\ N(Flow(c)) \in Nat
          /\ Owed(c)' \in Nat /\ due'[c] \in Nat
      <3>1. N(Flow(c)) \in Nat
        BY FlowType, CountType DEF N
      <3> QED
        BY <3>1, OwedType DEF Owed, AcceptorType
    <2>2. N(Flow(c)) + Owed(c) = due[c] /\ Owed(c)' + due[c] = Owed(c) + due'[c]
      BY <1>1 DEF CompleteOf
    <2>3. PICK n \in Nat, o \in Nat, p \in Nat, x \in Nat, y \in Nat :
             n = N(Flow(c)) /\ o = Owed(c) /\ p = Owed(c)' /\ x = due[c] /\ y = due'[c]
      BY <2>1
    <2>4. n + o = x /\ p + x = o + y
      BY <2>2, <2>3
    <2>5. n + p = y
      BY <2>4
    <2> QED
      BY <2>3, <2>5
  <1> QED
    BY <1>1 DEF CompleteOf

LEMMA OwedNothing ==
  ASSUME NEW c \in Conn, NEW d \in Conn, NEW t, t[d] = <<>>
  PROVE  OwedBy(d, t, c) = 0 /\ OwedBy(NoConn, t, c) = 0
  <1>1. ReportsTo(c, <<>>) = {}
    BY DEF ReportsTo
  <1> QED
    BY <1>1, FS_EmptySet DEF OwedBy

LEMMA MovesComplete ==
  ASSUME BaseInv, AcceptorType', CompleteInv, NEW c \in Conn, Moves(c)
  PROVE  CompleteInv'
  <1>1. UNCHANGED <<todo, step, queue, failed, writer, writing, out, due>> /\ AcceptorType
    BY MovesFrame DEF BaseInv
  <1>2. \E p \in Pc : /\ pc' = [pc EXCEPT ![c] = p] /\ p # "closing"
                      /\ pc[c] \in Over => p \in Over
    BY DEF Moves, Reserve, Refuse, SetupFails, Register, Check, NothingExpires, ExpireDone,
           Poll, BusinessDone, Eof, Ends, Closed, Join, Goto, At, Pc, Over
  <1>3. lock' = lock \/ (lock' = NoConn /\ lock = c /\ todo[c] = <<>>)
    <2>1. /\ todo[c] = <<>>
          /\ lock' = lock \/ (lock' = NoConn /\ pc[c] \in {"expiring", "business", "closing"})
      BY DEF Moves, Reserve, Refuse, SetupFails, Register, Check, NothingExpires, ExpireDone,
             Poll, BusinessDone, Eof, Ends, Closed, Join, At, engine
    <2> QED
      BY <2>1 DEF BaseInv, LockInv
  <1> SUFFICES ASSUME NEW d \in Conn PROVE CompleteOf(d)'
    BY DEF CompleteInv
  <1>4. Flow(d)' = Flow(d) /\ CompleteOf(d) /\ (Lossy(d)' <=> Lossy(d))
    BY <1>1 DEF Flow, CompleteInv, Lossy, Storing
  <1>5. Owed(d)' = Owed(d)
    <2>1. CASE lock' = lock
      BY <1>1, <2>1 DEF Owed
    <2>2. CASE lock' = NoConn /\ lock = c /\ todo[c] = <<>>
      BY <1>1, <2>2, OwedNothing DEF Owed
    <2> QED
      BY <1>3, <2>1, <2>2
  <1>6. /\ pc[d] \in Over => pc'[d] \in Over
        /\ pc'[d] = "closing" => pc[d] = "closing"
    BY <1>1, <1>2 DEF AcceptorType
  <1> QED
    BY <1>1, <1>4, <1>5, <1>6, CompleteKeep

\* Nobody is told anything by the engine once it is over.
LEMMA OverNotAddressed ==
  ASSUME BaseInv, NEW c \in Conn, NEW mails \in Addressed \cup Answers(c),
         NEW d \in Conn, pc[d] \in Over
  PROVE  Cardinality(ReportsTo(d, mails)) = 0
  <1>1. /\ mails \in Seq(Letter)
        /\ \A i \in DOMAIN mails :
              \/ mails[i].msg = "report" /\ \E n \in Parties : mails[i].to = sinks[n]
              \/ mails[i].msg = "own" /\ mails[i].to = c
    BY MailsType DEF BaseInv
  <1>2. \A n \in Parties : sinks[n] # d
    BY DEF BaseInv, NamesInv, SinkIsLive, Parties, Over
  <1>3. \A i \in DOMAIN mails : ~(mails[i].to = d /\ mails[i].msg = "report")
    BY <1>1, <1>2
  <1>4. \A i \in DOMAIN mails : mails[i] \in Letter
    BY <1>1
  <1>5. ReportsTo(d, mails) = {}
    BY <1>3, <1>4, MailsDiffer DEF ReportsTo
  <1> QED
    BY <1>5, FS_EmptySet

LEMMA PostsComplete ==
  ASSUME BaseInv, AcceptorType', CompleteInv, NEW c \in Conn, Posts(c)
  PROVE  CompleteInv'
  <1>1. UNCHANGED <<step, queue, failed, writing, out>> /\ AcceptorType /\ TodoInv /\ LockInv
    BY DEF BaseInv, Posts, Bootstrap, Expire, Own, Business, Disconnect, output
  <1>2. /\ todo[c] = <<>> /\ step[c] = "load" /\ \A d \in Conn \ {c} : todo'[d] = todo[d]
        /\ todo' \in [Conn -> Seq(Letter)]
    <2>1. todo[c] = <<>> /\ \E t : todo' = [todo EXCEPT ![c] = t]
      BY DEF Posts, Bootstrap, Expire, Own, Business, Disconnect, At, Locked
    <2> QED
      BY <1>1, <2>1 DEF AcceptorType, TodoInv
  <1>3. /\ pc[c] \in {"setup", "expire", "read", "leave"}
        /\ \A d \in Conn \ {c} : pc'[d] = pc[d]
    <2>1. (\E p : pc' = [pc EXCEPT ![c] = p]) /\ pc[c] \in {"setup", "expire", "read", "leave"}
      BY DEF Posts, Bootstrap, Expire, Own, Business, Disconnect, Goto, At
    <2> QED
      BY <1>1, <2>1 DEF AcceptorType
  <1>4. \A d \in Conn : writer[d] = "done" <=> writer'[d] = "done"
    <2>1. writer' = writer \/ (writer' = [writer EXCEPT ![c] = "check"] /\ pc[c] = "setup")
      BY DEF Posts, Bootstrap, Expire, Own, Business, Disconnect, output, At
    <2>2. pc[c] = "setup" => writer[c] # "done"
      BY <1>1 DEF AcceptorType
    <2>3. DOMAIN writer = Conn
      BY <1>1 DEF AcceptorType
    <2> QED
      BY <2>1, <2>2, <2>3
  <1>5. \A d \in Conn : Lossy(d) <=> Lossy(d)'
    <2>1. \A d, e \in Conn : Storing(e, d) <=> Storing(e, d)'
      BY <1>1, <1>2 DEF Storing
    <2> QED
      BY <1>1, <1>4, <2>1 DEF Lossy
  <1>6. \A d \in Conn : Owed(d)' + due[d] = Owed(d) + due'[d]
    <2> TAKE d \in Conn
    <2>1. CASE Bootstrap(c) \/ Own(c)
      <3>1. lock' = lock /\ due' = due /\ lock # c
        BY <1>1, <1>3, <2>1 DEF Bootstrap, Own, engine, LockInv
      <3>2. lock # NoConn => todo'[lock] = todo[lock]
        BY <1>1, <1>2, <3>1 DEF AcceptorType
      <3>3. Owed(d)' = Owed(d)
        BY <3>1, <3>2 DEF Owed, OwedBy
      <3> QED
        BY <3>1, <3>3
    <2>2. CASE Expire(c) \/ Business(c)
      <3>1. PICK mails \in Addressed \cup Answers(c) : Locked(c, mails)
        BY <2>2 DEF Expire, Business
      <3>2. lock = NoConn /\ lock' = c /\ todo'[c] = mails
        BY <1>1, <3>1 DEF Locked, AcceptorType
      <3>3. due'[d] = due[d] + Cardinality(ReportsTo(d, mails))
        BY <3>1 DEF Locked
      <3>4. Owed(d) = 0 /\ Owed(d)' = Cardinality(ReportsTo(d, mails))
        BY <3>2, AcceptorAssumption DEF Owed, OwedBy
      <3>5. Owed(d)' \in Nat /\ due[d] \in Nat
        BY <1>1, <1>2, <3>2, OwedType DEF Owed, AcceptorType
      <3> QED
        BY <3>3, <3>4, <3>5
    <2>3. CASE Disconnect(c)
      <3> DEFINE f == IF logout[c] THEN "logout" ELSE "shutdown"
      <3>1. /\ lock = NoConn /\ lock' = c /\ due' = due
            /\ todo'[c] = <<Mail(c, f)>>
        BY <1>1, <2>3 DEF Disconnect, AcceptorType
      <3>2. Mail(c, f) \in Letter /\ Mail(c, f).msg # "report"
        BY MailType DEF Frame
      <3> HIDE DEF f
      <3>3. ReportsTo(d, <<Mail(c, f)>>) = {}
        BY <3>2, MailsDiffer DEF ReportsTo
      <3>4. Owed(d) = 0 /\ Owed(d)' = 0
        BY <3>1, <3>3, AcceptorAssumption, FS_EmptySet DEF Owed, OwedBy
      <3> QED
        BY <3>1, <3>4
    <2> QED
      BY <2>1, <2>2, <2>3 DEF Posts
  <1>7. \A d \in Conn : pc[d] \in {"closing", "join", "done"} => due'[d] = due[d]
    <2> SUFFICES ASSUME NEW d \in Conn, pc[d] \in Over PROVE due'[d] = due[d]
      BY DEF Over
    <2>1. CASE ~(Expire(c) \/ Business(c))
      BY <2>1 DEF Posts, Bootstrap, Own, Disconnect
    <2>2. CASE Expire(c) \/ Business(c)
      <3>1. PICK mails \in Addressed \cup Answers(c) : Locked(c, mails)
        BY <2>2 DEF Expire, Business
      <3>2. due'[d] = due[d] + Cardinality(ReportsTo(d, mails)) /\ due[d] \in Nat
        BY <1>1, <3>1 DEF Locked, AcceptorType
      <3>3. Cardinality(ReportsTo(d, mails)) = 0
        BY OverNotAddressed
      <3> QED
        BY <3>2, <3>3
    <2> QED
      BY <2>1, <2>2
  <1> SUFFICES ASSUME NEW d \in Conn PROVE CompleteOf(d)'
    BY DEF CompleteInv
  <1>8. Flow(d)' = Flow(d) /\ CompleteOf(d)
    BY <1>1 DEF Flow, CompleteInv
  <1>9. pc[d] \in Over => /\ pc'[d] \in Over /\ due'[d] = due[d]
                          /\ todo[d] = <<>> => todo'[d] = <<>>
    BY <1>2, <1>3, <1>7 DEF Over
  <1>10. pc'[d] = "closing" /\ step'[d] = "try" =>
            pc[d] = "closing" /\ step[d] = "try" /\ due'[d] = due[d]
    BY <1>1, <1>2, <1>3, <1>7
  <1> QED
    BY <1>1, <1>4, <1>5, <1>6, <1>8, <1>9, <1>10, CompleteKeep

LEMMA WriterComplete ==
  ASSUME AcceptorType, AcceptorType', LogoutInv, CompleteInv, NEW c \in Conn, Writer(c)
  PROVE  CompleteInv'
  <1>1. UNCHANGED <<todo, step, failed, pc, lock, due>> /\ writer[c] # "done"
    BY WriterSteps, OthersFrame
  <1>2. \A d, e \in Conn : Storing(e, d)' <=> Storing(e, d)
    BY <1>1 DEF Storing
  <1> SUFFICES ASSUME NEW d \in Conn PROVE CompleteOf(d)'
    BY DEF CompleteInv
  <1>3. Owed(d)' = Owed(d) /\ CompleteOf(d)
    BY <1>1 DEF Owed, CompleteInv
  <1>4. CASE d # c
    <2>1. out'[d] = out[d] /\ writer'[d] = writer[d] /\ Flow(d)' = Flow(d)
      BY <1>4, WriterSteps DEF Flow
    <2>2. Lossy(d)' <=> Lossy(d)
      BY <1>1, <1>2, <2>1 DEF Lossy
    <2> QED
      BY <1>1, <1>3, <2>1, <2>2, CompleteKeep
  <1>5. CASE d = c
    <2>1. out[c] \in Seq(Frame) /\ \A k \in 1..Len(out[c]) : out[c][k] # "logout"
      BY <1>1 DEF LogoutInv, AcceptorType
    <2>2. /\ \/ out'[c] = out[c]
             \/ /\ out'[c] = Append(out[c], writing[c])
                /\ writing[c] \in Frame \ Minor
                /\ writing[c] = "logout" => writer'[c] = "done"
          /\ writer'[c] # "done" =>
              \/ Flow(c)' = Flow(c)
              \/ \E k \in 1..Len(Flow(c)) : Flow(c)[k] \in Minor /\ CutAt(Flow(c)', Flow(c), k)
      BY WriterSteps
    \* a Logout that is written is the last of a complete stream
    <2>3. \A k \in 1..Len(out'[c]) : out'[c][k] = "logout" => N(out'[c]) = due[c] /\ pc[c] \in Over
      <3>1. CASE out'[c] = out[c]
        BY <2>1, <3>1
      <3>2. CASE /\ out'[c] = Append(out[c], writing[c]) /\ writing[c] \in Frame
                 /\ writing[c] # "logout"
        BY <2>1, <3>2
      <3>3. CASE out'[c] = Append(out[c], "logout") /\ writing[c] = "logout"
        <4>1. queue[c] \in Seq(Frame) /\ Len(queue[c]) \in Nat /\ Len(out[c]) \in Nat
          <5>1. queue[c] \in Seq(Frame)
            BY DEF AcceptorType
          <5> QED
            BY <2>1, <5>1
        <4>2. "logout" \in Frame /\ "logout" \notin Minor
          BY DEF Frame, Minor
        <4>3. /\ Len(Flow(c)) = Len(out[c]) + 1 + Len(queue[c])
              /\ Flow(c)[Len(out[c]) + 1] = "logout"
              /\ Len(queue[c]) = 0 => Flow(c) = Append(out[c], "logout")
          <5>1. Flow(c) = Stream(out[c], "logout", queue[c])
            BY <3>3 DEF Flow
          <5>2. /\ Len(Stream(out[c], "logout", queue[c])) = Len(out[c]) + 1 + Len(queue[c])
                /\ Stream(out[c], "logout", queue[c])[Len(out[c]) + 1] = "logout"
                /\ Len(queue[c]) = 0 => Stream(out[c], "logout", queue[c]) = Append(out[c], "logout")
            BY <2>1, <4>1, <4>2, HeldNext
          <5> QED
            BY <5>1, <5>2
        <4>4. Len(out[c]) + 1 \in 1..Len(Flow(c))
          <5>1. \A m, n \in Nat : n + 1 \in 1..(n + 1 + m)
            OBVIOUS
          <5> QED
            BY <4>1, <4>3, <5>1
        <4>5. Len(out[c]) + 1 = Len(Flow(c)) /\ N(Flow(c)) = due[c] /\ pc[c] \in Over
          BY <1>1, <1>3, <1>5, <4>3, <4>4 DEF CompleteOf
        <4>6. Len(queue[c]) = 0
          <5>1. \A m, n \in Nat : n + 1 = n + 1 + m => m = 0
            OBVIOUS
          <5> QED
            BY <4>1, <4>3, <4>5, <5>1
        <4> QED
          BY <3>3, <4>3, <4>5, <4>6
      <3> QED
        BY <2>2, <3>1, <3>2, <3>3
    <2>4. CASE writer'[c] = "done"
      BY <1>1, <1>5, <2>3, <2>4 DEF CompleteOf, Lossy
    <2>5. CASE writer'[c] # "done" /\ Flow(c)' = Flow(c)
      <3>1. Lossy(c)' <=> Lossy(c)
        BY <1>1, <1>2, <2>5 DEF Lossy
      <3> QED
        BY <1>1, <1>3, <1>5, <2>3, <2>5, <3>1 DEF CompleteOf
    <2>6. ASSUME writer'[c] # "done", NEW k \in 1..Len(Flow(c)), Flow(c)[k] \in Minor,
                 CutAt(Flow(c)', Flow(c), k)
          PROVE  CompleteOf(d)'
      <3>1. Lossy(c)' <=> Lossy(c)
        BY <1>1, <1>2, <2>6 DEF Lossy
      <3>2. Flow(c) \in Seq(Frame) /\ Flow(c)' \in Seq(Frame) /\ Flow(c)[k] # "report"
        <4>1. /\ out[c] \in Seq(Frame) /\ writing[c] \in Frame \cup {"none"}
              /\ queue[c] \in Seq(Frame)
              /\ out'[c] \in Seq(Frame) /\ writing'[c] \in Frame \cup {"none"}
              /\ queue'[c] \in Seq(Frame)
          BY DEF AcceptorType
        <4>2. Flow(c)[k] # "report"
          BY <2>6 DEF Minor
        <4> QED
          BY <4>1, <4>2, StreamType DEF Flow
      <3>3. N(Flow(c)') = N(Flow(c))
        BY <2>6, <3>2, CountCut DEF N
      <3>4. ASSUME NEW j \in 1..Len(Flow(c)'), Flow(c)'[j] = "logout"
            PROVE  /\ j = Len(Flow(c)') /\ N(Flow(c)) = due[c] /\ pc[c] \in Over
                   /\ todo[c] = <<>>
        <4>1. /\ Skip(j, k) \in 1..Len(Flow(c)) /\ Flow(c)[Skip(j, k)] = "logout"
              /\ Skip(j, k) = Len(Flow(c)) => j = Len(Flow(c)')
          <5>1. Len(Flow(c)') = Len(Flow(c)) - 1 /\ Flow(c)'[j] = Flow(c)[Skip(j, k)]
            BY <2>6 DEF CutAt
          <5>2. Len(Flow(c)) \in Nat
            BY <3>2
          <5>3. j \in 1..(Len(Flow(c)) - 1)
            BY <5>1
          <5>4. \A n \in Nat : \A i \in 1..(n - 1), l \in 1..n :
                   Skip(i, l) \in 1..n /\ (Skip(i, l) = n => i = n - 1)
            BY DEF Skip
          <5> QED
            BY <3>4, <5>1, <5>2, <5>3, <5>4
        <4> QED
          BY <1>1, <1>3, <1>5, <4>1 DEF CompleteOf
      <3> QED
        BY <1>1, <1>3, <1>5, <2>3, <2>6, <3>1, <3>3, <3>4 DEF CompleteOf
    <2> QED
      BY <2>2, <2>4, <2>5, <2>6
  <1> QED
    BY <1>4, <1>5

\* A send that is done takes its letter from what is owed.
LEMMA OwedDone ==
  ASSUME BaseInv, NEW c \in Conn, todo[c] # <<>>, SendDone(c), UNCHANGED lock, NEW d \in Conn
  PROVE  Owed(d) = Owed(d)' + (IF todo[c][1].to = d /\ todo[c][1].msg = "report" THEN 1 ELSE 0)
  <1>1. /\ todo[c] \in Seq(Letter) /\ todo' = [todo EXCEPT ![c] = Tail(todo[c])]
        /\ c \in DOMAIN todo /\ AcceptorType
    BY DEF BaseInv, AcceptorType, SendDone
  <1>2. CASE lock = c
    <2>1. Cardinality(ReportsTo(d, todo[c])) =
           Cardinality(ReportsTo(d, Tail(todo[c])))
             + (IF todo[c][1].to = d /\ todo[c][1].msg = "report" THEN 1 ELSE 0)
      BY <1>1, CountTail
    <2>2. todo'[c] = Tail(todo[c]) /\ c # NoConn
      BY <1>1, AcceptorAssumption
    <2> QED
      BY <1>2, <2>1, <2>2 DEF Owed, OwedBy
  <1>3. CASE lock # c
    <2>1. todo[c][1].msg # "report"
      <3>1. Proper(pc, c, todo[c][1]) /\ pc[c] \notin {"expiring", "business"}
        BY <1>3, FirstLetter DEF BaseInv, LockInv
      <3> QED
        BY <3>1 DEF Proper
    <2>2. lock # NoConn => todo'[lock] = todo[lock]
      BY <1>1, <1>3 DEF AcceptorType
    <2>3. Owed(d)' = Owed(d)
      BY <2>2 DEF Owed, OwedBy
    <2>4. Owed(d) \in Nat
      BY <1>1, OwedType DEF Owed, AcceptorType
    <2> QED
      BY <2>1, <2>3, <2>4
  <1> QED
    BY <1>2, <1>3

\* A connection whose stream a send does not change.
LEMMA SendKeeps ==
  ASSUME BaseInv, AcceptorType', CompleteInv, NEW c \in Conn, NEW d \in Conn,
         UNCHANGED <<pc, lock, due, writer, writing, out>>, queue'[d] = queue[d],
         todo[c] # <<>>,
         \/ SendDone(c)
         \/ todo' = todo /\ \E p : step' = [step EXCEPT ![c] = p] /\ (p = "try" /\ d = c => pc[c] # "closing"),
         ~Lossy(d)' => ~Lossy(d) /\ (todo' = todo \/ todo[c][1].to # d)
  PROVE  CompleteOf(d)'
  <1>1. CompleteOf(d) /\ Flow(d)' = Flow(d) /\ AcceptorType /\ writer'[d] = writer[d]
        /\ pc'[d] = pc[d] /\ due'[d] = due[d] /\ out'[d] = out[d]
    BY DEF CompleteInv, Flow, BaseInv
  <1>2. CASE SendDone(c)
    <2>1. todo[d] = <<>> => todo'[d] = <<>>
      BY <1>1, <1>2, DoneTail
    <2>2. step'[d] = "try" => step[d] = "try"
      BY <1>1, <1>2, DoneTail
    <2>3. ~Lossy(d)' => Owed(d)' = Owed(d)
      <3>1. Owed(d)' \in Nat
        BY OwedType DEF Owed, AcceptorType
      <3>2. todo' # todo
        <4>1. Len(todo'[c]) = Len(todo[c]) - 1 /\ todo[c] \in Seq(Letter)
          <5>1. todo[c] \in Seq(Letter)
            BY <1>1 DEF AcceptorType
          <5> QED
            BY <1>1, <1>2, <5>1, DoneTail
        <4> QED
          BY <4>1
      <3> QED
        BY <1>2, <3>1, <3>2, OwedDone
    <2> QED
      BY <1>1, <2>1, <2>2, <2>3, CompleteKeep
  <1>3. CASE todo' = todo /\ \E p : step' = [step EXCEPT ![c] = p] /\ (p = "try" /\ d = c => pc[c] # "closing")
    <2>1. Owed(d)' = Owed(d)
      BY <1>3 DEF Owed
    <2>2. pc[d] = "closing" /\ step'[d] = "try" => step[d] = "try"
      BY <1>1, <1>3 DEF AcceptorType
    <2> QED
      BY <1>1, <1>3, <2>1, <2>2, CompleteKeep
  <1> QED
    BY <1>2, <1>3

\* The message is queued: at most one report more in the stream, and that one
\* less is owed; a Logout joins a complete stream.
LEMMA QueuedComplete ==
  ASSUME BaseInv, AcceptorType', CompleteInv, NEW c \in Conn, Sends(c), NEW to \in Conn,
         NEW f \in Frame, Queues(c, to, f)
  PROVE  CompleteInv'
  <1>1. /\ Proper(pc, c, todo[c][1]) /\ todo[c] # <<>> /\ AcceptorType
        /\ UNCHANGED <<pc, lock, due, writer, writing, out>>
        /\ step[c] = "try" /\ todo[c][1].to = to /\ todo[c][1].msg = f
        /\ writer[to] # "done" /\ SendDone(c) /\ UNCHANGED failed
    BY SendSteps DEF BaseInv, Queues
  <1>2. queue'[to] = Append(queue[to], f) /\ \A d \in Conn \ {to} : queue'[d] = queue[d]
    <2>1. DOMAIN queue = Conn
      BY <1>1 DEF AcceptorType
    <2> QED
      BY <2>1 DEF Queues
  <1>3. Flow(to)' = Append(Flow(to), f) /\ Flow(to) \in Seq(Frame)
    BY <1>1, <1>2, QueuedFlow
  <1>4. \A d \in Conn : Lossy(d)' <=> Lossy(d)
    <2>1. \A d, e \in Conn : Storing(e, d)' <=> Storing(e, d)
      <3> TAKE d, e \in Conn
      <3>1. CASE e = c
        BY <1>1, <3>1, DoneTail DEF Storing
      <3>2. CASE e # c
        BY <1>1, <3>2, DoneTail DEF Storing
      <3> QED
        BY <3>1, <3>2
    <2> QED
      BY <1>1, <2>1 DEF Lossy
  <1>5. \A d \in Conn \ {to} : CompleteOf(d)'
    BY <1>1, <1>2, <1>4, SendKeeps
  <1>6. N(Flow(to)') = N(Flow(to)) + (IF f = "report" THEN 1 ELSE 0)
    BY <1>3, CountAppend DEF N
  <1>7. ~Lossy(to) => N(Flow(to)') + Owed(to)' = due[to]
    <2> SUFFICES ASSUME ~Lossy(to) PROVE N(Flow(to)') + Owed(to)' = due[to]
      OBVIOUS
    <2>1. N(Flow(to)) + Owed(to) = due[to]
      BY DEF CompleteInv, CompleteOf
    <2>2. Owed(to) = Owed(to)' + (IF f = "report" THEN 1 ELSE 0)
      BY <1>1, OwedDone
    <2>3. N(Flow(to)) \in Nat /\ Owed(to)' \in Nat
      <3>1. N(Flow(to)) \in Nat
        BY <1>3, CountType DEF N
      <3> QED
        BY <3>1, OwedType DEF Owed, AcceptorType
    <2>4. PICK n \in Nat, o \in Nat, i \in {0, 1} :
             /\ n = N(Flow(to)) /\ o = Owed(to)' /\ i = (IF f = "report" THEN 1 ELSE 0)
      BY <2>3
    <2>5. n + (o + i) = due[to] /\ N(Flow(to)') = n + i
      BY <1>6, <2>1, <2>2, <2>4
    <2>6. (n + i) + o = n + (o + i)
      OBVIOUS
    <2> QED
      BY <2>4, <2>5, <2>6
  \* no Logout was there before
  <1>8. \A k \in 1..Len(Flow(to)) : Flow(to)[k] # "logout"
    <2>1. ~(pc[to] \in Over /\ todo[to] = <<>>)
      BY <1>1, ToOther DEF Live, Over
    <2> QED
      BY <1>1, <2>1 DEF CompleteInv, CompleteOf
  <1>9. f = "logout" => N(Flow(to)') = due[to] /\ pc[to] \in Over /\ todo'[to] = <<>>
    <2> SUFFICES ASSUME f = "logout"
                 PROVE  N(Flow(to)') = due[to] /\ pc[to] \in Over /\ todo'[to] = <<>>
      OBVIOUS
    <2>1. to = c /\ pc[c] = "closing"
      BY <1>1 DEF Proper
    <2>2. N(Flow(to)) = due[to] /\ due[to] \in Nat
      BY <1>1, <2>1 DEF CompleteInv, CompleteOf, AcceptorType
    <2>3. N(Flow(to)') = due[to]
      BY <1>6, <2>2
    <2>4. todo'[c] = <<>>
      <3>1. todo'[c] \in Seq(Letter) /\ todo[c] \in Seq(Letter)
        BY <1>1 DEF AcceptorType
      <3>2. Len(todo[c]) <= 1 /\ Len(todo'[c]) = Len(todo[c]) - 1
        <4>1. Len(todo[c]) <= 1
          BY <2>1 DEF BaseInv, TodoInv
        <4> QED
          BY <1>1, <4>1, DoneTail
      <3> QED
        BY <1>1, <3>1, <3>2
    <2> QED
      BY <2>1, <2>3, <2>4 DEF Over
  <1>10. CompleteOf(to)'
    <2>1. ~(pc[to] = "closing" /\ step'[to] = "try")
      BY <1>1, ToOther, DoneTail DEF Live
    <2>2. \A k \in 1..Len(Flow(to)') : Flow(to)'[k] = "logout" => k = Len(Flow(to)') /\ f = "logout"
      BY <1>3, <1>8
    <2>3. \A k \in 1..Len(out[to]) : out[to][k] = "logout" => N(out[to]) = due[to] /\ pc[to] \in Over
      BY DEF CompleteInv, CompleteOf
    <2> QED
      BY <1>1, <1>4, <1>7, <1>9, <2>1, <2>2, <2>3 DEF CompleteOf
  <1> QED
    BY <1>5, <1>10 DEF CompleteInv

\* Before it sends its Logout a thread finds its connection in order: since it
\* has the lock, nobody else may be about to drop a report to it.
LEMMA LogoutFindsAll ==
  ASSUME BaseInv, CompleteInv, NEW c \in Conn, todo[c] # <<>>, pc[c] = "closing",
         step[c] = "load", ~failed[c], writer[c] # "done"
  PROVE  N(Flow(c)) = due[c]
  <1>1. ~\E d \in Conn : Storing(d, c)
    <2> SUFFICES ASSUME NEW d \in Conn, Storing(d, c) PROVE FALSE
      OBVIOUS
    <2>1. d # c /\ todo[d] # <<>> /\ todo[d][1].to = c
      BY DEF Storing
    <2>2. Proper(pc, d, todo[d][1])
      BY <2>1, FirstLetter DEF BaseInv
    <2> QED
      BY <2>1, <2>2 DEF Proper, Live
  <1>2. N(Flow(c)) + Owed(c) = due[c]
    BY <1>1 DEF CompleteInv, CompleteOf, Lossy
  <1>3. Owed(c) = 0
    <2>1. lock = c /\ c # NoConn /\ todo[c] \in Seq(Letter)
      BY AcceptorAssumption DEF BaseInv, LockInv, AcceptorType
    <2>2. \A i \in DOMAIN todo[c] : todo[c][i] \in Letter /\ todo[c][i].msg # "report"
      BY <2>1 DEF BaseInv, TodoInv, Proper
    <2>3. ReportsTo(c, todo[c]) = {}
      BY <2>2, MailsDiffer DEF ReportsTo
    <2> QED
      BY <2>1, <2>3, FS_EmptySet DEF Owed, OwedBy
  <1>4. N(Flow(c)) \in Nat
    BY FlowType, CountType DEF N, BaseInv
  <1> QED
    BY <1>2, <1>3, <1>4

LEMMA SendsComplete ==
  ASSUME BaseInv, AcceptorType', CompleteInv, NEW c \in Conn, Sends(c)
  PROVE  CompleteInv'
  <1> PICK m : m = todo[c][1]
    OBVIOUS
  <1>1. /\ m.to \in Conn /\ m.msg \in Frame /\ Proper(pc, c, m) /\ todo[c] # <<>>
        /\ UNCHANGED <<pc, lock, due, writer, writing, out>> /\ AcceptorType
    BY SendSteps DEF BaseInv
  <1>2. SendDone(c) /\ step[c] # "store" => \A d, e \in Conn : Storing(e, d)' <=> Storing(e, d)
    <2> SUFFICES ASSUME SendDone(c), step[c] # "store", NEW d \in Conn, NEW e \in Conn
                 PROVE  Storing(e, d)' <=> Storing(e, d)
      OBVIOUS
    <2>1. CASE e = c
      BY <1>1, <2>1, DoneTail DEF Storing
    <2>2. CASE e # c
      BY <1>1, <2>2, DoneTail DEF Storing
    <2> QED
      BY <2>1, <2>2
  \* dropped: the connection has failed
  <1>3. CASE step[c] = "load" /\ failed[m.to] /\ UNCHANGED <<failed, queue>> /\ SendDone(c)
    <2> SUFFICES ASSUME NEW d \in Conn PROVE CompleteOf(d)'
      BY DEF CompleteInv
    <2>1. (Lossy(d)' <=> Lossy(d)) /\ (d = m.to => Lossy(d)')
      BY <1>1, <1>2, <1>3 DEF Lossy
    <2> QED
      BY <1>1, <1>3, <2>1, SendKeeps
  \* the connection is in order
  <1>4. CASE /\ step[c] = "load" /\ ~failed[m.to] /\ UNCHANGED <<failed, queue, todo>>
             /\ step' = [step EXCEPT ![c] = "try"]
    <2> SUFFICES ASSUME NEW d \in Conn PROVE CompleteOf(d)'
      BY DEF CompleteInv
    <2>1. \A e \in Conn : Storing(e, d)' <=> Storing(e, d)
      <3>1. DOMAIN step = Conn
        BY <1>1 DEF AcceptorType
      <3> QED
        BY <1>4, <3>1 DEF Storing
    <2>2. Lossy(d)' <=> Lossy(d)
      BY <1>1, <1>4, <2>1 DEF Lossy
    <2>3. CASE d = c /\ pc[c] = "closing"
      <3>1. m.to = c
        BY <1>1, <2>3 DEF Proper
      <3>2. writer[c] # "done" => N(Flow(c)) = due[c]
        BY <1>1, <1>4, <2>3, <3>1, LogoutFindsAll
      <3>3. Flow(c)' = Flow(c) /\ Owed(c)' = Owed(c)
        BY <1>1, <1>4 DEF Flow, Owed
      <3> QED
        BY <1>1, <1>4, <2>2, <2>3, <3>2, <3>3 DEF CompleteInv, CompleteOf
    <2>4. CASE ~(d = c /\ pc[c] = "closing")
      <3>1. /\ todo' = todo /\ queue'[d] = queue[d]
            /\ \E p : step' = [step EXCEPT ![c] = p] /\ (p = "try" /\ d = c => pc[c] # "closing")
        BY <1>4, <2>4
      <3> QED
        BY <1>1, <2>2, <3>1, SendKeeps
    <2> QED
      BY <2>3, <2>4
  <1>5. CASE /\ step[c] = "try" /\ writer[m.to] # "done" /\ UNCHANGED failed
             /\ queue' = [queue EXCEPT ![m.to] = Append(@, m.msg)]
             /\ SendDone(c)
    BY <1>1, <1>5, QueuedComplete DEF Queues
  \* no room or no writer: from here the stream is lossy
  <1>6. CASE /\ step[c] = "try" /\ UNCHANGED <<failed, queue, todo>>
             /\ step' = [step EXCEPT ![c] = "store"]
    <2> SUFFICES ASSUME NEW d \in Conn PROVE CompleteOf(d)'
      BY DEF CompleteInv
    <2>1. \A e \in Conn : Storing(e, d) => Storing(e, d)'
      BY <1>1, <1>6 DEF Storing, AcceptorType
    <2>2. Lossy(d) => Lossy(d)'
      BY <1>1, <1>6, <2>1 DEF Lossy
    <2>3. /\ todo' = todo /\ queue'[d] = queue[d]
          /\ \E p : step' = [step EXCEPT ![c] = p] /\ (p = "try" /\ d = c => pc[c] # "closing")
      <3>1. "store" # "try"
        OBVIOUS
      <3> QED
        BY <1>6, <3>1, Zenon
    <2> QED
      BY <1>1, <2>2, <2>3, SendKeeps
  <1>7. CASE /\ step[c] = "store" /\ UNCHANGED queue
             /\ failed' = [failed EXCEPT ![m.to] = TRUE] /\ SendDone(c)
    <2> SUFFICES ASSUME NEW d \in Conn PROVE CompleteOf(d)'
      BY DEF CompleteInv
    <2>1. failed'[m.to] = TRUE /\ \A e \in Conn \ {m.to} : failed'[e] = failed[e]
      <3>1. DOMAIN failed = Conn
        BY <1>1 DEF AcceptorType
      <3> QED
        BY <1>1, <1>7, <3>1
    <2>2. d # m.to => \A e \in Conn : Storing(e, d) => Storing(e, d)'
      <3> SUFFICES ASSUME d # m.to, NEW e \in Conn, Storing(e, d) PROVE Storing(e, d)'
        OBVIOUS
      <3>1. e # c
        BY DEF Storing
      <3> QED
        BY <1>1, <1>7, <3>1, DoneTail DEF Storing
    <2>3. Lossy(d)' \/ (~Lossy(d) /\ d # m.to)
      BY <1>1, <2>1, <2>2 DEF Lossy
    <2> QED
      BY <1>1, <1>7, <2>3, SendKeeps
  <1> QED
    BY <1>3, <1>4, <1>5, <1>6, <1>7, SendSteps

StreamInv == ShapeInv /\ CompleteInv

LEMMA StreamInit == Init => StreamInv
  <1> SUFFICES ASSUME Init PROVE StreamInv
    OBVIOUS
  <1>1. ShapeInv
    BY ShapeInit
  <1>2. \A c \in Conn : /\ out[c] = <<>> /\ queue[c] = <<>> /\ writing[c] = "none"
                        /\ pc[c] = "connect" /\ due[c] = 0
    BY DEF Init
  <1>3. \A c \in Conn : Flow(c) = <<>>
    BY <1>2 DEF Flow, Stream, Held
  <1>4. N(<<>>) = 0
    <2>1. Reports(<<>>) = {}
      BY DEF Reports
    <2> QED
      BY <2>1, FS_EmptySet DEF N
  <1>5. \A c \in Conn : Owed(c) = 0
    BY DEF Init, Owed, OwedBy
  <1>6. CompleteInv
    BY <1>2, <1>3, <1>4, <1>5 DEF CompleteInv, CompleteOf
  <1> QED
    BY <1>1, <1>6 DEF StreamInv

LEMMA StreamStep == StreamInv /\ [Next]_vars => StreamInv'
  <1> SUFFICES ASSUME StreamInv, [Next]_vars PROVE StreamInv'
    OBVIOUS
  <1>1. ShapeInv' /\ BaseInv /\ LogoutInv /\ CompleteInv /\ AcceptorType /\ AcceptorType'
    BY ShapeStep DEF StreamInv, ShapeInv, BaseInv
  <1> SUFFICES CompleteInv'
    BY <1>1 DEF StreamInv
  <1>2. CASE \/ UNCHANGED vars
             \/ \E c \in Conn : PeerCloses(c)
    <2>1. UNCHANGED <<pc, todo, step, lock, queue, failed, writer, writing, out, due>>
      BY <1>2 DEF vars, PeerCloses, thread, sending, engine
    <2>2. \A c \in Conn : Flow(c)' = Flow(c) /\ Owed(c)' = Owed(c) /\ (Lossy(c)' <=> Lossy(c))
      BY <2>1 DEF Flow, Owed, Lossy, Storing
    <2> QED
      BY <1>1, <2>1, <2>2 DEF CompleteInv, CompleteOf
  <1> QED
    BY <1>1, <1>2, NextCases, SendsComplete, MovesComplete, PostsComplete, WriterComplete

\* A peer that reads a Logout has read every report the engine addressed to it,
\* however often a queue was full, a writer ended or a thread was interrupted
\* between loading the failure flag and queueing: the three steps of a send are
\* not atomic, but the Logout is sent under the lock that orders the reports.
THEOREM LogoutsAreComplete == Spec => []OrderlyMeansComplete
  <1>1. StreamInv => OrderlyMeansComplete
    <2> SUFFICES ASSUME StreamInv, NEW c \in Conn, Contains(out[c], "logout")
                 PROVE  Cardinality(Reports(out[c])) = due[c]
      BY DEF OrderlyMeansComplete
    <2>1. \E k \in 1..Len(out[c]) : out[c][k] = "logout"
      BY ContainsIn DEF StreamInv, ShapeInv, BaseInv, AcceptorType
    <2> QED
      BY <2>1 DEF StreamInv, CompleteInv, CompleteOf, N
  <1> QED
    BY StreamInit, StreamStep, <1>1, PTL DEF Spec
=============================================================================
