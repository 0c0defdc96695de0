------------------------------ MODULE Acceptor ------------------------------
(***************************************************************************)
(* The life of FIX connections at the exchange (fix/session.rs, queue.rs): *)
(* each connection has a thread that reads, and a writer thread fed by one *)
(* bounded queue.  Reports enter that queue from whichever connection      *)
(* thread holds the engine lock; session messages enter it from the        *)
(* connection's own thread, without the lock.                              *)
(*                                                                         *)
(* Sender::send is three steps (load the failed flag, try_send, store the  *)
(* flag) that other threads may interleave with.                           *)
(***************************************************************************)
EXTENDS Integers, Sequences, FiniteSets, SequencesExt

CONSTANTS
    Conn,        \* connections accepted
    Name,        \* session ids (BeginString, SenderCompID, client CompID)
    NameOf,      \* the session id the Logon of each connection asks for
    NoConn,      \* no connection
    Symbols,     \* instruments announced after the Logon
    Capacity,    \* queue.rs CAPACITY
    Unruly,      \* connections whose peer may vanish or send a broken frame
    MaxWork      \* bound: messages the peers send that cause output

ASSUME AcceptorAssumption ==
    /\ NoConn \notin Conn /\ Unruly \subseteq Conn
    /\ NameOf \in [Conn -> Name]
    /\ Symbols \in Nat /\ Capacity \in Nat \ {0} /\ MaxWork \in Nat

VARIABLES
    pc,        \* where each connection thread is
    logout,    \* it ends with a Logout (logout_fields is Some)
    todo,      \* sends it still has to make before it goes on
    step,      \* how far the first of them is
    active,    \* active_sessions: the names reserved
    lock,      \* who holds the engine mutex
    sinks,     \* Engine.sessions: the report destination of each name
    queue,     \* outbound queue of each connection
    failed,    \* its failure flag
    writer,    \* its writer thread
    writing,   \* the message the writer holds, or "none"
    up,        \* its TCP stream
    out,       \* frames written to the stream
    due,       \* reports the engine has addressed to it
    work       \* messages handled so far

thread == <<pc, logout>>
sending == <<todo, step>>
engine == <<lock, sinks>>
output == <<queue, failed, writer, writing, up, out>>
vars == <<pc, logout, todo, step, active, lock, sinks, queue, failed,
          writer, writing, up, out, due, work>>

Frame == {"logon", "def", "report", "own", "beat", "logout", "shutdown"}

Pc == {"connect", "setup", "boot", "loop", "expire", "expiring", "read",
       "business", "leave", "closing", "join", "done"}

Init ==
    /\ pc = [c \in Conn |-> "connect"]
    /\ logout = [c \in Conn |-> FALSE]
    /\ todo = [c \in Conn |-> <<>>]
    /\ step = [c \in Conn |-> "load"]
    /\ active = {}
    /\ lock = NoConn
    /\ sinks = [n \in Name |-> NoConn]
    /\ queue = [c \in Conn |-> <<>>]
    /\ failed = [c \in Conn |-> FALSE]
    /\ writer = [c \in Conn |-> "none"]
    /\ writing = [c \in Conn |-> "none"]
    /\ up = [c \in Conn |-> TRUE]
    /\ out = [c \in Conn |-> <<>>]
    /\ due = [c \in Conn |-> 0]
    /\ work = 0

\* The thread is at p with nothing left to send.
At(c, p) == pc[c] = p /\ todo[c] = <<>>

Goto(c, p) == pc' = [pc EXCEPT ![c] = p]

Mail(to, msg) == [to |-> to, msg |-> msg]

-----------------------------------------------------------------------------
(* Sender::send *)

SendDone(c) ==
    /\ todo' = [todo EXCEPT ![c] = Tail(@)]
    /\ step' = [step EXCEPT ![c] = "load"]

\* A failed connection takes nothing more.
SendLoad(c) ==
    /\ todo[c] # <<>> /\ step[c] = "load"
    /\ IF failed[Head(todo[c]).to]
       THEN SendDone(c)
       ELSE step' = [step EXCEPT ![c] = "try"] /\ UNCHANGED todo
    /\ UNCHANGED <<thread, active, engine, output, due, work>>

\* Mutant of SendTry: send waits for room in the queue.
SendTryBlocks(c) ==
    LET to == Head(todo[c]).to
    IN  /\ todo[c] # <<>> /\ step[c] = "try"
        /\ Len(queue[to]) < Capacity
        /\ queue' = [queue EXCEPT ![to] = Append(@, Head(todo[c]).msg)]
        /\ SendDone(c)
        /\ UNCHANGED <<thread, active, engine, failed, writer, writing, up, out,
                       due, work>>

\* try_send fails when the queue is full or the writer has gone.
SendTry(c) ==
    LET to == Head(todo[c]).to
    IN  /\ todo[c] # <<>> /\ step[c] = "try"
        /\ IF Len(queue[to]) < Capacity /\ writer[to] # "done"
           THEN /\ queue' = [queue EXCEPT ![to] = Append(@, Head(todo[c]).msg)]
                /\ SendDone(c)
           ELSE /\ step' = [step EXCEPT ![c] = "store"]
                /\ UNCHANGED <<todo, queue>>
        /\ UNCHANGED <<thread, active, engine, failed, writer, writing, up, out,
                       due, work>>

\* Mutant of SendStore: an overflow drops the message and nothing else.
SendStoreSkipped(c) ==
    /\ todo[c] # <<>> /\ step[c] = "store"
    /\ SendDone(c)
    /\ UNCHANGED <<thread, active, engine, output, due, work>>

SendStore(c) ==
    /\ todo[c] # <<>> /\ step[c] = "store"
    /\ failed' = [failed EXCEPT ![Head(todo[c]).to] = TRUE]
    /\ SendDone(c)
    /\ UNCHANGED <<thread, active, engine, queue, writer, writing, up, out, due, work>>

-----------------------------------------------------------------------------
(* The connection thread *)

\* The Logon is valid and admitted and the name is free: it is reserved.
Reserve(c) ==
    /\ At(c, "connect")
    /\ NameOf[c] \notin active
    /\ active' = active \cup {NameOf[c]}
    /\ Goto(c, "setup")
    /\ UNCHANGED <<logout, sending, engine, output, due, work>>

\* The Logon is refused: invalid, not admitted, or the name is active.
Refuse(c) ==
    /\ At(c, "connect")
    /\ Goto(c, "done")
    /\ up' = [up EXCEPT ![c] = FALSE]
    /\ UNCHANGED <<logout, sending, active, engine, queue, failed, writer,
                   writing, out, due, work>>

\* An I/O error before the writer exists (log file, timeout, clone).
SetupFails(c) ==
    /\ At(c, "setup")
    /\ Goto(c, "done")
    /\ active' = active \ {NameOf[c]}
    /\ up' = [up EXCEPT ![c] = FALSE]
    /\ UNCHANGED <<logout, sending, engine, queue, failed, writer, writing,
                   out, due, work>>

\* What a session begins with.
Opening == [k \in 1..(Symbols + 1) |-> IF k = 1 THEN "logon" ELSE "def"]

\* The writer starts; the Logon reply and one definition per symbol are queued.
Bootstrap(c) ==
    /\ At(c, "setup")
    /\ writer' = [writer EXCEPT ![c] = "check"]
    /\ todo' = [todo EXCEPT ![c] = [k \in DOMAIN Opening |-> Mail(c, Opening[k])]]
    /\ Goto(c, "boot")
    /\ UNCHANGED <<logout, step, active, engine, queue, failed, writing, up,
                   out, due, work>>

\* Only then is the session a destination of reports.
Register(c) ==
    /\ At(c, "boot")
    /\ lock = NoConn
    /\ sinks' = [sinks EXCEPT ![NameOf[c]] = c]
    /\ Goto(c, "loop")
    /\ UNCHANGED <<logout, sending, active, lock, output, due, work>>

\* Top of the loop: a failed connection shuts its stream down and leaves.
Check(c) ==
    /\ At(c, "loop")
    /\ IF failed[c]
       THEN Goto(c, "leave") /\ up' = [up EXCEPT ![c] = FALSE]
       ELSE Goto(c, "expire") /\ UNCHANGED up
    /\ UNCHANGED <<logout, sending, active, engine, queue, failed, writer,
                   writing, out, due, work>>

\* Reports of one engine call: one status, or both parties of a trade.
Parties == {n \in Name : sinks[n] # NoConn}

Addressed ==
    {<<Mail(sinks[n], "report")>> : n \in Parties}
    \cup {<<Mail(sinks[n], "report"), Mail(sinks[m], "report")>> :
             n \in Parties, m \in Parties}

\* Which of these messages are reports to d.
ReportsTo(d, mails) == {k \in DOMAIN mails : mails[k] = Mail(d, "report")}

\* The thread takes the engine lock and has these messages to send under it.
Locked(c, mails) ==
    /\ lock = NoConn
    /\ lock' = c
    /\ todo' = [todo EXCEPT ![c] = mails]
    /\ due' = [d \in Conn |-> due[d] + Cardinality(ReportsTo(d, mails))]

\* Nothing is overdue, and expire_day_orders returns.
NothingExpires(c) ==
    /\ At(c, "expire")
    /\ lock = NoConn
    /\ Goto(c, "read")
    /\ UNCHANGED <<logout, sending, active, engine, output, due, work>>

\* expire_day_orders reports to the owners of overdue orders, whoever they are.
Expire(c) ==
    /\ At(c, "expire")
    /\ work < MaxWork
    /\ work' = work + 1
    /\ \E mails \in Addressed : Locked(c, mails)
    /\ Goto(c, "expiring")
    /\ UNCHANGED <<logout, step, active, sinks, output>>

ExpireDone(c) ==
    /\ At(c, "expiring")
    /\ lock' = NoConn
    /\ Goto(c, "read")
    /\ UNCHANGED <<logout, sending, active, sinks, output, due, work>>

\* The read timed out, or the message needs no answer.
Poll(c) ==
    /\ At(c, "read")
    /\ up[c]
    /\ Goto(c, "loop")
    /\ UNCHANGED <<logout, sending, active, engine, output, due, work>>

\* A session message is answered, or a probe goes out.
Own(c) ==
    /\ At(c, "read")
    /\ work < MaxWork
    /\ work' = work + 1
    /\ todo' = [todo EXCEPT ![c] = <<Mail(c, "own")>>]
    /\ Goto(c, "loop")
    /\ UNCHANGED <<logout, step, active, engine, output, due>>

\* What the request itself is answered: a refusal, or the acknowledgement of a
\* quote after a report.
Answers(c) ==
    {<<Mail(c, "own")>>}
    \cup {<<Mail(sinks[n], "report"), Mail(c, "own")>> : n \in Parties}

\* handle_business: the engine runs under its lock, reports to the parties and
\* answers the request.
Business(c) ==
    /\ At(c, "read")
    /\ work < MaxWork
    /\ work' = work + 1
    /\ \E mails \in Addressed \cup Answers(c) : Locked(c, mails)
    /\ Goto(c, "business")
    /\ UNCHANGED <<logout, step, active, sinks, output>>

BusinessDone(c) ==
    /\ At(c, "business")
    /\ lock' = NoConn
    /\ Goto(c, "loop")
    /\ UNCHANGED <<logout, sending, active, sinks, output, due, work>>

\* End of stream or a broken frame: no Logout.
Eof(c) ==
    /\ At(c, "read")
    /\ ~up[c] \/ c \in Unruly
    /\ Goto(c, "leave")
    /\ UNCHANGED <<logout, sending, active, engine, output, due, work>>

\* Logout, a header or sequence error, or a TestRequest that was not answered.
Ends(c) ==
    /\ At(c, "read")
    /\ logout' = [logout EXCEPT ![c] = TRUE]
    /\ Goto(c, "leave")
    /\ UNCHANGED <<sending, active, engine, output, due, work>>

\* Mutant of Disconnect: the session stays a destination of reports.
DisconnectKeepsSink(c) ==
    /\ At(c, "leave")
    /\ lock = NoConn
    /\ lock' = c
    /\ todo' = [todo EXCEPT ![c] =
                   <<Mail(c, IF logout[c] THEN "logout" ELSE "shutdown")>>]
    /\ Goto(c, "closing")
    /\ UNCHANGED <<logout, step, active, sinks, output, due, work>>

\* Mutant of Disconnect: the writer is not told.
DisconnectSilent(c) ==
    /\ At(c, "leave")
    /\ lock = NoConn
    /\ lock' = c
    /\ sinks' = [sinks EXCEPT ![NameOf[c]] = NoConn]
    /\ Goto(c, "closing")
    /\ UNCHANGED <<logout, sending, active, output, due, work>>

\* Under the engine lock: session_disconnect, then the last message is queued.
Disconnect(c) ==
    /\ At(c, "leave")
    /\ lock = NoConn
    /\ lock' = c
    /\ sinks' = [sinks EXCEPT ![NameOf[c]] = NoConn]
    /\ todo' = [todo EXCEPT ![c] =
                   <<Mail(c, IF logout[c] THEN "logout" ELSE "shutdown")>>]
    /\ Goto(c, "closing")
    /\ UNCHANGED <<logout, step, active, output, due, work>>

\* The lock is released.
Closed(c) ==
    /\ At(c, "closing")
    /\ lock' = NoConn
    /\ Goto(c, "join")
    /\ UNCHANGED <<logout, sending, active, sinks, output, due, work>>

\* writer.join, and the reservation is dropped with the thread.
Join(c) ==
    /\ At(c, "join")
    /\ writer[c] = "done"
    /\ active' = active \ {NameOf[c]}
    /\ Goto(c, "done")
    /\ UNCHANGED <<logout, sending, engine, output, due, work>>

Thread(c) ==
    \/ SendLoad(c) \/ SendTry(c) \/ SendStore(c)
    \/ SetupFails(c) \/ Bootstrap(c) \/ Register(c) \/ Check(c)
    \/ NothingExpires(c) \/ Expire(c) \/ ExpireDone(c)
    \/ Poll(c) \/ Own(c) \/ Business(c) \/ BusinessDone(c) \/ Eof(c) \/ Ends(c)
    \/ Disconnect(c) \/ Closed(c) \/ Join(c)

-----------------------------------------------------------------------------
(* The writer thread *)

WriterEnds(c) ==
    /\ writer' = [writer EXCEPT ![c] = "done"]
    /\ up' = [up EXCEPT ![c] = FALSE]

WriterCheck(c) ==
    /\ writer[c] = "check"
    /\ IF failed[c] THEN WriterEnds(c)
       ELSE writer' = [writer EXCEPT ![c] = "recv"] /\ UNCHANGED up
    /\ UNCHANGED <<thread, sending, active, engine, queue, failed, writing, out,
                   due, work>>

\* recv_timeout: the next message, or a heartbeat when the queue stays empty.
WriterRecv(c) ==
    LET f == IF queue[c] = <<>> THEN "beat" ELSE Head(queue[c])
    IN  /\ writer[c] = "recv"
        /\ queue' = [queue EXCEPT ![c] = IF @ = <<>> THEN @ ELSE Tail(@)]
        /\ IF f = "shutdown"
           THEN WriterEnds(c) /\ UNCHANGED writing
           ELSE /\ writer' = [writer EXCEPT ![c] = "write"]
                /\ writing' = [writing EXCEPT ![c] = f]
                /\ UNCHANGED up
        /\ UNCHANGED <<thread, sending, active, engine, failed, out, due, work>>

\* The stream after a frame.  Heartbeats and session messages matter, and are
\* kept, only after a Logout, once.
Minor == {"beat", "own"}

Written(frames, f) ==
    IF f \notin Minor \/ (Contains(frames, "logout") /\ Last(frames) \notin Minor)
    THEN Append(frames, f) ELSE frames

\* Mutant of WriterWrite: the writer goes on after a Logout.
WriterWriteOn(c) ==
    /\ writer[c] = "write"
    /\ up[c]
    /\ writing' = [writing EXCEPT ![c] = "none"]
    /\ out' = [out EXCEPT ![c] = Written(@, writing[c])]
    /\ writer' = [writer EXCEPT ![c] = "check"]
    /\ UNCHANGED <<thread, sending, active, engine, queue, failed, up, due,
                   work>>

\* The frame is written; a Logout is the last one.
WriterWrite(c) ==
    /\ writer[c] = "write"
    /\ up[c]
    /\ writing' = [writing EXCEPT ![c] = "none"]
    /\ out' = [out EXCEPT ![c] = Written(@, writing[c])]
    /\ IF writing[c] = "logout" THEN WriterEnds(c)
       ELSE writer' = [writer EXCEPT ![c] = "check"] /\ UNCHANGED up
    /\ UNCHANGED <<thread, sending, active, engine, queue, failed, due, work>>

\* The stream is closed, or the peer does not read within the write timeout.
WriteFails(c) ==
    /\ writer[c] = "write"
    /\ writing' = [writing EXCEPT ![c] = "none"]
    /\ WriterEnds(c)
    /\ UNCHANGED <<thread, sending, active, engine, queue, failed, out, due,
                   work>>

Writer(c) == WriterCheck(c) \/ WriterRecv(c) \/ WriterWrite(c) \/ WriteFails(c)

\* The peer closes its side.
PeerCloses(c) ==
    /\ c \in Unruly
    /\ pc[c] \notin {"connect", "done"} /\ up[c]
    /\ up' = [up EXCEPT ![c] = FALSE]
    /\ UNCHANGED <<thread, sending, active, engine, queue, failed, writer, writing,
                   out, due, work>>

Next == \E c \in Conn :
            Reserve(c) \/ Refuse(c) \/ Thread(c) \/ Writer(c) \/ PeerCloses(c)

Spec == Init /\ [][Next]_vars

\* Connection threads are scheduled: reads time out, and nobody who holds the
\* engine lock waits for anything.  Nothing is assumed of the writers.
ThreadSpec == Spec /\ \A c \in Conn : WF_vars(Thread(c))

\* So are the writers: a write ends within its timeout, a wait for a message
\* within the heartbeat interval.
FairSpec == ThreadSpec /\ \A c \in Conn : WF_vars(Writer(c))

-----------------------------------------------------------------------------
(* Properties *)

\* The engine's destination for a name is the connection that runs under that
\* name: a second Logon never takes the reports of a live session, and no
\* report goes to a connection that has left (register_session_sink overwrites;
\* the reservation outlives the registration).
SinkIsLive ==
    \A n \in Name : sinks[n] # NoConn =>
        /\ NameOf[sinks[n]] = n
        /\ pc[sinks[n]] \in {"loop", "expire", "expiring", "read", "business", "leave"}

\* What a peer reads has the shape of a session: no report overtakes the Logon
\* reply and the definitions, and nothing follows a Logout, heartbeats included.
StreamShape ==
    \A c \in Conn : \A k \in DOMAIN out[c] :
        /\ out[c][k] = "report" => SubSeq(out[c], 1, Symbols + 1) = Opening
        /\ out[c][k] = "logout" => k = Len(out[c])

Reports(frames) == {k \in DOMAIN frames : frames[k] = "report"}

\* A peer that is logged out in order has received every report the engine
\* addressed to it: when one was dropped, the connection ends without a Logout.
OrderlyMeansComplete ==
    \A c \in Conn :
        Contains(out[c], "logout")
            => Cardinality(Reports(out[c])) = due[c]

\* A slow or dead peer never keeps the engine locked: however the writers are
\* scheduled, the mutex is free again and again.
LockReleased == []<>(lock = NoConn)

\* Whoever leaves, loses its peer or overflows its queue ends and gives its
\* name back: overflow fails the entire connection closed, and the wait for the
\* writer always ends.
ConnectionEnds ==
    \A c \in Conn :
        failed[c] \/ pc[c] = "leave" \/ (pc[c] # "connect" /\ ~up[c]) ~> pc[c] = "done"
=============================================================================
