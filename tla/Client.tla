------------------------------- MODULE Client -------------------------------
(***************************************************************************)
(* The initiator of fix/session.rs and the connection it talks to.         *)
(*                                                                         *)
(* Application threads call the Initiator; its reader thread applies what  *)
(* the exchange answers to the same table of order views, in between.      *)
(* inbox and out are the two directions of the TCP stream, with the queue  *)
(* and the writer thread in front of each; when the link is down, what has *)
(* not been read may be lost.                                              *)
(***************************************************************************)
EXTENDS Gateway

CONSTANTS
    Thread,        \* application threads that share the Initiator
    MaxRequests,   \* bound: requests the application makes, of any kind
    MaxBreak       \* bound: ids handed out when the connection still may break

ASSUME ClientAssumption ==
    /\ Wire = 1..MaxOrderId /\ NoWire = 0
    /\ Numeral = [w \in Wire |-> w]      \* i32::to_string, then parse
    /\ MaxRequests \in 0..MaxOrderId /\ MaxBreak \in Nat

VARIABLES
    app,              \* where connect or disconnect is
    call,             \* where each thread is in create, modify or cancel
    next_order,       \* the last ClOrdID handed out
    views,            \* InitiatorShared.orders
    signals,          \* connected, logged_in, logout_requested, logged_out
    reader,           \* the reader thread, or how it ended
    link,             \* the TCP stream: "up" or "down"
    seen,             \* quantity on_fill was told of
    quoted            \* quotes sent so far

initiator == <<app, call, next_order, views, quoted>>
vars == <<gateway, initiator, signals, reader, link, seen>>

View == [contract : Contract, qty : Nat, remaining : Nat, state : OrderState]

ASSUME ViewAssumption == None \notin View

NewView(c, qty) == [contract |-> c, qty |-> qty, remaining |-> qty, state |-> "New"]

Idle == [step |-> "idle"]

\* When timeouts, drop and a lost link may end the connection.
MayBreak == next_order <= MaxBreak

-----------------------------------------------------------------------------
(* Calls of the application *)

\* cmd_tx.send: what is queued after the stream went down is never written.
Queue(m) == inbox' = IF link = "up" THEN Append(inbox, m) ELSE inbox

Room == next_order + quoted < MaxRequests

\* require_connected.
MayCall(t) == app = "ready" /\ call[t] = Idle /\ signals.logged_in /\ Room

\* create_order takes an id and tracks the order ...
CreateOrder(t, c, type, qty) ==
    LET w == next_order + 1
    IN  /\ MayCall(t)
        /\ next_order' = w
        /\ views' = [views EXCEPT ![w] = NewView(c, qty)]
        /\ call' = [call EXCEPT ![t] =
                [step |-> "send",
                 msg |-> [kind |-> "new", wire |-> w, contract |-> c,
                          type |-> type, qty |-> qty]]]
        /\ UNCHANGED <<gateway, app, signals, reader, link, seen, quoted>>

\* modify_order and cancel_order first read the view, and release it ...
LookUp(t, w, request) ==
    /\ MayCall(t)
    /\ views[w] # None
    /\ call' = [call EXCEPT ![t] =
            [step |-> "register", orig |-> w, contract |-> views[w].contract,
             request |-> request]]
    /\ UNCHANGED <<gateway, app, next_order, views, signals, reader, link, seen, quoted>>

\* The table once a replacement is tracked beside its original.
Registered(w, r) == [views EXCEPT ![w] = NewView(r.contract, r.request.qty)]

\* ... then take an id, which a replacement is tracked under ...
Register(t) ==
    LET w == next_order + 1
        r == call[t]
    IN  /\ r.step = "register"
        /\ Room
        /\ next_order' = w
        /\ \/ /\ r.request.kind = "replace"
              /\ views' = Registered(w, r)
              /\ call' = [call EXCEPT ![t] =
                    [step |-> "send",
                     msg |-> [kind |-> "replace", wire |-> w, orig |-> r.orig,
                              contract |-> r.contract, type |-> "Limit",
                              qty |-> r.request.qty]]]
           \/ /\ r.request.kind = "cancel"
              /\ call' = [call EXCEPT ![t] =
                    [step |-> "send",
                     msg |-> [kind |-> "cancel", wire |-> w, orig |-> r.orig,
                              contract |-> r.contract]]]
              /\ UNCHANGED views
        /\ UNCHANGED <<gateway, app, signals, reader, link, seen, quoted>>

\* ... and last of all queue the message.
SendRequest(t) ==
    /\ call[t].step = "send"
    /\ Queue(call[t].msg)
    /\ call' = [call EXCEPT ![t] = Idle]
    /\ UNCHANGED <<ids, orders, quote, gw, out, accepted, refused, executed,
                   app, next_order, views, signals, reader, link, seen, quoted>>

\* quote() tracks nothing.
Quote(t, c, qty) ==
    /\ MayCall(t)
    /\ quoted' = quoted + 1
    /\ Queue([kind |-> "quote", level |-> 0, contract |-> c, qty |-> qty])
    /\ UNCHANGED <<ids, orders, quote, gw, out, accepted, refused, executed,
                   app, call, next_order, views, signals, reader, link, seen>>

-----------------------------------------------------------------------------
(* connect and disconnect *)

ConnectReturns ==
    /\ app = "connecting" /\ signals.logged_in
    /\ app' = "ready"
    /\ UNCHANGED <<gateway, call, next_order, views, signals, reader, link, seen, quoted>>

\* stop_threads shuts the stream down, then joins both threads.
StopThreads ==
    /\ app' = "stopping"
    /\ link' = "down"
    /\ UNCHANGED <<gateway, call, next_order, views, signals, reader, seen, quoted>>

\* connect gives up after LOGON_READ_TIMEOUT.
ConnectTimeout == app = "connecting" /\ ~signals.logged_in /\ StopThreads

\* disconnect has the Initiator to itself (&mut self), as has drop.
Alone == app = "ready" /\ \A t \in Thread : call[t] = Idle

Disconnect ==
    /\ Alone
    /\ \/ /\ signals.connected /\ ~signals.logout_requested
          /\ app' = "leaving"
          /\ signals' = [signals EXCEPT !.logout_requested = TRUE]
          /\ Queue(LogoutMsg)
          /\ UNCHANGED <<ids, orders, quote, gw, out, accepted, refused, executed,
                         call, next_order, views, reader, link, seen, quoted>>
       \/ /\ ~signals.connected
          /\ StopThreads

DropInitiator == Alone /\ MayBreak /\ StopThreads

LogoutAnswered == app = "leaving" /\ signals.logged_out /\ StopThreads

LogoutTimeout ==
    app = "leaving" /\ ~signals.logged_out /\ MayBreak /\ StopThreads

Joined ==
    /\ app = "stopping" /\ reader # "running"
    /\ app' = "stopped"
    /\ signals' = [signals EXCEPT !.connected = FALSE, !.logged_in = FALSE]
    /\ UNCHANGED <<gateway, call, next_order, views, reader, link, seen, quoted>>

-----------------------------------------------------------------------------
(* The reader thread *)

\* Leaving the loop resets the signals and shuts the writer down, which
\* closes the stream.
ReaderEnds(how) ==
    /\ reader' = how
    /\ signals' = [signals EXCEPT !.connected = FALSE, !.logged_in = FALSE,
                                  !.logged_out = TRUE]
    /\ link' = "down"

Receives(kind) ==
    /\ reader = "running"
    /\ out # <<>> /\ Head(out).kind = kind
    /\ out' = Tail(out)

ReadLogon ==
    /\ Receives("logon")
    /\ signals' = [signals EXCEPT !.logged_in = TRUE]
    /\ UNCHANGED <<ids, orders, quote, gw, inbox, accepted, refused, executed,
                   initiator, reader, link, seen>>

\* A Logout nobody here asked for is answered first.
ReadLogout ==
    /\ Receives("logout")
    /\ IF signals.logout_requested THEN UNCHANGED inbox ELSE Queue(LogoutMsg)
    /\ ReaderEnds("logout")
    /\ UNCHANGED <<ids, orders, quote, gw, accepted, refused, executed,
                   initiator, seen>>

\* Mutant of WithoutOriginal: the replaced or cancelled view stays.
WithOriginal(t, w, orig) == t

\* handle_execution_report drops the original of a replace or cancel.
WithoutOriginal(t, w, orig) ==
    IF orig # NoWire /\ orig # w THEN [t EXCEPT ![orig] = None] ELSE t

\* An id not tracked yet takes over the view of its original.
Adopted(t, w, orig) ==
    IF t[w] = None /\ orig # NoWire THEN [t EXCEPT ![w] = t[orig]] ELSE t

\* The view the report is about, brought up to date, when there is one.
Updated(t, w, state, remaining, qty) ==
    IF t[w] = None THEN t
    ELSE [t EXCEPT ![w].state = state, ![w].remaining = remaining, ![w].qty = qty]

\* handle_execution_report, for the ClOrdIDs the report came with; without any
\* it is a quote fill and touches no view.
Reported(t, m, w, orig) ==
    IF w = NoWire THEN t
    ELSE WithoutOriginal(
           Updated(Adopted(t, w, orig), w, m.state, m.leaves, m.qty), w, orig)

\* writer_loop puts the connection's ClOrdIDs in place of the engine's ids.
WireName(n) == IF n = 0 THEN NoWire ELSE ids.to_wire[n]

ReadReport ==
    /\ Receives("exec")
    /\ LET m == Head(out)
       IN  /\ views' = Reported(views, m, WireName(m.id), WireName(m.orig))
           /\ seen' = seen + m.last
    /\ UNCHANGED <<ids, orders, quote, gw, inbox, accepted, refused, executed,
                   app, call, next_order, signals, reader, link, quoted>>

ReadRejected ==
    /\ Receives("reject")
    /\ LET m == Head(out)
       IN  views' = Updated(views, m.wire, "Rejected", 0, m.qty)
    /\ UNCHANGED <<ids, orders, quote, gw, inbox, accepted, refused, executed,
                   app, call, next_order, signals, reader, link, seen, quoted>>

\* Mutant of Unreplaced: the view of the rejected replacement stays.
KeepReplacement(t, w) == t

\* The rejected request's own view goes, if it has one.
Unreplaced(t, w) == [t EXCEPT ![w] = None]

\* The original takes the state the reject reports.
CancelRejected(t, m) ==
    LET u == Unreplaced(t, m.wire)
    IN  IF u[m.orig] = None THEN u ELSE [u EXCEPT ![m.orig].state = m.state]

ReadCancelReject ==
    /\ Receives("cxlrej")
    /\ views' = CancelRejected(views, Head(out))
    /\ UNCHANGED <<ids, orders, quote, gw, inbox, accepted, refused, executed,
                   app, call, next_order, signals, reader, link, seen, quoted>>

\* A session reject is only logged.  So would a quote acknowledgement be, but
\* quote() leaves QuoteResponseLevel out and gets none.
ReadLogged ==
    /\ Receives("sessionreject")
    /\ UNCHANGED <<ids, orders, quote, gw, inbox, accepted, refused, executed,
                   initiator, signals, reader, link, seen>>

\* End of the stream: the exchange closed it, or the link is down.
ReadEof ==
    /\ reader = "running"
    /\ link = "down" \/ (gw = "closed" /\ out = <<>>)
    /\ ReaderEnds("eof")
    /\ UNCHANGED <<gateway, initiator, seen>>

\* No Logon in time, or a TestRequest that was not answered.
ReaderTimeout ==
    /\ reader = "running"
    /\ link = "up" /\ MayBreak
    /\ IF signals.logged_in THEN Queue(LogoutMsg) ELSE UNCHANGED inbox
    /\ ReaderEnds("timeout")
    /\ UNCHANGED <<ids, orders, quote, gw, out, accepted, refused, executed,
                   initiator, seen>>

-----------------------------------------------------------------------------
(* The exchange's end, and the link *)

Others == <<initiator, signals, reader, link, seen>>

\* handle_connection's Logon: answered, or refused with a Logout.
ReadLogonRequest ==
    /\ gw = "logon"
    /\ inbox # <<>> /\ Head(inbox).kind = "logon"
    /\ inbox' = Tail(inbox)
    /\ \/ gw' = "open" /\ out' = Append(out, [kind |-> "logon"])
       \/ gw' = "closed" /\ out' = Append(out, LogoutMsg)
    /\ UNCHANGED <<ids, orders, quote, accepted, refused, executed, Others>>

GatewayStep == ReadRequest /\ UNCHANGED Others

GatewayEof ==
    /\ link = "down" /\ gw # "closed"
    /\ EndSession(<<>>)
    /\ UNCHANGED <<inbox, Others>>

\* The exchange's own TestRequest was not answered.
GatewayTimeout ==
    /\ gw = "open" /\ MayBreak
    /\ EndSession(<<LogoutMsg>>)
    /\ UNCHANGED <<inbox, Others>>

Cut ==
    /\ link = "up" /\ MayBreak
    /\ link' = "down"
    /\ UNCHANGED <<gateway, initiator, signals, reader, seen>>

-----------------------------------------------------------------------------
(* Specification *)

Init ==
    /\ GatewayInit("logon", <<[kind |-> "logon"]>>)
    /\ app = "connecting"
    /\ call = [t \in Thread |-> Idle]
    /\ next_order = 0
    /\ views = [w \in Wire |-> None]
    /\ signals = [connected |-> TRUE, logged_in |-> FALSE,
                  logout_requested |-> FALSE, logged_out |-> FALSE]
    /\ reader = "running"
    /\ link = "up"
    /\ seen = 0
    /\ quoted = 0

Calls(t) ==
    \/ \E c \in Contract, type \in OrderType, qty \in Quantity : CreateOrder(t, c, type, qty)
    \/ \E w \in Wire :
        \/ LookUp(t, w, [kind |-> "cancel"])
        \/ \E qty \in Quantity : LookUp(t, w, [kind |-> "replace", qty |-> qty])
    \/ \E c \in Contract : Quote(t, c, 1)

Reader ==
    \/ ReadLogon \/ ReadLogout \/ ReadReport \/ ReadRejected
    \/ ReadCancelReject \/ ReadLogged \/ ReadEof

Exchange == ReadLogonRequest \/ GatewayStep \/ GatewayEof

Stopping == ConnectReturns \/ LogoutAnswered \/ Joined

Next ==
    \/ \E t \in Thread : Calls(t) \/ Register(t) \/ SendRequest(t)
    \/ ConnectTimeout \/ Disconnect \/ DropInitiator \/ LogoutTimeout
    \/ Stopping \/ Reader \/ ReaderTimeout
    \/ Exchange \/ GatewayTimeout \/ Cut
    \/ EngineStep /\ UNCHANGED Others

Spec == Init /\ [][Next]_vars

-----------------------------------------------------------------------------
(* Properties *)

\* Everything sent has been read, at both ends of a working connection.
Quiet ==
    /\ link = "up" /\ gw = "open" /\ reader = "running"
    /\ inbox = <<>> /\ out = <<>>
    /\ \A t \in Thread : call[t] = Idle

RecordOf(w) == IF ids.to_internal[w] = 0 THEN None ELSE orders[ids.to_internal[w]]

\* When nothing is under way, the views the client holds as open are exactly
\* the session's working orders, under the same ClOrdIDs and with the same
\* state and quantities, however calls, fills, expiries and rejects crossed
\* (handle_execution_report, the CancelReject arm).  The exception is a
\* request that did not decode: its session reject leaves a New view behind.
ViewsAgree ==
    Quiet =>
        \A w \in Wire :
            LET o == RecordOf(w)
                v == views[w]
                working == o # None /\ IsActive(o.state)
            IN  /\ working =>
                    /\ v # None
                    /\ v.state = OnTheWire(o.state)
                    /\ v.qty = o.qty /\ v.remaining = o.qty - o.cum
                /\ v # None /\ IsActive(v.state) => working \/ w \in refused

\* A Logout from the exchange is its last word: a client that read it was
\* told of everything that was traded for it.
LogoutTellsAll == reader = "logout" => seen = executed

\* While disconnect() waits on a connection that works, the Logout it waits
\* for is under way in one direction or the other: only a lost connection
\* can make it wait for its deadline.
LogoutUnderWay ==
    app = "leaving" /\ link = "up" /\ reader = "running" =>
        LogoutMsg \in Range(inbox) \cup Range(out)

\* m is about the request w.
Answers(m, w) ==
    \/ m.kind \in {"reject", "cxlrej"} /\ m.wire = w
    \/ m.kind = "exec" /\ WireName(m.id) = w

Asks(m, w) == m.kind \in {"new", "replace"} /\ m.wire = w

\* On a connection that works, a view that is New has its request or its
\* answer under way, unless the request did not decode: no answer arrives
\* before the view it is for, and none goes to another view.
NewIsUnderWay ==
    link = "up" /\ gw = "open" /\ reader = "running" =>
        \A w \in Wire \ refused :
            views[w] # None /\ views[w].state = "New" =>
                \/ \E t \in Thread : call[t].step = "send" /\ Asks(call[t].msg, w)
                \/ \E m \in Range(inbox) : Asks(m, w)
                \/ \E m \in Range(out) : Answers(m, w)

=============================================================================
