------------------------------ MODULE Gateway -------------------------------
(***************************************************************************)
(* One logged-on FIX connection at the exchange, from the decoded request  *)
(* to the execution report that is written back: fresh_id and              *)
(* handle_business of fix/session.rs, the decode errors of fix/codec.rs,   *)
(* and the ClOrdID translation of writer_loop.                             *)
(*                                                                         *)
(* The engine is reduced to this session's order records: whom an order    *)
(* trades with, and when, is a free choice (module Engine has the book).   *)
(* A connection thread holds the engine mutex through handle_business, so  *)
(* a request and all its reports are one step.                             *)
(***************************************************************************)
EXTENDS WireIds, Sequences, SequencesExt

CONSTANTS
    Contract,      \* symbol and side, as requests name them
    Listed,        \* those whose symbol the exchange knows
    OrderType,     \* subset of {"Limit", "Market"} that clients use
    Quantity,      \* quantities requests carry; 0 stands for an invalid one
    Level,         \* QuoteResponseLevel values that clients use
    None,          \* no order
    MaxTrades      \* bound: trades one matching run makes with the order

ASSUME GatewayAssumption ==
    /\ Listed \subseteq Contract
    /\ OrderType \subseteq {"Limit", "Market"}
    /\ Quantity \subseteq Nat
    /\ MaxTrades \in Nat
    /\ Level \subseteq 0..2

VARIABLES
    ids,         \* the connection's WireIdMap
    orders,      \* the engine's records of this session's orders
    quote,       \* open quantity of its quote
    gw,          \* the connection: "logon", "open" or "closed"
    inbox,       \* requests sent and not yet read
    out,         \* queued and in flight to the client
    accepted,    \* history: requests the engine accepted, by ClOrdID
    refused,     \* history: ClOrdIDs of requests that did not decode
    executed     \* history: quantity traded for this session

gateway == <<ids, orders, quote, gw, inbox, out, accepted, refused, executed>>

-----------------------------------------------------------------------------
(* Types *)

OrderState ==
    {"New", "Booked", "PartialFill", "Filled", "Cancelled", "Expired", "Rejected"}

IsActive(state) == state \in {"New", "Booked", "PartialFill"}

\* name is history: the ClOrdID of the request that made the record.
Order == [contract : Contract, qty : Nat, cum : Nat, state : OrderState, name : Wire]

\* Nothing is none of them.
ASSUME OrderAssumption == None \notin Order

Request ==
    [kind : {"new"}, wire : Wire, contract : Contract, type : OrderType,
     qty : Quantity]
    \cup [kind : {"cancel"}, wire : Wire, orig : Wire, contract : Contract]
    \cup [kind : {"replace"}, wire : Wire, orig : Wire, contract : Contract,
          type : OrderType, qty : Quantity]
    \cup [kind : {"quote"}, level : Level, contract : Contract, qty : Quantity]
    \cup [kind : {"logout"}]

\* ord_status_to_fix then ord_status_from_fix; "5" (Replaced) reads as Booked.
OnTheWire(state) == IF state = "New" THEN "Booked" ELSE state

\* build_execution_report.  id and orig are engine ids, 0 when the report has
\* none; names is history: the ClOrdID and OrigClOrdID the client must see.
Report(id, orig, o, last, names) ==
    [kind |-> "exec", id |-> id, orig |-> orig, state |-> OnTheWire(o.state),
     leaves |-> IF IsActive(o.state) THEN o.qty - o.cum ELSE 0,
     qty |-> o.qty, last |-> last, names |-> names]

\* rejected_execution_fields, send_cancel_reject, send_session_reject.
RejectedExec(m) == [kind |-> "reject", wire |-> m.wire, qty |-> m.qty]

CancelReject(m, state) ==
    [kind |-> "cxlrej", wire |-> m.wire, orig |-> m.orig, state |-> OnTheWire(state)]

SessionReject == [kind |-> "sessionreject"]

-----------------------------------------------------------------------------
(* The engine, as one session sees it *)

\* The trades one matching run may make with an incoming order of open quantity
\* n before it rests: what it has executed after each of them.
Fills(n) ==
    {f \in BoundedSeq(1..n, MaxTrades) : \A k \in 2..Len(f) : f[k - 1] < f[k]}

Total(fills) == IF fills = <<>> THEN 0 ELSE fills[Len(fills)]

\* An order after trades of n more.
Traded(o, n) ==
    LET cum == o.cum + n
    IN  [o EXCEPT !.cum = cum,
                  !.state = IF cum = o.qty THEN "Filled"
                            ELSE IF cum > 0 THEN "PartialFill" ELSE "Booked"]

\* send_trade_reports: one fill report for each trade, in order.
FillReports(id, o, fills) ==
    [k \in 1..Len(fills) |->
        Report(id, 0, Traded(o, fills[k]),
               fills[k] - (IF k = 1 THEN 0 ELSE fills[k - 1]),
               [wire |-> o.name, orig |-> NoWire])]

\* What add_to_book leaves: a market order does not rest.
Matched(o, type, fills) ==
    LET t == Traded(o, Total(fills))
    IN  IF type = "Market" /\ IsActive(t.state)
        THEN [t EXCEPT !.state = "Cancelled"] ELSE t

-----------------------------------------------------------------------------
(* handle_business *)

\* The request at the head of the stream, which the step consumes.
Reads(kind) ==
    /\ gw = "open"
    /\ inbox # <<>> /\ Head(inbox).kind = kind
    /\ inbox' = Tail(inbox)

\* codec::decode refuses a quantity that is not positive.
Decodes(m) == "qty" \in DOMAIN m /\ m.kind # "quote" => m.qty > 0

\* A request that does not decode is answered by a session reject, which
\* names its sequence number only.
RefuseRequest ==
    \E kind \in {"new", "replace"} :
        /\ Reads(kind)
        /\ LET m == Head(inbox)
           IN  /\ ~Decodes(m)
               /\ out' = Append(out, SessionReject)
               /\ refused' = refused \cup {m.wire}
        /\ UNCHANGED <<ids, orders, quote, gw, accepted, executed>>

\* fresh_id: the ClOrdID is used up even if the request fails later.
Used(m) == IF IsFresh(ids, m.wire) THEN Intern(ids, m.wire) ELSE ids

\* The checks that come before an order is entered.
MayCreate(m) ==
    /\ IsFresh(ids, m.wire)
    /\ m.contract \in Listed
    /\ orders[InternedId(ids, m.wire)] = None

\* create_order, with the status report it sends when nothing traded or a
\* market order's remainder was cancelled.
NewOrderSingle ==
    /\ Reads("new")
    /\ LET m == Head(inbox)
           n == InternedId(ids, m.wire)
           o == [contract |-> m.contract, qty |-> m.qty, cum |-> 0,
                 state |-> "New", name |-> m.wire]
       IN  /\ Decodes(m)
           /\ ids' = Used(m)
           /\ \/ /\ MayCreate(m)
                 /\ \E fills \in Fills(m.qty) :
                     LET final == Matched(o, m.type, fills)
                         status == fills = <<>> \/ final.state = "Cancelled"
                     IN  /\ orders' = [orders EXCEPT ![n] = final]
                         /\ executed' = executed + Total(fills)
                         /\ out' = out \o FillReports(n, o, fills) \o
                              IF status
                              THEN <<Report(n, 0, final, 0,
                                       [wire |-> m.wire, orig |-> NoWire])>>
                              ELSE <<>>
                 /\ accepted' = [accepted EXCEPT ![m.wire] = @ + 1]
              \/ /\ ~MayCreate(m)
                 /\ out' = Append(out, RejectedExec(m))
                 /\ UNCHANGED <<orders, executed, accepted>>
    /\ UNCHANGED <<quote, gw, refused>>

\* The order a cancel or replace request names, looked up before and after
\* its own ClOrdID is taken: engine.order(session, wire_to_internal[orig]).
Original(map, m) ==
    IF map.to_internal[m.orig] = 0 THEN None ELSE orders[map.to_internal[m.orig]]

\* The checks handle_business and the engine make before they change state.
MayCancel(m) ==
    LET o == Original(Intern(ids, m.wire), m)
    IN  /\ IsFresh(ids, m.wire)
        /\ o # None
        /\ o.contract = m.contract
        /\ IsActive(o.state)
        /\ orders[InternedId(ids, m.wire)] = None

\* The reject carries the state the order has then, or Rejected.
RejectCancel(m) ==
    LET o == Original(Used(m), m)
    IN  /\ out' = Append(out, CancelReject(m,
                      IF o = None THEN "Rejected" ELSE o.state))
        /\ UNCHANGED <<orders, executed, accepted>>

\* cancel_order_with_id: the record stays under its own id; the report
\* answers the request and names the order as the original.
CancelRequest ==
    /\ Reads("cancel")
    /\ LET m == Head(inbox)
           n == InternedId(ids, m.wire)
           old == ids.to_internal[m.orig]
       IN  /\ ids' = Used(m)
           /\ \/ /\ MayCancel(m)
                 /\ LET o == [orders[old] EXCEPT !.state = "Cancelled"]
                    IN  /\ orders' = [orders EXCEPT ![old] = o]
                        /\ out' = Append(out, Report(n, old, o, 0,
                                     [wire |-> m.wire, orig |-> m.orig]))
                 /\ accepted' = [accepted EXCEPT ![m.wire] = @ + 1]
                 /\ UNCHANGED executed
              \/ ~MayCancel(m) /\ RejectCancel(m)
    /\ UNCHANGED <<quote, gw, refused>>

\* modify_order_with_type refuses a quantity below what was executed.
MayReplace(m) ==
    MayCancel(m) /\ m.qty >= orders[ids.to_internal[m.orig]].cum

\* The record moves to the id of the request.  The Replaced report goes out
\* before the replacement matches; afterwards only trades are reported.
CancelReplace ==
    /\ Reads("replace")
    /\ LET m == Head(inbox)
           n == InternedId(ids, m.wire)
           old == ids.to_internal[m.orig]
       IN  /\ Decodes(m)
           /\ ids' = Used(m)
           /\ \/ /\ MayReplace(m)
                 /\ LET o == Traded([orders[old] EXCEPT !.qty = m.qty,
                                                        !.name = m.wire], 0)
                    IN  \E fills \in Fills(o.qty - o.cum) :
                         /\ orders' = [orders EXCEPT ![old] = None,
                                ![n] = IF o.state = "Filled" THEN o
                                       ELSE Matched(o, m.type, fills)]
                         /\ executed' = executed + Total(fills)
                         /\ out' = Append(out, Report(n, old, o, 0,
                                       [wire |-> m.wire, orig |-> m.orig]))
                                   \o FillReports(n, o, fills)
                 /\ accepted' = [accepted EXCEPT ![m.wire] = @ + 1]
              \/ ~MayReplace(m) /\ RejectCancel(m)
    /\ UNCHANGED <<quote, gw, refused>>

\* A quote that replaces the last one; its fills carry no ClOrdID.  A zero
\* quantity stands for a quote the engine refuses.
QuoteFill(n) ==
    [kind |-> "exec", id |-> 0, orig |-> 0, state |-> "PartialFill",
     leaves |-> 0, qty |-> n, last |-> n,
     names |-> [wire |-> NoWire, orig |-> NoWire]]

MassQuote ==
    /\ Reads("quote")
    /\ LET m == Head(inbox)
           ok == m.contract \in Listed /\ m.qty > 0
           ack == [kind |-> "ack", ok |-> ok]
           acks == IF m.level = 2 \/ (m.level = 1 /\ ~ok)
                   THEN <<ack>> ELSE <<>>
       IN  \E fill \in IF ok THEN 0..m.qty ELSE {0} :
            /\ quote' = IF ok THEN m.qty - fill ELSE quote
            /\ executed' = executed + fill
            /\ out' = out \o (IF fill > 0 THEN <<QuoteFill(fill)>> ELSE <<>>) \o acks
    /\ UNCHANGED <<ids, orders, gw, accepted, refused>>

-----------------------------------------------------------------------------
(* Other connection threads, and the end of this one *)

\* Another session's order trades with a resting one: send_fill.
Fill(n) ==
    /\ gw = "open"
    /\ orders[n] # None /\ IsActive(orders[n].state)
    /\ orders' = [orders EXCEPT ![n] = Traded(@, 1)]
    /\ out' = out \o FillReports(n, orders[n], <<1>>)
    /\ executed' = executed + 1
    /\ UNCHANGED <<ids, quote, gw, inbox, accepted, refused>>

FillQuote ==
    /\ gw = "open"
    /\ quote > 0
    /\ quote' = quote - 1
    /\ out' = Append(out, QuoteFill(1))
    /\ executed' = executed + 1
    /\ UNCHANGED <<ids, orders, gw, inbox, accepted, refused>>

\* expire_day_orders, on whichever thread notices the new day.
Expire(n) ==
    /\ gw = "open"
    /\ orders[n] # None /\ IsActive(orders[n].state)
    /\ LET o == [orders[n] EXCEPT !.state = "Expired"]
       IN  /\ orders' = [orders EXCEPT ![n] = o]
           /\ out' = Append(out, Report(n, 0, o, 0,
                        [wire |-> o.name, orig |-> NoWire]))
    /\ UNCHANGED <<ids, quote, gw, inbox, accepted, refused, executed>>

\* Mutant of EndSession: the Logout overtakes the reports still queued.
EndSessionAtOnce(last) ==
    /\ gw' = "closed"
    /\ orders' = [n \in InternalId |-> None]
    /\ quote' = 0
    /\ out' = last
    /\ UNCHANGED <<ids, accepted, refused, executed>>

\* The tail of handle_connection: session_disconnect withdraws the orders
\* without a report; a Logout, if any, is the last frame.
EndSession(last) ==
    /\ gw' = "closed"
    /\ orders' = [n \in InternalId |-> None]
    /\ quote' = 0
    /\ out' = out \o last
    /\ UNCHANGED <<ids, accepted, refused, executed>>

LogoutMsg == [kind |-> "logout"]

\* Mutant of Logout: the connection is closed without an answer.
LogoutUnanswered == Reads("logout") /\ EndSession(<<>>)

Logout == Reads("logout") /\ EndSession(<<LogoutMsg>>)

EngineStep ==
    \/ \E n \in InternalId : Fill(n) \/ Expire(n)
    \/ FillQuote

ReadRequest ==
    \/ RefuseRequest \/ NewOrderSingle \/ CancelRequest \/ CancelReplace
    \/ MassQuote \/ Logout

GatewayInit(phase, first) ==
    /\ ids = NoIds
    /\ orders = [n \in InternalId |-> None]
    /\ quote = 0
    /\ gw = phase
    /\ inbox = first
    /\ out = <<>>
    /\ accepted = [w \in Wire |-> 0]
    /\ refused = {}
    /\ executed = 0

-----------------------------------------------------------------------------
(* Properties *)

\* Every execution report that still has to be written will be written under
\* the ClOrdID of the request it answers, and the OrigClOrdID that request
\* gave, whatever other ClOrdIDs arrive before writer_loop translates it
\* (report_wire_id, wire_for); and each order is known by its request's name.
ReportsNamed ==
    /\ \A k \in DOMAIN out :
        out[k].kind = "exec" /\ out[k].id # 0 =>
            /\ ids.to_wire[out[k].id] = out[k].names.wire
            /\ out[k].orig # 0 => ids.to_wire[out[k].orig] = out[k].names.orig
    /\ \A n \in InternalId :
        orders[n] # None => ids.to_internal[orders[n].name] = n

\* A ClOrdID takes effect at most once on a connection, also when the client
\* repeats a request that failed or was answered (fresh_id).
AcceptedOnce == \A w \in Wire : accepted[w] <= 1

=============================================================================
