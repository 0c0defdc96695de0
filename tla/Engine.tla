------------------------------- MODULE Engine -------------------------------
(***************************************************************************)
(* The exchange engine of core/exchange/mod.rs under FillPolicy::Real: the *)
(* books, each session's mirror of its orders and quotes, DAY dates, market*)
(* data, and the reports sent to the sessions.                             *)
(*                                                                         *)
(* Every public method runs under the caller's engine mutex.  A method is  *)
(* modelled as its first step plus the steps of its loops (one trade, one  *)
(* report pair, one snapshot, one dropped order each), held together by    *)
(* op: no other method starts before op is Idle again.  The intermediate   *)
(* states are the ones lock-free market data readers and report queues can *)
(* observe, and the ones a loop could get stuck in.                        *)
(***************************************************************************)
EXTENDS OrderBook, Sequences

CONSTANTS
    Quantity,       \* order quantities a client may send
    ReplaceType,    \* order types a cancel/replace request may ask for
    MayLeave,       \* sessions whose connection may end
    MaxArrival,     \* bound: orders, replacements and quote legs accepted
    MaxSequence,    \* bound: market data versions before the last quote
    MaxDay          \* bound: calendar days the run covers

ASSUME InputAssumption ==
    /\ Quantity \subseteq Nat \ {0}
    /\ ReplaceType \subseteq OrderType
    /\ MayLeave \subseteq Session
    /\ MaxArrival \in Nat
    /\ MaxSequence \in Nat
    /\ MaxDay \in Nat

VARIABLES
    sessions,     \* registered sessions
    orders,       \* Session.orders: the mirror of each session's orders
    quotes,       \* Session.quotes: the prices of the last quote pair, or None
    books,        \* Engine.books
    dates,        \* order_dates: the day of entry, 0 when there is none
    today,        \* Utc::now().date_naive()
    next_arrival,
    sequence,     \* version counter of market data, global to the engine
    pending,      \* pending_market_data: version to publish, 0 when clean
    stats,        \* stats_cache: what trades contribute to it
    published,    \* the snapshot slot readers load without the lock
    told,         \* what the reports sent so far tell a client of an order
    op            \* the method in progress

market_data == <<sequence, pending, stats, published>>
vars == <<sessions, orders, quotes, books, dates, today, next_arrival,
          sequence, pending, stats, published, told, op>>

-----------------------------------------------------------------------------
(* Types *)

\* A quote pair as re-quoting uses it: the leg prices, 0 for a skipped side.
QuotePair == [bid : Price \cup {0}, ask : Price \cup {0}]

ASSUME NonePairAssumption == None \notin QuotePair

Statistics == [volume : Nat, has_high_low : BOOLEAN, high : Nat, low : Nat]

NoStatistics == [volume |-> 0, has_high_low |-> FALSE, high |-> 0, low |-> 0]

Snapshot == [version : Nat, depth : SUBSET Row, stats : Statistics]

NoSnapshot == [version |-> 0, depth |-> {}, stats |-> NoStatistics]

Trade == [buyer : Order, seller : Order, price : Nat, quantity : Nat]

\* An execution report as build_execution_report shows an order to a client.
View == [open : BOOLEAN, leaves : Nat, cum : Nat, notional : Nat]

ViewOf(o) ==
    [open |-> IsActive(o.state),
     leaves |-> IF IsActive(o.state) THEN o.remaining ELSE 0,
     cum |-> o.cum, notional |-> o.notional]

Phase == {"idle", "match", "publish", "report", "drop", "expire"}

Op ==
    [phase    : Phase,
     method   : {"none", "create", "replace", "cancel", "quote", "other"},
     incoming : Order \cup {None},    \* the order passed to OrderBook::add
     askLeg   : Order \cup {None},    \* quote: the leg still to be added
     trades   : Seq(Trade),           \* trades not yet reported
     final    : Order \cup {None},    \* final state, synced last
     status   : BOOLEAN,              \* a status report for it goes out last
     leaving  : SUBSET Session,       \* session_disconnect: whose orders drop
     expired  : SUBSET (Session \X OrderId)]

Idle == [phase |-> "idle", method |-> "none", incoming |-> None,
         askLeg |-> None, trades |-> <<>>, final |-> None, status |-> FALSE,
         leaving |-> {}, expired |-> {}]

-----------------------------------------------------------------------------
(* Helpers *)

\* record_market_data(i): a new version of instrument i.
RecordMarketData(i) ==
    /\ sequence' = sequence + 1
    /\ pending' = [pending EXCEPT ![i] = sequence + 1]
    /\ UNCHANGED published

\* Its loop over the trades.  The engine runs it after matching; it is taken
\* trade by trade in Match, since nothing reads stats before Publish.
AddTrade(st, t) ==
    [volume |-> st.volume + t.quantity,
     has_high_low |-> TRUE,
     high |-> IF st.has_high_low /\ st.high >= t.price THEN st.high ELSE t.price,
     low |-> IF st.has_high_low /\ st.low <= t.price THEN st.low ELSE t.price]

\* The mirror after sync_record(o); quote legs and departed sessions have none.
Synced(m, o) ==
    IF o.id # QuoteId /\ o.session \in sessions /\ m[o.session][o.id] # None
    THEN [m EXCEPT ![o.session][o.id] = o] ELSE m

\* Mutant of Mirrored: a fill does not touch the state.
MirroredKeepsState(m, o) ==
    IF o.id # QuoteId /\ o.session \in sessions /\ m[o.session][o.id] # None
    THEN [m EXCEPT ![o.session][o.id] =
             [@ EXCEPT !.remaining = o.remaining, !.cum = o.cum,
                       !.notional = o.notional]]
    ELSE m

\* The mirror after send_fill(o): only the execution fields are copied.
Mirrored(m, o) ==
    IF o.id # QuoteId /\ o.session \in sessions /\ m[o.session][o.id] # None
    THEN [m EXCEPT ![o.session][o.id] =
             [@ EXCEPT !.remaining = o.remaining, !.cum = o.cum,
                       !.notional = o.notional, !.state = o.state]]
    ELSE m

\* What clients know after a report on o is sent: send() drops it when the
\* session is gone, and quote fills name no client order.
Told(v, o) ==
    IF o.id # QuoteId /\ o.session \in sessions
    THEN [v EXCEPT ![o.session][o.id] = ViewOf(o)] ELSE v

\* add(): insert o, as Booked, into its book before matching.
Booked(o) == [o EXCEPT !.state = "Booked"]

Matching(method, o, askLeg) ==
    [Idle EXCEPT !.phase = "match", !.method = method, !.incoming = o,
                 !.askLeg = askLeg]

\* The tail of a method that only has snapshots and one report left.
Publishing(method, final, status) ==
    [Idle EXCEPT !.phase = "publish", !.method = method, !.final = final,
                 !.status = status]

-----------------------------------------------------------------------------
(* Initial state *)

Init ==
    /\ sessions = {}
    /\ orders = [s \in Session |-> [id \in OrderId |-> None]]
    /\ quotes = [s \in Session |-> [i \in Instrument |-> None]]
    /\ books = [i \in Instrument |-> EmptyBook]
    /\ dates = [s \in Session |-> [id \in OrderId |-> 0]]
    /\ today = 1
    /\ next_arrival = 0
    /\ sequence = 0
    /\ pending = [i \in Instrument |-> 0]
    /\ stats = [i \in Instrument |-> NoStatistics]
    /\ published = [i \in Instrument |-> NoSnapshot]
    /\ told = [s \in Session |-> [id \in OrderId |-> None]]
    /\ op = Idle

-----------------------------------------------------------------------------
(* Sessions *)

\* register_session_sink starts a session with no orders.  The engine would
\* overwrite a live session of that name; the acceptor's reservation set
\* (fix/session.rs) lets a name in again only after its disconnect returned.
RegisterSession(s) ==
    /\ op = Idle
    /\ s \notin sessions
    /\ sessions' = sessions \cup {s}
    /\ orders' = [orders EXCEPT ![s] = [id \in OrderId |-> None]]
    /\ quotes' = [quotes EXCEPT ![s] = [i \in Instrument |-> None]]
    /\ told' = [told EXCEPT ![s] = [id \in OrderId |-> None]]
    /\ UNCHANGED <<books, dates, today, next_arrival, market_data, op>>

\* session_disconnect takes the session out of the map, with its DAY dates,
\* then walks its orders and its quotes.
SessionDisconnect(s) ==
    /\ op = Idle
    /\ s \in sessions \cap MayLeave
    /\ sessions' = sessions \ {s}
    /\ dates' = [dates EXCEPT ![s] = [id \in OrderId |-> 0]]
    /\ told' = [told EXCEPT ![s] = [id \in OrderId |-> None]]
    /\ op' = [Idle EXCEPT !.phase = "drop", !.method = "other", !.leaving = {s}]
    /\ UNCHANGED <<orders, quotes, books, today, next_arrival, market_data>>

\* Its loop over the orders, terminal ones included, in any order.
DropOrder ==
    /\ op.phase = "drop"
    /\ \E s \in op.leaving, id \in OrderId :
        /\ orders[s][id] # None
        /\ LET o == orders[s][id]
           IN  /\ books' = [books EXCEPT ![o.inst] =
                               Remove(@, s, id, o.side, o.price)]
               /\ RecordMarketData(o.inst)
        /\ orders' = [orders EXCEPT ![s][id] = None]
    /\ UNCHANGED <<sessions, quotes, dates, today, next_arrival, stats, told, op>>

\* Mutant of WithoutQuote: only the bid leg is looked for.
WithoutBid(b, s, pair) ==
    IF pair = None THEN b ELSE Remove(b, s, QuoteId, "Buy", pair.bid)

\* The book without both legs of a quote pair.
WithoutQuote(b, s, pair) ==
    IF pair = None THEN b
    ELSE Remove(Remove(b, s, QuoteId, "Buy", pair.bid),
                s, QuoteId, "Sell", pair.ask)

\* Its loop over the quotes, once the orders are gone.
DropQuote ==
    /\ op.phase = "drop"
    /\ \E s \in op.leaving, i \in Instrument :
        /\ \A id \in OrderId : orders[s][id] = None
        /\ quotes[s][i] # None
        /\ books' = [books EXCEPT ![i] = WithoutQuote(@, s, quotes[s][i])]
        /\ RecordMarketData(i)
        /\ quotes' = [quotes EXCEPT ![s][i] = None]
    /\ UNCHANGED <<sessions, orders, dates, today, next_arrival, stats, told, op>>

DropDone ==
    /\ op.phase = "drop"
    /\ \A s \in op.leaving :
        /\ \A id \in OrderId : orders[s][id] = None
        /\ \A i \in Instrument : quotes[s][i] = None
    /\ op' = Publishing("other", None, FALSE)
    /\ UNCHANGED <<sessions, orders, quotes, books, dates, today, next_arrival,
                   market_data, told>>

-----------------------------------------------------------------------------
(* Client requests *)

\* create_order: guards are the rejections, which change nothing.
CreateOrder(s, id, i, side, type, price, qty) ==
    LET o == NewOrder(s, id, i, side, type, price, qty, next_arrival + 1)
    IN  /\ op = Idle
        /\ s \in sessions
        /\ orders[s][id] = None
        /\ next_arrival < MaxArrival
        /\ next_arrival' = next_arrival + 1
        /\ orders' = [orders EXCEPT ![s][id] = o]
        /\ dates' = [dates EXCEPT ![s][id] = today]
        /\ books' = [books EXCEPT ![i] = Insert(@, Booked(o))]
        /\ op' = Matching("create", o, None)
        /\ UNCHANGED <<sessions, quotes, today, market_data, told>>

\* Mutants of Replacement: what was executed is forgotten ...
ReplacementForgetsFills(old, id, type, price, qty) ==
    [old EXCEPT !.id = id, !.type = type, !.price = price,
                !.quantity = qty, !.remaining = qty,
                !.state = IF old.cum # 0 THEN "PartialFill" ELSE "Booked",
                !.arrival = next_arrival + 1]

\* ... and the replacement claims the arrival of the original.
ReplacementKeepsArrival(old, id, type, price, qty) ==
    LET left == qty - old.cum
    IN  [old EXCEPT !.id = id, !.type = type, !.price = price,
                    !.quantity = qty, !.remaining = left,
                    !.state = IF left = 0 THEN "Filled"
                              ELSE IF old.cum # 0 THEN "PartialFill"
                              ELSE "Booked"]

\* modify_order_with_type: the replacement keeps what was executed, takes a
\* new arrival, and is known to the client before it matches.
Replacement(old, id, type, price, qty) ==
    LET left == qty - old.cum
    IN  [old EXCEPT !.id = id, !.type = type, !.price = price,
                    !.quantity = qty, !.remaining = left,
                    !.state = IF left = 0 THEN "Filled"
                              ELSE IF old.cum # 0 THEN "PartialFill"
                              ELSE "Booked",
                    !.arrival = next_arrival + 1]

\* Mutant of FreshId: any id of the session will do.
AnyId(s, orig, id) == TRUE

\* The replacement may keep the id, or take one the session does not hold.
FreshId(s, orig, id) == id # orig => orders[s][id] = None

\* The DAY date moves to the replacement, and starts again today.
Redated(s, orig, id) ==
    [dates EXCEPT ![s] = [@ EXCEPT ![orig] = 0, ![id] = today]]

ModifyOrder(s, orig, id, type, price, qty) ==
    LET old  == orders[s][orig]
        o    == Replacement(old, id, type, price, qty)
        i    == old.inst
        gone == Remove(books[i], s, orig, old.side, old.price)
    IN  /\ op = Idle
        /\ s \in sessions
        /\ old # None
        /\ IsActive(old.state)
        /\ price > 0 \/ type = "Market"
        /\ qty >= old.cum
        /\ FreshId(s, orig, id)
        /\ Located(books[i], s, orig, old.side, old.price) # {}
        /\ next_arrival < MaxArrival
        /\ next_arrival' = next_arrival + 1
        /\ orders' = [orders EXCEPT ![s] = [@ EXCEPT ![orig] = None, ![id] = o]]
        /\ dates' = Redated(s, orig, id)
        /\ told' = [told EXCEPT ![s] = [@ EXCEPT ![orig] = None, ![id] = ViewOf(o)]]
        /\ RecordMarketData(i)
        /\ IF o.remaining = 0
           THEN /\ books' = [books EXCEPT ![i] = gone]
                /\ op' = Publishing("replace", None, FALSE)
           ELSE /\ books' = [books EXCEPT ![i] = Insert(gone, Booked(o))]
                /\ op' = Matching("replace", o, None)
        /\ UNCHANGED <<sessions, quotes, today, stats>>

\* cancel_order_with_id: the report goes out after the snapshot.
CancelOrder(s, orig) ==
    LET old == orders[s][orig]
    IN  /\ op = Idle
        /\ s \in sessions
        /\ old # None
        /\ IsActive(old.state)
        /\ \E e \in Located(books[old.inst], s, orig, old.side, old.price) :
            /\ books' = [books EXCEPT ![old.inst] = Drop(@, e)]
            /\ orders' = [orders EXCEPT ![s][orig] =
                             [e.order EXCEPT !.state = "Cancelled"]]
            /\ op' = Publishing("cancel",
                                [e.order EXCEPT !.state = "Cancelled"], TRUE)
        /\ RecordMarketData(old.inst)
        /\ UNCHANGED <<sessions, quotes, dates, today, next_arrival, stats, told>>

\* quote: the old pair leaves, then the bid leg and the ask leg are added and
\* matched in turn; a zero price skips a side.  The pair is remembered as
\* requested, filled or not.
QuoteLeg(s, i, side, price, qty, arrival) ==
    NewOrder(s, QuoteId, i, side, "Limit", price, qty, arrival)

Quote(s, i, bid, bidQty, ask, askQty) ==
    LET gone   == WithoutQuote(books[i], s, quotes[s][i])
        legs   == (IF bid # 0 THEN 1 ELSE 0) + (IF ask # 0 THEN 1 ELSE 0)
        bidLeg == QuoteLeg(s, i, "Buy", bid, bidQty, next_arrival + 1)
        askLeg == QuoteLeg(s, i, "Sell", ask, askQty, next_arrival + legs)
    IN  /\ op = Idle
        /\ s \in sessions
        /\ next_arrival + legs <= MaxArrival
        /\ sequence < MaxSequence
        /\ next_arrival' = next_arrival + legs
        /\ quotes' = [quotes EXCEPT ![s][i] = [bid |-> bid, ask |-> ask]]
        /\ \/ /\ bid # 0
              /\ books' = [books EXCEPT ![i] = Insert(gone, Booked(bidLeg))]
              /\ op' = Matching("quote", bidLeg, IF ask # 0 THEN askLeg ELSE None)
              /\ UNCHANGED <<sequence, pending>>
           \/ /\ bid = 0 /\ ask # 0
              /\ books' = [books EXCEPT ![i] = Insert(gone, Booked(askLeg))]
              /\ op' = Matching("quote", askLeg, None)
              /\ UNCHANGED <<sequence, pending>>
           \/ /\ bid = 0 /\ ask = 0
              /\ books' = [books EXCEPT ![i] = gone]
              /\ op' = Publishing("quote", None, FALSE)
              /\ RecordMarketData(i)
        /\ UNCHANGED <<sessions, orders, dates, today, stats, published, told>>

-----------------------------------------------------------------------------
(* DAY orders and the calendar *)

Tick ==
    /\ op = Idle
    /\ today < MaxDay
    /\ today' = today + 1
    /\ UNCHANGED <<sessions, orders, quotes, books, dates, next_arrival,
                   market_data, told, op>>

\* Mutant of Overdue: an order gets a day of grace.
OverdueLate ==
    {k \in Session \X OrderId :
        dates[k[1]][k[2]] # 0 /\ dates[k[1]][k[2]] + 1 < today}

\* expire_day_orders_at: the keys whose day has passed ...
Overdue ==
    {k \in Session \X OrderId : dates[k[1]][k[2]] # 0 /\ dates[k[1]][k[2]] < today}

ExpireDayOrders ==
    /\ op = Idle
    /\ Overdue # {}
    /\ op' = [Idle EXCEPT !.phase = "expire", !.method = "other",
                          !.expired = Overdue]
    /\ UNCHANGED <<sessions, orders, quotes, books, dates, today, next_arrival,
                   market_data, told>>

\* Mutant of ExpireOrder: the state of the order is not looked at.
ExpireOrderAnyState(s, id) ==
    LET old == orders[s][id]
        o   == [old EXCEPT !.state = "Expired", !.remaining = 0]
    IN  /\ op.phase = "expire"
        /\ <<s, id>> \in op.expired
        /\ op' = [op EXCEPT !.expired = @ \ {<<s, id>>}]
        /\ dates' = [dates EXCEPT ![s][id] = 0]
        /\ IF s \in sessions /\ old # None
           THEN /\ books' = [books EXCEPT ![old.inst] =
                                Remove(@, s, id, old.side, old.price)]
                /\ orders' = Synced(orders, o)
                /\ told' = Told(told, o)
                /\ RecordMarketData(old.inst)
           ELSE UNCHANGED <<books, orders, told, sequence, pending, published>>
        /\ UNCHANGED <<sessions, quotes, today, next_arrival, stats>>

\* ... each of which loses its date, and an order that is still active leaves
\* the book and is reported Expired, before any snapshot.
ExpireOrder(s, id) ==
    LET old == orders[s][id]
        o   == [old EXCEPT !.state = "Expired", !.remaining = 0]
    IN  /\ op.phase = "expire"
        /\ <<s, id>> \in op.expired
        /\ op' = [op EXCEPT !.expired = @ \ {<<s, id>>}]
        /\ dates' = [dates EXCEPT ![s][id] = 0]
        /\ IF s \in sessions /\ old # None /\ IsActive(old.state)
           THEN /\ books' = [books EXCEPT ![old.inst] =
                                Remove(@, s, id, old.side, old.price)]
                /\ orders' = Synced(orders, o)
                /\ told' = Told(told, o)
                /\ RecordMarketData(old.inst)
           ELSE UNCHANGED <<books, orders, told, sequence, pending, published>>
        /\ UNCHANGED <<sessions, quotes, today, next_arrival, stats>>

ExpireDone ==
    /\ op.phase = "expire"
    /\ op.expired = {}
    /\ op' = Publishing("other", None, FALSE)
    /\ UNCHANGED <<sessions, orders, quotes, books, dates, today, next_arrival,
                   market_data, told>>

-----------------------------------------------------------------------------
(* Matching, market data and reports *)

\* One trade of match_trades, between the tops of a crossed book.
Match ==
    /\ op.phase = "match"
    /\ LET i == op.incoming.inst
       IN  \E bid \in Top(books[i], "Buy"), ask \in Top(books[i], "Sell") :
            LET t == TradeOf(bid.order, ask.order)
            IN  /\ EffectivePrice(bid.order) >= EffectivePrice(ask.order)
                /\ books' = [books EXCEPT ![i] = AfterTrade(@, bid, ask, t)]
                /\ stats' = [stats EXCEPT ![i] = AddTrade(@, t)]
                /\ op' = [op EXCEPT !.trades = Append(@, t)]
    /\ UNCHANGED <<sessions, orders, quotes, dates, today, next_arrival,
                   sequence, pending, published, told>>

\* Where add() finds the incoming order after matching: still in the book ...
Resting ==
    Located(books[op.incoming.inst], op.incoming.session, op.incoming.id,
            op.incoming.side, EffectivePrice(op.incoming))

\* ... or consumed, in which case its last copy is in the trades.
CopyIn(t) == IF op.incoming.side = "Buy" THEN t.buyer ELSE t.seller

Consumed ==
    {CopyIn(op.trades[k]) : k \in
        {n \in DOMAIN op.trades :
            /\ CopyIn(op.trades[n]).session = op.incoming.session
            /\ CopyIn(op.trades[n]).id = op.incoming.id
            /\ CopyIn(op.trades[n]).remaining = 0}}

\* The end of add(): the remainder of a market order is cancelled; then either
\* the second leg of a quote is added, or the result is recorded.
Remainder(e) == IF op.incoming.type = "Market"
                THEN [e.order EXCEPT !.state = "Cancelled"] ELSE e.order

\* Mutant of StatusDue: no report on the remainder of a market order.
StatusOnlyUntraded(o) == op.method = "create" /\ op.trades = <<>>

\* create_order sends a status when nothing traded, or when the remainder of a
\* market order was cancelled; modify_order_with_type and quote send none.
StatusDue(o) ==
    /\ op.method = "create"
    /\ op.trades = <<>> \/ (o.state = "Cancelled" /\ o.type = "Market")

MatchDone ==
    LET i     == op.incoming.inst
        rest  == IF op.incoming.type = "Market" /\ Resting # {}
                 THEN Drop(books[i], CHOOSE e \in Resting : TRUE)
                 ELSE books[i]
        final == IF Resting # {} THEN {Remainder(e) : e \in Resting} ELSE Consumed
    IN  /\ op.phase = "match"
        /\ ~Crossed(books[i])
        /\ \/ /\ op.askLeg # None
              /\ books' = [books EXCEPT ![i] = Insert(rest, Booked(op.askLeg))]
              /\ op' = [op EXCEPT !.incoming = op.askLeg, !.askLeg = None]
              /\ UNCHANGED <<sequence, pending, published>>
           \/ /\ op.askLeg = None
              /\ books' = [books EXCEPT ![i] = rest]
              /\ \E o \in final :
                    op' = [op EXCEPT !.phase = "publish", !.incoming = None,
                                     !.final = o, !.status = StatusDue(o)]
              /\ RecordMarketData(i)
        /\ UNCHANGED <<sessions, orders, quotes, dates, today, next_arrival,
                       stats, told>>

\* publish_market_data: one slot per changed instrument, in any order.
Publish(i) ==
    /\ op.phase = "publish"
    /\ pending[i] # 0
    /\ published' = [published EXCEPT ![i] =
                        [version |-> pending[i], depth |-> Depth(books[i]),
                         stats |-> stats[i]]]
    /\ pending' = [pending EXCEPT ![i] = 0]
    /\ UNCHANGED <<sessions, orders, quotes, books, dates, today, next_arrival,
                   sequence, stats, told, op>>

\* Mutant of PublishDone: the reports do not wait for the snapshot.
PublishDoneEarly ==
    /\ op.phase = "publish"
    /\ op' = [op EXCEPT !.phase = "report"]
    /\ UNCHANGED <<sessions, orders, quotes, books, dates, today, next_arrival,
                   market_data, told>>

\* Reports wait until every changed instrument is published.
PublishDone ==
    /\ op.phase = "publish"
    /\ \A i \in Instrument : pending[i] = 0
    /\ op' = [op EXCEPT !.phase = "report"]
    /\ UNCHANGED <<sessions, orders, quotes, books, dates, today, next_arrival,
                   market_data, told>>

\* send_trade_reports: both parties of the next trade.
Report ==
    /\ op.phase = "report"
    /\ op.trades # <<>>
    /\ LET t == Head(op.trades)
       IN  /\ orders' = Mirrored(Mirrored(orders, t.buyer), t.seller)
           /\ told' = Told(Told(told, t.buyer), t.seller)
    /\ op' = [op EXCEPT !.trades = Tail(@)]
    /\ UNCHANGED <<sessions, quotes, books, dates, today, next_arrival, market_data>>

\* The final sync and status of create_order, modify_order and cancel_order.
Finish ==
    /\ op.phase = "report"
    /\ op.trades = <<>>
    /\ orders' = IF op.final # None THEN Synced(orders, op.final) ELSE orders
    /\ told' = IF op.status THEN Told(told, op.final) ELSE told
    /\ op' = Idle
    /\ UNCHANGED <<sessions, quotes, books, dates, today, next_arrival, market_data>>

-----------------------------------------------------------------------------

Request(s) ==
    \/ \E id \in OrderId, i \in Instrument, side \in Side, type \in OrderType,
          price \in Price, qty \in Quantity :
          CreateOrder(s, id, i, side, type, price, qty)
    \/ \E orig, id \in OrderId, type \in ReplaceType, price \in Price \cup {0},
          qty \in Quantity : ModifyOrder(s, orig, id, type, price, qty)
    \/ \E orig \in OrderId : CancelOrder(s, orig)
    \/ \E i \in Instrument, bid, ask \in Price \cup {0},
          bidQty, askQty \in Quantity : Quote(s, i, bid, bidQty, ask, askQty)

\* The steps a method takes after its first one.
Continue ==
    \/ DropOrder \/ DropQuote \/ DropDone
    \/ \E s \in Session, id \in OrderId : ExpireOrder(s, id)
    \/ ExpireDone
    \/ Match \/ MatchDone
    \/ \E i \in Instrument : Publish(i)
    \/ PublishDone \/ Report \/ Finish

Next ==
    \/ \E s \in Session : RegisterSession(s) \/ SessionDisconnect(s) \/ Request(s)
    \/ Tick \/ ExpireDayOrders
    \/ Continue

Spec == Init /\ [][Next]_vars
=============================================================================
