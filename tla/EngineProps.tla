---------------------------- MODULE EngineProps ----------------------------
(***************************************************************************)
(* What makes the engine of module Engine correct.                         *)
(***************************************************************************)
EXTENDS Engine, FiniteSetsExt

\* Every variable has the type of the Rust field it models.
TypeOK ==
    /\ sessions \subseteq Session
    /\ orders \in [Session -> [OrderId -> Order \cup {None}]]
    /\ quotes \in [Session -> [Instrument -> QuotePair \cup {None}]]
    /\ books \in [Instrument -> Book]
    /\ dates \in [Session -> [OrderId -> Nat]]
    /\ today \in Nat
    /\ next_arrival \in Nat
    /\ sequence \in Nat
    /\ pending \in [Instrument -> Nat]
    /\ stats \in [Instrument -> Statistics]
    /\ published \in [Instrument -> Snapshot]
    /\ told \in [Session -> [OrderId -> View \cup {None}]]
    /\ op \in Op

-----------------------------------------------------------------------------
(* The books *)

\* Executed plus open quantity is the order quantity, in every copy the engine
\* holds: the book, the mirror, and the trades still to be reported.  Expiry
\* alone writes the open quantity off (apply_fill, modify_order_with_type,
\* expire_day_orders_at).
Conserves(o) == o.state # "Expired" => o.cum + o.remaining = o.quantity

QuantityConserved ==
    /\ \A i \in Instrument : \A e \in books[i].entries : Conserves(e.order)
    /\ \A s \in Session, id \in OrderId :
          orders[s][id] # None => Conserves(orders[s][id])
    /\ \A n \in DOMAIN op.trades :
          Conserves(op.trades[n].buyer) /\ Conserves(op.trades[n].seller)

\* A book is crossed only while match_trades is working on it: what a method
\* leaves behind has every bid below every ask.
Uncrossed ==
    \A i \in Instrument :
        \/ op.phase = "match" /\ op.incoming.inst = i
        \/ \A bid \in SideOf(books[i], "Buy"), ask \in SideOf(books[i], "Sell") :
              EffectivePrice(bid.order) < EffectivePrice(ask.order)

\* Readers, who take no lock, never load a crossed book, not even in the
\* middle of a method (publish_market_data).
PublishedUncrossed ==
    \A i \in Instrument : \A bid, ask \in published[i].depth :
        bid.side = "Buy" /\ ask.side = "Sell" => bid.price < ask.price

\* The total a level keeps is the sum of what its orders have open, and a
\* level without orders is gone (PriceLevel::insert_at, remove, update_fill).
LevelTotals ==
    \A i \in Instrument, l \in Side \X LevelKey :
        LET here == {e \in books[i].entries : LevelOf(e.order) = l}
        IN  IF here = {} THEN books[i].levels[l] = NoLevel
            ELSE books[i].levels[l].total =
                    MapThenSumSet(LAMBDA e : e.order.remaining, here)

\* Within a level the FIFO keys follow the global arrival counter, although
\* keys restart when a level empties and arrivals change on a replace.
FifoIsArrival ==
    \A i \in Instrument : \A e, f \in books[i].entries :
        LevelOf(e.order) = LevelOf(f.order)
            => (e.key < f.key <=> e.order.arrival < f.order.arrival)

\* No party trades at a worse price than its limit: the price of the earlier
\* arrival suits both, since a market order, whose price field says nothing,
\* is never the earlier one (match_trades).
TradeWithinLimits ==
    \A n \in DOMAIN op.trades :
        LET t == op.trades[n]
        IN  /\ t.buyer.type = "Limit" => t.price <= t.buyer.price
            /\ t.seller.type = "Limit" => t.price >= t.seller.price
            /\ t.price > 0

\* Each trade takes, on both sides, the order that price-time priority puts
\* first: the best effective price, then the earliest arrival.
Precedes(o, p) ==
    \/ IF o.side = "Buy" THEN EffectivePrice(o) > EffectivePrice(p)
                         ELSE EffectivePrice(o) < EffectivePrice(p)
    \/ EffectivePrice(o) = EffectivePrice(p) /\ o.arrival < p.arrival

PriceTimePriority ==
    [][Len(op'.trades) > Len(op.trades) =>
          LET t == op'.trades[Len(op'.trades)]
          IN  \A e \in books[t.buyer.inst].entries :
                 ~Precedes(e.order, IF e.order.side = "Buy"
                                    THEN t.buyer ELSE t.seller)]_vars

\* The orders of a trade, by arrival, and those it leaves nothing open of.
Parties(t) == {t.buyer.arrival, t.seller.arrival}

FilledBy(t) == {o.arrival : o \in {p \in {t.buyer, t.seller} : p.remaining = 0}}

\* match_trades, a loop without a bound that holds the engine lock, ends: each
\* of its trades moves something and fills one of its two orders, and an order
\* that was filled is in no later trade, although replacements and quote legs
\* come back under the same id.  So one call makes fewer trades than the book
\* has orders.
MatchingEnds ==
    \A n \in DOMAIN op.trades :
        /\ op.trades[n].quantity > 0
        /\ FilledBy(op.trades[n]) # {}
        /\ \A k \in DOMAIN op.trades :
              k > n => FilledBy(op.trades[n]) \cap Parties(op.trades[k]) = {}

-----------------------------------------------------------------------------
(* The mirror of the sessions *)

\* Between methods a session's active orders are exactly its orders in the
\* books, field by field.  Cancel, replace, expiry and disconnect find the book
\* entry through the mirror's side and price, so a divergence is an order
\* nobody can remove.
MirrorAgrees ==
    op = Idle =>
        {e.order : e \in UNION {books[i].entries : i \in Instrument}}
            \cap {o \in Order : o.id # QuoteId}
        = {orders[s][id] : s \in sessions, id \in OrderId}
            \cap {o \in Order : IsActive(o.state)}

\* Between methods every order in a book belongs to a registered session, and
\* a quote leg stands at the price its session's last quote names, so that the
\* next quote or the disconnect takes it out.
NoGhosts ==
    op = Idle =>
        \A i \in Instrument : \A e \in books[i].entries :
            LET o == e.order
                pair == quotes[o.session][i]
            IN  /\ o.session \in sessions
                /\ o.id = QuoteId =>
                     /\ pair # None
                     /\ o.price = IF o.side = "Buy" THEN pair.bid ELSE pair.ask

\* A terminal order stays as it is until its session ends: a fill or a sync
\* that comes late never revives it.
TerminalIsFinal ==
    [][\A s \in sessions \cap sessions', id \in OrderId :
          orders[s][id] # None /\ ~IsActive(orders[s][id].state)
              => orders'[s][id] = orders[s][id]]_vars

\* Between methods the reports sent to a client say of each of its orders what
\* the engine's record says: open or not, open quantity, executed quantity and
\* average price.
ClientInformed ==
    op = Idle =>
        \A s \in sessions, id \in OrderId :
            told[s][id] = IF orders[s][id] = None THEN None
                          ELSE ViewOf(orders[s][id])

-----------------------------------------------------------------------------
(* Market data *)

\* Between methods the slot of every instrument holds the book as it is: no
\* later event is needed to flush the final state; and while the fills of a
\* match are reported it already shows them.
SnapshotCurrent ==
    \A i \in Instrument :
        /\ op = Idle => published[i].depth = Depth(books[i])
        /\ op = Idle \/ op.phase = "report" => published[i].stats = stats[i]

-----------------------------------------------------------------------------
(* The inductive invariant behind the theorems of EngineProofs *)

\* The fields of an order that fills do not change.
SameOrder(o, p) ==
    /\ o.session = p.session /\ o.id = p.id /\ o.inst = p.inst
    /\ o.side = p.side /\ o.type = p.type /\ o.price = p.price
    /\ o.quantity = p.quantity /\ o.arrival = p.arrival

\* The copy o of an order is the one its session's mirror knows.
Known(o) ==
    o.id # QuoteId => /\ orders[o.session][o.id] # None
                      /\ SameOrder(orders[o.session][o.id], o)

\* The price the last quote of o's session names for o's side.
Quoted(o) ==
    o.id = QuoteId =>
        /\ o.type = "Limit"
        /\ quotes[o.session][o.inst] # None
        /\ o.price = IF o.side = "Buy" THEN quotes[o.session][o.inst].bid
                                       ELSE quotes[o.session][o.inst].ask

\* o and p are the same leg of the quotes of one session.
SameQuote(o, p) ==
    o.id = QuoteId /\ p.id = QuoteId /\ o.session = p.session /\ o.side = p.side

\* Which work each phase of a method can still have in hand.
OpShape ==
    /\ op.phase = "match" => op.incoming # None
    /\ op.askLeg # None =>
        /\ op.phase = "match"
        /\ op.incoming.type = "Limit"
        /\ op.askLeg.inst = op.incoming.inst
        /\ op.askLeg.id = QuoteId
        /\ op.askLeg.side = "Sell"
        /\ \A e \in books[op.incoming.inst].entries :
              ~SameQuote(e.order, op.askLeg)
        /\ op.askLeg.price > 0
        /\ op.askLeg.cum + op.askLeg.remaining = op.askLeg.quantity
        /\ op.askLeg.session \in sessions
        /\ op.incoming.arrival < op.askLeg.arrival
        /\ op.askLeg.arrival <= next_arrival
        /\ Quoted(op.askLeg)
    /\ op.status => op.final # None
    /\ op.leaving \cap sessions = {}
    /\ op.phase # "drop" => op.leaving = {}
    /\ op.phase \in {"idle", "drop", "expire"} => op.final = None /\ op.trades = <<>>

\* Every entry is where its session's mirror, or its last quote, says.
EntriesOwned ==
    \A i \in Instrument : \A e \in books[i].entries :
        /\ e.order.inst = i
        /\ e.order.session \in sessions \cup op.leaving
        /\ IsActive(e.order.state)
        /\ e.order.type = "Limit" => e.order.price > 0
        /\ Known(e.order)
        /\ Quoted(e.order)

\* Arrivals identify the entries of a book, and the incoming order is the last.
ArrivalsUnique ==
    /\ \A i \in Instrument : \A e, f \in books[i].entries :
          e.order.arrival = f.order.arrival => e = f
    /\ \A i \in Instrument : \A e \in books[i].entries :
          e.order.arrival <= next_arrival
    /\ op.phase = "match" =>
          \A e \in books[op.incoming.inst].entries :
              e.order.arrival <= op.incoming.arrival

\* A session has at most one quote leg per side in a book.
QuotesUnique ==
    \A i \in Instrument : \A e, f \in books[i].entries :
        SameQuote(e.order, f.order) => e = f

\* The mirror files every order under its own session and id.
MirrorKeyed ==
    \A s \in Session, id \in OrderId :
        orders[s][id] # None => orders[s][id].session = s /\ orders[s][id].id = id

\* A market order is in a book only while it is being matched.
MarketIsIncoming ==
    \A i \in Instrument : \A e \in books[i].entries :
        e.order.type = "Market" =>
            op.phase = "match" /\ SameOrder(e.order, op.incoming)

\* The copies a method still has to report are of orders the mirror knows.
CopiesKnown ==
    /\ \A n \in DOMAIN op.trades :
          Known(op.trades[n].buyer) /\ Known(op.trades[n].seller)
    /\ op.final # None => Known(op.final) /\ Conserves(op.final)

\* What is proved inductive: each part is needed by the next.  An order found
\* by arrival is the one the mirror knows, so removals hit exactly it, so no
\* market order outlives its matching, so a trade has a limit price.
EngineInv ==
    /\ OpShape
    /\ EntriesOwned
    /\ ArrivalsUnique
    /\ QuotesUnique
    /\ MirrorKeyed
    /\ MarketIsIncoming
    /\ CopiesKnown
    /\ QuantityConserved
    /\ Uncrossed
    /\ PublishedUncrossed
    /\ TradeWithinLimits

-----------------------------------------------------------------------------
(* Progress *)

\* A method that holds the engine lock runs on: nothing in it blocks.  Every
\* acceptor thread calls expire_day_orders each time round its loop, so the
\* other methods cannot be called for ever without it.
FairSpec ==
    /\ Spec
    /\ WF_vars(Continue)
    /\ SF_vars(ExpireDayOrders)

\* An order left from an earlier day does not stay active.
Stale(s, id) ==
    s \in sessions /\ dates[s][id] < today
        /\ orders[s][id] # None /\ IsActive(orders[s][id].state)

DayOrdersExpire ==
    \A s \in Session, id \in OrderId : Stale(s, id) ~> ~Stale(s, id)
=============================================================================
