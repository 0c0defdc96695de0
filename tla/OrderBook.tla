----------------------------- MODULE OrderBook -----------------------------
(***************************************************************************)
(* Orders (core/order.rs) and the order book of one instrument             *)
(* (core/orderbook.rs) as values and operators on them; module Engine      *)
(* keeps one book per instrument in a variable.                            *)
(*                                                                         *)
(* A book is a set of entries plus the bookkeeping PriceLevel keeps beside *)
(* its FIFO: the running total and the next priority key.  A level that    *)
(* the code drops from its BTreeMap is at NoLevel here.  Prices and        *)
(* quantities are natural numbers of ticks and lots; the average price is  *)
(* kept as the exact sum of price * quantity over the fills.               *)
(***************************************************************************)
EXTENDS Integers, FiniteSets

CONSTANTS
    Session,          \* session ids
    OrderId,          \* client order ids (positive in the code)
    QuoteId,          \* QUOTE_ORDER_ID, the id 0 of both legs of a quote
    Instrument,       \* instruments of the catalogue
    Price,            \* limit prices a client may send
    MarketBuyPrice,   \* the level key of a market buy
    None              \* absent: Rust's None

ASSUME PriceAssumption ==
    /\ Price \subseteq Nat \ {0}
    /\ MarketBuyPrice \in Nat \ {0}

Side == {"Buy", "Sell"}

OrderType == {"Limit", "Market"}

OrderState ==
    {"New", "Booked", "PartialFill", "Filled", "Cancelled", "Expired", "Rejected"}

IsActive(state) == state \in {"New", "Booked", "PartialFill"}

\* Keys of the price levels: limit prices and the two market sentinels.
LevelKey == Price \cup {0, MarketBuyPrice}

Order ==
    [session   : Session,
     id        : OrderId \cup {QuoteId},
     inst      : Instrument,
     side      : Side,
     type      : OrderType,
     price     : Price \cup {0},
     quantity  : Nat,
     remaining : Nat,
     cum       : Nat,
     notional  : Nat,
     state     : OrderState,
     arrival   : Nat]

ASSUME NoneAssumption == None \notin Order

ASSUME QuoteIdAssumption == QuoteId \notin OrderId

\* Order::limit and Order::market (a market order carries price 0).
NewOrder(s, id, i, side, type, price, qty, arrival) ==
    [session |-> s, id |-> id, inst |-> i, side |-> side, type |-> type,
     price |-> IF type = "Limit" THEN price ELSE 0,
     quantity |-> qty, remaining |-> qty, cum |-> 0, notional |-> 0,
     state |-> "New", arrival |-> arrival]

EffectivePrice(o) ==
    IF o.type = "Limit" THEN o.price
    ELSE IF o.side = "Buy" THEN MarketBuyPrice ELSE 0

ApplyFill(o, qty, price) ==
    [o EXCEPT !.cum = @ + qty,
              !.remaining = @ - qty,
              !.notional = @ + price * qty,
              !.state = IF o.remaining = qty THEN "Filled" ELSE "PartialFill"]

-----------------------------------------------------------------------------

Entry == [order : Order, key : Nat]

Level == [total : Int, next : Nat]

NoLevel == [total |-> 0, next |-> 0]

Book == [entries : SUBSET Entry, levels : [Side \X LevelKey -> Level]]

EmptyBook ==
    [entries |-> {}, levels |-> [l \in Side \X LevelKey |-> NoLevel]]

LevelOf(o) == <<o.side, EffectivePrice(o)>>

SideOf(b, side) == {e \in b.entries : e.order.side = side}

\* PriceLevel::push_back on the level of o, created when absent.
Insert(b, o) ==
    [entries |-> b.entries \cup {[order |-> o, key |-> b.levels[LevelOf(o)].next]},
     levels  |-> [b.levels EXCEPT ![LevelOf(o)] =
                     [total |-> @.total + o.remaining, next |-> @.next + 1]]]

\* The entry the index of the level at this price finds, if any.
Located(b, s, id, side, price) ==
    {e \in b.entries : /\ e.order.session = s /\ e.order.id = id
                       /\ LevelOf(e.order) = <<side, price>>}

\* PriceLevel::remove and the removal of a level that became empty.
Drop(b, e) ==
    LET rest == b.entries \ {e}
    IN  [entries |-> rest,
         levels  |-> [b.levels EXCEPT ![LevelOf(e.order)] =
            IF \E f \in rest : LevelOf(f.order) = LevelOf(e.order)
            THEN [total |-> @.total - e.order.remaining, next |-> @.next]
            ELSE NoLevel]]

\* OrderBook::remove, a no-op on the book when nothing is located.
Remove(b, s, id, side, price) ==
    LET found == Located(b, s, id, side, price)
    IN  IF found = {} THEN b ELSE Drop(b, CHOOSE e \in found : TRUE)

\* Mutant of UpdateFill: a partial fill leaves the total of the level alone.
UpdateFillKeepsTotal(b, e, o, qty) ==
    IF o.remaining = 0
    THEN Drop(b, e)
    ELSE [b EXCEPT !.entries = (@ \ {e}) \cup {[order |-> o, key |-> e.key]}]

\* Mutant of UpdateFill: an order with nothing open stays in its level.
UpdateFillKeepsFilled(b, e, o, qty) ==
    [entries |-> (b.entries \ {e}) \cup {[order |-> o, key |-> e.key]},
     levels  |-> [b.levels EXCEPT ![LevelOf(o)] =
                     [total |-> @.total - qty, next |-> @.next]]]

\* PriceLevel::update_fill: e is the resting copy, o the copy after a fill.
UpdateFill(b, e, o, qty) ==
    IF o.remaining = 0
    THEN Drop(b, e)
    ELSE [entries |-> (b.entries \ {e}) \cup {[order |-> o, key |-> e.key]},
          levels  |-> [b.levels EXCEPT ![LevelOf(o)] =
                          [total |-> @.total - qty, next |-> @.next]]]

\* Mutant of Ahead: the newest order of the best level is served first.
AheadNewest(e, f) ==
    LET p == EffectivePrice(e.order)
        q == EffectivePrice(f.order)
    IN  \/ IF e.order.side = "Buy" THEN p > q ELSE p < q
        \/ p = q /\ e.key > f.key

\* e is served before f: a better level, or the same level and an older key.
Ahead(e, f) ==
    LET p == EffectivePrice(e.order)
        q == EffectivePrice(f.order)
    IN  \/ IF e.order.side = "Buy" THEN p > q ELSE p < q
        \/ p = q /\ e.key < f.key

\* The top order of the best level of a side.
Top(b, side) ==
    {e \in SideOf(b, side) : \A f \in SideOf(b, side) : f = e \/ Ahead(e, f)}

\* Mutant of Crossed: matching stops at equal prices.
CrossedStrictly(b) ==
    \E bid \in SideOf(b, "Buy"), ask \in SideOf(b, "Sell") :
        EffectivePrice(bid.order) > EffectivePrice(ask.order)

\* The loop condition of match_trades, on its two tops.
Crossed(b) ==
    \E bid \in SideOf(b, "Buy"), ask \in SideOf(b, "Sell") :
        EffectivePrice(bid.order) >= EffectivePrice(ask.order)

\* Mutant of TradeOf: the price of the order that arrived last.
TradeOfIncomingPrice(bid, ask) ==
    LET price == IF bid.arrival > ask.arrival THEN bid.price ELSE ask.price
        qty   == IF bid.remaining <= ask.remaining
                 THEN bid.remaining ELSE ask.remaining
    IN  [buyer |-> ApplyFill(bid, qty, price),
         seller |-> ApplyFill(ask, qty, price),
         price |-> price, quantity |-> qty]

\* Mutant of TradeOf: the quantity of the incoming order, not the smaller one.
TradeOfWholeBid(bid, ask) ==
    LET price == IF bid.arrival < ask.arrival THEN bid.price ELSE ask.price
    IN  [buyer |-> ApplyFill(bid, bid.remaining, price),
         seller |-> ApplyFill(ask, bid.remaining, price),
         price |-> price, quantity |-> bid.remaining]

\* One iteration of match_trades on the two tops, as the trade it pushes.
TradeOf(bid, ask) ==
    LET price == IF bid.arrival < ask.arrival THEN bid.price ELSE ask.price
        qty   == IF bid.remaining <= ask.remaining
                 THEN bid.remaining ELSE ask.remaining
    IN  [buyer |-> ApplyFill(bid, qty, price),
         seller |-> ApplyFill(ask, qty, price),
         price |-> price, quantity |-> qty]

\* ... and the book it leaves.
AfterTrade(b, bid, ask, t) ==
    UpdateFill(UpdateFill(b, bid, t.buyer, t.quantity), ask, t.seller, t.quantity)

\* build_book: one row per level, with the total the level keeps.
Depth(b) ==
    {[side |-> e.order.side, price |-> EffectivePrice(e.order),
      quantity |-> b.levels[LevelOf(e.order)].total] : e \in b.entries}

Row == [side : Side, price : LevelKey, quantity : Int]
=============================================================================
