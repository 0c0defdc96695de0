---------------------------- MODULE EngineProofs ----------------------------
(***************************************************************************)
(* Module Engine for all sets of sessions, ids, instruments, prices and    *)
(* quantities and all bounds: what the operators of module OrderBook       *)
(* return, types, the safety invariant (sessions, the calendar, removals,  *)
(* cancels, expiry, new orders, replacements and quotes; then matching,    *)
(* publication and reports), and the theorems that follow from it.         *)
(***************************************************************************)
EXTENDS EngineProps, TLAPS

-----------------------------------------------------------------------------
(* The operators of the order book *)

\* The keys of the price levels are natural numbers.
LEMMA LevelKeyNat == LevelKey \subseteq Nat
  BY PriceAssumption DEF LevelKey

\* The price field of an order is a natural number.
LEMMA OrderPriceNat ==
  ASSUME NEW o \in Order
  PROVE  o.price \in Nat
  <1>1. o.price \in Price \cup {0}
    BY DEF Order
  <1>2. Price \cup {0} \subseteq Nat
    BY PriceAssumption
  <1> QED
    BY <1>1, <1>2

\* effective_price yields a level key, so every order has a level.
LEMMA EffectivePriceType ==
  ASSUME NEW o \in Order
  PROVE  /\ EffectivePrice(o) \in LevelKey
         /\ LevelOf(o) \in Side \X LevelKey
  BY PriceAssumption DEF Order, EffectivePrice, LevelKey, LevelOf, OrderType

\* The constructors Order::limit and Order::market yield orders.
LEMMA NewOrderType ==
  ASSUME NEW s \in Session, NEW id \in OrderId \cup {QuoteId},
         NEW i \in Instrument, NEW side \in Side, NEW type \in OrderType,
         NEW price \in Price \cup {0}, NEW qty \in Nat, NEW arrival \in Nat
  PROVE  NewOrder(s, id, i, side, type, price, qty, arrival) \in Order
  BY DEF NewOrder, Order, OrderState

\* apply_fill yields an order, of the same identity and level, when it fills no
\* more than is open.
LEMMA ApplyFillType ==
  ASSUME NEW o \in Order, NEW qty \in Nat, NEW price \in Nat,
         qty <= o.remaining
  PROVE  ApplyFill(o, qty, price) \in Order
  <1>1. price * qty \in Nat
    OBVIOUS
  <1>2. o.remaining - qty \in Nat
    BY DEF Order
  <1>3. ASSUME NEW c \in Nat, NEW r \in Nat, NEW n \in Nat, NEW st \in OrderState
        PROVE  [o EXCEPT !.cum = c, !.remaining = r,
                         !.notional = n, !.state = st] \in Order
    BY DEF Order
  <1>5. o.cum + qty \in Nat /\ o.notional + price * qty \in Nat
    BY <1>1 DEF Order
  <1>4. (IF o.remaining = qty THEN "Filled" ELSE "PartialFill") \in OrderState
    BY DEF OrderState
  <1> QED
    BY <1>2, <1>3, <1>4, <1>5 DEF ApplyFill

\* Inserting an order keeps a book a book.
LEMMA InsertType ==
  ASSUME NEW b \in Book, NEW o \in Order
  PROVE  Insert(b, o) \in Book
  <1>1. LevelOf(o) \in Side \X LevelKey
    BY EffectivePriceType
  <1>2. b.levels[LevelOf(o)] \in Level
    BY <1>1 DEF Book
  <1>3. [total |-> b.levels[LevelOf(o)].total + o.remaining,
         next |-> b.levels[LevelOf(o)].next + 1] \in Level
    BY <1>2 DEF Level, Order
  <1>4. [order |-> o, key |-> b.levels[LevelOf(o)].next] \in Entry
    BY <1>2 DEF Entry, Level
  <1> QED
    BY <1>1, <1>3, <1>4 DEF Insert, Book

\* Dropping an entry keeps a book a book.
LEMMA DropType ==
  ASSUME NEW b \in Book, NEW e \in b.entries
  PROVE  Drop(b, e) \in Book
  <1>1. e.order \in Order /\ e.order.remaining \in Nat
    BY DEF Book, Entry, Order
  <1>2. LevelOf(e.order) \in Side \X LevelKey
    BY <1>1, EffectivePriceType
  <1>3. b.levels[LevelOf(e.order)] \in Level
    BY <1>2 DEF Book
  <1>4. [total |-> b.levels[LevelOf(e.order)].total - e.order.remaining,
         next |-> b.levels[LevelOf(e.order)].next] \in Level
    BY <1>1, <1>3 DEF Level
  <1>5. NoLevel \in Level
    BY DEF NoLevel, Level
  <1> QED
    BY <1>2, <1>4, <1>5 DEF Drop, Book

\* OrderBook::remove keeps a book a book and adds no entry.
LEMMA RemoveType ==
  ASSUME NEW b \in Book, NEW s, NEW id, NEW side, NEW price
  PROVE  /\ Remove(b, s, id, side, price) \in Book
         /\ Remove(b, s, id, side, price).entries \subseteq b.entries
  <1> DEFINE found == Located(b, s, id, side, price)
  <1>1. CASE found = {}
    BY <1>1 DEF Remove
  <1>2. CASE found # {}
    <2> DEFINE e == CHOOSE x \in found : TRUE
    <2>1. e \in b.entries
      BY <1>2 DEF Located
    <2>2. Remove(b, s, id, side, price) = Drop(b, e)
      BY <1>2 DEF Remove
    <2>3. Drop(b, e).entries = b.entries \ {e}
      BY DEF Drop
    <2> HIDE DEF e
    <2> QED
      BY <2>1, <2>2, <2>3, DropType
  <1> QED
    BY <1>1, <1>2

\* update_fill keeps a book a book.
LEMMA UpdateFillType ==
  ASSUME NEW b \in Book, NEW e \in b.entries, NEW o \in Order, NEW qty \in Nat
  PROVE  UpdateFill(b, e, o, qty) \in Book
  <1>1. LevelOf(o) \in Side \X LevelKey
    BY EffectivePriceType
  <1>2. b.levels[LevelOf(o)] \in Level
    BY <1>1 DEF Book
  <1>3. [total |-> b.levels[LevelOf(o)].total - qty,
         next |-> b.levels[LevelOf(o)].next] \in Level
    BY <1>2 DEF Level
  <1>4. [order |-> o, key |-> e.key] \in Entry
    BY DEF Entry, Book
  <1> QED
    BY <1>1, <1>3, <1>4, DropType DEF UpdateFill, Book

\* One iteration of match_trades fills both tops by what the smaller has open.
LEMMA TradeOfType ==
  ASSUME NEW bid \in Order, NEW ask \in Order
  PROVE  LET t == TradeOf(bid, ask)
         IN  /\ t.buyer \in Order /\ t.seller \in Order
             /\ t.price \in Nat /\ t.quantity \in Nat
             /\ t = [buyer |-> t.buyer, seller |-> t.seller,
                     price |-> t.price, quantity |-> t.quantity]
  <1> DEFINE p == IF bid.arrival < ask.arrival THEN bid.price ELSE ask.price
             q == IF bid.remaining <= ask.remaining
                  THEN bid.remaining ELSE ask.remaining
  <1>0. bid.remaining \in Nat /\ ask.remaining \in Nat
    BY DEF Order
  <1>4. bid.price \in Nat /\ ask.price \in Nat
    BY OrderPriceNat
  <1>1. p \in Nat /\ q \in Nat /\ q <= bid.remaining /\ q <= ask.remaining
    BY <1>0, <1>4
  <1>2. TradeOf(bid, ask) = [buyer |-> ApplyFill(bid, q, p),
                             seller |-> ApplyFill(ask, q, p),
                             price |-> p, quantity |-> q]
    BY DEF TradeOf
  <1> HIDE DEF p, q
  <1>3. ApplyFill(bid, q, p) \in Order /\ ApplyFill(ask, q, p) \in Order
    BY <1>1, ApplyFillType
  <1> QED
    BY <1>1, <1>2, <1>3

\* An entry that update_fill did not name is still there.
LEMMA UpdateFillKeeps ==
  ASSUME NEW b \in Book, NEW e \in b.entries, NEW o, NEW qty,
         NEW f \in b.entries, f # e
  PROVE  f \in UpdateFill(b, e, o, qty).entries
  BY DEF UpdateFill, Drop

\* The book after a trade between two different entries is a book.
LEMMA AfterTradeType ==
  ASSUME NEW b \in Book, NEW bid \in b.entries, NEW ask \in b.entries,
         bid # ask
  PROVE  AfterTrade(b, bid, ask, TradeOf(bid.order, ask.order)) \in Book
  <1> DEFINE t == TradeOf(bid.order, ask.order)
             c == UpdateFill(b, bid, t.buyer, t.quantity)
  <1>1. bid.order \in Order /\ ask.order \in Order
    BY DEF Book, Entry
  <1>2. t.buyer \in Order /\ t.seller \in Order /\ t.quantity \in Nat
    BY <1>1, TradeOfType
  <1> HIDE DEF t
  <1>3. c \in Book
    BY <1>2, UpdateFillType
  <1>4. ask \in c.entries
    BY UpdateFillKeeps
  <1> HIDE DEF c
  <1>5. UpdateFill(c, ask, t.seller, t.quantity) \in Book
    BY <1>2, <1>3, <1>4, UpdateFillType
  <1> QED
    BY <1>5 DEF AfterTrade, c, t

\* build_book yields rows.
LEMMA DepthType ==
  ASSUME NEW b \in Book
  PROVE  Depth(b) \in SUBSET Row
  <1> SUFFICES ASSUME NEW e \in b.entries
               PROVE  [side |-> e.order.side, price |-> EffectivePrice(e.order),
                       quantity |-> b.levels[LevelOf(e.order)].total] \in Row
    BY DEF Depth
  <1>1. e.order \in Order
    BY DEF Book, Entry
  <1>2. EffectivePrice(e.order) \in LevelKey /\ LevelOf(e.order) \in Side \X LevelKey
    BY <1>1, EffectivePriceType
  <1>3. b.levels[LevelOf(e.order)].total \in Int
    BY <1>2 DEF Book, Level
  <1> QED
    BY <1>1, <1>2, <1>3 DEF Row, Order

\* OrderBook::remove takes out exactly what the index locates, when that is at
\* most one entry.
LEMMA RemoveEntries ==
  ASSUME NEW b, NEW s, NEW id, NEW side, NEW price,
         \A e, f \in Located(b, s, id, side, price) : e = f
  PROVE  Remove(b, s, id, side, price).entries
           = b.entries \ Located(b, s, id, side, price)
  <1> DEFINE found == Located(b, s, id, side, price)
  <1>1. CASE found = {}
    BY <1>1 DEF Remove
  <1>2. CASE found # {}
    <2> DEFINE e == CHOOSE x \in found : TRUE
    <2>1. e \in found
      BY <1>2
    <2>2. found = {e}
      BY <2>1
    <2>3. Remove(b, s, id, side, price).entries = b.entries \ {e}
      BY <1>2 DEF Remove, Drop
    <2> QED
      BY <2>2, <2>3
  <1> QED
    BY <1>1, <1>2

\* A trade leaves the other entries as they were, and of the two that traded
\* the ones with something still open, under their old key.
LEMMA AfterTradeEntries ==
  ASSUME NEW b, NEW bid, NEW ask, NEW t,
         NEW e \in AfterTrade(b, bid, ask, t).entries
  PROVE  \/ e \in b.entries \ {bid, ask}
         \/ t.buyer.remaining # 0 /\ e = [order |-> t.buyer, key |-> bid.key]
         \/ t.seller.remaining # 0 /\ e = [order |-> t.seller, key |-> ask.key]
  <1> DEFINE c == UpdateFill(b, bid, t.buyer, t.quantity)
  <1>1. \A x \in c.entries :
           \/ x \in b.entries \ {bid}
           \/ t.buyer.remaining # 0 /\ x = [order |-> t.buyer, key |-> bid.key]
    BY DEF UpdateFill, Drop
  <1> HIDE DEF c
  <1>2. \A x \in UpdateFill(c, ask, t.seller, t.quantity).entries :
           \/ x \in c.entries \ {ask}
           \/ t.seller.remaining # 0 /\ x = [order |-> t.seller, key |-> ask.key]
    BY DEF UpdateFill, Drop
  <1>3. e \in UpdateFill(c, ask, t.seller, t.quantity).entries
    BY DEF AfterTrade, c
  <1> QED
    BY <1>1, <1>2, <1>3


-----------------------------------------------------------------------------
(* Types of the helpers *)

\* The work records the methods start from have the type of op.
LEMMA OpTypes ==
  /\ Idle \in Op
  /\ \A m \in {"create", "replace", "quote"}, o \in Order, a \in Order \cup {None} :
        Matching(m, o, a) \in Op
  /\ \A m \in {"replace", "cancel", "quote", "other"},
        f \in Order \cup {None}, st \in BOOLEAN : Publishing(m, f, st) \in Op
  /\ \A l \in SUBSET Session :
        [Idle EXCEPT !.phase = "drop", !.method = "other", !.leaving = l] \in Op
  /\ \A x \in SUBSET (Session \X OrderId) :
        [Idle EXCEPT !.phase = "expire", !.method = "other", !.expired = x] \in Op
  <1>1. <<>> \in Seq(Trade)
    OBVIOUS
  <1>2. Idle \in Op
    BY <1>1 DEF Idle, Op, Phase
  <1> QED
    BY <1>1, <1>2 DEF Idle, Op, Phase, Matching, Publishing

\* What a client is told of an order is a view.
LEMMA ViewType ==
  ASSUME NEW o \in Order
  PROVE  ViewOf(o) \in View
  BY DEF ViewOf, View, Order, IsActive

\* Changing the state field of an order gives an order.
LEMMA StateType ==
  ASSUME NEW o \in Order, NEW st \in OrderState
  PROVE  [o EXCEPT !.state = st] \in Order
  BY DEF Order

LEMMA BookedType ==
  ASSUME NEW o \in Order
  PROVE  Booked(o) \in Order
  BY StateType DEF Booked, OrderState

\* The mirror and the clients' views stay well typed under the three helpers
\* that change them.
LEMMA MirrorTypes ==
  ASSUME NEW m \in [Session -> [OrderId -> Order \cup {None}]], NEW o \in Order
  PROVE  /\ Synced(m, o) \in [Session -> [OrderId -> Order \cup {None}]]
         /\ Mirrored(m, o) \in [Session -> [OrderId -> Order \cup {None}]]
  <1>1. o.session \in Session /\ (o.id # QuoteId => o.id \in OrderId)
    BY DEF Order
  <1>2. ASSUME NEW x \in Order
        PROVE  [x EXCEPT !.remaining = o.remaining, !.cum = o.cum,
                         !.notional = o.notional, !.state = o.state] \in Order
    <2>1. o.remaining \in Nat /\ o.cum \in Nat /\ o.notional \in Nat
          /\ o.state \in OrderState
      BY DEF Order
    <2>2. ASSUME NEW r \in Nat, NEW c \in Nat, NEW n \in Nat, NEW st \in OrderState
          PROVE  [x EXCEPT !.remaining = r, !.cum = c, !.notional = n,
                           !.state = st] \in Order
      BY DEF Order
    <2> QED
      BY <2>1, <2>2
  <1>3. Synced(m, o) \in [Session -> [OrderId -> Order \cup {None}]]
    BY <1>1 DEF Synced
  <1>4. Mirrored(m, o) \in [Session -> [OrderId -> Order \cup {None}]]
    <2>1. CASE o.id # QuoteId /\ o.session \in sessions
                 /\ m[o.session][o.id] # None
      <3> DEFINE x == m[o.session][o.id]
                 y == [x EXCEPT !.remaining = o.remaining, !.cum = o.cum,
                                !.notional = o.notional, !.state = o.state]
      <3>1. x \in Order
        BY <1>1, <2>1
      <3>2. y \in Order
        BY <1>2, <3>1
      <3>3. Mirrored(m, o) = [m EXCEPT ![o.session][o.id] = y]
        BY <2>1 DEF Mirrored
      <3> HIDE DEF y
      <3> QED
        BY <1>1, <2>1, <3>2, <3>3
    <2>2. CASE ~(o.id # QuoteId /\ o.session \in sessions
                   /\ m[o.session][o.id] # None)
      BY <2>2 DEF Mirrored
    <2> QED
      BY <2>1, <2>2
  <1> QED
    BY <1>3, <1>4

LEMMA ToldType ==
  ASSUME NEW v \in [Session -> [OrderId -> View \cup {None}]], NEW o \in Order
  PROVE  Told(v, o) \in [Session -> [OrderId -> View \cup {None}]]
  <1>1. o.session \in Session /\ (o.id # QuoteId => o.id \in OrderId)
    BY DEF Order
  <1> QED
    BY <1>1, ViewType DEF Told

\* A trade added to the statistics gives statistics.
LEMMA AddTradeType ==
  ASSUME NEW st \in Statistics, NEW t, t.quantity \in Nat, t.price \in Nat
  PROVE  AddTrade(st, t) \in Statistics
  BY DEF AddTrade, Statistics

\* Taking quote legs out of a book leaves a book.
LEMMA WithoutQuoteType ==
  ASSUME NEW b \in Book, NEW s, NEW pair
  PROVE  /\ WithoutQuote(b, s, pair) \in Book
         /\ WithoutQuote(b, s, pair).entries \subseteq b.entries
  <1> DEFINE c == Remove(b, s, QuoteId, "Buy", pair.bid)
  <1>1. c \in Book /\ c.entries \subseteq b.entries
    BY RemoveType
  <1> HIDE DEF c
  <1>2. /\ Remove(c, s, QuoteId, "Sell", pair.ask) \in Book
        /\ Remove(c, s, QuoteId, "Sell", pair.ask).entries \subseteq c.entries
    BY <1>1, RemoveType
  <1> QED
    BY <1>1, <1>2 DEF WithoutQuote, c

-----------------------------------------------------------------------------
(* Type correctness *)

LEMMA InitType == Init => TypeOK
  <1> SUFFICES ASSUME Init PROVE TypeOK
    OBVIOUS
  <1>1. EmptyBook \in Book
    BY DEF EmptyBook, Book, NoLevel, Level
  <1>2. NoSnapshot \in Snapshot /\ NoStatistics \in Statistics
    BY DEF NoSnapshot, Snapshot, NoStatistics, Statistics
  <1> QED
    BY <1>1, <1>2, OpTypes DEF Init, TypeOK

\* record_market_data keeps the market data variables well typed.
LEMMA RecordType ==
  ASSUME TypeOK, NEW i \in Instrument, RecordMarketData(i)
  PROVE  /\ sequence' \in Nat
         /\ pending' \in [Instrument -> Nat]
         /\ published' \in [Instrument -> Snapshot]
  BY DEF TypeOK, RecordMarketData

\* Methods that only start, or only touch sessions and the calendar.
LEMMA SessionStepsType ==
  ASSUME TypeOK,
         NEW s \in Session,
         RegisterSession(s) \/ SessionDisconnect(s) \/ Tick \/ ExpireDayOrders
  PROVE  TypeOK'
  <1>1. CASE RegisterSession(s)
    BY <1>1 DEF RegisterSession, TypeOK, market_data
  <1>2. CASE SessionDisconnect(s)
    <2>1. [Idle EXCEPT !.phase = "drop", !.method = "other", !.leaving = {s}] \in Op
      BY OpTypes
    <2> QED
      BY <1>2, <2>1 DEF SessionDisconnect, TypeOK, market_data
  <1>3. CASE Tick
    BY <1>3 DEF Tick, TypeOK, market_data
  <1>4. CASE ExpireDayOrders
    <2>1. Overdue \in SUBSET (Session \X OrderId)
      BY DEF Overdue
    <2>2. [Idle EXCEPT !.phase = "expire", !.method = "other",
                       !.expired = Overdue] \in Op
      BY <2>1, OpTypes
    <2> QED
      BY <1>4, <2>2 DEF ExpireDayOrders, TypeOK, market_data
  <1> QED
    BY <1>1, <1>2, <1>3, <1>4

LEMMA DropStepsType ==
  ASSUME TypeOK, DropOrder \/ DropQuote \/ DropDone
  PROVE  TypeOK'
  <1>1. CASE DropOrder
    <2>1. PICK s \in op.leaving, id \in OrderId :
            /\ orders[s][id] # None
            /\ LET o == orders[s][id]
               IN  /\ books' = [books EXCEPT ![o.inst] =
                                   Remove(@, s, id, o.side, o.price)]
                   /\ RecordMarketData(o.inst)
            /\ orders' = [orders EXCEPT ![s][id] = None]
      BY <1>1 DEF DropOrder
    <2> DEFINE o == orders[s][id]
    <2>2. s \in Session /\ o \in Order /\ o.inst \in Instrument
      BY <2>1 DEF TypeOK, Op, Order
    <2>3. books' \in [Instrument -> Book]
      BY <2>1, <2>2, RemoveType DEF TypeOK
    <2>4. orders' \in [Session -> [OrderId -> Order \cup {None}]]
      BY <2>1, <2>2 DEF TypeOK
    <2>5. /\ sequence' \in Nat /\ pending' \in [Instrument -> Nat]
          /\ published' \in [Instrument -> Snapshot]
      BY <2>1, <2>2, RecordType
    <2> QED
      BY <1>1, <2>3, <2>4, <2>5 DEF DropOrder, TypeOK
  <1>2. CASE DropQuote
    <2>1. PICK s \in op.leaving, i \in Instrument :
            /\ books' = [books EXCEPT ![i] = WithoutQuote(@, s, quotes[s][i])]
            /\ RecordMarketData(i)
            /\ quotes' = [quotes EXCEPT ![s][i] = None]
      BY <1>2 DEF DropQuote
    <2>2. s \in Session
      BY DEF TypeOK, Op
    <2>3. books' \in [Instrument -> Book]
      BY <2>1, WithoutQuoteType DEF TypeOK
    <2>4. quotes' \in [Session -> [Instrument -> QuotePair \cup {None}]]
      BY <2>1, <2>2 DEF TypeOK
    <2>5. /\ sequence' \in Nat /\ pending' \in [Instrument -> Nat]
          /\ published' \in [Instrument -> Snapshot]
      BY <2>1, RecordType
    <2> QED
      BY <1>2, <2>3, <2>4, <2>5 DEF DropQuote, TypeOK
  <1>3. CASE DropDone
    BY <1>3, OpTypes DEF DropDone, TypeOK, market_data
  <1> QED
    BY <1>1, <1>2, <1>3

LEMMA CreateOrderType ==
  ASSUME TypeOK,
         NEW s \in Session, NEW id \in OrderId, NEW i \in Instrument,
         NEW side \in Side, NEW type \in OrderType, NEW price \in Price,
         NEW qty \in Quantity, CreateOrder(s, id, i, side, type, price, qty)
  PROVE  TypeOK'
  <1> DEFINE o == NewOrder(s, id, i, side, type, price, qty, next_arrival + 1)
  <1>1. o \in Order
    BY NewOrderType, InputAssumption DEF TypeOK
  <1> HIDE DEF o
  <1>2. books' \in [Instrument -> Book]
    BY <1>1, BookedType, InsertType DEF CreateOrder, o, TypeOK
  <1>3. op' \in Op
    BY <1>1, OpTypes DEF CreateOrder, o
  <1>4. orders' \in [Session -> [OrderId -> Order \cup {None}]]
    BY <1>1 DEF CreateOrder, o, TypeOK
  <1> QED
    BY <1>2, <1>3, <1>4 DEF CreateOrder, TypeOK, market_data

\* A replacement is an order, of the same session, instrument and side.
LEMMA ReplacementType ==
  ASSUME next_arrival \in Nat, NEW old \in Order, NEW id \in OrderId,
         NEW type \in OrderType, NEW price \in Price \cup {0}, NEW qty \in Nat,
         qty >= old.cum
  PROVE  Replacement(old, id, type, price, qty) \in Order
  <1>1. qty - old.cum \in Nat
    BY DEF Order
  <1>2. (IF qty - old.cum = 0 THEN "Filled"
         ELSE IF old.cum # 0 THEN "PartialFill" ELSE "Booked") \in OrderState
    BY DEF OrderState
  <1> DEFINE r == qty - old.cum
             st == IF r = 0 THEN "Filled"
                   ELSE IF old.cum # 0 THEN "PartialFill" ELSE "Booked"
             a == next_arrival + 1
  <1>4. r \in Nat /\ st \in OrderState /\ a \in Nat
    BY <1>1, <1>2
  <1>5. Replacement(old, id, type, price, qty)
          = [old EXCEPT !.id = id, !.type = type, !.price = price,
                        !.quantity = qty, !.remaining = r, !.state = st,
                        !.arrival = a]
    BY DEF Replacement
  <1> HIDE DEF r, st, a
  <1>6. [old EXCEPT !.id = id, !.type = type, !.price = price,
                    !.quantity = qty, !.remaining = r, !.state = st,
                    !.arrival = a] \in Order
    BY <1>4 DEF Order
  <1> QED
    BY <1>5, <1>6

LEMMA ModifyOrderType ==
  ASSUME TypeOK,
         NEW s \in Session, NEW orig \in OrderId, NEW id \in OrderId,
         NEW type \in OrderType, NEW price \in Price \cup {0},
         NEW qty \in Quantity, ModifyOrder(s, orig, id, type, price, qty)
  PROVE  TypeOK'
  <1> DEFINE old  == orders[s][orig]
             o    == Replacement(old, id, type, price, qty)
             gone == Remove(books[old.inst], s, orig, old.side, old.price)
  <1>1. old \in Order /\ old.inst \in Instrument /\ qty >= old.cum
    BY DEF ModifyOrder, TypeOK, Order
  <1>2. o \in Order
    BY <1>1, ReplacementType, InputAssumption DEF TypeOK
  <1>3. gone \in Book
    BY <1>1, RemoveType DEF TypeOK
  <1>4. Insert(gone, Booked(o)) \in Book
    BY <1>2, <1>3, BookedType, InsertType
  <1>5. RecordMarketData(old.inst)
    BY DEF ModifyOrder
  <1> HIDE DEF o, gone
  <1>6. books' \in [Instrument -> Book]
    BY <1>1, <1>3, <1>4 DEF ModifyOrder, o, gone, TypeOK
  <1>7. op' \in Op
    <2>1. \/ op' = Publishing("replace", None, FALSE)
          \/ op' = Matching("replace", o, None)
      BY DEF ModifyOrder, o
    <2> QED
      BY <1>2, <2>1, OpTypes
  <1>8. /\ orders' \in [Session -> [OrderId -> Order \cup {None}]]
        /\ told' \in [Session -> [OrderId -> View \cup {None}]]
    <2>1. orders' = [orders EXCEPT ![s] = [@ EXCEPT ![orig] = None, ![id] = o]]
          /\ told' = [told EXCEPT ![s] =
                         [@ EXCEPT ![orig] = None, ![id] = ViewOf(o)]]
      BY DEF ModifyOrder, o
    <2> QED
      BY <1>2, <2>1, ViewType DEF TypeOK
  <1>9. dates' \in [Session -> [OrderId -> Nat]]
    BY DEF ModifyOrder, Redated, TypeOK
  <1>10. next_arrival' \in Nat
    BY DEF ModifyOrder, TypeOK
  <1> QED
    BY <1>1, <1>5, <1>6, <1>7, <1>8, <1>9, <1>10, RecordType
    DEF ModifyOrder, TypeOK

LEMMA CancelOrderType ==
  ASSUME TypeOK, NEW s \in Session, NEW orig \in OrderId, CancelOrder(s, orig)
  PROVE  TypeOK'
  <1> DEFINE old == orders[s][orig]
  <1>1. old \in Order /\ old.inst \in Instrument
    BY DEF CancelOrder, TypeOK, Order
  <1>2. PICK e \in Located(books[old.inst], s, orig, old.side, old.price) :
          /\ books' = [books EXCEPT ![old.inst] = Drop(@, e)]
          /\ orders' = [orders EXCEPT ![s][orig] =
                           [e.order EXCEPT !.state = "Cancelled"]]
          /\ op' = Publishing("cancel", [e.order EXCEPT !.state = "Cancelled"], TRUE)
    BY DEF CancelOrder
  <1>3. books[old.inst] \in Book /\ e \in books[old.inst].entries
    BY <1>1, <1>2 DEF Located, TypeOK
  <1>4. [e.order EXCEPT !.state = "Cancelled"] \in Order
    BY <1>3, StateType DEF Book, Entry, OrderState
  <1>5. books' \in [Instrument -> Book]
    BY <1>1, <1>2, <1>3, DropType DEF TypeOK
  <1>6. op' \in Op
    BY <1>2, <1>4, OpTypes
  <1>7. orders' \in [Session -> [OrderId -> Order \cup {None}]]
    BY <1>2, <1>4 DEF TypeOK
  <1>8. RecordMarketData(old.inst)
    BY DEF CancelOrder
  <1> QED
    BY <1>1, <1>5, <1>6, <1>7, <1>8, RecordType DEF CancelOrder, TypeOK

LEMMA QuoteType ==
  ASSUME TypeOK,
         NEW s \in Session, NEW i \in Instrument,
         NEW bid \in Price \cup {0}, NEW ask \in Price \cup {0},
         NEW bidQty \in Quantity, NEW askQty \in Quantity,
         Quote(s, i, bid, bidQty, ask, askQty)
  PROVE  TypeOK'
  <1> DEFINE gone == WithoutQuote(books[i], s, quotes[s][i])
             legs == (IF bid # 0 THEN 1 ELSE 0) + (IF ask # 0 THEN 1 ELSE 0)
             bidLeg == QuoteLeg(s, i, "Buy", bid, bidQty, next_arrival + 1)
             askLeg == QuoteLeg(s, i, "Sell", ask, askQty, next_arrival + legs)
  <1>1. gone \in Book
    BY WithoutQuoteType DEF TypeOK
  <1>2. legs \in Nat /\ next_arrival \in Nat
    BY DEF TypeOK
  <1>3. bidLeg \in Order /\ askLeg \in Order
    <2>1. /\ bidQty \in Nat /\ askQty \in Nat
          /\ next_arrival + 1 \in Nat /\ next_arrival + legs \in Nat
      BY <1>2, InputAssumption
    <2>2. /\ QuoteId \in OrderId \cup {QuoteId}
          /\ "Buy" \in Side /\ "Sell" \in Side /\ "Limit" \in OrderType
      BY DEF Side, OrderType
    <2> HIDE DEF legs
    <2> QED
      BY <2>1, <2>2, NewOrderType DEF QuoteLeg
  <1>4. Insert(gone, Booked(bidLeg)) \in Book /\ Insert(gone, Booked(askLeg)) \in Book
    BY <1>1, <1>3, BookedType, InsertType
  <1>5. books[i] \in Book /\ [bid |-> bid, ask |-> ask] \in QuotePair
    BY DEF TypeOK, QuotePair
  <1>6. next_arrival' = next_arrival + legs
    BY DEF Quote
  <1>7. quotes' = [quotes EXCEPT ![s][i] = [bid |-> bid, ask |-> ask]]
    BY DEF Quote
  <1>8. \/ /\ books' = [books EXCEPT ![i] = Insert(gone, Booked(bidLeg))]
           /\ op' = Matching("quote", bidLeg, IF ask # 0 THEN askLeg ELSE None)
           /\ UNCHANGED <<sequence, pending>>
        \/ /\ books' = [books EXCEPT ![i] = Insert(gone, Booked(askLeg))]
           /\ op' = Matching("quote", askLeg, None)
           /\ UNCHANGED <<sequence, pending>>
        \/ /\ books' = [books EXCEPT ![i] = gone]
           /\ op' = Publishing("quote", None, FALSE)
           /\ RecordMarketData(i)
    BY DEF Quote
  <1> HIDE DEF gone, legs, bidLeg, askLeg
  <1>9. books' \in [Instrument -> Book]
    BY <1>1, <1>4, <1>8 DEF TypeOK
  <1>10. op' \in Op
    <2>1. (IF ask # 0 THEN askLeg ELSE None) \in Order \cup {None}
      BY <1>3
    <2> QED
      BY <1>3, <1>8, <2>1, OpTypes
  <1>11. sequence' \in Nat /\ pending' \in [Instrument -> Nat]
    BY <1>8, RecordType DEF TypeOK
  <1>12. quotes' \in [Session -> [Instrument -> QuotePair \cup {None}]]
    BY <1>5, <1>7 DEF TypeOK
  <1> QED
    BY <1>2, <1>6, <1>9, <1>10, <1>11, <1>12 DEF Quote, TypeOK

LEMMA ExpireStepsType ==
  ASSUME TypeOK,
         NEW s \in Session, NEW id \in OrderId, ExpireOrder(s, id) \/ ExpireDone
  PROVE  TypeOK'
  <1>1. CASE ExpireOrder(s, id)
    <2> DEFINE old == orders[s][id]
               o   == [old EXCEPT !.state = "Expired", !.remaining = 0]
    <2>1. op' \in Op
      BY <1>1 DEF ExpireOrder, TypeOK, Op
    <2>2. dates' \in [Session -> [OrderId -> Nat]]
      BY <1>1 DEF ExpireOrder, TypeOK
    <2>3. CASE s \in sessions /\ old # None /\ IsActive(old.state)
      <3>1. old \in Order /\ old.inst \in Instrument
        BY <2>3 DEF TypeOK, Order
      <3>2. o \in Order
        BY <3>1 DEF Order, OrderState
      <3>3. /\ books' = [books EXCEPT ![old.inst] =
                            Remove(@, s, id, old.side, old.price)]
            /\ orders' = Synced(orders, o)
            /\ told' = Told(told, o)
            /\ RecordMarketData(old.inst)
        BY <1>1, <2>3 DEF ExpireOrder
      <3> HIDE DEF o
      <3>4. books' \in [Instrument -> Book]
        BY <3>1, <3>3, RemoveType DEF TypeOK
      <3>5. /\ orders' \in [Session -> [OrderId -> Order \cup {None}]]
            /\ told' \in [Session -> [OrderId -> View \cup {None}]]
        BY <3>2, <3>3, MirrorTypes, ToldType DEF TypeOK
      <3> QED
        BY <1>1, <2>1, <2>2, <3>1, <3>3, <3>4, <3>5, RecordType
        DEF ExpireOrder, TypeOK
    <2>4. CASE ~(s \in sessions /\ old # None /\ IsActive(old.state))
      BY <1>1, <2>1, <2>2, <2>4 DEF ExpireOrder, TypeOK
    <2> QED
      BY <2>3, <2>4
  <1>2. CASE ExpireDone
    BY <1>2, OpTypes DEF ExpireDone, TypeOK, market_data
  <1> QED
    BY <1>1, <1>2

\* The tops of the two sides are two different entries of the book.
LEMMA TopEntries ==
  ASSUME NEW b \in Book, NEW bid \in Top(b, "Buy"), NEW ask \in Top(b, "Sell")
  PROVE  /\ bid \in b.entries /\ ask \in b.entries /\ bid # ask
         /\ bid.order \in Order /\ ask.order \in Order
         /\ bid.order.side = "Buy" /\ ask.order.side = "Sell"
  BY DEF Top, SideOf, Book, Entry

LEMMA MatchType ==
  ASSUME TypeOK, Match, op.incoming \in Order
  PROVE  TypeOK'
  <1> DEFINE i == op.incoming.inst
  <1>1. i \in Instrument /\ books[i] \in Book
    BY DEF TypeOK, Order
  <1>2. PICK bid \in Top(books[i], "Buy"), ask \in Top(books[i], "Sell") :
          LET t == TradeOf(bid.order, ask.order)
          IN  /\ books' = [books EXCEPT ![i] = AfterTrade(@, bid, ask, t)]
              /\ stats' = [stats EXCEPT ![i] = AddTrade(@, t)]
              /\ op' = [op EXCEPT !.trades = Append(@, t)]
    BY DEF Match
  <1>3. /\ bid \in books[i].entries /\ ask \in books[i].entries /\ bid # ask
        /\ bid.order \in Order /\ ask.order \in Order
    BY <1>1, TopEntries
  <1> DEFINE t == TradeOf(bid.order, ask.order)
  <1>4. t \in Trade
    BY <1>3, TradeOfType DEF Trade
  <1>5. books' \in [Instrument -> Book]
    BY <1>1, <1>2, <1>3, AfterTradeType DEF TypeOK
  <1> HIDE DEF t
  <1>6. stats' \in [Instrument -> Statistics]
    <2>1. t.quantity \in Nat /\ t.price \in Nat
      BY <1>4 DEF Trade
    <2> QED
      BY <1>1, <1>2, <2>1, AddTradeType DEF TypeOK, t
  <1>7. op' \in Op
    <2>1. Append(op.trades, t) \in Seq(Trade)
      BY <1>4 DEF TypeOK, Op
    <2>2. op' = [op EXCEPT !.trades = Append(op.trades, t)]
      BY <1>2 DEF t
    <2> QED
      BY <2>1, <2>2 DEF TypeOK, Op
  <1> QED
    BY <1>5, <1>6, <1>7 DEF Match, TypeOK

\* What the order of the final state can be after matching is an order.
LEMMA FinalType ==
  ASSUME TypeOK, op.incoming \in Order
  PROVE  /\ Resting \subseteq books[op.incoming.inst].entries
         /\ \A e \in Resting : e.order \in Order /\ Remainder(e) \in Order
         /\ Consumed \subseteq Order
  <1>1. op.incoming.inst \in Instrument /\ books[op.incoming.inst] \in Book
    BY DEF TypeOK, Order
  <1>2. Resting \subseteq books[op.incoming.inst].entries
    BY DEF Resting, Located
  <1>3. ASSUME NEW e \in Resting
        PROVE  e.order \in Order /\ Remainder(e) \in Order
    <2>1. e.order \in Order
      BY <1>1, <1>2 DEF Book, Entry
    <2> QED
      BY <2>1, StateType DEF Remainder, OrderState
  <1>4. ASSUME NEW n \in DOMAIN op.trades
        PROVE  CopyIn(op.trades[n]) \in Order
    <2>1. op.trades[n] \in Trade
      BY DEF TypeOK, Op
    <2> QED
      BY <2>1 DEF CopyIn, Trade
  <1> QED
    BY <1>2, <1>3, <1>4 DEF Consumed

LEMMA MatchDoneType ==
  ASSUME TypeOK, MatchDone, op.incoming \in Order,
         op.status => op.final \in Order
  PROVE  TypeOK' /\ (op'.status => op'.final \in Order)
  <1> DEFINE i     == op.incoming.inst
             rest  == IF op.incoming.type = "Market" /\ Resting # {}
                      THEN Drop(books[i], CHOOSE e \in Resting : TRUE)
                      ELSE books[i]
             final == IF Resting # {} THEN {Remainder(e) : e \in Resting}
                      ELSE Consumed
  <1>1. i \in Instrument /\ books[i] \in Book
    BY DEF TypeOK, Order
  <1>2. rest \in Book
    <2>1. CASE Resting # {}
      <3> DEFINE c == CHOOSE e \in Resting : TRUE
      <3>1. c \in books[i].entries
        BY <2>1, FinalType
      <3> HIDE DEF c
      <3>2. Drop(books[i], c) \in Book
        BY <1>1, <3>1, DropType
      <3> QED
        BY <1>1, <3>2 DEF c
    <2>2. CASE Resting = {}
      BY <1>1, <2>2
    <2> QED
      BY <2>1, <2>2
  <1>3. final \subseteq Order
    BY FinalType
  <1>4. \/ /\ op.askLeg # None
           /\ books' = [books EXCEPT ![i] = Insert(rest, Booked(op.askLeg))]
           /\ op' = [op EXCEPT !.incoming = op.askLeg, !.askLeg = None]
           /\ UNCHANGED <<sequence, pending, published>>
        \/ /\ books' = [books EXCEPT ![i] = rest]
           /\ \E o \in final :
                 op' = [op EXCEPT !.phase = "publish", !.incoming = None,
                                  !.final = o, !.status = StatusDue(o)]
           /\ RecordMarketData(i)
    BY DEF MatchDone
  <1> HIDE DEF rest, final
  <1>5. CASE /\ op.askLeg # None
             /\ books' = [books EXCEPT ![i] = Insert(rest, Booked(op.askLeg))]
             /\ op' = [op EXCEPT !.incoming = op.askLeg, !.askLeg = None]
             /\ UNCHANGED <<sequence, pending, published>>
    <2>1. op.askLeg \in Order
      BY <1>5 DEF TypeOK, Op
    <2>2. books' \in [Instrument -> Book]
      BY <1>1, <1>2, <1>5, <2>1, BookedType, InsertType DEF TypeOK
    <2>3. op' \in Op
      BY <1>5, <2>1 DEF TypeOK, Op
    <2> QED
      BY <1>5, <2>2, <2>3 DEF MatchDone, TypeOK, Op
  <1>6. CASE /\ books' = [books EXCEPT ![i] = rest]
             /\ \E o \in final :
                   op' = [op EXCEPT !.phase = "publish", !.incoming = None,
                                    !.final = o, !.status = StatusDue(o)]
             /\ RecordMarketData(i)
    <2>1. PICK o \in final :
            op' = [op EXCEPT !.phase = "publish", !.incoming = None,
                             !.final = o, !.status = StatusDue(o)]
      BY <1>6
    <2>2. StatusDue(o) \in BOOLEAN
      BY DEF StatusDue
    <2>3. op' \in Op /\ op'.final \in Order
      BY <1>3, <2>1, <2>2 DEF TypeOK, Op, Phase
    <2>4. books' \in [Instrument -> Book]
      BY <1>1, <1>2, <1>6 DEF TypeOK
    <2> QED
      BY <1>1, <1>6, <2>3, <2>4, RecordType DEF MatchDone, TypeOK
  <1> QED
    BY <1>4, <1>5, <1>6

LEMMA PublishType ==
  ASSUME TypeOK, NEW i \in Instrument, Publish(i) \/ PublishDone
  PROVE  TypeOK'
  <1>1. CASE Publish(i)
    <2>1. Depth(books[i]) \in SUBSET Row
      BY DepthType DEF TypeOK
    <2>2. [version |-> pending[i], depth |-> Depth(books[i]),
           stats |-> stats[i]] \in Snapshot
      BY <2>1 DEF TypeOK, Snapshot
    <2> QED
      BY <1>1, <2>2 DEF Publish, TypeOK
  <1>2. CASE PublishDone
    <2>1. op' \in Op
      BY <1>2 DEF PublishDone, TypeOK, Op, Phase
    <2> QED
      BY <1>2, <2>1 DEF PublishDone, TypeOK, market_data
  <1> QED
    BY <1>1, <1>2

LEMMA ReportType ==
  ASSUME TypeOK, Report
  PROVE  TypeOK'
  <1> DEFINE t == Head(op.trades)
  <1>1. t \in Trade /\ Tail(op.trades) \in Seq(Trade)
    BY DEF Report, TypeOK, Op
  <1>2. t.buyer \in Order /\ t.seller \in Order
    BY <1>1 DEF Trade
  <1>3. /\ orders' = Mirrored(Mirrored(orders, t.buyer), t.seller)
        /\ told' = Told(Told(told, t.buyer), t.seller)
        /\ op' = [op EXCEPT !.trades = Tail(op.trades)]
    BY DEF Report
  <1> HIDE DEF t
  <1>4. orders' \in [Session -> [OrderId -> Order \cup {None}]]
    BY <1>2, <1>3, MirrorTypes DEF TypeOK
  <1>5. told' \in [Session -> [OrderId -> View \cup {None}]]
    BY <1>2, <1>3, ToldType DEF TypeOK
  <1>6. op' \in Op
    BY <1>1, <1>3 DEF TypeOK, Op
  <1> QED
    BY <1>4, <1>5, <1>6 DEF Report, TypeOK, market_data

LEMMA FinishType ==
  ASSUME TypeOK, Finish, op.status => op.final \in Order
  PROVE  TypeOK'
  <1>1. orders' \in [Session -> [OrderId -> Order \cup {None}]]
    BY MirrorTypes DEF Finish, TypeOK, Op
  <1>2. told' \in [Session -> [OrderId -> View \cup {None}]]
    BY ToldType DEF Finish, TypeOK
  <1> QED
    BY <1>1, <1>2, OpTypes DEF Finish, TypeOK, market_data

-----------------------------------------------------------------------------

\* TypeOK with the two facts about op that make it inductive.
TypeInv ==
    /\ TypeOK
    /\ op.phase = "match" => op.incoming \in Order
    /\ op.status => op.final \in Order

LEMMA RequestTypeInv ==
  ASSUME TypeInv, NEW s \in Session, Request(s)
  PROVE  TypeInv'
  <1>1. ASSUME NEW id \in OrderId, NEW i \in Instrument, NEW side \in Side,
               NEW type \in OrderType, NEW price \in Price, NEW qty \in Quantity,
               CreateOrder(s, id, i, side, type, price, qty)
        PROVE  TypeInv'
    <2> DEFINE o == NewOrder(s, id, i, side, type, price, qty, next_arrival + 1)
    <2>1. o \in Order
      BY NewOrderType, InputAssumption DEF TypeInv, TypeOK
    <2> HIDE DEF o
    <2>2. op' = Matching("create", o, None)
      BY <1>1 DEF CreateOrder, o
    <2> QED
      BY <1>1, <2>1, <2>2, CreateOrderType DEF TypeInv, Matching, Idle
  <1>2. ASSUME NEW orig \in OrderId, NEW id \in OrderId, NEW type \in ReplaceType,
               NEW price \in Price \cup {0}, NEW qty \in Quantity,
               ModifyOrder(s, orig, id, type, price, qty)
        PROVE  TypeInv'
    <2> DEFINE old == orders[s][orig]
               o == Replacement(old, id, type, price, qty)
    <2>1. type \in OrderType /\ qty \in Nat
      BY InputAssumption
    <2>2. old \in Order /\ qty >= old.cum /\ next_arrival \in Nat
      BY <1>2 DEF ModifyOrder, TypeInv, TypeOK
    <2>3. o \in Order
      BY <2>1, <2>2, ReplacementType
    <2> HIDE DEF o
    <2>4. op' = Publishing("replace", None, FALSE) \/ op' = Matching("replace", o, None)
      BY <1>2 DEF ModifyOrder, o
    <2>5. TypeOK'
      BY <1>2, <2>1, ModifyOrderType DEF TypeInv
    <2>6. \/ op'.phase = "publish" /\ op'.status = FALSE
          \/ op'.incoming = o /\ op'.status = FALSE
      BY <2>4 DEF Publishing, Matching, Idle
    <2> QED
      BY <2>3, <2>5, <2>6 DEF TypeInv
  <1>3. ASSUME NEW orig \in OrderId, CancelOrder(s, orig)
        PROVE  TypeInv'
    <2>1. TypeOK'
      BY <1>3, CancelOrderType DEF TypeInv
    <2>2. PICK e \in Located(books[orders[s][orig].inst], s, orig,
                             orders[s][orig].side, orders[s][orig].price) :
            op' = Publishing("cancel", [e.order EXCEPT !.state = "Cancelled"], TRUE)
      BY <1>3 DEF CancelOrder
    <2>3. e.order \in Order
      BY <1>3 DEF CancelOrder, TypeInv, TypeOK, Order, Located, Book, Entry
    <2>4. [e.order EXCEPT !.state = "Cancelled"] \in Order
      BY <2>3, StateType DEF OrderState
    <2>5. op'.phase = "publish" /\ op'.final \in Order
      BY <2>2, <2>4 DEF Publishing, Idle
    <2> QED
      BY <2>1, <2>5 DEF TypeInv
  <1>4. ASSUME NEW i \in Instrument, NEW bid \in Price \cup {0},
               NEW ask \in Price \cup {0}, NEW bidQty \in Quantity,
               NEW askQty \in Quantity, Quote(s, i, bid, bidQty, ask, askQty)
        PROVE  TypeInv'
    <2>1. TypeOK'
      BY <1>4, QuoteType DEF TypeInv
    <2>2. /\ \A a \in Nat : QuoteLeg(s, i, "Buy", bid, bidQty, a) \in Order
          /\ \A a \in Nat : QuoteLeg(s, i, "Sell", ask, askQty, a) \in Order
      <3>1. bidQty \in Nat /\ askQty \in Nat
        BY InputAssumption
      <3>2. /\ QuoteId \in OrderId \cup {QuoteId}
            /\ "Buy" \in Side /\ "Sell" \in Side /\ "Limit" \in OrderType
        BY DEF Side, OrderType
      <3> QED
        BY <3>1, <3>2, NewOrderType DEF QuoteLeg
    <2>3. \/ \E a \in Nat : \E x : op' = Matching("quote",
                QuoteLeg(s, i, "Buy", bid, bidQty, a), x)
          \/ \E a \in Nat : \E x : op' = Matching("quote",
                QuoteLeg(s, i, "Sell", ask, askQty, a), x)
          \/ op' = Publishing("quote", None, FALSE)
      <3>1. /\ next_arrival + 1 \in Nat
            /\ next_arrival + ((IF bid # 0 THEN 1 ELSE 0)
                                  + (IF ask # 0 THEN 1 ELSE 0)) \in Nat
        BY DEF TypeInv, TypeOK
      <3> QED
        BY <1>4, <3>1 DEF Quote
    <2>4. \/ op'.phase = "publish" /\ op'.status = FALSE
          \/ op'.incoming \in Order /\ op'.status = FALSE
      BY <2>2, <2>3 DEF Publishing, Matching, Idle
    <2> QED
      BY <2>1, <2>4 DEF TypeInv
  <1> QED
    BY <1>1, <1>2, <1>3, <1>4 DEF Request

LEMMA ContinueTypeInv ==
  ASSUME TypeInv, Continue
  PROVE  TypeInv'
  <1>1. CASE DropOrder \/ DropQuote \/ DropDone
    <2>1. TypeOK'
      BY <1>1, DropStepsType DEF TypeInv
    <2>2. op' = op \/ op' = Publishing("other", None, FALSE)
      BY <1>1 DEF DropOrder, DropQuote, DropDone
    <2>3. (op.phase = "match" => op.incoming \in Order) /\ (op.status => op.final \in Order)
      BY DEF TypeInv
    <2>4. op' = op \/ (op'.phase = "publish" /\ op'.status = FALSE)
      BY <2>2 DEF Publishing, Idle
    <2> QED
      BY <2>1, <2>3, <2>4 DEF TypeInv
  <1>2. ASSUME NEW s \in Session, NEW id \in OrderId, ExpireOrder(s, id)
        PROVE  TypeInv'
    <2>1. TypeOK'
      BY <1>2, ExpireStepsType DEF TypeInv
    <2>2. op' = [op EXCEPT !.expired = @ \ {<<s, id>>}]
      BY <1>2 DEF ExpireOrder
    <2> QED
      BY <2>1, <2>2 DEF TypeInv, TypeOK, Op
  <1>3. CASE ExpireDone
    <2>1. TypeOK'
      <3>1. ASSUME NEW s \in Session, NEW id \in OrderId PROVE TypeOK'
        BY <1>3, ExpireStepsType DEF TypeInv
      <3>2. CASE Session = {} \/ OrderId = {}
        BY <1>3, OpTypes DEF ExpireDone, TypeInv, TypeOK, market_data
      <3> QED
        BY <3>1, <3>2
    <2>2. op'.phase = "publish" /\ op'.status = FALSE
      BY <1>3 DEF ExpireDone, Publishing, Idle
    <2> QED
      BY <2>1, <2>2 DEF TypeInv
  <1>4. CASE Match
    <2>1. op.incoming \in Order
      BY <1>4 DEF Match, TypeInv
    <2>2. TypeOK'
      BY <1>4, <2>1, MatchType DEF TypeInv
    <2>3. \E t : op' = [op EXCEPT !.trades = Append(@, t)]
      BY <1>4 DEF Match
    <2> QED
      BY <2>1, <2>2, <2>3 DEF TypeInv, TypeOK, Op
  <1>5. CASE MatchDone
    <2>1. op.incoming \in Order
      BY <1>5 DEF MatchDone, TypeInv
    <2>2. TypeOK' /\ (op'.status => op'.final \in Order)
      BY <1>5, <2>1, MatchDoneType DEF TypeInv
    <2>3. \/ op.askLeg # None
             /\ op' = [op EXCEPT !.incoming = op.askLeg, !.askLeg = None]
          \/ \E o : op' = [op EXCEPT !.phase = "publish", !.incoming = None,
                                     !.final = o, !.status = StatusDue(o)]
      BY <1>5 DEF MatchDone
    <2>4. op \in Op
      BY DEF TypeInv, TypeOK
    <2>5. op'.phase = "match" => op'.incoming \in Order
      <3>1. CASE /\ op.askLeg # None
                 /\ op' = [op EXCEPT !.incoming = op.askLeg, !.askLeg = None]
        BY <2>4, <3>1 DEF Op
      <3>2. CASE \E o : op' = [op EXCEPT !.phase = "publish", !.incoming = None,
                                         !.final = o, !.status = StatusDue(o)]
        BY <2>4, <3>2 DEF Op
      <3> QED
        BY <2>3, <3>1, <3>2
    <2> QED
      BY <2>2, <2>5 DEF TypeInv
  <1>6. ASSUME NEW i \in Instrument, Publish(i)
        PROVE  TypeInv'
    BY <1>6, PublishType DEF TypeInv, Publish
  <1>7. CASE PublishDone
    <2>1. op' = [op EXCEPT !.phase = "report"] /\ op' \in Op
      BY <1>7 DEF PublishDone, TypeInv, TypeOK, Op, Phase
    <2>2. TypeOK'
      BY <1>7, <2>1 DEF PublishDone, TypeInv, TypeOK, market_data
    <2> QED
      BY <2>1, <2>2 DEF TypeInv, TypeOK, Op
  <1>8. CASE Report
    <2>1. op' = [op EXCEPT !.trades = Tail(@)]
      BY <1>8 DEF Report
    <2>2. TypeOK'
      BY <1>8, ReportType DEF TypeInv
    <2> QED
      BY <2>1, <2>2 DEF TypeInv, TypeOK, Op
  <1>9. CASE Finish
    <2>1. op' = Idle
      BY <1>9 DEF Finish
    <2>2. TypeOK'
      BY <1>9, FinishType DEF TypeInv
    <2> QED
      BY <2>1, <2>2 DEF TypeInv, Idle
  <1> QED
    BY <1>1, <1>2, <1>3, <1>4, <1>5, <1>6, <1>7, <1>8, <1>9 DEF Continue

\* Each step of the engine preserves the types.
LEMMA NextTypeInv == TypeInv /\ [Next]_vars => TypeInv'
  <1> SUFFICES ASSUME TypeInv, [Next]_vars PROVE TypeInv'
    OBVIOUS
  <1>1. CASE UNCHANGED vars
    BY <1>1 DEF vars, TypeInv, TypeOK
  <1>2. ASSUME NEW s \in Session,
               RegisterSession(s) \/ SessionDisconnect(s)
        PROVE  TypeInv'
    <2>1. TypeOK'
      BY <1>2, SessionStepsType DEF TypeInv
    <2>2. op' = op \/ (op'.phase = "drop" /\ ~op'.status)
      BY <1>2 DEF RegisterSession, SessionDisconnect, Idle
    <2> QED
      BY <2>1, <2>2 DEF TypeInv
  <1>3. CASE Tick
    BY <1>3 DEF Tick, TypeInv, TypeOK, market_data
  <1>4. CASE ExpireDayOrders
    <2>1. Overdue \in SUBSET (Session \X OrderId)
      BY DEF Overdue
    <2>2. op' \in Op
      BY <1>4, <2>1, OpTypes DEF ExpireDayOrders
    <2>3. op'.phase = "expire" /\ ~op'.status
      BY <1>4 DEF ExpireDayOrders, Idle
    <2> QED
      BY <1>4, <2>2, <2>3 DEF ExpireDayOrders, TypeInv, TypeOK, market_data
  <1> QED
    BY <1>1, <1>2, <1>3, <1>4, RequestTypeInv, ContinueTypeInv DEF Next

\* In every behaviour of the engine every variable has its type: in particular
\* no fill, replacement or removal drives an open quantity below zero.
THEOREM TypeCorrect == Spec => []TypeOK
  <1>1. Init => TypeInv
    <2> SUFFICES ASSUME Init PROVE TypeInv
      OBVIOUS
    <2>1. op = Idle
      BY DEF Init
    <2> QED
      BY <2>1, InitType DEF TypeInv, Idle
  <1>2. TypeInv => TypeOK
    BY DEF TypeInv
  <1> QED
    BY <1>1, <1>2, NextTypeInv, PTL DEF Spec

-----------------------------------------------------------------------------
(* Facts about orders *)

\* Orders that agree on what fills do not change share their level.
LEMMA SameLevel ==
  ASSUME NEW o, NEW p, SameOrder(o, p)
  PROVE  EffectivePrice(o) = EffectivePrice(p) /\ LevelOf(o) = LevelOf(p)
  BY DEF SameOrder, EffectivePrice, LevelOf

\* Writing another state into an order changes nothing else of it.
LEMMA StateKeeps ==
  ASSUME NEW o \in Order, NEW st
  PROVE  LET p == [o EXCEPT !.state = st]
         IN  /\ SameOrder(o, p) /\ SameOrder(p, o)
             /\ p.state = st /\ p.cum = o.cum /\ p.remaining = o.remaining
  BY DEF Order, SameOrder

\* A trade moves quantity from open to executed, at one price, and nothing else.
LEMMA TradeKeeps ==
  ASSUME NEW bid \in Order, NEW ask \in Order
  PROVE  LET t == TradeOf(bid, ask)
         IN  /\ SameOrder(t.buyer, bid) /\ SameOrder(t.seller, ask)
             /\ t.buyer.cum + t.buyer.remaining = bid.cum + bid.remaining
             /\ t.seller.cum + t.seller.remaining = ask.cum + ask.remaining
             /\ t.buyer.state \in {"Filled", "PartialFill"}
             /\ t.seller.state \in {"Filled", "PartialFill"}
             /\ t.buyer.remaining # 0 => t.buyer.state = "PartialFill"
             /\ t.seller.remaining # 0 => t.seller.state = "PartialFill"
             /\ t.price = IF bid.arrival < ask.arrival THEN bid.price ELSE ask.price
  <1> DEFINE p == IF bid.arrival < ask.arrival THEN bid.price ELSE ask.price
             q == IF bid.remaining <= ask.remaining
                  THEN bid.remaining ELSE ask.remaining
             t == TradeOf(bid, ask)
  <1>1. t = [buyer |-> ApplyFill(bid, q, p), seller |-> ApplyFill(ask, q, p),
             price |-> p, quantity |-> q]
    BY DEF TradeOf
  <1>2. q \in Nat
    BY DEF Order
  <1> HIDE DEF p, q, t
  <1>3. ASSUME NEW o \in Order
        PROVE  LET f == ApplyFill(o, q, p)
               IN  /\ SameOrder(f, o)
                   /\ f.cum + f.remaining = o.cum + o.remaining
                   /\ f.state \in {"Filled", "PartialFill"}
                   /\ f.remaining # 0 => f.state = "PartialFill"
    <2> DEFINE f == ApplyFill(o, q, p)
    <2>1. SameOrder(f, o)
      BY DEF ApplyFill, SameOrder, Order
    <2>2. /\ f.cum = o.cum + q /\ f.remaining = o.remaining - q
          /\ f.state = IF o.remaining = q THEN "Filled" ELSE "PartialFill"
      BY DEF ApplyFill, Order
    <2>3. o.cum \in Nat /\ o.remaining \in Nat
      BY DEF Order
    <2> HIDE DEF f
    <2>4. f.cum + f.remaining = o.cum + o.remaining
      BY <1>2, <2>2, <2>3
    <2>5. f.remaining # 0 => f.state = "PartialFill"
      BY <1>2, <2>2, <2>3
    <2> QED
      BY <2>1, <2>2, <2>4, <2>5 DEF f
  <1>4. t.buyer = ApplyFill(bid, q, p) /\ t.seller = ApplyFill(ask, q, p) /\ t.price = p
    BY <1>1
  <1> QED
    BY <1>3, <1>4 DEF p, t

-----------------------------------------------------------------------------
(* Initial states *)

LEMMA InitInv == Init => EngineInv
  <1> SUFFICES ASSUME Init PROVE EngineInv
    OBVIOUS
  <1>1. \A i \in Instrument : books[i].entries = {} /\ published[i].depth = {}
    BY DEF Init, EmptyBook, NoSnapshot
  <1>2. /\ op.phase = "idle" /\ op.askLeg = None /\ op.status = FALSE
        /\ op.leaving = {} /\ op.final = None /\ op.trades = <<>>
    BY DEF Init, Idle
  <1>3. OpShape
    BY <1>2 DEF OpShape
  <1>4. \A s \in Session, id \in OrderId : orders[s][id] = None
    BY DEF Init
  <1>5. CopiesKnown /\ QuantityConserved /\ MirrorKeyed /\ TradeWithinLimits
    BY <1>1, <1>2, <1>4
    DEF CopiesKnown, QuantityConserved, MirrorKeyed, TradeWithinLimits
  <1>6. EntriesOwned /\ ArrivalsUnique /\ QuotesUnique /\ MarketIsIncoming
    BY <1>1, <1>2 DEF EntriesOwned, ArrivalsUnique, QuotesUnique, MarketIsIncoming
  <1>7. Uncrossed /\ PublishedUncrossed
    BY <1>1 DEF Uncrossed, PublishedUncrossed, SideOf
  <1> QED
    BY <1>3, <1>5, <1>6, <1>7 DEF EngineInv

-----------------------------------------------------------------------------
(* Sessions and the calendar *)

\* An idle engine has no work in hand.
LEMMA IdleFacts ==
  ASSUME op = Idle
  PROVE  /\ op.phase = "idle" /\ op.incoming = None /\ op.askLeg = None
         /\ op.trades = <<>> /\ op.final = None /\ op.status = FALSE
         /\ op.leaving = {}
  BY DEF Idle

\* An entry's order is an order, filed under a session and a known id.
LEMMA EntryFacts ==
  ASSUME TypeOK, NEW i \in Instrument, NEW e \in books[i].entries
  PROVE  /\ books[i] \in Book /\ e.order \in Order
         /\ e.order.session \in Session
         /\ e.order.id # QuoteId => e.order.id \in OrderId
         /\ e.order.side \in Side /\ e.order.type \in OrderType
  <1>1. books[i] \in Book
    BY DEF TypeOK
  <1>2. e.order \in Order
    BY <1>1 DEF Book, Entry
  <1> QED
    BY <1>1, <1>2 DEF Order

LEMMA RegisterInv ==
  ASSUME TypeOK, EngineInv, NEW s \in Session, RegisterSession(s)
  PROVE  EngineInv'
  <1>1. /\ op = Idle /\ s \notin sessions /\ sessions' = sessions \cup {s}
        /\ orders' = [orders EXCEPT ![s] = [id \in OrderId |-> None]]
        /\ quotes' = [quotes EXCEPT ![s] = [i \in Instrument |-> None]]
        /\ UNCHANGED <<books, next_arrival, published, op>>
    BY DEF RegisterSession, market_data
  <1>2. OpShape'
    BY <1>1, IdleFacts DEF OpShape
  <1>3. EntriesOwned'
    <2> SUFFICES ASSUME NEW i \in Instrument, NEW e \in books[i].entries
                 PROVE  /\ e.order.inst = i
                        /\ e.order.session \in sessions' \cup op'.leaving
                        /\ IsActive(e.order.state)
                        /\ e.order.type = "Limit" => e.order.price > 0
                        /\ Known(e.order)'
                        /\ Quoted(e.order)'
      BY <1>1 DEF EntriesOwned
    <2>1. /\ e.order.inst = i /\ IsActive(e.order.state)
          /\ e.order.session \in sessions \cup op.leaving
          /\ e.order.type = "Limit" => e.order.price > 0
          /\ Known(e.order) /\ Quoted(e.order)
      BY DEF EngineInv, EntriesOwned
    <2>2. e.order.session \in sessions
      BY <1>1, <2>1, IdleFacts
    <2>3. e.order.session # s /\ e.order.session \in Session
      BY <1>1, <2>2, EntryFacts
    <2>4. orders'[e.order.session] = orders[e.order.session]
          /\ quotes'[e.order.session] = quotes[e.order.session]
      BY <1>1, <2>3 DEF TypeOK
    <2> QED
      BY <1>1, <2>1, <2>2, <2>4 DEF Known, Quoted
  <1>4. \A t \in Session, id \in OrderId :
           orders'[t][id] # None => orders'[t][id] = orders[t][id]
    BY <1>1 DEF TypeOK
  <1>5. QuantityConserved' /\ MirrorKeyed'
    BY <1>1, <1>4 DEF EngineInv, QuantityConserved, MirrorKeyed
  <1>6. CopiesKnown' /\ TradeWithinLimits'
    BY <1>1, IdleFacts DEF CopiesKnown, TradeWithinLimits
  <1>7. /\ ArrivalsUnique' /\ QuotesUnique' /\ MarketIsIncoming'
        /\ Uncrossed' /\ PublishedUncrossed'
    BY <1>1 DEF EngineInv, ArrivalsUnique, QuotesUnique, MarketIsIncoming,
                Uncrossed, PublishedUncrossed
  <1> QED
    BY <1>2, <1>3, <1>5, <1>6, <1>7 DEF EngineInv

\* Steps that leave the books, the mirror and the quotes alone and start from,
\* or stay in, a phase without trades.
LEMMA QuietInv ==
  ASSUME EngineInv,
         UNCHANGED <<orders, quotes, books, next_arrival, published>>,
         op.phase # "match", op.trades = <<>>, op.final = None,
         op'.phase \in {"drop", "expire", "publish", "idle"},
         op'.askLeg = None, op'.trades = <<>>, op'.final = None,
         op'.status = FALSE, op'.leaving \cap sessions' = {},
         op'.phase # "drop" => op'.leaving = {},
         \A i \in Instrument : \A e \in books[i].entries :
            e.order.session \in sessions' \cup op'.leaving
  PROVE  EngineInv'
  <1>1. OpShape'
    BY DEF OpShape
  <1>2. EntriesOwned'
    BY DEF EngineInv, EntriesOwned, Known, Quoted
  <1>3. ArrivalsUnique' /\ QuotesUnique' /\ MirrorKeyed'
    BY DEF EngineInv, ArrivalsUnique, QuotesUnique, MirrorKeyed
  <1>4. MarketIsIncoming'
    BY DEF EngineInv, MarketIsIncoming
  <1>5. CopiesKnown' /\ QuantityConserved' /\ TradeWithinLimits'
    BY DEF EngineInv, CopiesKnown, QuantityConserved, TradeWithinLimits
  <1>6. Uncrossed' /\ PublishedUncrossed'
    BY DEF EngineInv, Uncrossed, PublishedUncrossed
  <1> QED
    BY <1>1, <1>2, <1>3, <1>4, <1>5, <1>6 DEF EngineInv

LEMMA DisconnectInv ==
  ASSUME EngineInv, NEW s \in Session, SessionDisconnect(s)
  PROVE  EngineInv'
  <1>1. /\ op = Idle /\ s \in sessions /\ sessions' = sessions \ {s}
        /\ UNCHANGED <<orders, quotes, books, next_arrival, published>>
        /\ op' = [Idle EXCEPT !.phase = "drop", !.method = "other", !.leaving = {s}]
    BY DEF SessionDisconnect, market_data
  <1>2. /\ op'.phase = "drop" /\ op'.askLeg = None /\ op'.trades = <<>>
        /\ op'.final = None /\ op'.status = FALSE /\ op'.leaving = {s}
    BY <1>1 DEF Idle
  <1>3. \A i \in Instrument : \A e \in books[i].entries :
            e.order.session \in sessions' \cup op'.leaving
    BY <1>1, <1>2, IdleFacts DEF EngineInv, EntriesOwned
  <1> QED
    BY <1>1, <1>2, <1>3, IdleFacts, QuietInv

LEMMA CalendarInv ==
  ASSUME EngineInv, Tick \/ ExpireDayOrders
  PROVE  EngineInv'
  <1>1. /\ op = Idle
        /\ UNCHANGED <<sessions, orders, quotes, books, next_arrival, published>>
    BY DEF Tick, ExpireDayOrders, market_data
  <1>2. /\ op'.phase \in {"idle", "expire"} /\ op'.askLeg = None
        /\ op'.trades = <<>> /\ op'.final = None /\ op'.status = FALSE
        /\ op'.leaving = {}
    <2>1. op' = Idle \/ op' = [Idle EXCEPT !.phase = "expire", !.method = "other",
                                            !.expired = Overdue]
      BY DEF Tick, ExpireDayOrders
    <2>2. CASE op' = Idle
      BY <2>2 DEF Idle
    <2>3. CASE op' = [Idle EXCEPT !.phase = "expire", !.method = "other",
                                  !.expired = Overdue]
      BY <2>3 DEF Idle
    <2> QED
      BY <2>1, <2>2, <2>3
  <1>3. \A i \in Instrument : \A e \in books[i].entries :
            e.order.session \in sessions' \cup op'.leaving
    BY <1>1, <1>2, IdleFacts DEF EngineInv, EntriesOwned
  <1> QED
    BY <1>1, <1>2, <1>3, IdleFacts, QuietInv

-----------------------------------------------------------------------------
(* Removing orders *)

\* Outside matching, a removal addressed by the mirror's side and price hits
\* every entry of that order, and there is none in another book.
LEMMA RemovalHits ==
  ASSUME TypeOK, EngineInv, op.phase # "match",
         NEW s \in Session, NEW id \in OrderId, orders[s][id] # None
  PROVE  LET o == orders[s][id]
             r == Remove(books[o.inst], s, id, o.side, o.price)
         IN  /\ r.entries \subseteq books[o.inst].entries
             /\ \A e \in r.entries : ~(e.order.session = s /\ e.order.id = id)
             /\ \A j \in Instrument : \A e \in books[j].entries :
                   e.order.session = s /\ e.order.id = id => j = o.inst
  <1> DEFINE o == orders[s][id]
             b == books[o.inst]
             r == Remove(b, s, id, o.side, o.price)
             found == Located(b, s, id, o.side, o.price)
  <1>1. o \in Order /\ o.inst \in Instrument /\ b \in Book
    BY DEF TypeOK, Order
  <1>2. id # QuoteId
    BY QuoteIdAssumption
  <1>3. ASSUME NEW j \in Instrument, NEW e \in books[j].entries,
               e.order.session = s, e.order.id = id
        PROVE  /\ j = o.inst /\ e.order.arrival = o.arrival
               /\ LevelOf(e.order) = <<o.side, o.price>>
    <2>1. SameOrder(o, e.order) /\ e.order.inst = j
      BY <1>2, <1>3 DEF EngineInv, EntriesOwned, Known
    <2>2. e.order.type = "Limit"
      BY EntryFacts DEF EngineInv, MarketIsIncoming, OrderType
    <2> QED
      BY <2>1, <2>2 DEF SameOrder, LevelOf, EffectivePrice
  <1>4. \A e, f \in found : e = f
    BY <1>1, <1>3 DEF Located, EngineInv, ArrivalsUnique
  <1>5. r.entries = b.entries \ found
    BY <1>4, RemoveEntries
  <1>6. \A e \in b.entries : e.order.session = s /\ e.order.id = id => e \in found
    BY <1>1, <1>3 DEF Located
  <1> QED
    BY <1>3, <1>5, <1>6

\* A step outside matching that only takes entries out of books, and leaves the
\* mirror and the quotes of the entries that stay, preserves the invariant.
LEMMA ShrinkInv ==
  ASSUME TypeOK, EngineInv, op.phase # "match", sessions' = sessions,
         \A i \in Instrument : books'[i].entries \subseteq books[i].entries,
         \A i \in Instrument : \A e \in books'[i].entries :
            /\ e.order.id # QuoteId => orders'[e.order.session][e.order.id]
                                         = orders[e.order.session][e.order.id]
            /\ e.order.id = QuoteId => quotes'[e.order.session][i]
                                         = quotes[e.order.session][i],
         published' = published,
         next_arrival' \in Nat, next_arrival' >= next_arrival,
         op'.phase \in {"drop", "expire", "publish"},
         op'.askLeg = None, op'.trades = <<>>, op'.leaving = op.leaving,
         op'.phase # "drop" => op'.leaving = {},
         op'.phase # "publish" => op'.final = None,
         op'.status => op'.final # None,
         CopiesKnown',
         \A t \in Session, id \in OrderId : orders'[t][id] # None =>
            /\ orders'[t][id].session = t /\ orders'[t][id].id = id
            /\ Conserves(orders'[t][id])
  PROVE  EngineInv'
  <1>1. OpShape'
    BY DEF OpShape, EngineInv
  <1>2. EntriesOwned'
    <2> SUFFICES ASSUME NEW i \in Instrument, NEW e \in books'[i].entries
                 PROVE  /\ e.order.inst = i
                        /\ e.order.session \in sessions' \cup op'.leaving
                        /\ IsActive(e.order.state)
                        /\ e.order.type = "Limit" => e.order.price > 0
                        /\ Known(e.order)'
                        /\ Quoted(e.order)'
      BY DEF EntriesOwned
    <2>1. e \in books[i].entries
      OBVIOUS
    <2>2. /\ e.order.inst = i /\ IsActive(e.order.state)
          /\ e.order.session \in sessions \cup op.leaving
          /\ e.order.type = "Limit" => e.order.price > 0
          /\ Known(e.order) /\ Quoted(e.order)
      BY <2>1 DEF EngineInv, EntriesOwned
    <2> QED
      BY <2>2 DEF Known, Quoted
  <1>3. ArrivalsUnique' /\ QuotesUnique'
    <2>1. \A i \in Instrument : \A e \in books[i].entries :
             e.order.arrival \in Nat /\ e.order.arrival <= next_arrival
      BY EntryFacts DEF EngineInv, ArrivalsUnique, Order
    <2>2. next_arrival \in Nat
      BY DEF TypeOK
    <2> QED
      BY <2>1, <2>2 DEF EngineInv, ArrivalsUnique, QuotesUnique
  <1>4. MirrorKeyed' /\ TradeWithinLimits'
    BY DEF MirrorKeyed, TradeWithinLimits
  <1>5. MarketIsIncoming'
    BY DEF EngineInv, MarketIsIncoming
  <1>6. QuantityConserved'
    <2>1. \A i \in Instrument : \A e \in books'[i].entries : Conserves(e.order)
      BY DEF EngineInv, QuantityConserved
    <2> QED
      BY <2>1 DEF QuantityConserved
  <1>7. Uncrossed'
    <2>1. \A i \in Instrument : \A bid, ask \in books[i].entries :
             bid.order.side = "Buy" /\ ask.order.side = "Sell"
                => EffectivePrice(bid.order) < EffectivePrice(ask.order)
      BY DEF EngineInv, Uncrossed, SideOf
    <2> QED
      BY <2>1 DEF Uncrossed, SideOf
  <1>8. PublishedUncrossed'
    BY DEF EngineInv, PublishedUncrossed
  <1> QED
    BY <1>1, <1>2, <1>3, <1>4, <1>5, <1>6, <1>7, <1>8 DEF EngineInv

\* What the mirror holds is filed under its key and conserves quantity.
LEMMA MirrorFacts ==
  ASSUME TypeOK, EngineInv, NEW s \in Session, NEW id \in OrderId,
         orders[s][id] # None
  PROVE  /\ orders[s][id] \in Order /\ orders[s][id].inst \in Instrument
         /\ orders[s][id].session = s /\ orders[s][id].id = id
         /\ Conserves(orders[s][id])
  BY DEF TypeOK, EngineInv, MirrorKeyed, QuantityConserved, Order

LEMMA DropOrderInv ==
  ASSUME TypeOK, EngineInv, DropOrder
  PROVE  EngineInv'
  <1>1. PICK s \in op.leaving, id \in OrderId :
          /\ orders[s][id] # None
          /\ books' = [books EXCEPT ![orders[s][id].inst] =
                 Remove(@, s, id, orders[s][id].side, orders[s][id].price)]
          /\ orders' = [orders EXCEPT ![s][id] = None]
          /\ published' = published
    BY DEF DropOrder, RecordMarketData
  <1>2. s \in Session /\ op.phase = "drop" /\ id # QuoteId
    BY QuoteIdAssumption DEF DropOrder, TypeOK, Op
  <1>3. UNCHANGED <<sessions, quotes, next_arrival, op>>
    BY DEF DropOrder
  <1> DEFINE o == orders[s][id]
             r == Remove(books[o.inst], s, id, o.side, o.price)
  <1>4. /\ r.entries \subseteq books[o.inst].entries
        /\ \A e \in r.entries : ~(e.order.session = s /\ e.order.id = id)
        /\ \A j \in Instrument : \A e \in books[j].entries :
              e.order.session = s /\ e.order.id = id => j = o.inst
    BY <1>1, <1>2, RemovalHits
  <1>5. o.inst \in Instrument
    BY <1>1, <1>2, MirrorFacts
  <1>6. /\ books'[o.inst] = r
        /\ \A j \in Instrument : j # o.inst => books'[j] = books[j]
    BY <1>1, <1>5 DEF TypeOK
  <1> HIDE DEF r
  <1>7. \A i \in Instrument : books'[i].entries \subseteq books[i].entries
    BY <1>4, <1>6
  <1>8. \A i \in Instrument : \A e \in books'[i].entries :
           /\ e \in books[i].entries
           /\ ~(e.order.session = s /\ e.order.id = id)
    BY <1>4, <1>5, <1>6
  <1>9. \A i \in Instrument : \A e \in books'[i].entries :
           e.order.id # QuoteId => orders'[e.order.session][e.order.id]
                                     = orders[e.order.session][e.order.id]
    BY <1>1, <1>2, <1>8, EntryFacts DEF TypeOK
  <1>10. \A t \in Session, x \in OrderId : orders'[t][x] # None =>
            /\ orders'[t][x].session = t /\ orders'[t][x].id = x
            /\ Conserves(orders'[t][x])
    BY <1>1, <1>2, MirrorFacts DEF TypeOK
  <1>11. /\ op.askLeg = None /\ op.trades = <<>> /\ op.final = None
         /\ ~op.status /\ next_arrival \in Nat
    BY <1>2 DEF EngineInv, OpShape, TypeOK
  <1>12. CopiesKnown'
    BY <1>3, <1>11 DEF CopiesKnown
  <1> QED
    BY <1>1, <1>2, <1>3, <1>7, <1>9, <1>10, <1>11, <1>12, ShrinkInv

\* Taking out a quote pair hits every quote leg of that session in that book.
LEMMA QuoteRemovalHits ==
  ASSUME TypeOK, EngineInv, NEW s \in Session, NEW i \in Instrument
  PROVE  LET r == WithoutQuote(books[i], s, quotes[s][i])
         IN  /\ r.entries \subseteq books[i].entries
             /\ \A e \in r.entries : ~(e.order.session = s /\ e.order.id = QuoteId)
             /\ \A e \in books[i].entries :
                   e.order.session # s \/ e.order.id # QuoteId => e \in r.entries
  <1> DEFINE pair == quotes[s][i]
             b == books[i]
             bids == Located(b, s, QuoteId, "Buy", pair.bid)
             c == Remove(b, s, QuoteId, "Buy", pair.bid)
             asks == Located(c, s, QuoteId, "Sell", pair.ask)
             d == Remove(c, s, QuoteId, "Sell", pair.ask)
  <1>1. ASSUME NEW e \in b.entries, e.order.session = s, e.order.id = QuoteId
        PROVE  /\ pair # None
               /\ e.order.side = "Buy" \/ e.order.side = "Sell"
               /\ e.order.side = "Buy" => LevelOf(e.order) = <<"Buy", pair.bid>>
               /\ e.order.side = "Sell" => LevelOf(e.order) = <<"Sell", pair.ask>>
    <2>1. e.order.inst = i /\ Quoted(e.order)
      BY DEF EngineInv, EntriesOwned
    <2>2. e.order.side \in Side
      BY EntryFacts
    <2> QED
      BY <1>1, <2>1, <2>2 DEF Quoted, LevelOf, EffectivePrice, Side
  <1>2. \A e, f \in b.entries : SameQuote(e.order, f.order) => e = f
    BY DEF EngineInv, QuotesUnique
  <1>3. CASE pair = None
    BY <1>1, <1>3 DEF WithoutQuote
  <1>4. CASE pair # None
    <2>1. \A e, f \in bids : e = f
      BY <1>2 DEF Located, LevelOf, SameQuote
    <2>2. c.entries = b.entries \ bids
      BY <2>1, RemoveEntries
    <2> HIDE DEF c
    <2>3. \A e, f \in asks : e = f
      BY <1>2, <2>2 DEF Located, LevelOf, SameQuote
    <2>4. d.entries = c.entries \ asks
      BY <2>3, RemoveEntries
    <2>5. WithoutQuote(books[i], s, quotes[s][i]) = d
      BY <1>4 DEF WithoutQuote, c
    <2>6. \A e \in d.entries : ~(e.order.session = s /\ e.order.id = QuoteId)
      <3> SUFFICES ASSUME NEW e \in d.entries, e.order.session = s,
                          e.order.id = QuoteId
                   PROVE  FALSE
        OBVIOUS
      <3>1. e \in b.entries /\ e \notin bids /\ e \in c.entries /\ e \notin asks
        BY <2>2, <2>4
      <3> QED
        BY <1>1, <3>1 DEF Located
    <2>7. \A e \in bids \cup asks : e.order.session = s /\ e.order.id = QuoteId
      BY DEF Located
    <2> QED
      BY <2>2, <2>4, <2>5, <2>6, <2>7
  <1> QED
    BY <1>3, <1>4

LEMMA DropQuoteInv ==
  ASSUME TypeOK, EngineInv, DropQuote
  PROVE  EngineInv'
  <1>1. PICK s \in op.leaving, i \in Instrument :
          /\ books' = [books EXCEPT ![i] = WithoutQuote(@, s, quotes[s][i])]
          /\ quotes' = [quotes EXCEPT ![s][i] = None]
          /\ published' = published
    BY DEF DropQuote, RecordMarketData
  <1>2. s \in Session /\ op.phase = "drop"
    BY DEF DropQuote, TypeOK, Op
  <1>3. UNCHANGED <<sessions, orders, next_arrival, op>>
    BY DEF DropQuote
  <1> DEFINE r == WithoutQuote(books[i], s, quotes[s][i])
  <1>4. /\ r.entries \subseteq books[i].entries
        /\ \A e \in r.entries : ~(e.order.session = s /\ e.order.id = QuoteId)
    BY <1>2, QuoteRemovalHits
  <1>5. books'[i] = r /\ \A j \in Instrument : j # i => books'[j] = books[j]
    BY <1>1 DEF TypeOK
  <1> HIDE DEF r
  <1>6. \A j \in Instrument : books'[j].entries \subseteq books[j].entries
    BY <1>4, <1>5
  <1>7. \A j \in Instrument : \A e \in books'[j].entries :
           e.order.id = QuoteId => quotes'[e.order.session][j]
                                     = quotes[e.order.session][j]
    <2> SUFFICES ASSUME NEW j \in Instrument, NEW e \in books'[j].entries,
                        e.order.id = QuoteId
                 PROVE  quotes'[e.order.session][j] = quotes[e.order.session][j]
      OBVIOUS
    <2>1. e \in books[j].entries
      BY <1>6
    <2>2. e.order.session \in Session
      BY <2>1, EntryFacts
    <2>3. j # i \/ e.order.session # s
      BY <1>4, <1>5
    <2> QED
      BY <1>1, <1>2, <2>2, <2>3 DEF TypeOK
  <1>8. \A t \in Session, x \in OrderId : orders'[t][x] # None =>
           /\ orders'[t][x].session = t /\ orders'[t][x].id = x
           /\ Conserves(orders'[t][x])
    BY <1>3, MirrorFacts
  <1>9. /\ op.askLeg = None /\ op.trades = <<>> /\ op.final = None
        /\ ~op.status /\ next_arrival \in Nat
    BY <1>2 DEF EngineInv, OpShape, TypeOK
  <1>10. CopiesKnown'
    BY <1>3, <1>9 DEF CopiesKnown
  <1> QED
    BY <1>1, <1>2, <1>3, <1>6, <1>7, <1>8, <1>9, <1>10, ShrinkInv

LEMMA DropDoneInv ==
  ASSUME TypeOK, EngineInv, DropDone
  PROVE  EngineInv'
  <1>1. /\ op.phase = "drop"
        /\ op' = Publishing("other", None, FALSE)
        /\ \A s \in op.leaving :
              /\ \A id \in OrderId : orders[s][id] = None
              /\ \A i \in Instrument : quotes[s][i] = None
        /\ UNCHANGED <<sessions, orders, quotes, books, next_arrival, published>>
    BY DEF DropDone, market_data
  <1>2. /\ op'.phase = "publish" /\ op'.askLeg = None /\ op'.trades = <<>>
        /\ op'.final = None /\ op'.status = FALSE /\ op'.leaving = {}
    BY <1>1 DEF Publishing, Idle
  <1>3. ASSUME NEW i \in Instrument, NEW e \in books[i].entries
        PROVE  e.order.session \in sessions' \cup op'.leaving
    <2>1. /\ e.order.inst = i /\ Known(e.order) /\ Quoted(e.order)
          /\ e.order.session \in sessions \cup op.leaving
      BY DEF EngineInv, EntriesOwned
    <2>2. e.order.session \notin op.leaving
      BY <1>1, <2>1, EntryFacts DEF Known, Quoted
    <2> QED
      BY <1>1, <2>1, <2>2
  <1>4. op.trades = <<>> /\ op.final = None
    BY <1>1 DEF EngineInv, OpShape
  <1> QED
    BY <1>1, <1>2, <1>3, <1>4, QuietInv

-----------------------------------------------------------------------------
(* Cancels and expiry *)

\* The entry a cancel locates is the order of the mirror, and the only one.
LEMMA LocatedIsOwn ==
  ASSUME TypeOK, EngineInv, op.phase # "match",
         NEW s \in Session, NEW id \in OrderId, orders[s][id] # None,
         NEW e \in Located(books[orders[s][id].inst], s, id,
                           orders[s][id].side, orders[s][id].price)
  PROVE  /\ e \in books[orders[s][id].inst].entries
         /\ SameOrder(orders[s][id], e.order)
         /\ Conserves(e.order) /\ IsActive(e.order.state)
         /\ \A j \in Instrument : \A f \in books[j].entries :
               f.order.session = s /\ f.order.id = id => f = e /\ j = orders[s][id].inst
  <1> DEFINE o == orders[s][id]
  <1>1. o \in Order /\ o.inst \in Instrument /\ id # QuoteId
    BY MirrorFacts, QuoteIdAssumption
  <1>2. e \in books[o.inst].entries /\ e.order.session = s /\ e.order.id = id
    BY DEF Located
  <1>3. ASSUME NEW j \in Instrument, NEW f \in books[j].entries,
               f.order.session = s, f.order.id = id
        PROVE  j = o.inst /\ SameOrder(o, f.order)
    BY <1>1, <1>3 DEF EngineInv, EntriesOwned, Known, SameOrder
  <1>4. \A f \in books[o.inst].entries : f.order.arrival = e.order.arrival => f = e
    BY <1>1, <1>2 DEF EngineInv, ArrivalsUnique
  <1>5. Conserves(e.order) /\ IsActive(e.order.state)
    BY <1>1, <1>2 DEF EngineInv, QuantityConserved, EntriesOwned
  <1> QED
    BY <1>1, <1>2, <1>3, <1>4, <1>5 DEF SameOrder

LEMMA CancelOrderInv ==
  ASSUME TypeOK, EngineInv, NEW s \in Session, NEW orig \in OrderId,
         CancelOrder(s, orig)
  PROVE  EngineInv'
  <1> DEFINE old == orders[s][orig]
  <1>1. /\ op = Idle /\ old # None
        /\ UNCHANGED <<sessions, quotes, next_arrival, published>>
    BY DEF CancelOrder, RecordMarketData
  <1>2. PICK e \in Located(books[old.inst], s, orig, old.side, old.price) :
          /\ books' = [books EXCEPT ![old.inst] = Drop(@, e)]
          /\ orders' = [orders EXCEPT ![s][orig] =
                           [e.order EXCEPT !.state = "Cancelled"]]
          /\ op' = Publishing("cancel", [e.order EXCEPT !.state = "Cancelled"], TRUE)
    BY DEF CancelOrder
  <1> DEFINE c == [e.order EXCEPT !.state = "Cancelled"]
  <1>3. op.phase # "match" /\ op.leaving = {}
    BY <1>1, IdleFacts
  <1>4. old.inst \in Instrument /\ books[old.inst] \in Book /\ old \in Order
    BY <1>1, MirrorFacts DEF TypeOK
  <1>5. /\ e \in books[old.inst].entries
        /\ SameOrder(old, e.order) /\ Conserves(e.order) /\ IsActive(e.order.state)
        /\ \A j \in Instrument : \A f \in books[j].entries :
              f.order.session = s /\ f.order.id = orig => f = e /\ j = old.inst
    BY <1>1, <1>3, LocatedIsOwn
  <1>6. e.order \in Order
    BY <1>4, <1>5, EntryFacts
  <1>7. /\ c \in Order /\ SameOrder(e.order, c) /\ SameOrder(c, e.order)
        /\ Conserves(c) /\ c # None
    <2>1. SameOrder(e.order, c) /\ SameOrder(c, e.order) /\ c.state = "Cancelled"
          /\ c.cum = e.order.cum /\ c.remaining = e.order.remaining
      BY <1>6, StateKeeps
    <2>2. c \in Order
      BY <1>6, StateType DEF OrderState
    <2> HIDE DEF c
    <2> QED
      BY <1>5, <2>1, <2>2, NoneAssumption DEF Conserves, IsActive, SameOrder
  <1>8. /\ op'.phase = "publish" /\ op'.askLeg = None /\ op'.trades = <<>>
        /\ op'.final = c /\ op'.status = TRUE /\ op'.leaving = {}
    BY <1>2 DEF Publishing, Idle
  <1>9. /\ books'[old.inst].entries = books[old.inst].entries \ {e}
        /\ \A j \in Instrument : j # old.inst => books'[j] = books[j]
    BY <1>2, <1>4 DEF TypeOK, Drop
  <1>10. /\ orders'[s][orig] = c
         /\ \A t \in Session, x \in OrderId :
               t # s \/ x # orig => orders'[t][x] = orders[t][x]
    BY <1>2 DEF TypeOK
  <1> HIDE DEF c
  <1>11. \A i \in Instrument : books'[i].entries \subseteq books[i].entries
    BY <1>9
  <1>12. \A i \in Instrument : \A f \in books'[i].entries :
            /\ f \in books[i].entries
            /\ ~(f.order.session = s /\ f.order.id = orig)
    BY <1>5, <1>9, <1>11
  <1>13. \A i \in Instrument : \A f \in books'[i].entries :
            f.order.id # QuoteId => orders'[f.order.session][f.order.id]
                                      = orders[f.order.session][f.order.id]
    BY <1>10, <1>12, EntryFacts
  <1>14. old.session = s /\ old.id = orig
    BY <1>1, MirrorFacts
  <1>15. \A t \in Session, x \in OrderId : orders'[t][x] # None =>
            /\ orders'[t][x].session = t /\ orders'[t][x].id = x
            /\ Conserves(orders'[t][x])
    BY <1>5, <1>7, <1>10, <1>14, MirrorFacts DEF SameOrder
  <1>16. CopiesKnown'
    BY <1>5, <1>7, <1>8, <1>10, <1>14 DEF CopiesKnown, Known, SameOrder
  <1>17. next_arrival \in Nat
    BY DEF TypeOK
  <1> QED
    BY <1>1, <1>3, <1>7, <1>8, <1>11, <1>13, <1>15, <1>16, <1>17, ShrinkInv

LEMMA ExpireOrderInv ==
  ASSUME TypeOK, EngineInv, NEW s \in Session, NEW id \in OrderId,
         ExpireOrder(s, id)
  PROVE  EngineInv'
  <1> DEFINE old == orders[s][id]
             o   == [old EXCEPT !.state = "Expired", !.remaining = 0]
  <1>1. /\ op.phase = "expire" /\ op' = [op EXCEPT !.expired = @ \ {<<s, id>>}]
        /\ UNCHANGED <<sessions, quotes, next_arrival>>
    BY DEF ExpireOrder
  <1>2. /\ op.askLeg = None /\ op.trades = <<>> /\ op.final = None
        /\ op.status = FALSE /\ op.leaving = {} /\ next_arrival \in Nat
    BY <1>1 DEF EngineInv, OpShape, TypeOK, Op
  <1>3. /\ op'.phase = "expire" /\ op'.askLeg = None /\ op'.trades = <<>>
        /\ op'.final = None /\ op'.status = FALSE /\ op'.leaving = {}
    BY <1>1, <1>2 DEF TypeOK, Op
  <1>4. CASE ~(s \in sessions /\ old # None /\ IsActive(old.state))
    <2>1. UNCHANGED <<orders, books, published>>
      BY <1>4 DEF ExpireOrder
    <2>2. \A i \in Instrument : \A e \in books[i].entries :
             e.order.session \in sessions' \cup op'.leaving
      BY <1>1, <1>2, <1>3 DEF EngineInv, EntriesOwned
    <2> QED
      BY <1>1, <1>2, <1>3, <2>1, <2>2, QuietInv
  <1>5. CASE s \in sessions /\ old # None /\ IsActive(old.state)
    <2>1. /\ books' = [books EXCEPT ![old.inst] = Remove(@, s, id, old.side, old.price)]
          /\ orders' = Synced(orders, o)
          /\ published' = published
      BY <1>5 DEF ExpireOrder, RecordMarketData
    <2>2. old \in Order /\ old.inst \in Instrument /\ old.session = s /\ old.id = id
      BY <1>5, MirrorFacts
    <2>3. o.session = s /\ o.id = id /\ Conserves(o)
      BY <2>2 DEF Order, Conserves
    <2>4. orders' = [orders EXCEPT ![s][id] = o]
      BY <1>5, <2>1, <2>3, QuoteIdAssumption DEF Synced
    <2> HIDE DEF o
    <2>5. /\ orders'[s][id] = o
          /\ \A t \in Session, x \in OrderId :
                t # s \/ x # id => orders'[t][x] = orders[t][x]
      BY <2>4 DEF TypeOK
    <2> DEFINE r == Remove(books[old.inst], s, id, old.side, old.price)
    <2>6. /\ r.entries \subseteq books[old.inst].entries
          /\ \A e \in r.entries : ~(e.order.session = s /\ e.order.id = id)
          /\ \A j \in Instrument : \A e \in books[j].entries :
                e.order.session = s /\ e.order.id = id => j = old.inst
      BY <1>1, <1>5, RemovalHits
    <2>7. /\ books'[old.inst] = r
          /\ \A j \in Instrument : j # old.inst => books'[j] = books[j]
      BY <2>1, <2>2 DEF TypeOK
    <2> HIDE DEF r
    <2>8. \A i \in Instrument : books'[i].entries \subseteq books[i].entries
      BY <2>6, <2>7
    <2>9. \A i \in Instrument : \A e \in books'[i].entries :
             /\ e \in books[i].entries
             /\ ~(e.order.session = s /\ e.order.id = id)
      BY <2>2, <2>6, <2>7
    <2>10. \A i \in Instrument : \A e \in books'[i].entries :
              e.order.id # QuoteId => orders'[e.order.session][e.order.id]
                                        = orders[e.order.session][e.order.id]
      BY <2>5, <2>9, EntryFacts
    <2>11. \A t \in Session, x \in OrderId : orders'[t][x] # None =>
              /\ orders'[t][x].session = t /\ orders'[t][x].id = x
              /\ Conserves(orders'[t][x])
      BY <2>3, <2>5, MirrorFacts
    <2>12. CopiesKnown'
      BY <1>3 DEF CopiesKnown
    <2> QED
      BY <1>1, <1>2, <1>3, <2>1, <2>8, <2>10, <2>11, <2>12, ShrinkInv
  <1> QED
    BY <1>4, <1>5

LEMMA ExpireDoneInv ==
  ASSUME EngineInv, ExpireDone
  PROVE  EngineInv'
  <1>1. /\ op.phase = "expire" /\ op' = Publishing("other", None, FALSE)
        /\ UNCHANGED <<sessions, orders, quotes, books, next_arrival, published>>
    BY DEF ExpireDone, market_data
  <1>2. /\ op'.phase = "publish" /\ op'.askLeg = None /\ op'.trades = <<>>
        /\ op'.final = None /\ op'.status = FALSE /\ op'.leaving = {}
    BY <1>1 DEF Publishing, Idle
  <1>3. op.trades = <<>> /\ op.final = None /\ op.leaving = {}
    BY <1>1 DEF EngineInv, OpShape
  <1>4. \A i \in Instrument : \A e \in books[i].entries :
           e.order.session \in sessions' \cup op'.leaving
    BY <1>1, <1>3 DEF EngineInv, EntriesOwned
  <1> QED
    BY <1>1, <1>2, <1>3, <1>4, QuietInv

-----------------------------------------------------------------------------
(* Adding orders *)

\* A step that adds one order, with an arrival later than every other, to a
\* book it may have taken entries out of, and starts to match it.
LEMMA GrowInv ==
  ASSUME TypeOK, EngineInv, NEW i \in Instrument, NEW o \in Order, NEW gone,
         op.phase = "match" => op.incoming.inst = i, op.leaving = {},
         sessions' = sessions, published' = published,
         next_arrival' \in Nat, next_arrival' >= next_arrival,
         gone.entries \subseteq books[i].entries,
         books'[i] = Insert(gone, Booked(o)),
         \A j \in Instrument : j # i => books'[j] = books[j],
         \A j \in Instrument : \A e \in books[j].entries :
            j # i \/ e \in gone.entries =>
               /\ e.order.id # QuoteId => orders'[e.order.session][e.order.id]
                                            = orders[e.order.session][e.order.id]
               /\ e.order.id = QuoteId => quotes'[e.order.session][j]
                                            = quotes[e.order.session][j],
         \A e \in gone.entries : /\ e.order.type # "Market"
                                  /\ ~SameQuote(e.order, o)
                                  /\ e.order.arrival < o.arrival,
         o.inst = i, o.session \in sessions, o.arrival <= next_arrival',
         o.type = "Limit" => o.price > 0,
         o.cum + o.remaining = o.quantity, Known(o)', Quoted(o)',
         op'.phase = "match", op'.incoming = o, op'.leaving = {},
         OpShape', CopiesKnown', TradeWithinLimits',
         \A n \in DOMAIN op'.trades :
            Conserves(op'.trades[n].buyer) /\ Conserves(op'.trades[n].seller),
         \A t \in Session, id \in OrderId : orders'[t][id] # None =>
            /\ orders'[t][id].session = t /\ orders'[t][id].id = id
            /\ Conserves(orders'[t][id])
  PROVE  EngineInv'
  <1> DEFINE p == Booked(o)
  <1>1. SameOrder(o, p) /\ SameOrder(p, o) /\ p.state = "Booked"
        /\ p.cum = o.cum /\ p.remaining = o.remaining
    BY StateKeeps DEF Booked
  <1> DEFINE n == [order |-> p, key |-> gone.levels[LevelOf(p)].next]
  <1>2. books'[i].entries = gone.entries \cup {n}
    BY DEF Insert
  <1>3. n.order = p
    OBVIOUS
  <1> HIDE DEF p, n
  <1>5. \A j \in Instrument : \A e \in books'[j].entries :
           \/ e \in books[j].entries /\ (j # i \/ e \in gone.entries)
           \/ j = i /\ e = n
    BY <1>2
  <1>6. \A j \in Instrument : \A e \in books[j].entries :
           /\ e.order.inst = j /\ e.order.session \in sessions
           /\ IsActive(e.order.state) /\ Conserves(e.order)
           /\ e.order.type = "Limit" => e.order.price > 0
           /\ Known(e.order) /\ Quoted(e.order)
           /\ e.order.arrival <= next_arrival /\ e.order.arrival \in Nat
    BY EntryFacts DEF EngineInv, EntriesOwned, QuantityConserved, ArrivalsUnique, Order
  <1>7. ASSUME NEW j \in Instrument, NEW e \in books[j].entries,
               j # i \/ e \in gone.entries
        PROVE  Known(e.order)' /\ Quoted(e.order)'
    BY <1>6, <1>7 DEF Known, Quoted
  <1>8. /\ IsActive(n.order.state) /\ Conserves(n.order) /\ n.order.inst = i
        /\ n.order.session \in sessions
        /\ n.order.type = "Limit" => n.order.price > 0
        /\ n.order.arrival = o.arrival
    BY <1>1, <1>3 DEF IsActive, Conserves, SameOrder
  <1>9. Known(n.order)' /\ Quoted(n.order)'
    BY <1>1, <1>3 DEF Known, Quoted, SameOrder
  <1>10. EntriesOwned'
    BY <1>5, <1>6, <1>7, <1>8, <1>9 DEF EntriesOwned
  <1>11. o.arrival \in Nat /\ next_arrival \in Nat
    BY DEF TypeOK, Order
  <1>12. ArrivalsUnique'
    <2>1. ASSUME NEW j \in Instrument, NEW e \in books'[j].entries,
                 NEW f \in books'[j].entries, e.order.arrival = f.order.arrival
          PROVE  e = f
      <3>1. \A x, y \in books[j].entries : x.order.arrival = y.order.arrival => x = y
        BY DEF EngineInv, ArrivalsUnique
      <3> QED
        BY <1>5, <1>6, <1>8, <1>11, <2>1, <3>1
    <2>2. ASSUME NEW j \in Instrument, NEW e \in books'[j].entries
          PROVE  e.order.arrival <= next_arrival'
      BY <1>5, <1>6, <1>8, <1>11
    <2>3. ASSUME NEW e \in books'[i].entries
          PROVE  e.order.arrival <= o.arrival
      BY <1>2, <1>6, <1>8, <1>11
    <2> QED
      BY <2>1, <2>2, <2>3 DEF ArrivalsUnique
  <1>13. QuotesUnique'
    <2> SUFFICES ASSUME NEW j \in Instrument, NEW e \in books'[j].entries,
                        NEW f \in books'[j].entries, SameQuote(e.order, f.order)
                 PROVE  e = f
      BY DEF QuotesUnique
    <2>1. \A x, y \in books[j].entries : SameQuote(x.order, y.order) => x = y
      BY DEF EngineInv, QuotesUnique
    <2>2. \A x \in gone.entries : ~SameQuote(x.order, n.order)
                                  /\ ~SameQuote(n.order, x.order)
      BY <1>1, <1>3 DEF SameQuote, SameOrder
    <2> QED
      BY <1>5, <2>1, <2>2
  <1>14. MirrorKeyed'
    BY DEF MirrorKeyed
  <1>15. MarketIsIncoming'
    <2> SUFFICES ASSUME NEW j \in Instrument, NEW e \in books'[j].entries,
                        e.order.type = "Market"
                 PROVE  SameOrder(e.order, o)
      BY DEF MarketIsIncoming
    <2>1. CASE j = i /\ e = n
      BY <1>1, <1>3, <2>1
    <2>2. CASE e \in books[j].entries /\ e \in gone.entries
      BY <2>2
    <2>3. CASE e \in books[j].entries /\ j # i
      <3>1. op.phase = "match" /\ SameOrder(e.order, op.incoming)
        BY <2>3 DEF EngineInv, MarketIsIncoming
      <3> QED
        BY <1>6, <2>3, <3>1 DEF SameOrder
    <2> QED
      BY <1>5, <2>1, <2>2, <2>3
  <1>16. QuantityConserved'
    BY <1>5, <1>6, <1>8 DEF QuantityConserved
  <1>17. Uncrossed'
    <2>1. \A j \in Instrument : j # i =>
             \A bid \in SideOf(books[j], "Buy"), ask \in SideOf(books[j], "Sell") :
                EffectivePrice(bid.order) < EffectivePrice(ask.order)
      BY DEF EngineInv, Uncrossed
    <2> QED
      BY <2>1 DEF Uncrossed, SideOf
  <1>18. PublishedUncrossed'
    BY DEF EngineInv, PublishedUncrossed
  <1> QED
    BY <1>10, <1>12, <1>13, <1>14, <1>15, <1>16, <1>17, <1>18 DEF EngineInv

LEMMA CreateOrderInv ==
  ASSUME TypeOK, EngineInv,
         NEW s \in Session, NEW id \in OrderId, NEW i \in Instrument,
         NEW side \in Side, NEW type \in OrderType, NEW price \in Price,
         NEW qty \in Quantity, CreateOrder(s, id, i, side, type, price, qty)
  PROVE  EngineInv'
  <1> DEFINE new == NewOrder(s, id, i, side, type, price, qty, next_arrival + 1)
  <1>1. /\ op = Idle /\ s \in sessions /\ orders[s][id] = None
        /\ next_arrival' = next_arrival + 1
        /\ orders' = [orders EXCEPT ![s][id] = new]
        /\ books' = [books EXCEPT ![i] = Insert(@, Booked(new))]
        /\ op' = Matching("create", new, None)
        /\ UNCHANGED <<sessions, quotes, published>>
    BY DEF CreateOrder, market_data
  <1>2. next_arrival \in Nat /\ qty \in Nat /\ id # QuoteId /\ price > 0
    BY InputAssumption, PriceAssumption, QuoteIdAssumption DEF TypeOK
  <1>3. PICK o \in Order : o = new
    BY <1>2, NewOrderType
  <1>4. /\ o.session = s /\ o.id = id /\ o.inst = i /\ o.arrival = next_arrival + 1
        /\ o.type = "Limit" => o.price > 0
        /\ o.cum + o.remaining = o.quantity
    BY <1>2, <1>3 DEF NewOrder
  <1> HIDE DEF new
  <1>5. /\ op'.phase = "match" /\ op'.incoming = o /\ op'.leaving = {}
        /\ op'.trades = <<>> /\ op'.final = None /\ op'.askLeg = None
        /\ op'.status = FALSE
    BY <1>1, <1>3 DEF Matching, Idle
  <1>6. /\ books'[i] = Insert(books[i], Booked(o))
        /\ \A j \in Instrument : j # i => books'[j] = books[j]
    BY <1>1, <1>3 DEF TypeOK
  <1>7. /\ orders'[s][id] = o
        /\ \A t \in Session, x \in OrderId :
              t # s \/ x # id => orders'[t][x] = orders[t][x]
    BY <1>1, <1>3 DEF TypeOK
  <1>8. op.phase # "match" /\ op.leaving = {}
    BY <1>1, IdleFacts
  <1>9. \A j \in Instrument : \A e \in books[j].entries :
           /\ e.order.id # QuoteId => orders'[e.order.session][e.order.id]
                                        = orders[e.order.session][e.order.id]
           /\ e.order.id = QuoteId => quotes'[e.order.session][j]
                                        = quotes[e.order.session][j]
    BY <1>1, <1>7, EntryFacts DEF EngineInv, EntriesOwned, Known
  <1>10. \A e \in books[i].entries : /\ e.order.type # "Market"
                                     /\ ~SameQuote(e.order, o)
                                     /\ e.order.arrival < o.arrival
    <2> SUFFICES ASSUME NEW e \in books[i].entries
                 PROVE  /\ e.order.type # "Market" /\ ~SameQuote(e.order, o)
                        /\ e.order.arrival < o.arrival
      OBVIOUS
    <2>1. e.order.arrival \in Nat
      BY EntryFacts DEF Order
    <2> QED
      BY <1>2, <1>4, <1>8, <2>1
      DEF EngineInv, MarketIsIncoming, ArrivalsUnique, SameQuote
  <1>11. OpShape' /\ CopiesKnown' /\ TradeWithinLimits'
    BY <1>1, <1>5, NoneAssumption DEF OpShape, CopiesKnown, TradeWithinLimits
  <1>12. Known(o)' /\ Quoted(o)'
    BY <1>2, <1>3, <1>4, <1>7, NoneAssumption DEF Known, Quoted, SameOrder
  <1>13. \A t \in Session, x \in OrderId : orders'[t][x] # None =>
            /\ orders'[t][x].session = t /\ orders'[t][x].id = x
            /\ Conserves(orders'[t][x])
    BY <1>4, <1>7, MirrorFacts DEF Conserves
  <1>14. next_arrival' \in Nat /\ next_arrival' >= next_arrival
         /\ o.arrival <= next_arrival'
    BY <1>1, <1>2, <1>4
  <1> QED
    BY <1>1, <1>3, <1>4, <1>5, <1>6, <1>8, <1>9, <1>10, <1>11, <1>12, <1>13, <1>14,
       GrowInv

LEMMA ModifyOrderInv ==
  ASSUME TypeOK, EngineInv,
         NEW s \in Session, NEW orig \in OrderId, NEW id \in OrderId,
         NEW type \in OrderType, NEW price \in Price \cup {0},
         NEW qty \in Quantity, ModifyOrder(s, orig, id, type, price, qty)
  PROVE  EngineInv'
  <1> DEFINE old  == orders[s][orig]
             new  == Replacement(old, id, type, price, qty)
             i    == old.inst
             gone == Remove(books[i], s, orig, old.side, old.price)
  <1>1. /\ op = Idle /\ s \in sessions /\ old # None
        /\ price > 0 \/ type = "Market"
        /\ qty >= old.cum /\ FreshId(s, orig, id)
        /\ next_arrival' = next_arrival + 1
        /\ orders' = [orders EXCEPT ![s] = [@ EXCEPT ![orig] = None, ![id] = new]]
        /\ UNCHANGED <<sessions, quotes, published>>
    BY DEF ModifyOrder, RecordMarketData
  <1>2. \/ /\ new.remaining = 0
           /\ books' = [books EXCEPT ![i] = gone]
           /\ op' = Publishing("replace", None, FALSE)
        \/ /\ books' = [books EXCEPT ![i] = Insert(gone, Booked(new))]
           /\ op' = Matching("replace", new, None)
    BY DEF ModifyOrder
  <1>3. /\ next_arrival \in Nat /\ qty \in Nat /\ id # QuoteId
        /\ old \in Order /\ old.cum \in Nat
    BY <1>1, MirrorFacts, InputAssumption, QuoteIdAssumption DEF TypeOK, Order
  <1>4. old.inst \in Instrument /\ old.session = s /\ old.id = orig
    BY <1>1, MirrorFacts
  <1>5. PICK o \in Order : o = new
    BY <1>1, <1>3, ReplacementType
  <1>6. /\ o.session = s /\ o.id = id /\ o.inst = i /\ o.arrival = next_arrival + 1
        /\ o.type = "Limit" => o.price > 0
        /\ o.cum = old.cum /\ o.remaining = qty - old.cum /\ o.quantity = qty
    BY <1>1, <1>3, <1>4, <1>5 DEF Replacement, Order
  <1>7. o.cum + o.remaining = o.quantity
    BY <1>3, <1>6
  <1>8. op.phase # "match" /\ op.leaving = {}
    BY <1>1, IdleFacts
  <1>9. /\ gone.entries \subseteq books[i].entries
        /\ \A e \in gone.entries : ~(e.order.session = s /\ e.order.id = orig)
        /\ \A j \in Instrument : \A e \in books[j].entries :
              e.order.session = s /\ e.order.id = orig => j = i
    BY <1>1, <1>8, RemovalHits
  <1> HIDE DEF new, gone
  <1>10. /\ orders'[s][id] = o
         /\ id # orig => orders'[s][orig] = None
         /\ \A t \in Session, x \in OrderId :
               t # s \/ (x # id /\ x # orig) => orders'[t][x] = orders[t][x]
    BY <1>1, <1>5 DEF TypeOK
  <1>11. ASSUME NEW j \in Instrument, NEW e \in books[j].entries,
                j # i \/ e \in gone.entries
         PROVE  /\ e.order.id # QuoteId => orders'[e.order.session][e.order.id]
                                             = orders[e.order.session][e.order.id]
                /\ e.order.id = QuoteId => quotes'[e.order.session][j]
                                             = quotes[e.order.session][j]
    <2>1. ~(e.order.session = s /\ e.order.id = orig)
      BY <1>9, <1>11
    <2>2. ~(e.order.session = s /\ e.order.id = id)
      BY <1>1, <1>3, <2>1 DEF EngineInv, EntriesOwned, Known, FreshId
    <2> QED
      BY <1>1, <1>10, <2>1, <2>2, EntryFacts
  <1>12. \A t \in Session, x \in OrderId : orders'[t][x] # None =>
            /\ orders'[t][x].session = t /\ orders'[t][x].id = x
            /\ Conserves(orders'[t][x])
    BY <1>6, <1>7, <1>10, MirrorFacts DEF Conserves
  <1>13. next_arrival' \in Nat /\ next_arrival' >= next_arrival
         /\ o.arrival <= next_arrival'
    BY <1>1, <1>3, <1>6
  <1>14. CASE /\ books' = [books EXCEPT ![i] = gone]
              /\ op' = Publishing("replace", None, FALSE)
    <2>1. /\ op'.phase = "publish" /\ op'.askLeg = None /\ op'.trades = <<>>
          /\ op'.final = None /\ op'.status = FALSE /\ op'.leaving = {}
      BY <1>14 DEF Publishing, Idle
    <2>2. /\ books'[i] = gone
          /\ \A j \in Instrument : j # i => books'[j] = books[j]
      BY <1>4, <1>14 DEF TypeOK
    <2>3. \A j \in Instrument : books'[j].entries \subseteq books[j].entries
      BY <1>9, <2>2
    <2>4. \A j \in Instrument : \A e \in books'[j].entries :
             /\ e.order.id # QuoteId => orders'[e.order.session][e.order.id]
                                          = orders[e.order.session][e.order.id]
             /\ e.order.id = QuoteId => quotes'[e.order.session][j]
                                          = quotes[e.order.session][j]
      BY <1>11, <2>2, <2>3
    <2>5. CopiesKnown'
      BY <2>1 DEF CopiesKnown
    <2> QED
      BY <1>1, <1>8, <1>12, <1>13, <2>1, <2>3, <2>4, <2>5, ShrinkInv
  <1>15. CASE /\ books' = [books EXCEPT ![i] = Insert(gone, Booked(o))]
              /\ op' = Matching("replace", o, None)
    <2>1. /\ op'.phase = "match" /\ op'.incoming = o /\ op'.leaving = {}
          /\ op'.trades = <<>> /\ op'.final = None /\ op'.askLeg = None
          /\ op'.status = FALSE
      BY <1>15 DEF Matching, Idle
    <2>2. /\ books'[i] = Insert(gone, Booked(o))
          /\ \A j \in Instrument : j # i => books'[j] = books[j]
      BY <1>4, <1>15 DEF TypeOK
    <2>3. ASSUME NEW e \in gone.entries
          PROVE  /\ e.order.type # "Market" /\ ~SameQuote(e.order, o)
                 /\ e.order.arrival < o.arrival
      <3>1. e \in books[i].entries /\ e.order.arrival \in Nat
        BY <1>4, <1>9, EntryFacts DEF Order
      <3> QED
        BY <1>3, <1>4, <1>6, <1>8, <3>1
        DEF EngineInv, MarketIsIncoming, ArrivalsUnique, SameQuote
    <2>4. OpShape' /\ CopiesKnown' /\ TradeWithinLimits'
      BY <1>1, <2>1, NoneAssumption DEF OpShape, CopiesKnown, TradeWithinLimits
    <2>5. Known(o)' /\ Quoted(o)'
      BY <1>3, <1>5, <1>6, <1>10, NoneAssumption DEF Known, Quoted, SameOrder
    <2> QED
      BY <1>1, <1>4, <1>5, <1>6, <1>7, <1>8, <1>9, <1>11, <1>12, <1>13,
         <2>1, <2>2, <2>3, <2>4, <2>5, GrowInv
  <1> QED
    BY <1>2, <1>5, <1>14, <1>15

LEMMA QuoteInv ==
  ASSUME TypeOK, EngineInv, NEW s \in Session, NEW i \in Instrument,
         NEW bid \in Price \cup {0}, NEW ask \in Price \cup {0},
         NEW bidQty \in Quantity, NEW askQty \in Quantity,
         Quote(s, i, bid, bidQty, ask, askQty)
  PROVE  EngineInv'
  <1> DEFINE g == WithoutQuote(books[i], s, quotes[s][i])
             legs == (IF bid # 0 THEN 1 ELSE 0) + (IF ask # 0 THEN 1 ELSE 0)
             bidLeg == QuoteLeg(s, i, "Buy", bid, bidQty, next_arrival + 1)
             askLeg == QuoteLeg(s, i, "Sell", ask, askQty, next_arrival + legs)
             pair == [bid |-> bid, ask |-> ask]
  <1>1. /\ op = Idle /\ s \in sessions
        /\ next_arrival' = next_arrival + legs
        /\ quotes' = [quotes EXCEPT ![s][i] = pair]
        /\ UNCHANGED <<sessions, orders, published>>
    BY DEF Quote, RecordMarketData
  <1>2. \/ /\ bid # 0
           /\ books' = [books EXCEPT ![i] = Insert(g, Booked(bidLeg))]
           /\ op' = Matching("quote", bidLeg, IF ask # 0 THEN askLeg ELSE None)
        \/ /\ bid = 0 /\ ask # 0
           /\ books' = [books EXCEPT ![i] = Insert(g, Booked(askLeg))]
           /\ op' = Matching("quote", askLeg, None)
        \/ /\ bid = 0 /\ ask = 0
           /\ books' = [books EXCEPT ![i] = g]
           /\ op' = Publishing("quote", None, FALSE)
    BY DEF Quote
  <1>3. /\ next_arrival \in Nat /\ bidQty \in Nat /\ askQty \in Nat
        /\ legs \in Nat /\ bid \in Nat /\ ask \in Nat
        /\ bid # 0 \/ ask # 0 => legs >= 1
        /\ bid # 0 /\ ask # 0 => legs = 2
    BY InputAssumption, PriceAssumption DEF TypeOK
  <1>4. "Buy" \in Side /\ "Sell" \in Side /\ "Limit" \in OrderType
    BY DEF Side, OrderType
  <1>5. PICK b \in Order : b = bidLeg
    BY <1>3, <1>4, NewOrderType DEF QuoteLeg
  <1>6. PICK a \in Order : a = askLeg
    BY <1>3, <1>4, NewOrderType DEF QuoteLeg
  <1>7. /\ b.session = s /\ b.id = QuoteId /\ b.inst = i /\ b.side = "Buy"
        /\ b.type = "Limit" /\ b.price = bid /\ b.arrival = next_arrival + 1
        /\ b.cum + b.remaining = b.quantity
    BY <1>3, <1>5 DEF QuoteLeg, NewOrder
  <1>8. /\ a.session = s /\ a.id = QuoteId /\ a.inst = i /\ a.side = "Sell"
        /\ a.type = "Limit" /\ a.price = ask /\ a.arrival = next_arrival + legs
        /\ a.cum + a.remaining = a.quantity
    BY <1>3, <1>6 DEF QuoteLeg, NewOrder
  <1>9. PICK gone : gone = g
    OBVIOUS
  <1>10. /\ gone.entries \subseteq books[i].entries
         /\ \A e \in gone.entries : ~(e.order.session = s /\ e.order.id = QuoteId)
    BY <1>9, QuoteRemovalHits
  <1> HIDE DEF g, legs, bidLeg, askLeg
  <1>11. op.phase # "match" /\ op.leaving = {}
    BY <1>1, IdleFacts
  <1>12. /\ quotes'[s][i] # None
         /\ quotes'[s][i].bid = bid /\ quotes'[s][i].ask = ask
         /\ \A t \in Session, j \in Instrument :
               t # s \/ j # i => quotes'[t][j] = quotes[t][j]
    <2>1. quotes'[s][i] = pair
      BY <1>1 DEF TypeOK
    <2>2. pair # None
      BY NonePairAssumption DEF QuotePair
    <2>3. \A t \in Session, j \in Instrument :
               t # s \/ j # i => quotes'[t][j] = quotes[t][j]
      BY <1>1 DEF TypeOK
    <2> QED
      BY <2>1, <2>2, <2>3
  <1>13. Quoted(b)' /\ Quoted(a)' /\ Known(b)' /\ Known(a)'
    BY <1>7, <1>8, <1>12 DEF Quoted, Known
  <1>14. ASSUME NEW j \in Instrument, NEW e \in books[j].entries,
                j # i \/ e \in gone.entries
         PROVE  /\ e.order.id # QuoteId => orders'[e.order.session][e.order.id]
                                             = orders[e.order.session][e.order.id]
                /\ e.order.id = QuoteId => quotes'[e.order.session][j]
                                             = quotes[e.order.session][j]
    BY <1>1, <1>10, <1>12, <1>14, EntryFacts
  <1>15. \A t \in Session, x \in OrderId : orders'[t][x] # None =>
            /\ orders'[t][x].session = t /\ orders'[t][x].id = x
            /\ Conserves(orders'[t][x])
    BY <1>1, MirrorFacts
  <1>16. next_arrival' \in Nat /\ next_arrival' >= next_arrival
    BY <1>1, <1>3
  <1>17. ASSUME NEW e \in gone.entries
         PROVE  /\ e.order.type # "Market"
                /\ ~SameQuote(e.order, b) /\ ~SameQuote(e.order, a)
                /\ e.order.arrival < next_arrival + 1
    <2>1. e \in books[i].entries /\ e.order.arrival \in Nat
      BY <1>10, EntryFacts DEF Order
    <2>2. e.order.arrival <= next_arrival /\ e.order.type # "Market"
      BY <1>11, <2>1 DEF EngineInv, MarketIsIncoming, ArrivalsUnique
    <2> QED
      BY <1>3, <1>7, <1>8, <1>10, <2>1, <2>2 DEF SameQuote
  <1>18. CASE /\ bid # 0
              /\ books' = [books EXCEPT ![i] = Insert(gone, Booked(b))]
              /\ op' = Matching("quote", b, IF ask # 0 THEN a ELSE None)
    <2>1. /\ op'.phase = "match" /\ op'.incoming = b /\ op'.leaving = {}
          /\ op'.trades = <<>> /\ op'.final = None
          /\ op'.askLeg = IF ask # 0 THEN a ELSE None
          /\ op'.status = FALSE
      BY <1>18 DEF Matching, Idle
    <2>2. /\ books'[i] = Insert(gone, Booked(b))
          /\ \A j \in Instrument : j # i => books'[j] = books[j]
      BY <1>18 DEF TypeOK
    <2>3. \A e \in gone.entries : /\ e.order.type # "Market"
                                    /\ ~SameQuote(e.order, b)
                                    /\ e.order.arrival < b.arrival
      BY <1>7, <1>17
    <2>4. ASSUME NEW e \in books'[i].entries
          PROVE  ~SameQuote(e.order, a)
      <3>1. SameOrder(b, Booked(b))
        BY StateKeeps DEF Booked
      <3>2. e \in gone.entries \/ e.order = Booked(b)
        BY <2>2 DEF Insert
      <3> QED
        BY <1>7, <1>8, <1>17, <3>1, <3>2 DEF SameQuote, SameOrder
    <2>5. CopiesKnown' /\ TradeWithinLimits'
      BY <2>1 DEF CopiesKnown, TradeWithinLimits
    <2>6. b.arrival <= next_arrival'
      BY <1>1, <1>3, <1>7, <1>18
    <2>7. OpShape'
      <3>1. CASE ask = 0
        BY <2>1, <3>1, NoneAssumption DEF OpShape
      <3>2. CASE ask # 0
        <4>1. a.price > 0 /\ b.arrival < a.arrival /\ a.arrival <= next_arrival'
          BY <1>1, <1>3, <1>7, <1>8, <1>18, <3>2
        <4>2. op'.askLeg = a /\ a # None /\ b # None
          BY <2>1, <3>2, NoneAssumption
        <4>3. a.session \in sessions' /\ a.inst = b.inst /\ b.type = "Limit"
          BY <1>1, <1>7, <1>8
        <4>4. Quoted(a)' /\ \A e \in books'[b.inst].entries : ~SameQuote(e.order, a)
          BY <1>7, <1>13, <2>4
        <4> QED
          BY <1>8, <2>1, <4>1, <4>2, <4>3, <4>4 DEF OpShape, Quoted
      <3> QED
        BY <3>1, <3>2
    <2>8. bid > 0
      BY <1>3, <1>18
    <2> QED
      BY <1>1, <1>5, <1>7, <1>10, <1>11, <1>13, <1>14, <1>15, <1>16,
         <2>1, <2>2, <2>3, <2>5, <2>6, <2>7, <2>8, GrowInv
  <1>19. CASE /\ bid = 0 /\ ask # 0
              /\ books' = [books EXCEPT ![i] = Insert(gone, Booked(a))]
              /\ op' = Matching("quote", a, None)
    <2>1. /\ op'.phase = "match" /\ op'.incoming = a /\ op'.leaving = {}
          /\ op'.trades = <<>> /\ op'.final = None /\ op'.askLeg = None
          /\ op'.status = FALSE
      BY <1>19 DEF Matching, Idle
    <2>2. /\ books'[i] = Insert(gone, Booked(a))
          /\ \A j \in Instrument : j # i => books'[j] = books[j]
      BY <1>19 DEF TypeOK
    <2>3. /\ a.arrival = next_arrival' /\ a.arrival >= next_arrival + 1
          /\ a.arrival \in Nat /\ ask > 0
      BY <1>1, <1>3, <1>8, <1>19
    <2>4. \A e \in gone.entries : e.order.arrival \in Nat
      BY <1>10, EntryFacts DEF Order
    <2>5. \A e \in gone.entries : /\ e.order.type # "Market"
                                    /\ ~SameQuote(e.order, a)
                                    /\ e.order.arrival < a.arrival
      BY <1>3, <1>17, <2>3, <2>4
    <2>6. OpShape' /\ CopiesKnown' /\ TradeWithinLimits'
      BY <1>1, <2>1, NoneAssumption DEF OpShape, CopiesKnown, TradeWithinLimits
    <2>7. a.arrival <= next_arrival'
      BY <2>3
    <2> QED
      BY <1>1, <1>6, <1>8, <1>10, <1>11, <1>13, <1>14, <1>15, <1>16,
         <2>1, <2>2, <2>3, <2>5, <2>6, <2>7, GrowInv
  <1>20. CASE /\ books' = [books EXCEPT ![i] = gone]
              /\ op' = Publishing("quote", None, FALSE)
    <2>1. /\ op'.phase = "publish" /\ op'.askLeg = None /\ op'.trades = <<>>
          /\ op'.final = None /\ op'.status = FALSE /\ op'.leaving = {}
      BY <1>20 DEF Publishing, Idle
    <2>2. /\ books'[i] = gone
          /\ \A j \in Instrument : j # i => books'[j] = books[j]
      BY <1>20 DEF TypeOK
    <2>3. \A j \in Instrument : books'[j].entries \subseteq books[j].entries
      BY <1>10, <2>2
    <2>4. \A j \in Instrument : \A e \in books'[j].entries :
             /\ e.order.id # QuoteId => orders'[e.order.session][e.order.id]
                                          = orders[e.order.session][e.order.id]
             /\ e.order.id = QuoteId => quotes'[e.order.session][j]
                                          = quotes[e.order.session][j]
      BY <1>14, <2>2, <2>3
    <2>5. CopiesKnown'
      BY <2>1 DEF CopiesKnown
    <2> QED
      BY <1>1, <1>11, <1>15, <1>16, <2>1, <2>3, <2>4, <2>5, ShrinkInv
  <1> QED
    BY <1>2, <1>5, <1>6, <1>9, <1>18, <1>19, <1>20

-----------------------------------------------------------------------------
(* Matching *)

\* SameOrder is symmetric and transitive.
LEMMA SameOrderEquiv ==
  ASSUME NEW o, NEW p, NEW q, SameOrder(o, p)
  PROVE  SameOrder(p, o) /\ (SameOrder(p, q) => SameOrder(o, q))
  BY DEF SameOrder

\* What a copy of an order shares with every other copy of it.
LEMMA KnownCopy ==
  ASSUME NEW o, NEW p, SameOrder(o, p)
  PROVE  /\ Known(o) => Known(p)
         /\ Quoted(o) => Quoted(p)
         /\ EffectivePrice(o) = EffectivePrice(p)
         /\ \A q : SameQuote(p, q) => SameQuote(o, q)
         /\ \A q : SameQuote(q, p) => SameQuote(q, o)
  BY DEF SameOrder, Known, Quoted, EffectivePrice, SameQuote

\* A trade is within both limits: of the two tops the earlier arrival is a
\* limit order, because a market order is the last to arrive.
LEMMA TradePrice ==
  ASSUME TypeOK, EngineInv, op.phase = "match", op.incoming \in Order,
         NEW bid \in books[op.incoming.inst].entries,
         NEW ask \in books[op.incoming.inst].entries,
         bid.order.side = "Buy", ask.order.side = "Sell",
         EffectivePrice(bid.order) >= EffectivePrice(ask.order)
  PROVE  LET t == TradeOf(bid.order, ask.order)
         IN  /\ t.buyer.type = "Limit" => t.price <= t.buyer.price
             /\ t.seller.type = "Limit" => t.price >= t.seller.price
             /\ t.price > 0
  <1> DEFINE t == TradeOf(bid.order, ask.order)
             b == bid.order
             a == ask.order
  <1>1. op.incoming.inst \in Instrument
    BY DEF Order
  <1>2. a \in Order /\ b \in Order
    BY <1>1, EntryFacts
  <1>3. /\ SameOrder(t.buyer, b) /\ SameOrder(t.seller, a)
        /\ t.price = IF b.arrival < a.arrival THEN b.price ELSE a.price
    BY <1>2, TradeKeeps
  <1> HIDE DEF t
  <1>4. /\ a.arrival \in Nat /\ b.arrival \in Nat /\ op.incoming.arrival \in Nat
        /\ a.price \in Nat /\ b.price \in Nat
        /\ a.type \in {"Limit", "Market"} /\ b.type \in {"Limit", "Market"}
    BY <1>2, OrderPriceNat DEF Order, OrderType
  <1>5. a.arrival # b.arrival
    BY <1>1 DEF EngineInv, ArrivalsUnique
  <1>6. a.arrival <= op.incoming.arrival /\ b.arrival <= op.incoming.arrival
    BY DEF EngineInv, ArrivalsUnique
  <1>7. /\ a.type = "Market" => a.arrival = op.incoming.arrival
        /\ b.type = "Market" => b.arrival = op.incoming.arrival
    BY <1>1 DEF EngineInv, MarketIsIncoming, SameOrder
  <1>8. /\ a.type = "Limit" => a.price > 0 /\ EffectivePrice(a) = a.price
        /\ b.type = "Limit" => b.price > 0 /\ EffectivePrice(b) = b.price
    BY <1>1 DEF EngineInv, EntriesOwned, EffectivePrice
  <1>9. /\ t.buyer.type = b.type /\ t.buyer.price = b.price
        /\ t.seller.type = a.type /\ t.seller.price = a.price
    BY <1>3 DEF SameOrder
  <1>10. CASE b.arrival < a.arrival
    <2>1. b.type = "Limit"
      BY <1>4, <1>6, <1>7, <1>10
    <2> QED
      BY <1>3, <1>4, <1>8, <1>9, <1>10, <2>1 DEF t
  <1>11. CASE a.arrival < b.arrival
    <2>1. a.type = "Limit"
      BY <1>4, <1>6, <1>7, <1>11
    <2>2. t.price = a.price
      BY <1>3, <1>4, <1>11
    <2> QED
      BY <1>4, <1>8, <1>9, <2>1, <2>2 DEF t
  <1> QED
    BY <1>4, <1>5, <1>10, <1>11

LEMMA MatchInv ==
  ASSUME TypeOK, EngineInv, Match
  PROVE  EngineInv'
  <1> DEFINE i == op.incoming.inst
  <1>1. op.phase = "match" /\ op.incoming \in Order /\ i \in Instrument
    <2>1. op.phase = "match" /\ op.incoming \in Order
      BY DEF Match, EngineInv, OpShape, TypeOK, Op
    <2> QED
      BY <2>1 DEF Order
  <1>2. PICK bid \in Top(books[i], "Buy"), ask \in Top(books[i], "Sell") :
          /\ EffectivePrice(bid.order) >= EffectivePrice(ask.order)
          /\ books' = [books EXCEPT ![i] =
                AfterTrade(@, bid, ask, TradeOf(bid.order, ask.order))]
          /\ op' = [op EXCEPT !.trades = Append(@, TradeOf(bid.order, ask.order))]
    BY DEF Match
  <1>3. UNCHANGED <<sessions, orders, quotes, next_arrival, published>>
    BY DEF Match
  <1>4. /\ bid \in books[i].entries /\ ask \in books[i].entries
        /\ bid.order.side = "Buy" /\ ask.order.side = "Sell"
        /\ bid.order \in Order /\ ask.order \in Order
    BY <1>1, <1>2, EntryFacts DEF Top, SideOf
  <1>5. PICK t : t = TradeOf(bid.order, ask.order)
    OBVIOUS
  <1>6. /\ SameOrder(t.buyer, bid.order) /\ SameOrder(t.seller, ask.order)
        /\ t.buyer.cum + t.buyer.remaining = bid.order.cum + bid.order.remaining
        /\ t.seller.cum + t.seller.remaining = ask.order.cum + ask.order.remaining
        /\ t.buyer.state \in {"Filled", "PartialFill"}
        /\ t.seller.state \in {"Filled", "PartialFill"}
        /\ t.buyer.remaining # 0 => t.buyer.state = "PartialFill"
        /\ t.seller.remaining # 0 => t.seller.state = "PartialFill"
    BY <1>4, <1>5, TradeKeeps
  <1>7. /\ t.buyer.type = "Limit" => t.price <= t.buyer.price
        /\ t.seller.type = "Limit" => t.price >= t.seller.price
        /\ t.price > 0
    BY <1>1, <1>2, <1>4, <1>5, TradePrice
  <1>8. /\ books'[i] = AfterTrade(books[i], bid, ask, t)
        /\ \A j \in Instrument : j # i => books'[j] = books[j]
    BY <1>1, <1>2, <1>5 DEF TypeOK
  <1>9. /\ op'.phase = op.phase /\ op'.incoming = op.incoming
        /\ op'.askLeg = op.askLeg /\ op'.final = op.final
        /\ op'.status = op.status /\ op'.leaving = op.leaving
        /\ op'.trades = Append(op.trades, t)
    BY <1>2, <1>5 DEF TypeOK, Op
  <1>10. /\ DOMAIN op'.trades = 1 .. (Len(op.trades) + 1)
         /\ DOMAIN op.trades = 1 .. Len(op.trades) /\ Len(op.trades) \in Nat
         /\ op'.trades[Len(op.trades) + 1] = t
         /\ \A n \in DOMAIN op.trades : op'.trades[n] = op.trades[n]
    BY <1>9 DEF TypeOK, Op
  <1>11. \A n \in DOMAIN op'.trades :
            \/ op'.trades[n] = t
            \/ n \in DOMAIN op.trades /\ op'.trades[n] = op.trades[n]
    BY <1>10
  <1>12. \A j \in Instrument : \A e \in books[j].entries :
            /\ e.order.inst = j /\ e.order.session \in sessions \cup op.leaving
            /\ IsActive(e.order.state) /\ Conserves(e.order)
            /\ e.order.type = "Limit" => e.order.price > 0
            /\ Known(e.order) /\ Quoted(e.order)
            /\ e.order.arrival <= next_arrival
    BY DEF EngineInv, EntriesOwned, QuantityConserved, ArrivalsUnique
  <1>13. /\ Known(t.buyer) /\ Known(t.seller)
         /\ Conserves(t.buyer) /\ Conserves(t.seller)
    <2>1. Known(t.buyer) /\ Known(t.seller)
      BY <1>1, <1>4, <1>6, <1>12, SameOrderEquiv, KnownCopy
    <2>2. /\ bid.order.cum + bid.order.remaining = bid.order.quantity
          /\ ask.order.cum + ask.order.remaining = ask.order.quantity
      BY <1>1, <1>4, <1>12 DEF IsActive, Conserves
    <2> QED
      BY <1>6, <2>1, <2>2 DEF Conserves, SameOrder
  <1>14. ASSUME NEW j \in Instrument, NEW e \in books'[j].entries
         PROVE  \E f \in books[j].entries :
                   /\ SameOrder(f.order, e.order)
                   /\ IsActive(e.order.state) /\ Conserves(e.order)
                   /\ \/ e = f /\ (j # i \/ (f # bid /\ f # ask))
                      \/ j = i /\ f = bid /\ e = [order |-> t.buyer, key |-> bid.key]
                      \/ j = i /\ f = ask /\ e = [order |-> t.seller, key |-> ask.key]
    <2>1. CASE e \in books[j].entries /\ (j # i \/ (e # bid /\ e # ask))
      <3>1. SameOrder(e.order, e.order)
        BY DEF SameOrder
      <3> QED
        BY <1>12, <2>1, <3>1
    <2>2. CASE /\ j = i /\ t.buyer.remaining # 0
               /\ e = [order |-> t.buyer, key |-> bid.key]
      <3>1. e.order = t.buyer
        BY <2>2
      <3> QED
        BY <1>4, <1>6, <1>13, <2>2, <3>1, SameOrderEquiv DEF IsActive
    <2>3. CASE /\ j = i /\ t.seller.remaining # 0
               /\ e = [order |-> t.seller, key |-> ask.key]
      <3>1. e.order = t.seller
        BY <2>3
      <3> QED
        BY <1>4, <1>6, <1>13, <2>3, <3>1, SameOrderEquiv DEF IsActive
    <2>4. j = i => \/ e \in books[i].entries \ {bid, ask}
                   \/ t.buyer.remaining # 0 /\ e = [order |-> t.buyer, key |-> bid.key]
                   \/ t.seller.remaining # 0 /\ e = [order |-> t.seller, key |-> ask.key]
      BY <1>8, AfterTradeEntries
    <2> QED
      BY <1>8, <2>1, <2>2, <2>3, <2>4
  <1>15. EntriesOwned'
    <2> SUFFICES ASSUME NEW j \in Instrument, NEW e \in books'[j].entries
                 PROVE  /\ e.order.inst = j
                        /\ e.order.session \in sessions' \cup op'.leaving
                        /\ IsActive(e.order.state)
                        /\ e.order.type = "Limit" => e.order.price > 0
                        /\ Known(e.order)'
                        /\ Quoted(e.order)'
      BY DEF EntriesOwned
    <2>1. PICK f \in books[j].entries : SameOrder(f.order, e.order)
                                        /\ IsActive(e.order.state)
      BY <1>14
    <2>2. Known(e.order) /\ Quoted(e.order)
      BY <1>12, <2>1, KnownCopy
    <2>3. Known(e.order)' /\ Quoted(e.order)'
      BY <1>3, <2>2 DEF Known, Quoted
    <2> QED
      BY <1>3, <1>9, <1>12, <2>1, <2>3 DEF SameOrder
  <1>16. ASSUME NEW j \in Instrument, NEW e \in books'[j].entries,
                NEW f \in books'[j].entries,
                e.order.arrival = f.order.arrival \/ SameQuote(e.order, f.order)
         PROVE  e = f
    <2>1. PICK x \in books[j].entries :
             /\ SameOrder(x.order, e.order)
             /\ \/ e = x /\ (j # i \/ (x # bid /\ x # ask))
                \/ j = i /\ x = bid /\ e = [order |-> t.buyer, key |-> bid.key]
                \/ j = i /\ x = ask /\ e = [order |-> t.seller, key |-> ask.key]
      BY <1>14
    <2>2. PICK y \in books[j].entries :
             /\ SameOrder(y.order, f.order)
             /\ \/ f = y /\ (j # i \/ (y # bid /\ y # ask))
                \/ j = i /\ y = bid /\ f = [order |-> t.buyer, key |-> bid.key]
                \/ j = i /\ y = ask /\ f = [order |-> t.seller, key |-> ask.key]
      BY <1>14
    <2>3. x.order.arrival = y.order.arrival \/ SameQuote(x.order, y.order)
      BY <1>16, <2>1, <2>2 DEF SameOrder, SameQuote
    <2>4. x = y
      BY <2>3 DEF EngineInv, ArrivalsUnique, QuotesUnique
    <2>5. bid # ask
      BY <1>4
    <2> QED
      BY <2>1, <2>2, <2>4, <2>5
  <1>17. ArrivalsUnique' /\ QuotesUnique'
    <2>1. \A j \in Instrument : \A e \in books'[j].entries :
             e.order.arrival <= next_arrival'
      BY <1>3, <1>12, <1>14 DEF SameOrder
    <2>2. \A e \in books'[op'.incoming.inst].entries :
             e.order.arrival <= op'.incoming.arrival
      BY <1>1, <1>9, <1>14 DEF SameOrder, EngineInv, ArrivalsUnique
    <2> QED
      BY <1>16, <2>1, <2>2 DEF ArrivalsUnique, QuotesUnique
  <1>18. MirrorKeyed'
    BY <1>3 DEF EngineInv, MirrorKeyed
  <1>19. MarketIsIncoming'
    <2> SUFFICES ASSUME NEW j \in Instrument, NEW e \in books'[j].entries,
                        e.order.type = "Market"
                 PROVE  SameOrder(e.order, op.incoming)
      BY <1>1, <1>9 DEF MarketIsIncoming
    <2>1. PICK f \in books[j].entries : SameOrder(f.order, e.order)
      BY <1>14
    <2>2. SameOrder(f.order, op.incoming)
      BY <2>1 DEF SameOrder, EngineInv, MarketIsIncoming
    <2> QED
      BY <2>1, <2>2 DEF SameOrder
  <1>20. CopiesKnown'
    <2>1. \A n \in DOMAIN op.trades :
             Known(op.trades[n].buyer) /\ Known(op.trades[n].seller)
      BY DEF EngineInv, CopiesKnown
    <2>2. op.final # None => Known(op.final) /\ Conserves(op.final)
      BY DEF EngineInv, CopiesKnown
    <2>3. ASSUME NEW n \in DOMAIN op'.trades
          PROVE  Known(op'.trades[n].buyer) /\ Known(op'.trades[n].seller)
      BY <1>11, <1>13, <2>1
    <2> QED
      BY <1>3, <1>9, <2>2, <2>3 DEF CopiesKnown, Known
  <1>21. QuantityConserved'
    BY <1>3, <1>11, <1>13, <1>14 DEF EngineInv, QuantityConserved
  <1>22. Uncrossed'
    BY <1>1, <1>8, <1>9 DEF EngineInv, Uncrossed
  <1>23. PublishedUncrossed'
    BY <1>3 DEF EngineInv, PublishedUncrossed
  <1>24. TradeWithinLimits'
    BY <1>7, <1>11 DEF EngineInv, TradeWithinLimits
  <1>25. OpShape'
    <2>1. ASSUME op.askLeg # None, NEW e \in books'[i].entries
          PROVE  ~SameQuote(e.order, op.askLeg)
      <3>1. PICK f \in books[i].entries : SameOrder(f.order, e.order)
        BY <1>1, <1>14
      <3> QED
        BY <2>1, <3>1, KnownCopy DEF EngineInv, OpShape
    <2>2. op.askLeg # None => Quoted(op.askLeg)
      BY DEF EngineInv, OpShape
    <2>3. op.askLeg # None =>
            \A e \in books'[op.incoming.inst].entries : ~SameQuote(e.order, op.askLeg)
      BY <2>1
    <2> QED
      BY <1>1, <1>3, <1>9, <2>2, <2>3 DEF EngineInv, OpShape, Quoted
  <1> QED
    BY <1>15, <1>17, <1>18, <1>19, <1>20, <1>21, <1>22, <1>23, <1>24, <1>25
    DEF EngineInv

\* Where add() looks for the incoming order it finds no other: every entry
\* located there is a copy of a market order that is being matched.
LEMMA RestingIsIncoming ==
  ASSUME TypeOK, EngineInv, op.phase = "match", op.incoming \in Order,
         NEW e \in books[op.incoming.inst].entries, e.order.type = "Market"
  PROVE  op.incoming.type = "Market" /\ Resting = {e}
  <1> DEFINE i == op.incoming.inst
  <1>1. i \in Instrument
    BY DEF Order
  <1>2. SameOrder(e.order, op.incoming)
    BY <1>1 DEF EngineInv, MarketIsIncoming
  <1>3. LevelOf(e.order) = <<op.incoming.side, EffectivePrice(op.incoming)>>
    BY <1>2, SameLevel DEF LevelOf
  <1>4. e \in Resting
    BY <1>2, <1>3 DEF Resting, Located, SameOrder
  <1>5. e.order.id # QuoteId
    BY <1>1 DEF EngineInv, EntriesOwned, Quoted
  <1>6. ASSUME NEW c \in Resting
        PROVE  c = e
    <2>1. /\ c \in books[i].entries /\ c.order.session = e.order.session
          /\ c.order.id = e.order.id
      BY <1>2 DEF Resting, Located, SameOrder
    <2>2. Known(c.order) /\ Known(e.order)
      BY <1>1, <2>1 DEF EngineInv, EntriesOwned
    <2>3. c.order.arrival = e.order.arrival
      BY <1>5, <2>1, <2>2 DEF Known, SameOrder
    <2> QED
      BY <1>1, <2>1, <2>3 DEF EngineInv, ArrivalsUnique
  <1> QED
    BY <1>2, <1>4, <1>6 DEF SameOrder

\* The copy of the incoming order that add() returns is one the mirror knows.
LEMMA FinalKnown ==
  ASSUME TypeOK, EngineInv, op.phase = "match", op.incoming \in Order,
         NEW o \in (IF Resting # {} THEN {Remainder(e) : e \in Resting} ELSE Consumed)
  PROVE  o \in Order /\ Known(o) /\ Conserves(o)
  <1>1. op.incoming.inst \in Instrument
    BY DEF Order
  <1>2. CASE Resting # {}
    <2>1. PICK e \in Resting : o = Remainder(e)
      BY <1>2
    <2>2. e \in books[op.incoming.inst].entries
      BY DEF Resting, Located
    <2>3. e.order \in Order /\ o \in Order
      BY <2>1, FinalType
    <2>4. Known(e.order) /\ Conserves(e.order) /\ IsActive(e.order.state)
      BY <1>1, <2>2 DEF EngineInv, EntriesOwned, QuantityConserved
    <2>5. \/ o = e.order
          \/ SameOrder(e.order, o) /\ o.cum = e.order.cum
             /\ o.remaining = e.order.remaining
      BY <2>1, <2>3, StateKeeps DEF Remainder
    <2> QED
      BY <2>3, <2>4, <2>5, KnownCopy DEF Conserves, IsActive, SameOrder
  <1>3. CASE Resting = {}
    <2>1. PICK n \in DOMAIN op.trades : o = CopyIn(op.trades[n])
      BY <1>3 DEF Consumed
    <2>2. /\ Known(op.trades[n].buyer) /\ Known(op.trades[n].seller)
          /\ Conserves(op.trades[n].buyer) /\ Conserves(op.trades[n].seller)
      BY DEF EngineInv, CopiesKnown, QuantityConserved
    <2>3. o \in Order
      BY <1>3, FinalType
    <2> QED
      BY <2>1, <2>2, <2>3 DEF CopyIn
  <1> QED
    BY <1>2, <1>3

LEMMA MatchDoneInv ==
  ASSUME TypeOK, EngineInv, MatchDone
  PROVE  EngineInv'
  <1> DEFINE i     == op.incoming.inst
             rest  == IF op.incoming.type = "Market" /\ Resting # {}
                      THEN Drop(books[i], CHOOSE e \in Resting : TRUE)
                      ELSE books[i]
             final == IF Resting # {} THEN {Remainder(e) : e \in Resting}
                      ELSE Consumed
  <1>1. op.phase = "match" /\ op.incoming \in Order /\ i \in Instrument
    <2>1. op.phase = "match" /\ op.incoming \in Order
      BY DEF MatchDone, EngineInv, OpShape, TypeOK, Op
    <2> QED
      BY <2>1 DEF Order
  <1>2. op.leaving = {} /\ (op.status => op.final # None)
    BY <1>1 DEF EngineInv, OpShape
  <1>3. /\ ~Crossed(books[i])
        /\ UNCHANGED <<sessions, orders, quotes, next_arrival, published>>
    BY DEF MatchDone, RecordMarketData
  <1>4. \/ /\ op.askLeg # None
           /\ books' = [books EXCEPT ![i] = Insert(rest, Booked(op.askLeg))]
           /\ op' = [op EXCEPT !.incoming = op.askLeg, !.askLeg = None]
        \/ /\ op.askLeg = None
           /\ books' = [books EXCEPT ![i] = rest]
           /\ \E o \in final :
                 op' = [op EXCEPT !.phase = "publish", !.incoming = None,
                                  !.final = o, !.status = StatusDue(o)]
    BY DEF MatchDone
  <1>5. /\ \A n \in DOMAIN op.trades :
              /\ Known(op.trades[n].buyer) /\ Known(op.trades[n].seller)
              /\ Conserves(op.trades[n].buyer) /\ Conserves(op.trades[n].seller)
        /\ op.final # None => Known(op.final) /\ Conserves(op.final)
    BY DEF EngineInv, CopiesKnown, QuantityConserved
  <1>6. \A t \in Session, x \in OrderId : orders'[t][x] # None =>
            /\ orders'[t][x].session = t /\ orders'[t][x].id = x
            /\ Conserves(orders'[t][x])
    BY <1>3, MirrorFacts
  <1>7. CASE /\ op.askLeg # None
             /\ books' = [books EXCEPT ![i] = Insert(rest, Booked(op.askLeg))]
             /\ op' = [op EXCEPT !.incoming = op.askLeg, !.askLeg = None]
    <2>1. PICK o \in Order : o = op.askLeg
      BY <1>7 DEF TypeOK, Op
    <2>2. /\ op.incoming.type = "Limit" /\ o.inst = i /\ o.id = QuoteId
          /\ o.price > 0 /\ o.session \in sessions
          /\ o.cum + o.remaining = o.quantity
          /\ op.incoming.arrival < o.arrival /\ o.arrival <= next_arrival
          /\ \A e \in books[i].entries : ~SameQuote(e.order, o)
          /\ Quoted(o)
      BY <1>7, <2>1 DEF EngineInv, OpShape
    <2>3. rest = books[i]
      BY <2>2
    <2> HIDE DEF rest
    <2>4. /\ books'[i] = Insert(books[i], Booked(o))
          /\ \A j \in Instrument : j # i => books'[j] = books[j]
      BY <1>1, <1>7, <2>1, <2>3 DEF TypeOK
    <2>5. /\ op'.phase = "match" /\ op'.incoming = o /\ op'.leaving = {}
          /\ op'.trades = op.trades /\ op'.final = op.final
          /\ op'.askLeg = None /\ op'.status = op.status
      BY <1>1, <1>2, <1>7, <2>1 DEF TypeOK, Op
    <2>6. ASSUME NEW e \in books[i].entries
          PROVE  /\ e.order.type # "Market" /\ ~SameQuote(e.order, o)
                 /\ e.order.arrival < o.arrival
      <3>1. /\ e.order.arrival <= op.incoming.arrival
            /\ e.order.arrival \in Nat /\ op.incoming.arrival \in Nat
            /\ o.arrival \in Nat
        BY <1>1, EntryFacts DEF EngineInv, ArrivalsUnique, Order
      <3>2. e.order.type # "Market"
        BY <1>1, <2>2 DEF EngineInv, MarketIsIncoming, SameOrder
      <3> QED
        BY <2>2, <3>1, <3>2
    <2>7. Known(o)' /\ Quoted(o)'
      BY <1>3, <2>2 DEF Known, Quoted
    <2>8. OpShape'
      BY <1>2, <2>5, NoneAssumption DEF OpShape
    <2>9. CopiesKnown'
      BY <1>3, <1>5, <2>5 DEF CopiesKnown, Known
    <2>10. TradeWithinLimits'
      BY <2>5 DEF EngineInv, TradeWithinLimits
    <2>11. next_arrival' \in Nat /\ next_arrival' >= next_arrival
      BY <1>3 DEF TypeOK
    <2>12. /\ books[i].entries \subseteq books[i].entries
           /\ \A n \in DOMAIN op'.trades :
                Conserves(op'.trades[n].buyer) /\ Conserves(op'.trades[n].seller)
      BY <1>5, <2>5
    <2> QED
      BY <1>1, <1>2, <1>3, <1>6, <2>2, <2>4, <2>5, <2>6, <2>7, <2>8, <2>9, <2>10,
         <2>11, <2>12, GrowInv
  <1>8. CASE /\ op.askLeg = None
             /\ books' = [books EXCEPT ![i] = rest]
             /\ \E o \in final :
                   op' = [op EXCEPT !.phase = "publish", !.incoming = None,
                                    !.final = o, !.status = StatusDue(o)]
    <2>1. PICK o \in final :
            op' = [op EXCEPT !.phase = "publish", !.incoming = None,
                             !.final = o, !.status = StatusDue(o)]
      BY <1>8
    <2>2. o \in Order /\ Known(o) /\ Conserves(o)
      BY <1>1, FinalKnown
    <2>3. /\ op'.phase = "publish" /\ op'.leaving = {} /\ op'.final = o
          /\ op'.trades = op.trades /\ op'.askLeg = None
      BY <1>2, <1>8, <2>1 DEF TypeOK, Op
    <2>4. /\ rest.entries \subseteq books[i].entries
          /\ \A e \in rest.entries : e.order.type # "Market"
      <3>1. rest.entries \subseteq books[i].entries
        BY DEF Drop
      <3>2. ASSUME NEW e \in rest.entries, e.order.type = "Market"
            PROVE  FALSE
        <4>1. op.incoming.type = "Market" /\ Resting = {e}
          BY <1>1, <3>1, <3>2, RestingIsIncoming
        <4>2. rest.entries = books[i].entries \ {e}
          BY <4>1 DEF Drop
        <4> QED
          BY <3>2, <4>2
      <3> QED
        BY <3>1, <3>2
    <2> HIDE DEF rest, final
    <2>5. /\ books'[i] = rest
          /\ \A j \in Instrument : j # i => books'[j] = books[j]
      BY <1>1, <1>8 DEF TypeOK
    <2>6. \A j \in Instrument : books'[j].entries \subseteq books[j].entries
      BY <2>4, <2>5
    <2>7. OpShape'
      BY <2>2, <2>3, NoneAssumption DEF OpShape
    <2>8. EntriesOwned'
      BY <1>2, <1>3, <2>3, <2>6 DEF EngineInv, EntriesOwned, Known, Quoted
    <2>9. ArrivalsUnique' /\ QuotesUnique' /\ MirrorKeyed'
      BY <1>3, <2>3, <2>6 DEF EngineInv, ArrivalsUnique, QuotesUnique, MirrorKeyed
    <2>10. MarketIsIncoming'
      <3> SUFFICES ASSUME NEW j \in Instrument, NEW e \in books'[j].entries,
                          e.order.type = "Market"
                   PROVE  FALSE
        BY DEF MarketIsIncoming
      <3>1. e \in books[j].entries /\ j # i
        BY <2>4, <2>5, <2>6
      <3>2. e.order.inst = j /\ SameOrder(e.order, op.incoming)
        BY <3>1 DEF EngineInv, EntriesOwned, MarketIsIncoming
      <3> QED
        BY <3>1, <3>2 DEF SameOrder
    <2>11. CopiesKnown'
      BY <1>3, <1>5, <2>2, <2>3 DEF CopiesKnown, Known
    <2>12. QuantityConserved' /\ TradeWithinLimits' /\ PublishedUncrossed'
      BY <1>3, <2>3, <2>6
      DEF EngineInv, QuantityConserved, TradeWithinLimits, PublishedUncrossed
    <2>13. Uncrossed'
      <3> SUFFICES ASSUME NEW j \in Instrument, NEW bid \in books'[j].entries,
                          NEW ask \in books'[j].entries,
                          bid.order.side = "Buy", ask.order.side = "Sell"
                   PROVE  EffectivePrice(bid.order) < EffectivePrice(ask.order)
        BY DEF Uncrossed, SideOf
      <3>1. bid \in SideOf(books[j], "Buy") /\ ask \in SideOf(books[j], "Sell")
        BY <2>6 DEF SideOf
      <3>2. EffectivePrice(bid.order) \in Nat /\ EffectivePrice(ask.order) \in Nat
        BY <2>6, EntryFacts, EffectivePriceType, LevelKeyNat
      <3>3. CASE j = i
        BY <1>3, <3>1, <3>2, <3>3 DEF Crossed
      <3>4. CASE j # i
        BY <3>1, <3>4 DEF EngineInv, Uncrossed
      <3> QED
        BY <3>3, <3>4
    <2> QED
      BY <2>7, <2>8, <2>9, <2>10, <2>11, <2>12, <2>13 DEF EngineInv
  <1> QED
    BY <1>4, <1>7, <1>8

-----------------------------------------------------------------------------
(* Publication and reports *)

\* Copying a copy the mirror knows into the mirror, whole (sync_record) or its
\* execution fields (send_fill), keeps which orders are there and what they are.
LEMMA MirrorStep ==
  ASSUME NEW m \in [Session -> [OrderId -> Order \cup {None}]], NEW o \in Order,
         o.id # QuoteId => /\ m[o.session][o.id] # None
                           /\ SameOrder(m[o.session][o.id], o),
         Conserves(o),
         \A s \in Session, id \in OrderId : m[s][id] # None => Conserves(m[s][id]),
         NEW r, r = Mirrored(m, o) \/ r = Synced(m, o)
  PROVE  /\ r \in [Session -> [OrderId -> Order \cup {None}]]
         /\ \A s \in Session, id \in OrderId :
               /\ r[s][id] # None <=> m[s][id] # None
               /\ m[s][id] # None => /\ SameOrder(m[s][id], r[s][id])
                                     /\ Conserves(r[s][id])
  <1>1. r \in [Session -> [OrderId -> Order \cup {None}]]
    BY MirrorTypes
  <1>2. CASE r = m
    BY <1>1, <1>2 DEF SameOrder
  <1>3. CASE r # m
    <2> DEFINE old == m[o.session][o.id]
               c == [old EXCEPT !.remaining = o.remaining, !.cum = o.cum,
                                !.notional = o.notional, !.state = o.state]
    <2>1. o.id # QuoteId /\ o.id \in OrderId /\ o.session \in Session
      BY <1>3 DEF Mirrored, Synced, Order
    <2>2. old \in Order /\ SameOrder(old, o)
      BY <2>1
    <2>3. /\ SameOrder(old, c) /\ Conserves(c) /\ c # None
      <3>1. /\ SameOrder(old, c)
            /\ c.remaining = o.remaining /\ c.cum = o.cum /\ c.state = o.state
        BY <2>2 DEF Order, SameOrder
      <3>2. c \in Order
        BY <2>2 DEF Order
      <3> HIDE DEF c
      <3> QED
        BY <2>2, <3>1, <3>2, NoneAssumption DEF Conserves, SameOrder
    <2>4. PICK n : /\ r = [m EXCEPT ![o.session][o.id] = n]
                   /\ n = o \/ n = c
      BY <1>3 DEF Mirrored, Synced
    <2> HIDE DEF c
    <2>5. SameOrder(old, n) /\ Conserves(n) /\ n # None
      BY <2>2, <2>3, <2>4, NoneAssumption
    <2>6. /\ r[o.session][o.id] = n
          /\ \A s \in Session, id \in OrderId :
                s # o.session \/ id # o.id => r[s][id] = m[s][id]
      BY <2>1, <2>4
    <2>7. \A s \in Session, id \in OrderId : SameOrder(m[s][id], m[s][id])
      BY DEF SameOrder
    <2> QED
      BY <1>1, <2>1, <2>2, <2>5, <2>6, <2>7
  <1> QED
    BY <1>2, <1>3

\* Once matching is over a step leaves the books alone, refreshes copies in the
\* mirror, and has fewer trades in hand.
LEMMA ReportingInv ==
  ASSUME TypeOK, EngineInv, op.phase \in {"publish", "report"},
         UNCHANGED <<sessions, quotes, books, next_arrival>>,
         \A s \in Session, id \in OrderId :
            /\ orders'[s][id] # None <=> orders[s][id] # None
            /\ orders[s][id] # None => /\ SameOrder(orders[s][id], orders'[s][id])
                                       /\ Conserves(orders'[s][id]),
         op'.phase \in {"publish", "report", "idle"},
         op'.askLeg = None, op'.leaving = {}, op'.status => op'.final # None,
         op'.final # None => op'.final = op.final,
         \A n \in DOMAIN op'.trades : \E k \in DOMAIN op.trades :
            op'.trades[n] = op.trades[k],
         op'.phase = "idle" => op'.final = None /\ op'.trades = <<>>,
         PublishedUncrossed'
  PROVE  EngineInv'
  <1>1. ASSUME NEW o \in Order, Known(o)
        PROVE  Known(o)'
    <2>1. o.session \in Session /\ (o.id # QuoteId => o.id \in OrderId)
      BY DEF Order
    <2> QED
      BY <1>1, <2>1 DEF Known, SameOrder
  <1>2. OpShape'
    BY DEF OpShape
  <1>3. \A i \in Instrument : \A e \in books[i].entries :
           /\ e.order.inst = i /\ e.order.session \in sessions
           /\ IsActive(e.order.state) /\ Conserves(e.order)
           /\ e.order.type = "Limit" => e.order.price > 0
           /\ Known(e.order) /\ Quoted(e.order) /\ e.order \in Order
    BY EntryFacts DEF EngineInv, OpShape, EntriesOwned, QuantityConserved
  <1>4. EntriesOwned'
    <2> SUFFICES ASSUME NEW i \in Instrument, NEW e \in books[i].entries
                 PROVE  Known(e.order)' /\ Quoted(e.order)'
      BY <1>3 DEF EntriesOwned
    <2> QED
      BY <1>1, <1>3 DEF Quoted
  <1>5. ArrivalsUnique' /\ QuotesUnique'
    BY DEF EngineInv, ArrivalsUnique, QuotesUnique
  <1>6. MirrorKeyed'
    BY DEF EngineInv, MirrorKeyed, SameOrder
  <1>7. MarketIsIncoming'
    BY DEF EngineInv, MarketIsIncoming
  <1>8. \A k \in DOMAIN op.trades :
           /\ op.trades[k].buyer \in Order /\ op.trades[k].seller \in Order
           /\ Known(op.trades[k].buyer) /\ Known(op.trades[k].seller)
           /\ Conserves(op.trades[k].buyer) /\ Conserves(op.trades[k].seller)
    <2>1. \A k \in DOMAIN op.trades : op.trades[k] \in Trade
      BY DEF TypeOK, Op
    <2> QED
      BY <2>1 DEF EngineInv, CopiesKnown, QuantityConserved, Trade
  <1>9. op.final # None => op.final \in Order /\ Known(op.final) /\ Conserves(op.final)
    BY DEF EngineInv, CopiesKnown, TypeOK, Op
  <1>10. CopiesKnown'
    <2>1. ASSUME NEW n \in DOMAIN op'.trades
          PROVE  Known(op.trades[n].buyer)' /\ Known(op.trades[n].seller)'
      <3>1. PICK k \in DOMAIN op.trades : op'.trades[n] = op.trades[k]
        OBVIOUS
      <3>2. PICK b \in Order, a \in Order : b = op'.trades[n].buyer
                                            /\ a = op'.trades[n].seller
        BY <1>8, <3>1
      <3>3. Known(b)' /\ Known(a)'
        BY <1>1, <1>8, <3>1, <3>2
      <3> QED
        BY <3>2, <3>3 DEF Known
    <2>2. ASSUME op'.final # None
          PROVE  Known(op.final)' /\ Conserves(op.final)'
      <3>1. PICK f \in Order : f = op'.final /\ f = op.final
        BY <1>9, <2>2
      <3>2. Known(f)' /\ Conserves(f)
        BY <1>1, <1>9, <2>2, <3>1
      <3> QED
        BY <3>1, <3>2 DEF Known
    <2> QED
      BY <2>1, <2>2 DEF CopiesKnown
  <1>11. QuantityConserved'
    BY <1>3, <1>8 DEF QuantityConserved
  <1>12. Uncrossed'
    BY DEF EngineInv, Uncrossed
  <1>13. TradeWithinLimits'
    BY DEF EngineInv, TradeWithinLimits
  <1> QED
    BY <1>2, <1>4, <1>5, <1>6, <1>7, <1>10, <1>11, <1>12, <1>13 DEF EngineInv

\* An unchanged mirror is a refreshed one.
LEMMA MirrorStays ==
  ASSUME TypeOK, EngineInv, orders' = orders
  PROVE  \A s \in Session, id \in OrderId :
            /\ orders'[s][id] # None <=> orders[s][id] # None
            /\ orders[s][id] # None => /\ SameOrder(orders[s][id], orders'[s][id])
                                       /\ Conserves(orders'[s][id])
  BY MirrorFacts DEF SameOrder

LEMMA PublishInv ==
  ASSUME TypeOK, EngineInv, NEW i \in Instrument, Publish(i)
  PROVE  EngineInv'
  <1>1. /\ op.phase = "publish"
        /\ UNCHANGED <<sessions, orders, quotes, books, next_arrival, op>>
        /\ published' = [published EXCEPT ![i] =
                            [version |-> pending[i], depth |-> Depth(books[i]),
                             stats |-> stats[i]]]
    BY DEF Publish
  <1>2. /\ published'[i].depth = Depth(books[i])
        /\ \A j \in Instrument : j # i => published'[j] = published[j]
    BY <1>1 DEF TypeOK
  <1>3. \A bid, ask \in Depth(books[i]) :
           bid.side = "Buy" /\ ask.side = "Sell" => bid.price < ask.price
    <2>1. \A e, f \in books[i].entries :
             e.order.side = "Buy" /\ f.order.side = "Sell"
                => EffectivePrice(e.order) < EffectivePrice(f.order)
      BY <1>1 DEF EngineInv, Uncrossed, SideOf
    <2> QED
      BY <2>1 DEF Depth
  <1>4. PublishedUncrossed'
    BY <1>2, <1>3 DEF EngineInv, PublishedUncrossed
  <1>5. op.askLeg = None /\ op.leaving = {} /\ (op.status => op.final # None)
    BY <1>1 DEF EngineInv, OpShape
  <1> QED
    BY <1>1, <1>4, <1>5, MirrorStays, ReportingInv

LEMMA PublishDoneInv ==
  ASSUME TypeOK, EngineInv, PublishDone
  PROVE  EngineInv'
  <1>1. /\ op.phase = "publish" /\ op' = [op EXCEPT !.phase = "report"]
        /\ UNCHANGED <<sessions, orders, quotes, books, next_arrival, published>>
    BY DEF PublishDone, market_data
  <1>2. op.askLeg = None /\ op.leaving = {} /\ (op.status => op.final # None)
    BY <1>1 DEF EngineInv, OpShape
  <1>3. /\ op'.phase = "report" /\ op'.askLeg = op.askLeg /\ op'.leaving = op.leaving
        /\ op'.status = op.status /\ op'.final = op.final /\ op'.trades = op.trades
    BY <1>1 DEF TypeOK, Op
  <1>4. PublishedUncrossed'
    BY <1>1 DEF EngineInv, PublishedUncrossed
  <1> QED
    BY <1>1, <1>2, <1>3, <1>4, MirrorStays, ReportingInv

LEMMA ReportInv ==
  ASSUME TypeOK, EngineInv, Report
  PROVE  EngineInv'
  <1> DEFINE t == op.trades[1]
  <1>1. /\ op.phase = "report" /\ op.trades # <<>> /\ op.trades \in Seq(Trade)
        /\ UNCHANGED <<sessions, quotes, books, next_arrival, published>>
        /\ op' = [op EXCEPT !.trades = Tail(@)]
    BY DEF Report, market_data, TypeOK, Op
  <1>2. /\ 1 \in DOMAIN op.trades /\ t \in Trade /\ Head(op.trades) = t
        /\ \A n \in DOMAIN Tail(op.trades) :
              n + 1 \in DOMAIN op.trades /\ Tail(op.trades)[n] = op.trades[n + 1]
    BY <1>1
  <1>3. orders' = Mirrored(Mirrored(orders, t.buyer), t.seller)
    BY <1>2 DEF Report
  <1>4. /\ t.buyer \in Order /\ t.seller \in Order
        /\ Known(t.buyer) /\ Known(t.seller)
        /\ Conserves(t.buyer) /\ Conserves(t.seller)
    BY <1>2 DEF Trade, EngineInv, CopiesKnown, QuantityConserved
  <1> HIDE DEF t
  <1>5. PICK m : m = Mirrored(orders, t.buyer)
    OBVIOUS
  <1>6. \A s \in Session, id \in OrderId :
           orders[s][id] # None => Conserves(orders[s][id])
    BY MirrorFacts
  <1>7. orders \in [Session -> [OrderId -> Order \cup {None}]]
    BY DEF TypeOK
  <1>8. /\ m \in [Session -> [OrderId -> Order \cup {None}]]
        /\ \A s \in Session, id \in OrderId :
              /\ m[s][id] # None <=> orders[s][id] # None
              /\ orders[s][id] # None => /\ SameOrder(orders[s][id], m[s][id])
                                         /\ Conserves(m[s][id])
    BY <1>4, <1>5, <1>6, <1>7, MirrorStep DEF Known
  <1>9. t.seller.id # QuoteId => /\ m[t.seller.session][t.seller.id] # None
                                 /\ SameOrder(m[t.seller.session][t.seller.id], t.seller)
    <2>1. t.seller.session \in Session /\ (t.seller.id # QuoteId => t.seller.id \in OrderId)
      BY <1>4 DEF Order
    <2> QED
      BY <1>4, <1>8, <2>1 DEF Known, SameOrder
  <1>10. \A s \in Session, id \in OrderId :
            /\ orders'[s][id] # None <=> m[s][id] # None
            /\ m[s][id] # None => /\ SameOrder(m[s][id], orders'[s][id])
                                  /\ Conserves(orders'[s][id])
    BY <1>3, <1>4, <1>5, <1>8, <1>9, MirrorStep
  <1>11. \A s \in Session, id \in OrderId :
            /\ orders'[s][id] # None <=> orders[s][id] # None
            /\ orders[s][id] # None => /\ SameOrder(orders[s][id], orders'[s][id])
                                       /\ Conserves(orders'[s][id])
    BY <1>8, <1>10, SameOrderEquiv
  <1>12. op.askLeg = None /\ op.leaving = {} /\ (op.status => op.final # None)
    BY <1>1 DEF EngineInv, OpShape
  <1>13. /\ op'.phase = "report" /\ op'.askLeg = op.askLeg /\ op'.leaving = op.leaving
         /\ op'.status = op.status /\ op'.final = op.final
         /\ op'.trades = Tail(op.trades)
    BY <1>1 DEF TypeOK, Op
  <1>14. PublishedUncrossed'
    BY <1>1 DEF EngineInv, PublishedUncrossed
  <1> QED
    BY <1>1, <1>2, <1>11, <1>12, <1>13, <1>14, ReportingInv

LEMMA FinishInv ==
  ASSUME TypeOK, EngineInv, Finish
  PROVE  EngineInv'
  <1>1. /\ op.phase = "report" /\ op' = Idle
        /\ UNCHANGED <<sessions, quotes, books, next_arrival, published>>
        /\ orders' = IF op.final # None THEN Synced(orders, op.final) ELSE orders
    BY DEF Finish, market_data
  <1>2. /\ op'.phase = "idle" /\ op'.askLeg = None /\ op'.leaving = {}
        /\ op'.status = FALSE /\ op'.final = None /\ op'.trades = <<>>
    BY <1>1 DEF Idle
  <1>3. PublishedUncrossed'
    BY <1>1 DEF EngineInv, PublishedUncrossed
  <1>4. \A s \in Session, id \in OrderId :
            /\ orders'[s][id] # None <=> orders[s][id] # None
            /\ orders[s][id] # None => /\ SameOrder(orders[s][id], orders'[s][id])
                                       /\ Conserves(orders'[s][id])
    <2>1. CASE op.final = None
      BY <1>1, <2>1, MirrorStays
    <2>2. CASE op.final # None
      <3>1. op.final \in Order /\ Known(op.final) /\ Conserves(op.final)
        BY <2>2 DEF EngineInv, CopiesKnown, TypeOK, Op
      <3>2. \A s \in Session, id \in OrderId :
               orders[s][id] # None => Conserves(orders[s][id])
        BY MirrorFacts
      <3>3. orders \in [Session -> [OrderId -> Order \cup {None}]]
        BY DEF TypeOK
      <3> QED
        BY <1>1, <2>2, <3>1, <3>2, <3>3, MirrorStep DEF Known
    <2> QED
      BY <2>1, <2>2
  <1> QED
    BY <1>1, <1>2, <1>3, <1>4, ReportingInv

-----------------------------------------------------------------------------
(* Every behaviour *)

\* Every step of the engine preserves the invariant.
LEMMA NextInv == TypeOK /\ EngineInv /\ [Next]_vars => EngineInv'
  <1> SUFFICES ASSUME TypeOK, EngineInv, [Next]_vars PROVE EngineInv'
    OBVIOUS
  <1>1. CASE UNCHANGED vars
    <2>1. UNCHANGED <<sessions, orders, quotes, books, next_arrival, published, op>>
      BY <1>1 DEF vars
    <2>2. OpShape' /\ EntriesOwned' /\ CopiesKnown'
      <3>1. OpShape'
        BY <2>1 DEF EngineInv, OpShape, Quoted
      <3>2. EntriesOwned'
        BY <2>1 DEF EngineInv, EntriesOwned, Known, Quoted
      <3>3. CopiesKnown'
        BY <2>1 DEF EngineInv, CopiesKnown, Known
      <3> QED
        BY <3>1, <3>2, <3>3
    <2>3. ArrivalsUnique' /\ QuotesUnique' /\ MirrorKeyed' /\ MarketIsIncoming'
      BY <2>1 DEF EngineInv, ArrivalsUnique, QuotesUnique, MirrorKeyed, MarketIsIncoming
    <2>4. /\ QuantityConserved' /\ Uncrossed' /\ PublishedUncrossed'
          /\ TradeWithinLimits'
      BY <2>1 DEF EngineInv, QuantityConserved, Uncrossed, PublishedUncrossed,
                  TradeWithinLimits
    <2> QED
      BY <2>2, <2>3, <2>4 DEF EngineInv
  <1>2. ASSUME NEW s \in Session, Request(s)
        PROVE  EngineInv'
    <2>1. ReplaceType \subseteq OrderType
      BY InputAssumption
    <2> QED
      BY <1>2, <2>1, CreateOrderInv, ModifyOrderInv, CancelOrderInv, QuoteInv
      DEF Request
  <1>3. CASE Continue
    BY <1>3, DropOrderInv, DropQuoteInv, DropDoneInv, ExpireOrderInv, ExpireDoneInv,
       MatchInv, MatchDoneInv, PublishInv, PublishDoneInv, ReportInv, FinishInv
    DEF Continue
  <1> QED
    BY <1>1, <1>2, <1>3, RegisterInv, DisconnectInv, CalendarInv DEF Next

\* The engine's safety invariant holds in every reachable state, for every set
\* of sessions, orders, instruments, prices and quantities.
THEOREM EngineSafe == Spec => []EngineInv
  BY InitInv, NextInv, TypeCorrect, PTL DEF Spec

\* No method leaves a book crossed behind.
THEOREM BooksUncrossed == Spec => []Uncrossed
  <1>1. EngineInv => Uncrossed
    BY DEF EngineInv
  <1> QED
    BY <1>1, EngineSafe, PTL

\* A reader of market data never loads a crossed book, whenever it looks.
THEOREM ReadersUncrossed == Spec => []PublishedUncrossed
  <1>1. EngineInv => PublishedUncrossed
    BY DEF EngineInv
  <1> QED
    BY <1>1, EngineSafe, PTL

\* match_trades never gives a party a price worse than its limit.
THEOREM LimitsRespected == Spec => []TradeWithinLimits
  <1>1. EngineInv => TradeWithinLimits
    BY DEF EngineInv
  <1> QED
    BY <1>1, EngineSafe, PTL

\* No sequence of fills, replacements, cancels and syncs creates or loses
\* quantity in any copy of an order.
THEOREM QuantityIsConserved == Spec => []QuantityConserved
  <1>1. EngineInv => QuantityConserved
    BY DEF EngineInv
  <1> QED
    BY <1>1, EngineSafe, PTL

\* No order outlives its session: what is in a book can be found again.
THEOREM NothingLeftBehind == Spec => []NoGhosts
  <1>1. EngineInv => NoGhosts
    <2> SUFFICES ASSUME EngineInv, op = Idle, NEW i \in Instrument,
                        NEW e \in books[i].entries
                 PROVE  /\ e.order.session \in sessions
                        /\ e.order.id = QuoteId =>
                             /\ quotes[e.order.session][i] # None
                             /\ e.order.price = IF e.order.side = "Buy"
                                                THEN quotes[e.order.session][i].bid
                                                ELSE quotes[e.order.session][i].ask
      BY DEF NoGhosts
    <2>1. op.leaving = {}
      BY IdleFacts
    <2>2. /\ e.order.inst = i /\ e.order.session \in sessions \cup op.leaving
          /\ Quoted(e.order)
      BY DEF EngineInv, EntriesOwned
    <2> QED
      BY <2>1, <2>2 DEF Quoted
  <1> QED
    BY <1>1, EngineSafe, PTL
=============================================================================
