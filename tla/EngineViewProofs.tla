-------------------------- MODULE EngineViewProofs --------------------------
(***************************************************************************)
(* What is seen of a book agrees with it: the keys of a level show time    *)
(* priority, its total shows what its orders have open, the snapshots show *)
(* the book, the mirror of the sessions shows their orders, and the        *)
(* reports show the mirror, for every value of the constants.              *)
(***************************************************************************)
EXTENDS EngineProofs, FiniteSetTheorems, WellFoundedInduction

-----------------------------------------------------------------------------
(* The queue of a level *)

\* The keys of a level are below the next one and follow arrival.
Ordered(b) ==
    /\ \A e \in b.entries : e.key < b.levels[LevelOf(e.order)].next
    /\ \A e, f \in b.entries :
         LevelOf(e.order) = LevelOf(f.order)
             => (e.key < f.key <=> e.order.arrival < f.order.arrival)

LEMMA BookFacts ==
  ASSUME NEW b \in Book
  PROVE  /\ \A e \in b.entries : /\ e.order \in Order /\ e.key \in Nat /\ e.order.arrival \in Nat
                                 /\ LevelOf(e.order) \in Side \X LevelKey
         /\ \A l \in Side \X LevelKey : b.levels[l] \in Level /\ b.levels[l].next \in Nat
         /\ DOMAIN b.levels = Side \X LevelKey
  <1>1. \A e \in b.entries : e.order \in Order /\ e.key \in Nat
    BY DEF Book, Entry
  <1>2. \A e \in b.entries : e.order.arrival \in Nat /\ LevelOf(e.order) \in Side \X LevelKey
    BY <1>1, EffectivePriceType DEF Order
  <1>3. b.levels \in [Side \X LevelKey -> Level]
    BY DEF Book
  <1> QED
    BY <1>1, <1>2, <1>3 DEF Level

\* push_back of an order that arrived after all others.
LEMMA InsertOrdered ==
  ASSUME NEW b \in Book, Ordered(b), NEW o \in Order,
         \A e \in b.entries : e.order.arrival < o.arrival
  PROVE  Ordered(Insert(b, o))
  <1> DEFINE l == LevelOf(o)
             x == [order |-> o, key |-> b.levels[l].next]
             c == Insert(b, o)
  <1>1. l \in Side \X LevelKey /\ o.arrival \in Nat
    BY EffectivePriceType DEF Order
  <1>2. /\ c.entries = b.entries \cup {x} /\ x.order = o /\ x.key = b.levels[l].next
        /\ x.key \in Nat /\ c.levels[l].next = x.key + 1
        /\ \A m \in Side \X LevelKey : m # l => c.levels[m] = b.levels[m]
    BY <1>1, BookFacts DEF Insert
  <1> HIDE DEF c, x
  <1>3. \A e \in b.entries : /\ e.key \in Nat /\ e.order.arrival \in Nat
                             /\ LevelOf(e.order) \in Side \X LevelKey
    BY BookFacts
  <1>4. \A e \in b.entries : e.key < b.levels[LevelOf(e.order)].next
    BY DEF Ordered
  <1>5. \A e \in b.entries : LevelOf(e.order) = l => e.key < x.key
    BY <1>2, <1>4
  <1>6. \A e \in c.entries : e.key < c.levels[LevelOf(e.order)].next
    <2> TAKE e \in c.entries
    <2>1. CASE e = x
      BY <1>2, <2>1 DEF l
    <2>2. CASE e \in b.entries /\ LevelOf(e.order) = l
      BY <1>2, <1>3, <1>5, <2>2
    <2>3. CASE e \in b.entries /\ LevelOf(e.order) # l
      BY <1>2, <1>3, <1>4, <2>3
    <2> QED
      BY <1>2, <2>1, <2>2, <2>3
  <1>7. ASSUME NEW e \in c.entries, NEW f \in c.entries, LevelOf(e.order) = LevelOf(f.order)
        PROVE  e.key < f.key <=> e.order.arrival < f.order.arrival
    <2>1. CASE e \in b.entries /\ f \in b.entries
      BY <1>7, <2>1 DEF Ordered
    <2>2. CASE e \in b.entries /\ f = x
      BY <1>2, <1>5, <1>7, <2>2 DEF l
    <2>3. CASE e = x /\ f \in b.entries
      BY <1>1, <1>2, <1>3, <1>5, <1>7, <2>3 DEF l
    <2>4. CASE e = x /\ f = x
      BY <1>1, <1>2, <2>4
    <2> QED
      BY <1>2, <2>1, <2>2, <2>3, <2>4
  <1> QED
    BY <1>6, <1>7 DEF Ordered, c

\* Removing an entry; a level that became empty starts its keys again.
LEMMA DropOrdered ==
  ASSUME NEW b \in Book, Ordered(b), NEW e \in b.entries
  PROVE  Ordered(Drop(b, e))
  <1> DEFINE c == Drop(b, e)
             l == LevelOf(e.order)
  <1>1. /\ c.entries = b.entries \ {e}
        /\ \A f \in c.entries : LevelOf(f.order) = l => c.levels[l].next = b.levels[l].next
        /\ \A m \in Side \X LevelKey : m # l => c.levels[m] = b.levels[m]
    BY BookFacts DEF Drop
  <1>2. \A f \in c.entries : c.levels[LevelOf(f.order)].next = b.levels[LevelOf(f.order)].next
    BY <1>1, BookFacts
  <1> HIDE DEF c
  <1> QED
    BY <1>1, <1>2 DEF Ordered, c

LEMMA RemoveOrdered ==
  ASSUME NEW b \in Book, Ordered(b), NEW s, NEW id, NEW side, NEW price
  PROVE  Ordered(Remove(b, s, id, side, price))
  <1> DEFINE found == Located(b, s, id, side, price)
  <1>1. CASE found = {}
    BY <1>1 DEF Remove
  <1>2. CASE found # {}
    <2> DEFINE e == CHOOSE x \in found : TRUE
    <2>1. e \in b.entries
      BY <1>2 DEF Located
    <2>2. Remove(b, s, id, side, price) = Drop(b, e)
      BY <1>2 DEF Remove
    <2> HIDE DEF e
    <2> QED
      BY <2>1, <2>2, DropOrdered
  <1> QED
    BY <1>1, <1>2

LEMMA WithoutQuoteOrdered ==
  ASSUME NEW b \in Book, Ordered(b), NEW s, NEW pair
  PROVE  /\ WithoutQuote(b, s, pair) \in Book /\ Ordered(WithoutQuote(b, s, pair))
         /\ WithoutQuote(b, s, pair).entries \subseteq b.entries
  <1> DEFINE c == Remove(b, s, QuoteId, "Buy", pair.bid)
  <1>1. c \in Book /\ Ordered(c) /\ c.entries \subseteq b.entries
    BY RemoveOrdered, RemoveType
  <1> HIDE DEF c
  <1>2. /\ Remove(c, s, QuoteId, "Sell", pair.ask) \in Book
        /\ Ordered(Remove(c, s, QuoteId, "Sell", pair.ask))
        /\ Remove(c, s, QuoteId, "Sell", pair.ask).entries \subseteq c.entries
    BY <1>1, RemoveOrdered, RemoveType
  <1> QED
    BY <1>1, <1>2 DEF WithoutQuote, c

\* A fill leaves an order its key and its arrival.
LEMMA UpdateFillOrdered ==
  ASSUME NEW b \in Book, Ordered(b), NEW e \in b.entries, NEW o \in Order,
         SameOrder(o, e.order), NEW qty \in Nat
  PROVE  Ordered(UpdateFill(b, e, o, qty))
  <1>1. CASE o.remaining = 0
    BY <1>1, DropOrdered DEF UpdateFill
  <1>2. CASE o.remaining # 0
    <2> DEFINE c == UpdateFill(b, e, o, qty)
               x == [order |-> o, key |-> e.key]
    <2>1. LevelOf(o) = LevelOf(e.order) /\ o.arrival = e.order.arrival
      BY SameLevel DEF SameOrder
    <2>2. /\ c.entries = (b.entries \ {e}) \cup {x} /\ x.order = o /\ x.key = e.key
          /\ \A m \in Side \X LevelKey : c.levels[m].next = b.levels[m].next
      BY <1>2, BookFacts DEF UpdateFill
    <2> HIDE DEF c, x
    <2>3. \A f \in c.entries : \E g \in b.entries :
             LevelOf(f.order) = LevelOf(g.order) /\ f.key = g.key /\ f.order.arrival = g.order.arrival
      BY <2>1, <2>2
    <2>4. \A f \in c.entries : f.key < c.levels[LevelOf(f.order)].next
      BY <2>2, <2>3, BookFacts DEF Ordered
    <2> QED
      BY <2>3, <2>4 DEF Ordered, c
  <1> QED
    BY <1>1, <1>2

LEMMA AfterTradeOrdered ==
  ASSUME NEW b \in Book, Ordered(b), NEW bid \in b.entries, NEW ask \in b.entries, bid # ask
  PROVE  Ordered(AfterTrade(b, bid, ask, TradeOf(bid.order, ask.order)))
  <1> DEFINE t == TradeOf(bid.order, ask.order)
             c == UpdateFill(b, bid, t.buyer, t.quantity)
  <1>1. bid.order \in Order /\ ask.order \in Order
    BY BookFacts
  <1>2. /\ t.buyer \in Order /\ t.seller \in Order /\ t.quantity \in Nat
        /\ SameOrder(t.buyer, bid.order) /\ SameOrder(t.seller, ask.order)
    BY <1>1, TradeOfType, TradeKeeps
  <1> HIDE DEF t
  <1>3. c \in Book /\ Ordered(c) /\ ask \in c.entries
    BY <1>2, UpdateFillType, UpdateFillKeeps, UpdateFillOrdered
  <1> HIDE DEF c
  <1>4. Ordered(UpdateFill(c, ask, t.seller, t.quantity))
    BY <1>2, <1>3, UpdateFillOrdered
  <1> QED
    BY <1>4 DEF AfterTrade, c, t

\* The queues of every book are ordered.
QueueInv == \A i \in Instrument : Ordered(books[i])

LEMMA BookStepOrdered ==
  ASSUME TypeOK, QueueInv, NEW i \in Instrument, NEW b, Ordered(b),
         books' = [books EXCEPT ![i] = b]
  PROVE  QueueInv'
  BY DEF QueueInv, TypeOK

\* Removals by the mirror or by a quote.
LEMMA RemovalsOrdered ==
  ASSUME TypeOK, EngineInv, QueueInv,
         \/ DropOrder \/ DropQuote
         \/ \E s \in Session, id \in OrderId : ExpireOrder(s, id) \/ CancelOrder(s, id)
  PROVE  QueueInv'
  <1>1. \A i \in Instrument : books[i] \in Book /\ Ordered(books[i])
    BY DEF TypeOK, QueueInv
  <1>2. \A s \in Session, id \in OrderId : orders[s][id] # None => orders[s][id].inst \in Instrument
    BY MirrorFacts
  <1>3. \A i \in Instrument : \A s, id, side, price :
          books' = [books EXCEPT ![i] = Remove(books[i], s, id, side, price)]
          => QueueInv'
    BY <1>1, RemoveOrdered, BookStepOrdered
  <1>4. CASE DropOrder
    <2>1. PICK s \in op.leaving, id \in OrderId :
            /\ orders[s][id] # None
            /\ books' = [books EXCEPT ![orders[s][id].inst] =
                   Remove(@, s, id, orders[s][id].side, orders[s][id].price)]
      BY <1>4 DEF DropOrder
    <2>2. s \in Session
      BY DEF TypeOK, Op
    <2> QED
      BY <1>2, <1>3, <2>1, <2>2
  <1>5. CASE DropQuote
    <2>1. PICK s \in op.leaving, i \in Instrument :
            books' = [books EXCEPT ![i] = WithoutQuote(books[i], s, quotes[s][i])]
      BY <1>5 DEF DropQuote
    <2> QED
      BY <1>1, <2>1, WithoutQuoteOrdered, BookStepOrdered
  <1>6. ASSUME NEW s \in Session, NEW id \in OrderId, ExpireOrder(s, id)
        PROVE  QueueInv'
    <2>1. \/ UNCHANGED books
          \/ /\ orders[s][id] # None
             /\ books' = [books EXCEPT ![orders[s][id].inst] =
                   Remove(@, s, id, orders[s][id].side, orders[s][id].price)]
      BY <1>6 DEF ExpireOrder
    <2> QED
      BY <1>2, <1>3, <2>1 DEF QueueInv
  <1>7. ASSUME NEW s \in Session, NEW id \in OrderId, CancelOrder(s, id)
        PROVE  QueueInv'
    <2> DEFINE i == orders[s][id].inst
    <2>1. i \in Instrument
      <3>1. orders[s][id] # None
        BY <1>7, Zenon DEF CancelOrder
      <3> QED
        BY <1>2, <3>1
    <2>2. PICK e \in books[i].entries : books' = [books EXCEPT ![i] = Drop(books[i], e)]
      BY <1>7 DEF CancelOrder, Located
    <2> HIDE DEF i
    <2> QED
      BY <1>1, <2>1, <2>2, DropOrdered, BookStepOrdered
  <1> QED
    BY <1>4, <1>5, <1>6, <1>7

\* New orders, replacements and quote legs arrive last.
LEMMA RequestsOrdered ==
  ASSUME TypeOK, EngineInv, QueueInv, NEW s \in Session, Request(s)
  PROVE  QueueInv'
  <1>1. \A i \in Instrument : books[i] \in Book /\ Ordered(books[i])
    BY DEF TypeOK, QueueInv
  <1>2. next_arrival \in Nat
    BY DEF TypeOK
  <1>3. \A i \in Instrument : \A e \in books[i].entries :
          e.order.arrival \in Nat /\ e.order.arrival <= next_arrival
    BY <1>1, BookFacts DEF EngineInv, ArrivalsUnique
  <1>4. ASSUME NEW i \in Instrument, NEW b \in Book, Ordered(b), b.entries \subseteq books[i].entries,
               NEW o \in Order, o.arrival > next_arrival,
               books' = [books EXCEPT ![i] = Insert(b, o)]
        PROVE  QueueInv'
    <2>1. o.arrival \in Nat
      BY DEF Order
    <2>2. \A e \in b.entries : e.order.arrival < o.arrival
      BY <1>2, <1>3, <1>4, <2>1
    <2> QED
      BY <1>4, <2>2, InsertOrdered, BookStepOrdered
  <1>5. ASSUME NEW o \in Order
        PROVE  Booked(o) \in Order /\ Booked(o).arrival = o.arrival
    BY BookedType, StateKeeps DEF Booked, SameOrder
  <1>6. ASSUME NEW id \in OrderId, NEW i \in Instrument, NEW side \in Side,
               NEW type \in OrderType, NEW price \in Price, NEW qty \in Quantity,
               CreateOrder(s, id, i, side, type, price, qty)
        PROVE  QueueInv'
    <2> DEFINE o == NewOrder(s, id, i, side, type, price, qty, next_arrival + 1)
    <2>1. o \in Order /\ o.arrival = next_arrival + 1
      <3>1. qty \in Nat
        BY InputAssumption
      <3> QED
        BY <1>2, <3>1, NewOrderType DEF NewOrder
    <2>2. books' = [books EXCEPT ![i] = Insert(books[i], Booked(o))]
      BY <1>6 DEF CreateOrder
    <2> HIDE DEF o
    <2>3. Booked(o) \in Order /\ Booked(o).arrival > next_arrival
      BY <1>2, <1>5, <2>1
    <2>4. books[i] \in Book /\ Ordered(books[i]) /\ books[i].entries \subseteq books[i].entries
      BY <1>1
    <2> QED
      BY <1>4, <2>2, <2>3, <2>4
  <1>7. ASSUME NEW orig \in OrderId, NEW id \in OrderId, NEW type \in ReplaceType,
               NEW price \in Price \cup {0}, NEW qty \in Quantity,
               ModifyOrder(s, orig, id, type, price, qty)
        PROVE  QueueInv'
    <2> DEFINE old == orders[s][orig]
               o == Replacement(old, id, type, price, qty)
               i == old.inst
               gone == Remove(books[i], s, orig, old.side, old.price)
    <2>1. /\ old # None /\ qty >= old.cum
          /\ \/ books' = [books EXCEPT ![i] = gone]
             \/ books' = [books EXCEPT ![i] = Insert(gone, Booked(o))]
      BY <1>7 DEF ModifyOrder
    <2>2. i \in Instrument /\ old \in Order
      BY <2>1, MirrorFacts
    <2>3. gone \in Book /\ Ordered(gone) /\ gone.entries \subseteq books[i].entries
      BY <1>1, <2>2, RemoveType, RemoveOrdered
    <2>4. o \in Order /\ o.arrival = next_arrival + 1
      <3>1. type \in OrderType /\ qty \in Nat
        BY InputAssumption
      <3>2. o \in Order
        BY <1>2, <2>1, <2>2, <3>1, ReplacementType
      <3> QED
        BY <2>2, <3>2 DEF Replacement, Order
    <2> HIDE DEF o, gone, i
    <2> QED
      BY <1>2, <1>4, <1>5, <2>1, <2>2, <2>3, <2>4, BookStepOrdered
  <1>8. ASSUME NEW i \in Instrument, NEW bid \in Price \cup {0}, NEW ask \in Price \cup {0},
               NEW bidQty \in Quantity, NEW askQty \in Quantity,
               Quote(s, i, bid, bidQty, ask, askQty)
        PROVE  QueueInv'
    <2> DEFINE gone == WithoutQuote(books[i], s, quotes[s][i])
               legs == (IF bid # 0 THEN 1 ELSE 0) + (IF ask # 0 THEN 1 ELSE 0)
               bidLeg == QuoteLeg(s, i, "Buy", bid, bidQty, next_arrival + 1)
               askLeg == QuoteLeg(s, i, "Sell", ask, askQty, next_arrival + legs)
    <2>1. \/ bid # 0 /\ books' = [books EXCEPT ![i] = Insert(gone, Booked(bidLeg))]
          \/ ask # 0 /\ books' = [books EXCEPT ![i] = Insert(gone, Booked(askLeg))]
          \/ books' = [books EXCEPT ![i] = gone]
      BY <1>8 DEF Quote
    <2>2. gone \in Book /\ Ordered(gone) /\ gone.entries \subseteq books[i].entries
      BY <1>1, WithoutQuoteOrdered
    <2>3. bidQty \in Nat /\ askQty \in Nat /\ "Limit" \in OrderType /\ "Buy" \in Side /\ "Sell" \in Side
      BY InputAssumption DEF OrderType, Side
    <2>4. bid # 0 => bidLeg \in Order /\ bidLeg.arrival > next_arrival
      BY <1>2, <2>3, NewOrderType DEF QuoteLeg, NewOrder
    <2>5. ask # 0 => askLeg \in Order /\ askLeg.arrival > next_arrival
      BY <1>2, <2>3, NewOrderType DEF QuoteLeg, NewOrder
    <2> HIDE DEF gone, bidLeg, askLeg
    <2> QED
      BY <1>4, <1>5, <2>1, <2>2, <2>4, <2>5, BookStepOrdered
  <1>9. ASSUME NEW orig \in OrderId, CancelOrder(s, orig)
        PROVE  QueueInv'
    BY <1>9, RemovalsOrdered
  <1> QED
    BY <1>6, <1>7, <1>8, <1>9 DEF Request

LEMMA MatchOrdered ==
  ASSUME TypeOK, EngineInv, QueueInv, Match
  PROVE  QueueInv'
  <1> DEFINE i == op.incoming.inst
  <1>1. PICK bid \in Top(books[i], "Buy"), ask \in Top(books[i], "Sell") :
          books' = [books EXCEPT ![i] =
              AfterTrade(books[i], bid, ask, TradeOf(bid.order, ask.order))]
    BY DEF Match
  <1>2. i \in Instrument
    BY DEF Match, TypeOK, EngineInv, OpShape, Op, Order
  <1>3. /\ bid \in books[i].entries /\ bid.order.side = "Buy"
        /\ ask \in books[i].entries /\ ask.order.side = "Sell"
    BY DEF Top, SideOf
  <1>4. books[i] \in Book /\ Ordered(books[i]) /\ bid # ask
    BY <1>2, <1>3 DEF TypeOK, QueueInv
  <1> HIDE DEF i
  <1> QED
    BY <1>1, <1>2, <1>3, <1>4, AfterTradeOrdered, BookStepOrdered

LEMMA MatchDoneOrdered ==
  ASSUME TypeOK, EngineInv, QueueInv, MatchDone
  PROVE  QueueInv'
  <1> DEFINE i == op.incoming.inst
             rest == IF op.incoming.type = "Market" /\ Resting # {}
                     THEN Drop(books[i], CHOOSE e \in Resting : TRUE) ELSE books[i]
  <1>1. op.phase = "match" /\ op.incoming \in Order /\ i \in Instrument
    BY DEF MatchDone, TypeOK, EngineInv, OpShape, Op, Order
  <1>2. books[i] \in Book /\ Ordered(books[i])
    BY <1>1 DEF TypeOK, QueueInv
  <1>3. \/ op.askLeg # None /\ books' = [books EXCEPT ![i] = Insert(rest, Booked(op.askLeg))]
        \/ books' = [books EXCEPT ![i] = rest]
    BY DEF MatchDone
  <1>4. rest \in Book /\ Ordered(rest) /\ rest.entries \subseteq books[i].entries
    <2>1. CASE op.incoming.type = "Market" /\ Resting # {}
      <3> DEFINE e == CHOOSE x \in Resting : TRUE
      <3>1. e \in books[i].entries
        BY <2>1 DEF Resting, Located
      <3>2. rest = Drop(books[i], e)
        BY <2>1
      <3> HIDE DEF e, rest, i
      <3> QED
        BY <1>2, <3>1, <3>2, DropType, DropOrdered DEF Drop
    <2>2. CASE ~(op.incoming.type = "Market" /\ Resting # {})
      BY <1>2, <2>2
    <2> QED
      BY <2>1, <2>2
  <1>5. ASSUME op.askLeg # None
        PROVE  Ordered(Insert(rest, Booked(op.askLeg)))
    <2>1. /\ op.askLeg \in Order /\ op.incoming.arrival < op.askLeg.arrival
      BY <1>5 DEF EngineInv, OpShape, TypeOK, Op
    <2>2. Booked(op.askLeg) \in Order /\ Booked(op.askLeg).arrival = op.askLeg.arrival
      BY <2>1, BookedType, StateKeeps DEF Booked, SameOrder
    <2>3. \A e \in books[i].entries : e.order.arrival <= op.incoming.arrival
      BY <1>1 DEF EngineInv, ArrivalsUnique
    <2>4. op.askLeg.arrival \in Nat /\ op.incoming.arrival \in Nat
      BY <1>1, <2>1 DEF Order
    <2>5. \A e \in rest.entries : e.order.arrival \in Nat /\ e.order.arrival <= op.incoming.arrival
      BY <1>2, <1>4, <2>3, BookFacts
    <2> HIDE DEF rest
    <2>6. \A e \in rest.entries : e.order.arrival < Booked(op.askLeg).arrival
      BY <2>1, <2>2, <2>4, <2>5
    <2> QED
      BY <1>4, <2>2, <2>6, InsertOrdered
  <1> HIDE DEF rest, i
  <1> QED
    BY <1>1, <1>3, <1>4, <1>5, BookStepOrdered

LEMMA QueueInit == Init => QueueInv
  BY DEF Init, EmptyBook, QueueInv, Ordered

\* Every step keeps it.
LEMMA QueueStep == TypeOK /\ EngineInv /\ QueueInv /\ [Next]_vars => QueueInv'
  <1> SUFFICES ASSUME TypeOK, EngineInv, QueueInv, [Next]_vars PROVE QueueInv'
    OBVIOUS
  <1>1. ASSUME UNCHANGED books
        PROVE  QueueInv'
    BY <1>1 DEF QueueInv
  <1>2. CASE UNCHANGED vars
    BY <1>1, <1>2 DEF vars
  <1>3. ASSUME NEW s \in Session, RegisterSession(s) \/ SessionDisconnect(s)
        PROVE  QueueInv'
    BY <1>1, <1>3 DEF RegisterSession, SessionDisconnect
  <1>4. CASE Tick \/ ExpireDayOrders
    BY <1>1, <1>4 DEF Tick, ExpireDayOrders
  <1>5. CASE DropDone \/ ExpireDone \/ (\E i \in Instrument : Publish(i))
               \/ PublishDone \/ Report \/ Finish
    BY <1>1, <1>5 DEF DropDone, ExpireDone, Publish, PublishDone, Report, Finish
  <1> QED
    BY <1>2, <1>3, <1>4, <1>5, RemovalsOrdered, RequestsOrdered, MatchOrdered,
       MatchDoneOrdered DEF Next, Continue

\* Keys of a level follow arrival, however often the level empties and restarts
\* its keys, and however often orders are replaced, re-quoted and filled.
THEOREM KeysFollowArrival == Spec => []FifoIsArrival
  <1>1. QueueInv => FifoIsArrival
    BY DEF QueueInv, Ordered, FifoIsArrival
  <1> QED
    BY <1>1, QueueInit, QueueStep, TypeCorrect, EngineSafe, PTL DEF Spec

-----------------------------------------------------------------------------
(* The sum of the open quantities of a set of entries *)

\* Every non-empty set of naturals has a least member.
LEMMA LeastNatural ==
  ASSUME NEW S, S \subseteq Nat, S # {}
  PROVE  \E x \in S : \A y \in S : x <= y
  <1>1. PICK x \in S : \A y \in S : ~(<<y, x>> \in OpToRel(<, Nat))
    BY NatLessThanWellFounded, WFMin
  <1>2. \A y \in S : x <= y
    <2> TAKE y \in S
    <2>1. y < x => <<y, x>> \in OpToRel(<, Nat)
      BY Zenon DEF OpToRel
    <2>2. ~(y < x)
      BY <1>1, <2>1, Zenon
    <2> QED
      BY <2>2
  <1> QED
    BY <1>2

\* A set of numbers that holds 0 and with every number the next holds them all.
LEMMA EveryNatural ==
  ASSUME NEW S, 0 \in S, \A n \in Nat : n \in S => n + 1 \in S
  PROVE  Nat \subseteq S
  <1> SUFFICES ASSUME Nat \ S # {} PROVE FALSE
    OBVIOUS
  <1>1. PICK n \in Nat \ S : \A m \in Nat \ S : n <= m
    <2> DEFINE T == Nat \ S
    <2>1. T \subseteq Nat /\ T # {}
      OBVIOUS
    <2> HIDE DEF T
    <2>2. \E n \in T : \A m \in T : n <= m
      BY <2>1, LeastNatural
    <2> QED
      BY <2>2 DEF T
  <1>2. n - 1 \in Nat /\ n - 1 \notin Nat \ S /\ n - 1 + 1 = n
    BY <1>1
  <1> QED
    BY <1>1, <1>2

\* What the total of a level ought to be: the recursion behind MapThenSumSet.
OpenIn(S) == MapThenSumSet(LAMBDA e : e.order.remaining, S)

\* The element a fold takes first.
First(T) == CHOOSE x \in T : TRUE

\* f adds up what the entries of each set in D have open.
OpenSums(f, D) ==
    f = [T \in D |-> IF T = {} THEN 0
                     ELSE First(T).order.remaining + f[T \ {First(T)}]]

\* What MapThenSumSet unfolds to.
LEMMA OpenInDef ==
  ASSUME NEW S
  PROVE  OpenIn(S) = (CHOOSE f : OpenSums(f, SUBSET S))[S]
  BY DEF OpenIn, MapThenSumSet, MapThenFoldSet, OpenSums, First

\* The subsets of a finite set, by size.
Upto(S, n) == {T \in SUBSET S : Cardinality(T) <= n}

\* Taking the first element out leaves a smaller subset.
LEMMA UptoFacts ==
  ASSUME NEW S, IsFiniteSet(S)
  PROVE  /\ \A T \in SUBSET S : IsFiniteSet(T) /\ Cardinality(T) \in Nat
         /\ \A T \in SUBSET S : T # {} =>
               /\ First(T) \in T
               /\ T \ {First(T)} \in SUBSET S
               /\ Cardinality(T \ {First(T)}) = Cardinality(T) - 1
               /\ Cardinality(T) # 0
  <1>1. \A T \in SUBSET S : IsFiniteSet(T) /\ Cardinality(T) \in Nat
    BY FS_Subset, FS_CardinalityType
  <1>2. ASSUME NEW T \in SUBSET S, T # {}
        PROVE  /\ First(T) \in T
               /\ T \ {First(T)} \in SUBSET S
               /\ Cardinality(T \ {First(T)}) = Cardinality(T) - 1
               /\ Cardinality(T) # 0
    <2>1. First(T) \in T
      BY <1>2 DEF First
    <2>2. Cardinality(T \ {First(T)}) = Cardinality(T) - 1
      BY <1>1, <2>1, FS_RemoveElement
    <2>3. Cardinality(T) # 0
      BY <1>1, <1>2, FS_EmptySet
    <2> QED
      BY <2>1, <2>2, <2>3
  <1> QED
    BY <1>1, <1>2

\* The recursion has a solution on the subsets of a finite set.
LEMMA OpenSumsExist ==
  ASSUME NEW S, IsFiniteSet(S)
  PROVE  \E f : OpenSums(f, SUBSET S)
  <1> DEFINE Done == {n \in Nat : \E f : OpenSums(f, Upto(S, n))}
  <1>1. 0 \in Done
    <2> DEFINE f == [T \in Upto(S, 0) |-> 0]
    <2>1. \A T \in Upto(S, 0) : T = {}
      <3>1. \A T \in Upto(S, 0) : Cardinality(T) = 0 /\ T \in SUBSET S
        BY UptoFacts DEF Upto
      <3> QED
        BY <3>1, UptoFacts
    <2>2. OpenSums(f, Upto(S, 0))
      BY <2>1 DEF OpenSums
    <2> QED
      BY <2>2
  <1>2. ASSUME NEW n \in Nat, n \in Done
        PROVE  n + 1 \in Done
    <2>1. PICK f : OpenSums(f, Upto(S, n))
      BY <1>2
    <2> DEFINE g == [T \in Upto(S, n + 1) |->
                        IF T = {} THEN 0
                        ELSE First(T).order.remaining + f[T \ {First(T)}]]
    <2>2. \A T \in Upto(S, n) : T \in Upto(S, n + 1) /\ g[T] = f[T]
      <3>1. \A T \in Upto(S, n) : T \in Upto(S, n + 1)
        BY UptoFacts DEF Upto
      <3>2. \A T \in Upto(S, n) : f[T] = IF T = {} THEN 0
                     ELSE First(T).order.remaining + f[T \ {First(T)}]
        BY <2>1 DEF OpenSums
      <3> QED
        BY <3>1, <3>2
    <2>3. \A T \in Upto(S, n + 1) : T # {} => T \ {First(T)} \in Upto(S, n)
      BY UptoFacts DEF Upto
    <2>4. g = [T \in Upto(S, n + 1) |->
                        IF T = {} THEN 0
                        ELSE First(T).order.remaining + g[T \ {First(T)}]]
      <3>1. \A T \in Upto(S, n + 1) :
              (IF T = {} THEN 0 ELSE First(T).order.remaining + f[T \ {First(T)}])
              = (IF T = {} THEN 0 ELSE First(T).order.remaining + g[T \ {First(T)}])
        <4> HIDE DEF g
        <4> QED
          BY <2>2, <2>3
      <3> QED
        BY <3>1
    <2>5. OpenSums(g, Upto(S, n + 1))
      BY <2>4 DEF OpenSums
    <2> QED
      BY <2>5
  <1> HIDE DEF Done
  <1>3. Cardinality(S) \in Done
    BY <1>1, <1>2, EveryNatural, FS_CardinalityType
  <1>4. Upto(S, Cardinality(S)) = SUBSET S
    BY FS_Subset DEF Upto
  <1> QED
    BY <1>3, <1>4 DEF Done

\* Solutions agree where both are defined: the sum is one, whichever set the
\* recursion was started from.
LEMMA OpenSumsAgree ==
  ASSUME NEW S, NEW R, IsFiniteSet(S), R \subseteq S,
         NEW f, OpenSums(f, SUBSET S), NEW g, OpenSums(g, SUBSET R)
  PROVE  f[R] = g[R]
  <1> DEFINE Done == {n \in Nat : \A T \in SUBSET R : Cardinality(T) = n => f[T] = g[T]}
  <1>1. /\ \A T \in SUBSET S : f[T] = IF T = {} THEN 0
              ELSE First(T).order.remaining + f[T \ {First(T)}]
        /\ \A T \in SUBSET R : g[T] = IF T = {} THEN 0
              ELSE First(T).order.remaining + g[T \ {First(T)}]
    BY DEF OpenSums
  <1>2. IsFiniteSet(R)
    BY FS_Subset
  <1>3. 0 \in Done
    BY <1>1, <1>2, UptoFacts
  <1>4. ASSUME NEW n \in Nat, n \in Done
        PROVE  n + 1 \in Done
    <2> SUFFICES ASSUME NEW T \in SUBSET R, Cardinality(T) = n + 1
                 PROVE  f[T] = g[T]
      OBVIOUS
    <2>1. T # {}
      BY <1>2, UptoFacts, FS_EmptySet
    <2>2. T \ {First(T)} \in SUBSET R /\ Cardinality(T \ {First(T)}) = n
      BY <1>2, <2>1, UptoFacts
    <2>3. f[T \ {First(T)}] = g[T \ {First(T)}]
      BY <1>4, <2>2
    <2> QED
      BY <1>1, <2>1, <2>3
  <1>5. ASSUME NEW T \in SUBSET R
        PROVE  Cardinality(T) \in Done
    <2>1. Cardinality(T) \in Nat
      BY <1>2, UptoFacts
    <2> HIDE DEF Done
    <2> QED
      BY <1>3, <1>4, <2>1, EveryNatural
  <1> QED
    BY <1>5

\* Every solution gives the sum of every subset.
LEMMA OpenSumsValue ==
  ASSUME NEW S, NEW R, IsFiniteSet(S), R \subseteq S, NEW f, OpenSums(f, SUBSET S)
  PROVE  f[R] = OpenIn(R)
  <1>1. IsFiniteSet(R)
    BY FS_Subset
  <1>2. ASSUME NEW g, OpenSums(g, SUBSET R)
        PROVE  f[R] = g[R]
    BY <1>2, OpenSumsAgree
  <1>3. OpenSums(CHOOSE g : OpenSums(g, SUBSET R), SUBSET R)
    BY <1>1, OpenSumsExist
  <1> QED
    BY <1>2, <1>3, OpenInDef

\* Nothing open in no entry; otherwise what the first has open, and the rest.
LEMMA OpenInSteps ==
  ASSUME NEW S, IsFiniteSet(S)
  PROVE  OpenIn(S) = IF S = {} THEN 0
                     ELSE First(S).order.remaining + OpenIn(S \ {First(S)})
  <1>1. PICK f : OpenSums(f, SUBSET S)
    BY OpenSumsExist
  <1>2. f[S] = OpenIn(S) /\ f[S \ {First(S)}] = OpenIn(S \ {First(S)})
    BY <1>1, OpenSumsValue
  <1>3. f[S] = IF S = {} THEN 0 ELSE First(S).order.remaining + f[S \ {First(S)}]
    BY <1>1 DEF OpenSums
  <1> QED
    BY <1>2, <1>3, Zenon

\* The order in which the entries are taken does not matter.
LEMMA OpenInTake ==
  ASSUME NEW S, IsFiniteSet(S), \A e \in S : e.order.remaining \in Int
  PROVE  /\ OpenIn({}) = 0
         /\ OpenIn(S) \in Int
         /\ \A x \in S : OpenIn(S) = x.order.remaining + OpenIn(S \ {x})
  <1> DEFINE Good(T) == /\ OpenIn(T) \in Int
                        /\ \A x \in T : /\ OpenIn(T \ {x}) \in Int
                                        /\ OpenIn(T) = x.order.remaining + OpenIn(T \ {x})
             Done == {n \in Nat : \A T \in SUBSET S : Cardinality(T) = n => Good(T)}
  <1>0. \A T \in SUBSET S : IsFiniteSet(T)
    BY UptoFacts
  <1>1. OpenIn({}) = 0
    BY OpenInSteps, FS_EmptySet
  <1>2. 0 \in Done
    <2>1. \A T \in SUBSET S : Cardinality(T) = 0 => T = {}
      BY <1>0, FS_EmptySet
    <2>2. Good({})
      BY <1>1
    <2> HIDE DEF Good
    <2> QED
      BY <2>1, <2>2
  <1>3. ASSUME NEW n \in Nat, n \in Done
        PROVE  n + 1 \in Done
    <2> SUFFICES ASSUME NEW T \in SUBSET S, Cardinality(T) = n + 1
                 PROVE  Good(T)
      OBVIOUS
    <2> DEFINE c == First(T)
    <2>1. c \in T /\ IsFiniteSet(T)
      <3>1. T # {}
        BY FS_EmptySet
      <3> QED
        BY <1>0, <3>1, UptoFacts
    <2>2. \A x \in T : T \ {x} \in SUBSET S /\ Cardinality(T \ {x}) = n
      <3>1. \A x \in T : Cardinality(T \ {x}) = Cardinality(T) - 1
        BY <2>1, FS_RemoveElement
      <3> QED
        BY <3>1
    <2>3. \A x \in T : Good(T \ {x})
      BY <1>3, <2>2
    <2>4. OpenIn(T) = c.order.remaining + OpenIn(T \ {c})
      BY <2>1, OpenInSteps
    <2>5. \A x \in T : x.order.remaining \in Int
      OBVIOUS
    <2> HIDE DEF c, Done
    <2>6. ASSUME NEW x \in T
          PROVE  OpenIn(T) = x.order.remaining + OpenIn(T \ {x})
      <3>1. CASE x = c
        BY <2>4, <3>1
      <3>2. CASE x # c
        <4>1. (T \ {c}) \ {x} = (T \ {x}) \ {c}
          OBVIOUS
        <4>2. OpenIn(T \ {c}) = x.order.remaining + OpenIn((T \ {c}) \ {x})
          BY <2>1, <2>3, <3>2
        <4>3. OpenIn(T \ {x}) = c.order.remaining + OpenIn((T \ {x}) \ {c})
          BY <2>1, <2>3, <3>2
        <4>4. OpenIn(T \ {x}) \in Int /\ OpenIn(T \ {c}) \in Int
          BY <2>1, <2>3
        <4>5. OpenIn((T \ {c}) \ {x}) \in Int
          <5>1. Good(T \ {c}) /\ x \in T \ {c}
            BY <2>1, <2>3, <3>2
          <5> QED
            BY <5>1
        <4>6. OpenIn(T \ {x}) = c.order.remaining + OpenIn((T \ {c}) \ {x})
          BY <4>1, <4>3, Zenon
        <4>7. c.order.remaining \in Int /\ x.order.remaining \in Int
          BY <2>1, <2>5
        <4> QED
          BY <2>4, <4>2, <4>5, <4>6, <4>7
      <3> QED
        BY <3>1, <3>2
    <2>7. OpenIn(T) \in Int
      BY <2>1, <2>3, <2>4, <2>5
    <2> QED
      BY <2>3, <2>6, <2>7
  <1>4. Cardinality(S) \in Done
    <2> HIDE DEF Done
    <2> QED
      BY <1>2, <1>3, EveryNatural, FS_CardinalityType
  <1>5. Good(S)
    BY <1>4
  <1> QED
    BY <1>1, <1>5

\* A new entry adds what it has open.
LEMMA OpenInAdd ==
  ASSUME NEW S, IsFiniteSet(S), \A e \in S : e.order.remaining \in Int,
         NEW x, x \notin S, x.order.remaining \in Int
  PROVE  /\ IsFiniteSet(S \cup {x})
         /\ OpenIn(S \cup {x}) = OpenIn(S) + x.order.remaining
  <1> DEFINE R == S \cup {x}
  <1>1. IsFiniteSet(R) /\ x \in R /\ R \ {x} = S /\ \A e \in R : e.order.remaining \in Int
    BY FS_AddElement
  <1>2. OpenIn(S) \in Int
    BY OpenInTake
  <1> HIDE DEF R
  <1>3. OpenIn(R) = x.order.remaining + OpenIn(R \ {x})
    BY <1>1, OpenInTake
  <1>4. OpenIn(R) = x.order.remaining + OpenIn(S)
    BY <1>1, <1>3, Zenon
  <1> QED
    BY <1>1, <1>2, <1>4 DEF R

-----------------------------------------------------------------------------
(* The totals of the levels *)

\* The entries of a level.
Queue(b, l) == {e \in b.entries : LevelOf(e.order) = l}

\* Every level of the book keeps the sum of what its entries have open, and a
\* level without entries is gone.
Summed(b) ==
    /\ IsFiniteSet(b.entries)
    /\ \A l \in Side \X LevelKey :
          IF Queue(b, l) = {} THEN b.levels[l] = NoLevel
          ELSE b.levels[l].total = OpenIn(Queue(b, l))

\* ... so, empty or not, the total of a level is the sum.
LEMMA SummedFacts ==
  ASSUME NEW b \in Book, Summed(b), NEW l \in Side \X LevelKey
  PROVE  /\ b.levels[l].total = OpenIn(Queue(b, l)) /\ b.levels[l].total \in Int
         /\ IsFiniteSet(Queue(b, l))
         /\ \A e \in Queue(b, l) : e.order.remaining \in Int
  <1>1. IsFiniteSet(Queue(b, l))
    BY FS_Subset DEF Summed, Queue
  <1>2. \A e \in Queue(b, l) : e.order.remaining \in Int
    BY BookFacts DEF Queue, Order
  <1>3. OpenIn({}) = 0 /\ OpenIn(Queue(b, l)) \in Int
    BY <1>1, <1>2, OpenInTake
  <1>4. b.levels[l].total = OpenIn(Queue(b, l))
    <2>1. CASE Queue(b, l) = {}
      <3>1. b.levels[l] = NoLevel /\ OpenIn(Queue(b, l)) = 0
        BY <1>3, <2>1 DEF Summed
      <3> QED
        BY <3>1 DEF NoLevel
    <2>2. CASE Queue(b, l) # {}
      BY <2>2 DEF Summed
    <2> QED
      BY <2>1, <2>2
  <1> QED
    BY <1>1, <1>2, <1>3, <1>4

\* push_back of an entry the book does not hold.
LEMMA InsertSummed ==
  ASSUME NEW b \in Book, Summed(b), NEW o \in Order,
         [order |-> o, key |-> b.levels[LevelOf(o)].next] \notin b.entries
  PROVE  Summed(Insert(b, o))
  <1> DEFINE l == LevelOf(o)
             x == [order |-> o, key |-> b.levels[l].next]
             c == Insert(b, o)
  <1>1. l \in Side \X LevelKey /\ o.remaining \in Int
    BY EffectivePriceType DEF Order
  <1>2. /\ c.entries = b.entries \cup {x} /\ x.order = o /\ x \notin b.entries
        /\ c.levels[l].total = b.levels[l].total + o.remaining
        /\ \A m \in Side \X LevelKey : m # l => c.levels[m] = b.levels[m]
    BY <1>1, BookFacts DEF Insert
  <1> HIDE DEF c, x
  <1>3. \A m \in Side \X LevelKey : m # l => Queue(c, m) = Queue(b, m)
    BY <1>2 DEF Queue
  <1>4. Queue(c, l) = Queue(b, l) \cup {x} /\ x \notin Queue(b, l)
    BY <1>2 DEF Queue
  <1>5. IsFiniteSet(c.entries)
    BY <1>2, FS_AddElement DEF Summed
  <1> HIDE DEF l
  <1>6. OpenIn(Queue(c, l)) = OpenIn(Queue(b, l)) + o.remaining
    BY <1>1, <1>2, <1>4, SummedFacts, OpenInAdd
  <1>7. c.levels[l].total = OpenIn(Queue(c, l)) /\ Queue(c, l) # {}
    BY <1>1, <1>2, <1>4, <1>6, SummedFacts
  <1> QED
    BY <1>2, <1>3, <1>5, <1>7 DEF Summed, c

\* Removing an entry.
LEMMA DropSummed ==
  ASSUME NEW b \in Book, Summed(b), NEW e \in b.entries
  PROVE  Summed(Drop(b, e))
  <1> DEFINE c == Drop(b, e)
             l == LevelOf(e.order)
  <1>1. l \in Side \X LevelKey /\ e \in Queue(b, l)
    BY BookFacts DEF Queue
  <1>2. /\ c.entries = b.entries \ {e}
        /\ \A m \in Side \X LevelKey : m # l => c.levels[m] = b.levels[m]
        /\ IF \E f \in b.entries \ {e} : LevelOf(f.order) = l
           THEN c.levels[l].total = b.levels[l].total - e.order.remaining
           ELSE c.levels[l] = NoLevel
    BY <1>1, BookFacts DEF Drop
  <1> HIDE DEF c
  <1>3. \A m \in Side \X LevelKey : m # l => Queue(c, m) = Queue(b, m)
    BY <1>2 DEF Queue
  <1>4. Queue(c, l) = Queue(b, l) \ {e}
    BY <1>2 DEF Queue
  <1>5. IsFiniteSet(c.entries)
    BY <1>2, FS_RemoveElement DEF Summed
  <1>6. IF Queue(c, l) = {} THEN c.levels[l] = NoLevel
        ELSE c.levels[l].total = b.levels[l].total - e.order.remaining
    BY <1>2 DEF Queue
  <1> HIDE DEF l
  <1>7. /\ OpenIn(Queue(b, l)) = e.order.remaining + OpenIn(Queue(c, l))
        /\ e.order.remaining \in Int
    BY <1>1, <1>4, SummedFacts, OpenInTake
  <1>8. OpenIn(Queue(c, l)) \in Int
    <2> DEFINE R == Queue(c, l)
    <2>1. IsFiniteSet(R) /\ \A f \in R : f.order.remaining \in Int
      BY <1>1, <1>4, SummedFacts, FS_RemoveElement
    <2> HIDE DEF R
    <2>2. OpenIn(R) \in Int
      BY <2>1, OpenInTake
    <2> QED
      BY <2>2 DEF R
  <1>9. Queue(c, l) # {} => c.levels[l].total = OpenIn(Queue(c, l))
    BY <1>1, <1>6, <1>7, <1>8, SummedFacts
  <1> QED
    BY <1>2, <1>3, <1>5, <1>6, <1>9 DEF Summed, c

\* OrderBook::remove, and a quote pair leaving.
LEMMA RemoveSummed ==
  ASSUME NEW b \in Book, Summed(b), NEW s, NEW id, NEW side, NEW price
  PROVE  Summed(Remove(b, s, id, side, price))
  <1> DEFINE found == Located(b, s, id, side, price)
  <1>1. CASE found = {}
    BY <1>1 DEF Remove
  <1>2. CASE found # {}
    <2> DEFINE e == CHOOSE x \in found : TRUE
    <2>1. e \in b.entries
      BY <1>2 DEF Located
    <2>2. Remove(b, s, id, side, price) = Drop(b, e)
      BY <1>2 DEF Remove
    <2> HIDE DEF e
    <2> QED
      BY <2>1, <2>2, DropSummed
  <1> QED
    BY <1>1, <1>2

\* A quote pair leaves its two levels.
LEMMA WithoutQuoteSummed ==
  ASSUME NEW b \in Book, Summed(b), NEW s, NEW pair
  PROVE  /\ WithoutQuote(b, s, pair) \in Book /\ Summed(WithoutQuote(b, s, pair))
         /\ WithoutQuote(b, s, pair).entries \subseteq b.entries
  <1> DEFINE c == Remove(b, s, QuoteId, "Buy", pair.bid)
  <1>1. c \in Book /\ Summed(c) /\ c.entries \subseteq b.entries
    BY RemoveSummed, RemoveType
  <1> HIDE DEF c
  <1>2. /\ Remove(c, s, QuoteId, "Sell", pair.ask) \in Book
        /\ Summed(Remove(c, s, QuoteId, "Sell", pair.ask))
        /\ Remove(c, s, QuoteId, "Sell", pair.ask).entries \subseteq c.entries
    BY <1>1, RemoveSummed, RemoveType
  <1> QED
    BY <1>1, <1>2 DEF WithoutQuote, c

\* update_fill: the level has qty less open, and so has the entry.
LEMMA UpdateFillSummed ==
  ASSUME NEW b \in Book, Summed(b), NEW e \in b.entries, NEW o \in Order, NEW qty \in Nat,
         LevelOf(o) = LevelOf(e.order), o.remaining = e.order.remaining - qty,
         [order |-> o, key |-> e.key] \notin b.entries \ {e}
  PROVE  Summed(UpdateFill(b, e, o, qty))
  <1>1. CASE o.remaining = 0
    BY <1>1, DropSummed DEF UpdateFill
  <1>2. CASE o.remaining # 0
    <2> DEFINE c == UpdateFill(b, e, o, qty)
               x == [order |-> o, key |-> e.key]
               l == LevelOf(o)
    <2>1. l \in Side \X LevelKey /\ e \in Queue(b, l)
      BY BookFacts DEF Queue
    <2>2. /\ c.entries = (b.entries \ {e}) \cup {x} /\ x.order = o
          /\ x \notin b.entries \ {e}
          /\ c.levels[l].total = b.levels[l].total - qty
          /\ \A m \in Side \X LevelKey : m # l => c.levels[m] = b.levels[m]
      BY <1>2, <2>1, BookFacts DEF UpdateFill
    <2>3. o.remaining \in Int /\ e.order.remaining \in Int
      BY BookFacts DEF Order
    <2> HIDE DEF c, x
    <2>4. \A m \in Side \X LevelKey : m # l => Queue(c, m) = Queue(b, m)
      BY <2>2 DEF Queue
    <2> DEFINE R == Queue(b, l) \ {e}
    <2>5. Queue(c, l) = R \cup {x} /\ x \notin R
      BY <2>2 DEF Queue
    <2>6. IsFiniteSet(c.entries)
      <3>1. IsFiniteSet(b.entries \ {e})
        BY FS_RemoveElement DEF Summed
      <3>2. IsFiniteSet((b.entries \ {e}) \cup {x})
        BY <3>1, FS_AddElement
      <3> QED
        BY <2>2, <3>2, Zenon
    <2> HIDE DEF l
    <2>7. IsFiniteSet(R) /\ \A f \in R : f.order.remaining \in Int
      BY <2>1, SummedFacts, FS_RemoveElement
    <2>8. OpenIn(Queue(b, l)) = e.order.remaining + OpenIn(R)
      BY <2>1, SummedFacts, OpenInTake
    <2> HIDE DEF R
    <2>9. OpenIn(R) \in Int /\ OpenIn(Queue(c, l)) = OpenIn(R) + o.remaining
      BY <2>2, <2>3, <2>5, <2>7, OpenInTake, OpenInAdd
    <2>10. c.levels[l].total = OpenIn(Queue(c, l)) /\ Queue(c, l) # {}
      BY <2>1, <2>2, <2>3, <2>5, <2>8, <2>9, SummedFacts
    <2> QED
      BY <2>2, <2>4, <2>6, <2>10 DEF Summed, c
  <1> QED
    BY <1>1, <1>2

\* Both sides of a trade.
LEMMA AfterTradeSummed ==
  ASSUME NEW b \in Book, Summed(b), NEW bid \in b.entries, NEW ask \in b.entries, bid # ask,
         \A e, f \in b.entries : e.order.arrival = f.order.arrival => e = f
  PROVE  Summed(AfterTrade(b, bid, ask, TradeOf(bid.order, ask.order)))
  <1> DEFINE t == TradeOf(bid.order, ask.order)
             c == UpdateFill(b, bid, t.buyer, t.quantity)
  <1>1. bid.order \in Order /\ ask.order \in Order
    BY BookFacts
  <1>2. /\ t.buyer \in Order /\ t.seller \in Order /\ t.quantity \in Nat
        /\ SameOrder(t.buyer, bid.order) /\ SameOrder(t.seller, ask.order)
    BY <1>1, TradeOfType, TradeKeeps
  <1>3. /\ t.buyer.remaining = bid.order.remaining - t.quantity
        /\ t.seller.remaining = ask.order.remaining - t.quantity
    BY <1>1 DEF TradeOf, ApplyFill, Order
  <1> HIDE DEF t
  <1>4. /\ LevelOf(t.buyer) = LevelOf(bid.order) /\ t.buyer.arrival = bid.order.arrival
        /\ LevelOf(t.seller) = LevelOf(ask.order) /\ t.seller.arrival = ask.order.arrival
    BY <1>2, SameLevel DEF SameOrder
  <1>5. [order |-> t.buyer, key |-> bid.key] \notin b.entries \ {bid}
    BY <1>4
  <1>6. c \in Book /\ Summed(c) /\ ask \in c.entries
    BY <1>2, <1>3, <1>4, <1>5, UpdateFillType, UpdateFillKeeps, UpdateFillSummed
  <1>7. \A e \in c.entries : e \in b.entries \/ e.order.arrival = bid.order.arrival
    BY <1>4 DEF UpdateFill, Drop
  <1> HIDE DEF c
  <1>8. [order |-> t.seller, key |-> ask.key] \notin c.entries \ {ask}
    BY <1>4, <1>7
  <1>9. Summed(UpdateFill(c, ask, t.seller, t.quantity))
    BY <1>2, <1>3, <1>4, <1>6, <1>8, UpdateFillSummed
  <1> QED
    BY <1>9 DEF AfterTrade, c, t

\* push_back of an order that arrived after all others.
LEMMA InsertLastSummed ==
  ASSUME NEW b \in Book, Summed(b), NEW o \in Order,
         \A e \in b.entries : e.order.arrival < o.arrival
  PROVE  Summed(Insert(b, o))
  <1>1. [order |-> o, key |-> b.levels[LevelOf(o)].next] \notin b.entries
    <2>1. \A e \in b.entries : e.order # o
      BY DEF Order
    <2> QED
      BY <2>1
  <1> QED
    BY <1>1, InsertSummed

\* The levels of every book are summed.
LevelInv == \A i \in Instrument : Summed(books[i])

\* A step that leaves one book summed and the others alone.
LEMMA BookStepSummed ==
  ASSUME TypeOK, LevelInv, NEW i \in Instrument, NEW b, Summed(b),
         books' = [books EXCEPT ![i] = b]
  PROVE  LevelInv'
  BY DEF LevelInv, TypeOK

\* Removals by the mirror or by a quote.
LEMMA RemovalsSummed ==
  ASSUME TypeOK, EngineInv, LevelInv,
         \/ DropOrder \/ DropQuote
         \/ \E s \in Session, id \in OrderId : ExpireOrder(s, id) \/ CancelOrder(s, id)
  PROVE  LevelInv'
  <1>1. \A i \in Instrument : books[i] \in Book /\ Summed(books[i])
    BY DEF TypeOK, LevelInv
  <1>2. \A s \in Session, id \in OrderId : orders[s][id] # None => orders[s][id].inst \in Instrument
    BY MirrorFacts
  <1>3. \A i \in Instrument : \A s, id, side, price :
          books' = [books EXCEPT ![i] = Remove(books[i], s, id, side, price)]
          => LevelInv'
    BY <1>1, RemoveSummed, BookStepSummed
  <1>4. CASE DropOrder
    <2>1. PICK s \in op.leaving, id \in OrderId :
            /\ orders[s][id] # None
            /\ books' = [books EXCEPT ![orders[s][id].inst] =
                   Remove(@, s, id, orders[s][id].side, orders[s][id].price)]
      BY <1>4 DEF DropOrder
    <2>2. s \in Session
      BY DEF TypeOK, Op
    <2> QED
      BY <1>2, <1>3, <2>1, <2>2
  <1>5. CASE DropQuote
    <2>1. PICK s \in op.leaving, i \in Instrument :
            books' = [books EXCEPT ![i] = WithoutQuote(books[i], s, quotes[s][i])]
      BY <1>5 DEF DropQuote
    <2> QED
      BY <1>1, <2>1, WithoutQuoteSummed, BookStepSummed
  <1>6. ASSUME NEW s \in Session, NEW id \in OrderId, ExpireOrder(s, id)
        PROVE  LevelInv'
    <2>1. \/ UNCHANGED books
          \/ /\ orders[s][id] # None
             /\ books' = [books EXCEPT ![orders[s][id].inst] =
                   Remove(@, s, id, orders[s][id].side, orders[s][id].price)]
      BY <1>6 DEF ExpireOrder
    <2> QED
      BY <1>2, <1>3, <2>1 DEF LevelInv
  <1>7. ASSUME NEW s \in Session, NEW id \in OrderId, CancelOrder(s, id)
        PROVE  LevelInv'
    <2> DEFINE i == orders[s][id].inst
    <2>1. i \in Instrument
      <3>1. orders[s][id] # None
        BY <1>7, Zenon DEF CancelOrder
      <3> QED
        BY <1>2, <3>1
    <2>2. PICK e \in books[i].entries : books' = [books EXCEPT ![i] = Drop(books[i], e)]
      BY <1>7 DEF CancelOrder, Located
    <2> HIDE DEF i
    <2> QED
      BY <1>1, <2>1, <2>2, DropSummed, BookStepSummed
  <1> QED
    BY <1>4, <1>5, <1>6, <1>7

\* New orders, replacements and quote legs arrive last.
LEMMA RequestsSummed ==
  ASSUME TypeOK, EngineInv, LevelInv, NEW s \in Session, Request(s)
  PROVE  LevelInv'
  <1>1. \A i \in Instrument : books[i] \in Book /\ Summed(books[i])
    BY DEF TypeOK, LevelInv
  <1>2. next_arrival \in Nat
    BY DEF TypeOK
  <1>3. \A i \in Instrument : \A e \in books[i].entries :
          e.order.arrival \in Nat /\ e.order.arrival <= next_arrival
    BY <1>1, BookFacts DEF EngineInv, ArrivalsUnique
  <1>4. ASSUME NEW i \in Instrument, NEW b \in Book, Summed(b), b.entries \subseteq books[i].entries,
               NEW o \in Order, o.arrival > next_arrival,
               books' = [books EXCEPT ![i] = Insert(b, o)]
        PROVE  LevelInv'
    <2>1. o.arrival \in Nat
      BY DEF Order
    <2>2. \A e \in b.entries : e.order.arrival < o.arrival
      BY <1>2, <1>3, <1>4, <2>1
    <2> QED
      BY <1>4, <2>2, InsertLastSummed, BookStepSummed
  <1>5. ASSUME NEW o \in Order
        PROVE  Booked(o) \in Order /\ Booked(o).arrival = o.arrival
    BY BookedType, StateKeeps DEF Booked, SameOrder
  <1>6. ASSUME NEW id \in OrderId, NEW i \in Instrument, NEW side \in Side,
               NEW type \in OrderType, NEW price \in Price, NEW qty \in Quantity,
               CreateOrder(s, id, i, side, type, price, qty)
        PROVE  LevelInv'
    <2> DEFINE o == NewOrder(s, id, i, side, type, price, qty, next_arrival + 1)
    <2>1. o \in Order /\ o.arrival = next_arrival + 1
      <3>1. qty \in Nat
        BY InputAssumption
      <3> QED
        BY <1>2, <3>1, NewOrderType DEF NewOrder
    <2>2. books' = [books EXCEPT ![i] = Insert(books[i], Booked(o))]
      BY <1>6 DEF CreateOrder
    <2> HIDE DEF o
    <2>3. Booked(o) \in Order /\ Booked(o).arrival > next_arrival
      BY <1>2, <1>5, <2>1
    <2>4. books[i] \in Book /\ Summed(books[i]) /\ books[i].entries \subseteq books[i].entries
      BY <1>1
    <2> QED
      BY <1>4, <2>2, <2>3, <2>4
  <1>7. ASSUME NEW orig \in OrderId, NEW id \in OrderId, NEW type \in ReplaceType,
               NEW price \in Price \cup {0}, NEW qty \in Quantity,
               ModifyOrder(s, orig, id, type, price, qty)
        PROVE  LevelInv'
    <2> DEFINE old == orders[s][orig]
               o == Replacement(old, id, type, price, qty)
               i == old.inst
               gone == Remove(books[i], s, orig, old.side, old.price)
    <2>1. /\ old # None /\ qty >= old.cum
          /\ \/ books' = [books EXCEPT ![i] = gone]
             \/ books' = [books EXCEPT ![i] = Insert(gone, Booked(o))]
      BY <1>7 DEF ModifyOrder
    <2>2. i \in Instrument /\ old \in Order
      BY <2>1, MirrorFacts
    <2>3. gone \in Book /\ Summed(gone) /\ gone.entries \subseteq books[i].entries
      BY <1>1, <2>2, RemoveType, RemoveSummed
    <2>4. o \in Order /\ o.arrival = next_arrival + 1
      <3>1. type \in OrderType /\ qty \in Nat
        BY InputAssumption
      <3>2. o \in Order
        BY <1>2, <2>1, <2>2, <3>1, ReplacementType
      <3> QED
        BY <2>2, <3>2 DEF Replacement, Order
    <2> HIDE DEF o, gone, i
    <2> QED
      BY <1>2, <1>4, <1>5, <2>1, <2>2, <2>3, <2>4, BookStepSummed
  <1>8. ASSUME NEW i \in Instrument, NEW bid \in Price \cup {0}, NEW ask \in Price \cup {0},
               NEW bidQty \in Quantity, NEW askQty \in Quantity,
               Quote(s, i, bid, bidQty, ask, askQty)
        PROVE  LevelInv'
    <2> DEFINE gone == WithoutQuote(books[i], s, quotes[s][i])
               legs == (IF bid # 0 THEN 1 ELSE 0) + (IF ask # 0 THEN 1 ELSE 0)
               bidLeg == QuoteLeg(s, i, "Buy", bid, bidQty, next_arrival + 1)
               askLeg == QuoteLeg(s, i, "Sell", ask, askQty, next_arrival + legs)
    <2>1. \/ bid # 0 /\ books' = [books EXCEPT ![i] = Insert(gone, Booked(bidLeg))]
          \/ ask # 0 /\ books' = [books EXCEPT ![i] = Insert(gone, Booked(askLeg))]
          \/ books' = [books EXCEPT ![i] = gone]
      BY <1>8 DEF Quote
    <2>2. gone \in Book /\ Summed(gone) /\ gone.entries \subseteq books[i].entries
      BY <1>1, WithoutQuoteSummed
    <2>3. bidQty \in Nat /\ askQty \in Nat /\ "Limit" \in OrderType /\ "Buy" \in Side /\ "Sell" \in Side
      BY InputAssumption DEF OrderType, Side
    <2>4. bid # 0 => bidLeg \in Order /\ bidLeg.arrival > next_arrival
      BY <1>2, <2>3, NewOrderType DEF QuoteLeg, NewOrder
    <2>5. ask # 0 => askLeg \in Order /\ askLeg.arrival > next_arrival
      BY <1>2, <2>3, NewOrderType DEF QuoteLeg, NewOrder
    <2> HIDE DEF gone, bidLeg, askLeg
    <2> QED
      BY <1>4, <1>5, <2>1, <2>2, <2>4, <2>5, BookStepSummed
  <1>9. ASSUME NEW orig \in OrderId, CancelOrder(s, orig)
        PROVE  LevelInv'
    BY <1>9, RemovalsSummed
  <1> QED
    BY <1>6, <1>7, <1>8, <1>9 DEF Request

\* A trade takes its quantity from two entries and from their levels.
LEMMA MatchSummed ==
  ASSUME TypeOK, EngineInv, LevelInv, Match
  PROVE  LevelInv'
  <1> DEFINE i == op.incoming.inst
  <1>1. PICK bid \in Top(books[i], "Buy"), ask \in Top(books[i], "Sell") :
          books' = [books EXCEPT ![i] =
              AfterTrade(books[i], bid, ask, TradeOf(bid.order, ask.order))]
    BY DEF Match
  <1>2. i \in Instrument
    BY DEF Match, TypeOK, EngineInv, OpShape, Op, Order
  <1>3. /\ bid \in books[i].entries /\ bid.order.side = "Buy"
        /\ ask \in books[i].entries /\ ask.order.side = "Sell"
    BY DEF Top, SideOf
  <1>4. books[i] \in Book /\ Summed(books[i]) /\ bid # ask
    BY <1>2, <1>3 DEF TypeOK, LevelInv
  <1>5. \A e, f \in books[i].entries : e.order.arrival = f.order.arrival => e = f
    BY <1>2 DEF EngineInv, ArrivalsUnique
  <1> HIDE DEF i
  <1> QED
    BY <1>1, <1>2, <1>3, <1>4, <1>5, AfterTradeSummed, BookStepSummed

\* The end of matching drops a market remainder or inserts the ask leg.
LEMMA MatchDoneSummed ==
  ASSUME TypeOK, EngineInv, LevelInv, MatchDone
  PROVE  LevelInv'
  <1> DEFINE i == op.incoming.inst
             rest == IF op.incoming.type = "Market" /\ Resting # {}
                     THEN Drop(books[i], CHOOSE e \in Resting : TRUE) ELSE books[i]
  <1>1. op.phase = "match" /\ op.incoming \in Order /\ i \in Instrument
    BY DEF MatchDone, TypeOK, EngineInv, OpShape, Op, Order
  <1>2. books[i] \in Book /\ Summed(books[i])
    BY <1>1 DEF TypeOK, LevelInv
  <1>3. \/ op.askLeg # None /\ books' = [books EXCEPT ![i] = Insert(rest, Booked(op.askLeg))]
        \/ books' = [books EXCEPT ![i] = rest]
    BY DEF MatchDone
  <1>4. rest \in Book /\ Summed(rest) /\ rest.entries \subseteq books[i].entries
    <2>1. CASE op.incoming.type = "Market" /\ Resting # {}
      <3> DEFINE e == CHOOSE x \in Resting : TRUE
      <3>1. e \in books[i].entries
        BY <2>1 DEF Resting, Located
      <3>2. rest = Drop(books[i], e)
        BY <2>1
      <3> HIDE DEF e, rest, i
      <3> QED
        BY <1>2, <3>1, <3>2, DropType, DropSummed DEF Drop
    <2>2. CASE ~(op.incoming.type = "Market" /\ Resting # {})
      BY <1>2, <2>2
    <2> QED
      BY <2>1, <2>2
  <1>5. ASSUME op.askLeg # None
        PROVE  Summed(Insert(rest, Booked(op.askLeg)))
    <2>1. /\ op.askLeg \in Order /\ op.incoming.arrival < op.askLeg.arrival
      BY <1>5 DEF EngineInv, OpShape, TypeOK, Op
    <2>2. Booked(op.askLeg) \in Order /\ Booked(op.askLeg).arrival = op.askLeg.arrival
      BY <2>1, BookedType, StateKeeps DEF Booked, SameOrder
    <2>3. \A e \in books[i].entries : e.order.arrival <= op.incoming.arrival
      BY <1>1 DEF EngineInv, ArrivalsUnique
    <2>4. op.askLeg.arrival \in Nat /\ op.incoming.arrival \in Nat
      BY <1>1, <2>1 DEF Order
    <2>5. \A e \in rest.entries : e.order.arrival \in Nat /\ e.order.arrival <= op.incoming.arrival
      BY <1>2, <1>4, <2>3, BookFacts
    <2> HIDE DEF rest
    <2>6. \A e \in rest.entries : e.order.arrival < Booked(op.askLeg).arrival
      BY <2>1, <2>2, <2>4, <2>5
    <2> QED
      BY <1>4, <2>2, <2>6, InsertLastSummed
  <1> HIDE DEF rest, i
  <1> QED
    BY <1>1, <1>3, <1>4, <1>5, BookStepSummed

\* LevelInv is inductive.
LEMMA LevelInit == Init => LevelInv
  <1> SUFFICES ASSUME Init, NEW i \in Instrument PROVE Summed(books[i])
    BY DEF LevelInv
  <1>1. books[i].entries = {} /\ \A l \in Side \X LevelKey : books[i].levels[l] = NoLevel
    BY DEF Init, EmptyBook
  <1>2. \A l : Queue(books[i], l) = {}
    BY <1>1 DEF Queue
  <1> QED
    BY <1>1, <1>2, FS_EmptySet DEF Summed

\* ... and every step keeps it.
LEMMA LevelStep == TypeOK /\ EngineInv /\ LevelInv /\ [Next]_vars => LevelInv'
  <1> SUFFICES ASSUME TypeOK, EngineInv, LevelInv, [Next]_vars PROVE LevelInv'
    OBVIOUS
  <1>1. ASSUME UNCHANGED books
        PROVE  LevelInv'
    BY <1>1 DEF LevelInv
  <1>2. CASE UNCHANGED vars
    BY <1>1, <1>2 DEF vars
  <1>3. ASSUME NEW s \in Session, RegisterSession(s) \/ SessionDisconnect(s)
        PROVE  LevelInv'
    BY <1>1, <1>3 DEF RegisterSession, SessionDisconnect
  <1>4. CASE Tick \/ ExpireDayOrders
    BY <1>1, <1>4 DEF Tick, ExpireDayOrders
  <1>5. CASE DropDone \/ ExpireDone \/ (\E i \in Instrument : Publish(i))
               \/ PublishDone \/ Report \/ Finish
    BY <1>1, <1>5 DEF DropDone, ExpireDone, Publish, PublishDone, Report, Finish
  <1> QED
    BY <1>2, <1>3, <1>4, <1>5, RemovalsSummed, RequestsSummed, MatchSummed,
       MatchDoneSummed DEF Next, Continue

\* The total a level announces to the market is the sum of what its orders have
\* open, whatever sequence of inserts, fills, partial fills and removals led to
\* it (PriceLevel::insert_at, remove, update_fill), although every method only
\* ever adds to it or subtracts from it.
THEOREM TotalsAreExact == Spec => []LevelTotals
  <1>1. LevelInv => LevelTotals
    BY DEF LevelInv, Summed, Queue, LevelTotals, OpenIn
  <1> QED
    BY <1>1, LevelInit, LevelStep, TypeCorrect, EngineSafe, PTL DEF Spec

-----------------------------------------------------------------------------
(* Priority *)

\* The top of a side is what nobody on that side precedes.
LEMMA TopIsFirst ==
  ASSUME NEW b \in Book, Ordered(b), NEW side \in Side, NEW e \in Top(b, side),
         NEW f \in SideOf(b, side), NEW o, SameOrder(o, e.order)
  PROVE  ~Precedes(f.order, o)
  <1>1. e \in b.entries /\ f \in b.entries /\ e.order.side = side /\ f.order.side = side
    BY DEF Top, SideOf
  <1>2. /\ EffectivePrice(o) = EffectivePrice(e.order) /\ o.arrival = e.order.arrival
    BY SameLevel DEF SameOrder
  <1>3. /\ EffectivePrice(e.order) \in Nat /\ EffectivePrice(f.order) \in Nat
        /\ e.order.arrival \in Nat /\ f.order.arrival \in Nat /\ e.key \in Nat /\ f.key \in Nat
    BY <1>1, BookFacts, EffectivePriceType, LevelKeyNat
  <1>4. CASE f = e
    BY <1>2, <1>3, <1>4 DEF Precedes
  <1>5. CASE Ahead(e, f)
    <2>1. CASE EffectivePrice(e.order) = EffectivePrice(f.order) /\ e.key < f.key
      <3>1. LevelOf(e.order) = LevelOf(f.order)
        BY <1>1, <2>1 DEF LevelOf
      <3>2. e.order.arrival < f.order.arrival
        BY <1>1, <2>1, <3>1 DEF Ordered
      <3> QED
        BY <1>1, <1>2, <1>3, <2>1, <3>2 DEF Precedes
    <2>2. CASE IF side = "Buy" THEN EffectivePrice(e.order) > EffectivePrice(f.order)
                               ELSE EffectivePrice(e.order) < EffectivePrice(f.order)
      BY <1>1, <1>2, <1>3, <2>2 DEF Precedes
    <2> QED
      BY <1>1, <1>5, <2>1, <2>2 DEF Ahead
  <1> QED
    BY <1>4, <1>5 DEF Top

\* Only a trade makes the list of trades longer.
LEMMA OnlyMatchTrades ==
  ASSUME TypeOK, [Next]_vars, Len(op'.trades) > Len(op.trades)
  PROVE  Match
  <1>1. op.trades \in Seq(Trade) /\ Len(op.trades) \in Nat
    BY DEF TypeOK, Op
  <1>2. ~(op'.trades = <<>>)
    BY <1>1
  <1>3. ~(op'.trades = op.trades)
    BY <1>1
  <1>4. ~(op' = op)
    BY <1>3
  <1>5. op \in Op
    BY DEF TypeOK
  <1>6. /\ Idle.trades = <<>>
        /\ \A m, f, st : Publishing(m, f, st).trades = <<>>
        /\ \A m, o, leg : Matching(m, o, leg).trades = <<>>
    BY DEF Idle, Publishing, Matching
  <1>7. ~UNCHANGED vars /\ ~Tick /\ ~ExpireDayOrders
    BY <1>2, <1>4 DEF vars, Tick, ExpireDayOrders, Idle
  <1>8. ASSUME NEW s \in Session, RegisterSession(s) \/ SessionDisconnect(s)
        PROVE  FALSE
    BY <1>2, <1>4, <1>8 DEF RegisterSession, SessionDisconnect, Idle
  <1>9. ASSUME NEW s \in Session, Request(s)
        PROVE  FALSE
    <2>1. ASSUME NEW id, NEW i, NEW side, NEW type, NEW price, NEW qty,
                 CreateOrder(s, id, i, side, type, price, qty)
          PROVE  FALSE
      BY <1>2, <1>6, <2>1 DEF CreateOrder
    <2>2. ASSUME NEW orig, NEW id, NEW type, NEW price, NEW qty,
                 ModifyOrder(s, orig, id, type, price, qty)
          PROVE  FALSE
      <3>1. \/ op' = Publishing("replace", None, FALSE)
            \/ op' = Matching("replace", Replacement(orders[s][orig], id, type, price, qty), None)
        BY <2>2 DEF ModifyOrder
      <3> QED
        BY <1>2, <1>6, <3>1
    <2>3. ASSUME NEW orig, CancelOrder(s, orig)
          PROVE  FALSE
      <3>1. \E o : op' = Publishing("cancel", o, TRUE)
        BY <2>3, Zenon DEF CancelOrder
      <3> QED
        BY <1>2, <1>6, <3>1
    <2>4. ASSUME NEW i, NEW bid, NEW ask, NEW bidQty, NEW askQty,
                 Quote(s, i, bid, bidQty, ask, askQty)
          PROVE  FALSE
      <3>1. \/ op' = Publishing("quote", None, FALSE)
            \/ \E o, leg : op' = Matching("quote", o, leg)
        BY <2>4, Zenon DEF Quote
      <3> QED
        BY <1>2, <1>6, <3>1
    <2> QED
      BY <1>9, <2>1, <2>2, <2>3, <2>4 DEF Request
  <1>10. ~DropOrder /\ ~DropQuote /\ ~DropDone /\ ~ExpireDone /\ ~Finish
    BY <1>2, <1>4, <1>6 DEF DropOrder, DropQuote, DropDone, ExpireDone, Finish
  <1>11. ASSUME NEW s, NEW id, ExpireOrder(s, id)
         PROVE  FALSE
    BY <1>3, <1>5, <1>11 DEF ExpireOrder, Op
  <1>12. ASSUME NEW i, Publish(i)
         PROVE  FALSE
    BY <1>4, <1>12 DEF Publish
  <1>13. ~PublishDone /\ ~MatchDone
    BY <1>3, <1>5 DEF PublishDone, MatchDone, Op
  <1>14. ~Report
    <2>1. op.trades # <<>> => Len(Tail(op.trades)) <= Len(op.trades)
      BY <1>1
    <2> QED
      BY <1>1, <1>5, <2>1 DEF Report, Op
  <1>15. Continue
    BY <1>7, <1>8, <1>9 DEF Next
  <1> QED
    BY <1>10, <1>11, <1>12, <1>13, <1>14, <1>15 DEF Continue

\* match_trades takes on each side the order that price-time priority puts
\* first, for every history of inserts, fills, removals and replacements.
THEOREM PriorityKept == Spec => PriceTimePriority
  <1> DEFINE Priority ==
        Len(op'.trades) > Len(op.trades) =>
          LET t == op'.trades[Len(op'.trades)]
          IN  \A e \in books[t.buyer.inst].entries :
                 ~Precedes(e.order, IF e.order.side = "Buy" THEN t.buyer ELSE t.seller)
  <1>1. TypeOK /\ EngineInv /\ QueueInv /\ [Next]_vars => Priority
    <2> SUFFICES ASSUME TypeOK, EngineInv, QueueInv, [Next]_vars,
                        Len(op'.trades) > Len(op.trades)
                 PROVE  LET t == op'.trades[Len(op'.trades)]
                        IN  \A e \in books[t.buyer.inst].entries :
                              ~Precedes(e.order, IF e.order.side = "Buy" THEN t.buyer
                                                                         ELSE t.seller)
      OBVIOUS
    <2> DEFINE i == op.incoming.inst
    <2>1. PICK bid \in Top(books[i], "Buy"), ask \in Top(books[i], "Sell") :
            op' = [op EXCEPT !.trades = Append(@, TradeOf(bid.order, ask.order))]
      BY OnlyMatchTrades DEF Match
    <2> DEFINE t == TradeOf(bid.order, ask.order)
    <2>2. i \in Instrument
      BY OnlyMatchTrades DEF Match, TypeOK, EngineInv, OpShape, Op, Order
    <2>3. /\ books[i] \in Book /\ Ordered(books[i])
          /\ bid \in books[i].entries /\ ask \in books[i].entries
      BY <2>2 DEF TypeOK, QueueInv, Top, SideOf
    <2>4. SameOrder(t.buyer, bid.order) /\ SameOrder(t.seller, ask.order)
      BY <2>3, BookFacts, TradeKeeps
    <2>5. t.buyer.inst = i
      BY <2>2, <2>3, <2>4 DEF EngineInv, EntriesOwned, SameOrder
    <2>6. op'.trades[Len(op'.trades)] = t
      BY <2>1 DEF TypeOK, Op
    <2>7. \A e \in books[i].entries : e \in SideOf(books[i], "Buy") \/ e \in SideOf(books[i], "Sell")
      BY <2>2, EntryFacts DEF SideOf, Side
    <2> HIDE DEF t, i
    <2> QED
      BY <2>3, <2>4, <2>5, <2>6, <2>7, TopIsFirst DEF SideOf, Side
  <1>2. Spec => []QueueInv
    BY QueueInit, QueueStep, TypeCorrect, EngineSafe, PTL DEF Spec
  <1>3. [](TypeOK /\ EngineInv /\ QueueInv) /\ [][Next]_vars => [][Priority]_vars
    BY <1>1, PTL
  <1> QED
    BY <1>2, <1>3, TypeCorrect, EngineSafe, PTL DEF Spec, PriceTimePriority

-----------------------------------------------------------------------------
(* Snapshots *)

\* The slot of instrument i shows the book as it is.
Shown(i) == published[i].depth = Depth(books[i]) /\ published[i].stats = stats[i]

\* A book that its slot does not show is marked dirty, or being matched; between
\* methods, and while fills are reported, none is dirty.
SnapshotInv ==
    /\ \A i \in Instrument :
         pending[i] # 0 \/ (op.phase = "match" /\ op.incoming.inst = i) \/ Shown(i)
    /\ op.phase \in {"idle", "report"} => \A i \in Instrument : pending[i] = 0

\* Steps that leave books, statistics and slots alone.
LEMMA QuietSnapshot ==
  ASSUME SnapshotInv, UNCHANGED <<books, pending, stats, published>>, op.phase # "match",
         op'.phase \in {"idle", "report"} =>
            op.phase \in {"idle", "report"} \/ \A i \in Instrument : pending[i] = 0
  PROVE  SnapshotInv'
  BY DEF SnapshotInv, Shown

\* Steps that change one book and mark it dirty.
LEMMA DirtySnapshot ==
  ASSUME TypeOK, SnapshotInv, NEW i \in Instrument, RecordMarketData(i), stats' = stats,
         \A j \in Instrument : j # i => books'[j] = books[j],
         op.phase = "match" => op.incoming.inst = i,
         op'.phase \notin {"idle", "report"}
  PROVE  SnapshotInv'
  <1>1. /\ pending'[i] # 0 /\ published' = published
        /\ \A j \in Instrument : j # i => pending'[j] = pending[j]
    BY DEF RecordMarketData, TypeOK
  <1>2. \A j \in Instrument : j # i => (Shown(j)' <=> Shown(j))
    BY <1>1 DEF Shown
  <1> QED
    BY <1>1, <1>2 DEF SnapshotInv

\* Steps that change the book that is being matched.
LEMMA MatchingSnapshot ==
  ASSUME SnapshotInv, NEW i \in Instrument, UNCHANGED <<pending, published>>,
         \A j \in Instrument : j # i => books'[j] = books[j] /\ stats'[j] = stats[j],
         op.phase = "match" => op.incoming.inst = i,
         op'.phase = "match", op'.incoming.inst = i
  PROVE  SnapshotInv'
  <1>1. \A j \in Instrument : j # i => (Shown(j)' <=> Shown(j))
    BY DEF Shown
  <1> QED
    BY <1>1 DEF SnapshotInv

LEMMA RemovalsSnapshot ==
  ASSUME TypeOK, EngineInv, SnapshotInv,
         \/ DropOrder \/ DropQuote
         \/ \E s \in Session, id \in OrderId : ExpireOrder(s, id) \/ CancelOrder(s, id)
  PROVE  SnapshotInv'
  <1>1. \A s \in Session, id \in OrderId : orders[s][id] # None => orders[s][id].inst \in Instrument
    BY MirrorFacts
  <1>2. op.leaving \subseteq Session
    BY DEF TypeOK, Op
  <1>3. books \in [Instrument -> Book] /\ op \in Op
    BY DEF TypeOK
  <1>4. CASE DropOrder
    <2>1. PICK s \in op.leaving, id \in OrderId :
            /\ orders[s][id] # None /\ RecordMarketData(orders[s][id].inst)
            /\ books' = [books EXCEPT ![orders[s][id].inst] =
                   Remove(@, s, id, orders[s][id].side, orders[s][id].price)]
      BY <1>4 DEF DropOrder
    <2>2. op.phase = "drop" /\ op' = op /\ stats' = stats
      BY <1>4 DEF DropOrder
    <2> QED
      BY <1>1, <1>2, <1>3, <2>1, <2>2, DirtySnapshot
  <1>5. CASE DropQuote
    <2>1. PICK s \in op.leaving, i \in Instrument :
            /\ RecordMarketData(i)
            /\ books' = [books EXCEPT ![i] = WithoutQuote(@, s, quotes[s][i])]
      BY <1>5 DEF DropQuote
    <2>2. op.phase = "drop" /\ op' = op /\ stats' = stats
      BY <1>5 DEF DropQuote
    <2> QED
      BY <1>3, <2>1, <2>2, DirtySnapshot
  <1>6. ASSUME NEW s \in Session, NEW id \in OrderId, ExpireOrder(s, id)
        PROVE  SnapshotInv'
    <2>1. op.phase = "expire" /\ op'.phase = "expire" /\ stats' = stats
      BY <1>3, <1>6 DEF ExpireOrder, Op
    <2>2. \/ UNCHANGED <<books, pending, published>>
          \/ /\ orders[s][id] # None /\ RecordMarketData(orders[s][id].inst)
             /\ books' = [books EXCEPT ![orders[s][id].inst] =
                   Remove(@, s, id, orders[s][id].side, orders[s][id].price)]
      BY <1>6 DEF ExpireOrder
    <2> QED
      BY <1>1, <1>3, <2>1, <2>2, QuietSnapshot, DirtySnapshot
  <1>7. ASSUME NEW s \in Session, NEW id \in OrderId, CancelOrder(s, id)
        PROVE  SnapshotInv'
    <2> DEFINE i == orders[s][id].inst
    <2>1. op = Idle /\ i \in Instrument /\ stats' = stats /\ RecordMarketData(i)
      BY <1>1, <1>7 DEF CancelOrder
    <2>2. PICK e : /\ books' = [books EXCEPT ![i] = Drop(books[i], e)]
                   /\ op' = Publishing("cancel", [e.order EXCEPT !.state = "Cancelled"], TRUE)
      BY <1>7, Zenon DEF CancelOrder
    <2>3. op.phase = "idle" /\ op'.phase = "publish"
      BY <2>1, <2>2 DEF Publishing, Idle
    <2> HIDE DEF i
    <2> QED
      BY <1>3, <2>1, <2>2, <2>3, DirtySnapshot
  <1> QED
    BY <1>4, <1>5, <1>6, <1>7

LEMMA RequestsSnapshot ==
  ASSUME TypeOK, EngineInv, SnapshotInv, NEW s \in Session, Request(s)
  PROVE  SnapshotInv'
  <1>1. books \in [Instrument -> Book] /\ op \in Op
    BY DEF TypeOK
  <1>2. /\ Idle.phase = "idle"
        /\ \A m, f, st : Publishing(m, f, st).phase = "publish"
        /\ \A m, o, leg : Matching(m, o, leg).phase = "match" /\ Matching(m, o, leg).incoming = o
    BY DEF Idle, Publishing, Matching
  <1>3. ASSUME NEW id \in OrderId, NEW i \in Instrument, NEW side, NEW type, NEW price, NEW qty,
               CreateOrder(s, id, i, side, type, price, qty)
        PROVE  SnapshotInv'
    <2> DEFINE o == NewOrder(s, id, i, side, type, price, qty, next_arrival + 1)
    <2>1. /\ op = Idle /\ op' = Matching("create", o, None)
          /\ UNCHANGED <<pending, stats, published>>
          /\ books' = [books EXCEPT ![i] = Insert(@, Booked(o))]
      BY <1>3 DEF CreateOrder, market_data
    <2>2. o.inst = i
      BY DEF NewOrder
    <2> HIDE DEF o
    <2> QED
      BY <1>1, <1>2, <2>1, <2>2, MatchingSnapshot
  <1>4. ASSUME NEW orig \in OrderId, NEW id, NEW type, NEW price, NEW qty,
               ModifyOrder(s, orig, id, type, price, qty)
        PROVE  SnapshotInv'
    <2> DEFINE i == orders[s][orig].inst
    <2>1. op = Idle /\ orders[s][orig] # None /\ RecordMarketData(i) /\ stats' = stats
      BY <1>4 DEF ModifyOrder
    <2>2. \E b : books' = [books EXCEPT ![i] = b]
      BY <1>4, Zenon DEF ModifyOrder
    <2>3. \/ op' = Publishing("replace", None, FALSE)
          \/ op' = Matching("replace", Replacement(orders[s][orig], id, type, price, qty), None)
      BY <1>4 DEF ModifyOrder
    <2>4. i \in Instrument
      BY <2>1, MirrorFacts
    <2> HIDE DEF i
    <2>5. \A j \in Instrument : j # i => books'[j] = books[j]
      BY <1>1, <2>2
    <2>6. op.phase = "idle" /\ op'.phase \in {"publish", "match"}
      <3>1. op.phase = "idle"
        BY <1>2, <2>1
      <3>2. CASE op' = Publishing("replace", None, FALSE)
        BY <3>1, <3>2 DEF Publishing, Idle
      <3>3. CASE op' = Matching("replace", Replacement(orders[s][orig], id, type, price, qty), None)
        BY <3>1, <3>3 DEF Matching, Idle
      <3> QED
        BY <2>3, <3>1, <3>2, <3>3
    <2> QED
      BY <2>1, <2>4, <2>5, <2>6, DirtySnapshot
  <1>5. ASSUME NEW i \in Instrument, NEW bid, NEW ask, NEW bidQty, NEW askQty,
               Quote(s, i, bid, bidQty, ask, askQty)
        PROVE  SnapshotInv'
    <2>1. op = Idle /\ stats' = stats /\ published' = published
      BY <1>5 DEF Quote
    <2>2. \E b : books' = [books EXCEPT ![i] = b]
      BY <1>5, Zenon DEF Quote
    <2>3. \/ \E side, price, qty, arrival, leg :
                /\ op' = Matching("quote", QuoteLeg(s, i, side, price, qty, arrival), leg)
                /\ pending' = pending
          \/ op' = Publishing("quote", None, FALSE) /\ RecordMarketData(i)
      BY <1>5, Zenon DEF Quote
    <2>4. \A j \in Instrument : j # i => books'[j] = books[j] /\ stats'[j] = stats[j]
      BY <1>1, <2>1, <2>2
    <2>5. \A side, price, qty, arrival : QuoteLeg(s, i, side, price, qty, arrival).inst = i
      BY DEF QuoteLeg, NewOrder
    <2>6. op.phase = "idle"
      BY <1>2, <2>1
    <2>7. CASE op' = Publishing("quote", None, FALSE) /\ RecordMarketData(i)
      BY <1>2, <2>1, <2>4, <2>6, <2>7, DirtySnapshot
    <2>8. CASE op'.phase = "match" /\ op'.incoming.inst = i /\ pending' = pending
      BY <2>1, <2>4, <2>6, <2>8, MatchingSnapshot
    <2>9. ASSUME NEW side, NEW price, NEW qty, NEW arrival, NEW leg,
                 op' = Matching("quote", QuoteLeg(s, i, side, price, qty, arrival), leg)
          PROVE  op'.phase = "match" /\ op'.incoming.inst = i
      BY <1>2, <2>5, <2>9
    <2> QED
      BY <2>3, <2>7, <2>8, <2>9
  <1>6. ASSUME NEW orig \in OrderId, CancelOrder(s, orig)
        PROVE  SnapshotInv'
    BY <1>6, RemovalsSnapshot
  <1> QED
    BY <1>3, <1>4, <1>5, <1>6 DEF Request

LEMMA MatchSnapshot ==
  ASSUME TypeOK, EngineInv, SnapshotInv, Match \/ MatchDone
  PROVE  SnapshotInv'
  <1> DEFINE i == op.incoming.inst
  <1>1. op.phase = "match" /\ op \in Op /\ i \in Instrument /\ books \in [Instrument -> Book]
        /\ stats \in [Instrument -> Statistics]
    BY DEF Match, MatchDone, TypeOK, EngineInv, OpShape, Op, Order
  <1>2. CASE Match
    <2>1. /\ UNCHANGED <<pending, published>>
          /\ \E tr : op' = [op EXCEPT !.trades = tr]
          /\ \E b : books' = [books EXCEPT ![i] = b]
          /\ \E st : stats' = [stats EXCEPT ![i] = st]
      BY <1>2 DEF Match
    <2>2. op'.phase = "match" /\ op'.incoming = op.incoming
      BY <1>1, <2>1 DEF Op
    <2> HIDE DEF i
    <2>3. \A j \in Instrument : j # i => books'[j] = books[j] /\ stats'[j] = stats[j]
      BY <1>1, <2>1
    <2> QED
      BY <1>1, <2>1, <2>2, <2>3, MatchingSnapshot DEF i
  <1>3. CASE MatchDone
    <2>1. stats' = stats /\ \E b : books' = [books EXCEPT ![i] = b]
      BY <1>3, Zenon DEF MatchDone
    <2>2. \/ /\ op.askLeg # None
             /\ op' = [op EXCEPT !.incoming = op.askLeg, !.askLeg = None]
             /\ UNCHANGED <<pending, published>>
          \/ /\ \E o, st : op' = [op EXCEPT !.phase = "publish", !.incoming = None,
                                            !.final = o, !.status = st]
             /\ RecordMarketData(i)
      BY <1>3, Zenon DEF MatchDone
    <2>3. op.askLeg # None => op.askLeg.inst = i
      BY DEF EngineInv, OpShape
    <2> HIDE DEF i
    <2>4. \A j \in Instrument : j # i => books'[j] = books[j] /\ stats'[j] = stats[j]
      BY <1>1, <2>1
    <2>5. CASE op.askLeg # None /\ op' = [op EXCEPT !.incoming = op.askLeg, !.askLeg = None]
               /\ UNCHANGED <<pending, published>>
      <3>1. op'.phase = "match" /\ op'.incoming.inst = i
        BY <1>1, <2>3, <2>5 DEF Op
      <3> QED
        BY <1>1, <2>4, <2>5, <3>1, MatchingSnapshot DEF i
    <2>6. CASE /\ \E o, st : op' = [op EXCEPT !.phase = "publish", !.incoming = None,
                                              !.final = o, !.status = st]
               /\ RecordMarketData(i)
      <3>1. op'.phase = "publish"
        BY <1>1, <2>6 DEF Op
      <3> QED
        BY <1>1, <2>1, <2>4, <2>6, <3>1, DirtySnapshot DEF i
    <2> QED
      BY <2>2, <2>5, <2>6
  <1> QED
    BY <1>2, <1>3, Zenon

LEMMA PublishSnapshot ==
  ASSUME TypeOK, SnapshotInv, NEW i \in Instrument, Publish(i)
  PROVE  SnapshotInv'
  <1>1. /\ op.phase = "publish" /\ UNCHANGED <<books, stats, op>>
        /\ published' = [published EXCEPT ![i] =
              [version |-> pending[i], depth |-> Depth(books[i]), stats |-> stats[i]]]
        /\ pending' = [pending EXCEPT ![i] = 0]
    BY DEF Publish
  <1>2. /\ published'[i] = [version |-> pending[i], depth |-> Depth(books[i]), stats |-> stats[i]]
        /\ \A j \in Instrument : j # i => published'[j] = published[j] /\ pending'[j] = pending[j]
    BY <1>1 DEF TypeOK
  <1>3. Shown(i)' /\ \A j \in Instrument : j # i => (Shown(j)' <=> Shown(j))
    BY <1>1, <1>2 DEF Shown
  <1> QED
    BY <1>1, <1>2, <1>3 DEF SnapshotInv

LEMMA SnapshotInit == Init => SnapshotInv
  BY DEF Init, EmptyBook, NoSnapshot, Depth, SnapshotInv, Shown

LEMMA SnapshotStep == TypeOK /\ EngineInv /\ SnapshotInv /\ [Next]_vars => SnapshotInv'
  <1> SUFFICES ASSUME TypeOK, EngineInv, SnapshotInv, [Next]_vars PROVE SnapshotInv'
    OBVIOUS
  <1>1. Idle.phase = "idle" /\ \A m, f, st : Publishing(m, f, st).phase = "publish"
    BY DEF Idle, Publishing
  <1>2. op \in Op
    BY DEF TypeOK
  <1>3. CASE UNCHANGED vars
    BY <1>3 DEF vars, market_data, SnapshotInv, Shown
  <1>4. ASSUME NEW s \in Session, RegisterSession(s) \/ SessionDisconnect(s)
        PROVE  SnapshotInv'
    BY <1>1, <1>4, QuietSnapshot DEF RegisterSession, SessionDisconnect, market_data, Idle
  <1>5. CASE Tick \/ ExpireDayOrders
    BY <1>1, <1>5, QuietSnapshot DEF Tick, ExpireDayOrders, market_data, Idle
  <1>6. CASE DropDone \/ ExpireDone
    BY <1>1, <1>6, QuietSnapshot DEF DropDone, ExpireDone, market_data
  <1>7. CASE PublishDone \/ Report
    <2>1. op'.phase = "report" /\ UNCHANGED <<books, market_data>>
      BY <1>2, <1>7 DEF PublishDone, Report, Op
    <2>2. op.phase = "report" \/ (op.phase = "publish" /\ \A i \in Instrument : pending[i] = 0)
      BY <1>7 DEF PublishDone, Report
    <2> QED
      BY <2>1, <2>2, QuietSnapshot DEF market_data
  <1>8. CASE Finish
    BY <1>1, <1>8, QuietSnapshot DEF Finish, market_data
  <1> QED
    BY <1>3, <1>4, <1>5, <1>6, <1>7, <1>8, RemovalsSnapshot, RequestsSnapshot, MatchSnapshot,
       PublishSnapshot DEF Next, Continue

\* What readers see between methods, and while fills are reported.
LEMMA SnapshotMeans == SnapshotInv => SnapshotCurrent
  <1> SUFFICES ASSUME SnapshotInv, NEW i \in Instrument
               PROVE  /\ op = Idle => published[i].depth = Depth(books[i])
                      /\ op = Idle \/ op.phase = "report" => published[i].stats = stats[i]
    BY DEF SnapshotCurrent
  <1>1. op = Idle => op.phase = "idle"
    BY IdleFacts
  <1> QED
    BY <1>1 DEF SnapshotInv, Shown

\* Every method that changes a book leaves its snapshot behind, whatever other
\* books, removals or fills it had to do with, and publishes before it reports.
THEOREM SnapshotsAreCurrent == Spec => []SnapshotCurrent
  <1>1. SnapshotInv => SnapshotCurrent
    BY SnapshotMeans
  <1> QED
    BY <1>1, SnapshotInit, SnapshotStep, TypeCorrect, EngineSafe, PTL DEF Spec

-----------------------------------------------------------------------------
(* The mirror *)

\* c is a copy of the order id of session s.
Mine(c, s, id) == c.session = s /\ c.id = id

\* The entries of the order that session s calls id.
EntriesOf(bs, s, id) ==
    UNION {{e \in bs[i].entries : Mine(e.order, s, id)} : i \in Instrument}

\* The copies of that order in a trade, and whether it is in none of them.
Copies(t, s, id) == {c \in {t.buyer, t.seller} : Mine(c, s, id)}

Untraded(ts, s, id) == \A n \in DOMAIN ts : Copies(ts[n], s, id) = {}

\* c is the copy of that order in the last trade it was party to.
LastCopy(ts, s, id, c) ==
    \E n \in DOMAIN ts :
        /\ c \in Copies(ts[n], s, id)
        /\ \A k \in DOMAIN ts : k > n => Copies(ts[k], s, id) = {}

IsFinal(w, s, id) == w.final # None /\ Mine(w.final, s, id)

\* What the book holds of an order that has not traded in the method w, when
\* the mirror holds o: add() books the incoming order before anything else.
Base(o, w, s, id) ==
    IF w.phase = "match" /\ Mine(w.incoming, s, id) THEN Booked(w.incoming) ELSE o

\* c is what the mirror will hold when w has reported its trades and synced its
\* final state.
Latest(o, w, s, id, c) ==
    \/ IsFinal(w, s, id) /\ c = w.final
    \/ ~IsFinal(w, s, id) /\ LastCopy(w.trades, s, id, c)
    \/ ~IsFinal(w, s, id) /\ Untraded(w.trades, s, id) /\ c = Base(o, w, s, id)

\* The order that session s calls id has the entries E and the mirror o.  Its
\* entry is its latest copy, and without one it is over in its latest copy; it
\* is active in the mirror and in every copy but the last; and a final state
\* that is synced last is no news to a terminal order.
Tracked(E, o, w, s, id) ==
    /\ \A e \in E :
         /\ Latest(o, w, s, id, e.order) /\ IsActive(o.state)
         /\ \A n \in DOMAIN w.trades : \A c \in Copies(w.trades[n], s, id) : IsActive(c.state)
    /\ E = {} => o = None \/ \E c : Latest(o, w, s, id, c) /\ ~IsActive(c.state)
    /\ \A n \in DOMAIN w.trades : \A c \in Copies(w.trades[n], s, id) :
         /\ IsActive(o.state)
         /\ \A k \in DOMAIN w.trades : k > n /\ Copies(w.trades[k], s, id) # {} => IsActive(c.state)
    /\ IsFinal(w, s, id) =>
         /\ ~IsActive(o.state) => o = w.final
         /\ \A n \in DOMAIN w.trades : \A c \in Copies(w.trades[n], s, id) :
              ~IsActive(c.state) => c = w.final

\* Buyers bought, sellers sold, and a party with nothing open is done.
TradesShaped ==
    \A n \in DOMAIN op.trades :
        /\ op.trades[n].buyer.side = "Buy" /\ op.trades[n].seller.side = "Sell"
        /\ op.trades[n].buyer.remaining = 0 => ~IsActive(op.trades[n].buyer.state)
        /\ op.trades[n].seller.remaining = 0 => ~IsActive(op.trades[n].seller.state)

IncomingShaped ==
    /\ op.phase = "match" => Known(op.incoming) /\ op.final = None
    /\ op.askLeg # None => op.incoming.id = QuoteId

\* The inductive invariant of mirror and book.
MirrorInv ==
    /\ TradesShaped /\ IncomingShaped
    /\ \A s \in sessions, id \in OrderId :
         Tracked(EntriesOf(books, s, id), orders[s][id], op, s, id)

\* Without trades and a final state there is one record of an order.
LEMMA PlainTracked ==
  ASSUME NEW E, NEW o, NEW w, NEW s, NEW id, w.trades = <<>>, w.final = None
  PROVE  LET b == Base(o, w, s, id)
         IN  Tracked(E, o, w, s, id) <=>
               /\ \A e \in E : e.order = b /\ IsActive(o.state)
               /\ E = {} => o = None \/ ~IsActive(b.state)
  <1>1. DOMAIN w.trades = {}
    OBVIOUS
  <1>2. ~IsFinal(w, s, id)
    BY DEF IsFinal
  <1>3. \A c : Latest(o, w, s, id, c) <=> c = Base(o, w, s, id)
    BY <1>1, <1>2 DEF Latest, LastCopy, Untraded
  <1> QED
    BY <1>1, <1>2, <1>3 DEF Tracked

\* What a method leaves alone.
LEMMA SameTracked ==
  ASSUME NEW E, NEW o, NEW w, NEW v, NEW s, NEW id, Tracked(E, o, w, s, id),
         v.trades = w.trades, IsFinal(v, s, id) <=> IsFinal(w, s, id),
         IsFinal(v, s, id) => v.final = w.final, Base(o, v, s, id) = Base(o, w, s, id)
  PROVE  Tracked(E, o, v, s, id)
  <1>1. \A c : Latest(o, v, s, id, c) <=> Latest(o, w, s, id, c)
    BY DEF Latest
  <1> QED
    BY <1>1 DEF Tracked

\* One more trade.
LEMMA TradedTracked ==
  ASSUME NEW ts, ts \in Seq(Trade), NEW t \in Trade, NEW s, NEW id
  PROVE  /\ Append(ts, t) \in Seq(Trade)
         /\ DOMAIN Append(ts, t) = 1..(Len(ts) + 1) /\ DOMAIN ts = 1..Len(ts) /\ Len(ts) \in Nat
         /\ \A n \in DOMAIN ts : Append(ts, t)[n] = ts[n]
         /\ Append(ts, t)[Len(ts) + 1] = t
         /\ \A c \in Copies(t, s, id) : LastCopy(Append(ts, t), s, id, c)
         /\ Copies(t, s, id) = {} =>
              /\ \A c : LastCopy(ts, s, id, c) => LastCopy(Append(ts, t), s, id, c)
              /\ Untraded(ts, s, id) => Untraded(Append(ts, t), s, id)
  <1> DEFINE us == Append(ts, t)
             l == Len(ts)
  <1>1. /\ us \in Seq(Trade) /\ DOMAIN us = 1..(l + 1) /\ DOMAIN ts = 1..l /\ l \in Nat
        /\ \A n \in DOMAIN ts : us[n] = ts[n]
        /\ us[l + 1] = t
    OBVIOUS
  <1> HIDE DEF us, l
  <1>2. l + 1 \in DOMAIN us /\ \A k \in DOMAIN us : ~(k > l + 1) /\ (k \in DOMAIN ts \/ k = l + 1)
    BY <1>1
  <1>3. \A c \in Copies(t, s, id) : LastCopy(us, s, id, c)
    BY <1>1, <1>2 DEF LastCopy
  <1>4. ASSUME Copies(t, s, id) = {}, NEW c, LastCopy(ts, s, id, c)
        PROVE  LastCopy(us, s, id, c)
    <2>1. PICK n \in DOMAIN ts : /\ c \in Copies(ts[n], s, id)
                                 /\ \A k \in DOMAIN ts : k > n => Copies(ts[k], s, id) = {}
      BY <1>4 DEF LastCopy
    <2>2. n \in DOMAIN us /\ us[n] = ts[n]
      BY <1>1
    <2>3. \A k \in DOMAIN us : k > n => Copies(us[k], s, id) = {}
      BY <1>1, <1>2, <1>4, <2>1
    <2> QED
      BY <2>1, <2>2, <2>3 DEF LastCopy
  <1>5. Copies(t, s, id) = {} /\ Untraded(ts, s, id) => Untraded(us, s, id)
    BY <1>1, <1>2 DEF Untraded
  <1> QED
    BY <1>1, <1>3, <1>4, <1>5 DEF us, l

\* The first trade is reported.
LEMMA ReportedTracked ==
  ASSUME NEW ts, ts \in Seq(Trade), ts # <<>>, NEW s, NEW id
  PROVE  /\ 1 \in DOMAIN ts
         /\ \A n \in DOMAIN Tail(ts) :
              n \in Nat /\ n > 0 /\ n + 1 \in DOMAIN ts /\ Tail(ts)[n] = ts[n + 1]
         /\ \A c : LastCopy(ts, s, id, c) =>
              \/ LastCopy(Tail(ts), s, id, c)
              \/ Untraded(Tail(ts), s, id) /\ c \in Copies(ts[1], s, id)
         /\ Untraded(ts, s, id) => Untraded(Tail(ts), s, id) /\ Copies(ts[1], s, id) = {}
  <1> DEFINE us == Tail(ts)
  <1>1. /\ 1 \in DOMAIN ts /\ DOMAIN ts \subseteq Nat \ {0}
        /\ \A n \in DOMAIN us : n \in Nat /\ n > 0 /\ n + 1 \in DOMAIN ts /\ us[n] = ts[n + 1]
        /\ \A n \in DOMAIN ts : n # 1 => n - 1 \in DOMAIN us
    OBVIOUS
  <1> HIDE DEF us
  <1>2. ASSUME NEW c, LastCopy(ts, s, id, c)
        PROVE  \/ LastCopy(us, s, id, c)
               \/ Untraded(us, s, id) /\ c \in Copies(ts[1], s, id)
    <2>1. PICK n \in DOMAIN ts : /\ c \in Copies(ts[n], s, id)
                                 /\ \A k \in DOMAIN ts : k > n => Copies(ts[k], s, id) = {}
      BY <1>2 DEF LastCopy
    <2>2. CASE n = 1
      BY <1>1, <2>1, <2>2 DEF Untraded
    <2>3. CASE n # 1
      <3>1. n - 1 \in DOMAIN us /\ us[n - 1] = ts[n]
        <4>1. n - 1 \in DOMAIN us /\ n \in Nat
          BY <1>1, <2>3
        <4>2. (n - 1) + 1 = n
          BY <4>1
        <4> QED
          BY <1>1, <4>1, <4>2
      <3>2. \A k \in DOMAIN us : k > n - 1 => Copies(us[k], s, id) = {}
        BY <1>1, <2>1
      <3> QED
        BY <2>1, <3>1, <3>2 DEF LastCopy
    <2> QED
      BY <2>2, <2>3
  <1>3. Untraded(ts, s, id) => Untraded(us, s, id) /\ Copies(ts[1], s, id) = {}
    BY <1>1 DEF Untraded
  <1> QED
    BY <1>1, <1>2, <1>3 DEF us

LEMMA EntryOf ==
  ASSUME NEW bs, NEW s, NEW id, NEW e
  PROVE  e \in EntriesOf(bs, s, id) <=>
            \E i \in Instrument : e \in bs[i].entries /\ Mine(e.order, s, id)
  BY DEF EntriesOf

\* A method that touches one book moves only the orders it is about.
LEMMA SameEntries ==
  ASSUME NEW s, NEW id,
         \A i \in Instrument : \A e :
            Mine(e.order, s, id) => (e \in books'[i].entries <=> e \in books[i].entries)
  PROVE  EntriesOf(books', s, id) = EntriesOf(books, s, id)
  <1>1. ASSUME NEW e
        PROVE  e \in EntriesOf(books', s, id) <=> e \in EntriesOf(books, s, id)
    BY EntryOf
  <1> QED
    BY <1>1

\* An entry that is not the one looked for stays.
LEMMA RemoveOthers ==
  ASSUME NEW b \in Book, NEW s, NEW id, NEW side, NEW price, NEW e,
         ~Mine(e.order, s, id)
  PROVE  e \in Remove(b, s, id, side, price).entries <=> e \in b.entries
  <1>1. \A f \in Located(b, s, id, side, price) : f # e
    BY DEF Located, Mine
  <1> QED
    BY <1>1 DEF Remove, Drop

\* A step that leaves no trades and no final state behind, order by order.
LEMMA PlainStep ==
  ASSUME MirrorInv, op.phase # "match", op.trades = <<>>, op.final = None,
         op'.trades = <<>>, op'.final = None, IncomingShaped',
         \A s \in sessions', id \in OrderId :
            \/ /\ s \in sessions /\ EntriesOf(books', s, id) = EntriesOf(books, s, id)
               /\ orders'[s][id] = orders[s][id]
               /\ ~(op'.phase = "match" /\ Mine(op'.incoming, s, id))
            \/ /\ EntriesOf(books', s, id) = {}
               /\ orders'[s][id] = None \/ ~IsActive(orders'[s][id].state)
               /\ ~(op'.phase = "match" /\ Mine(op'.incoming, s, id))
            \/ /\ op'.phase = "match" /\ Mine(op'.incoming, s, id)
               /\ EntriesOf(books', s, id) # {} /\ IsActive(orders'[s][id].state)
               /\ \A e \in EntriesOf(books', s, id) : e.order = Booked(op'.incoming)
  PROVE  MirrorInv'
  <1>1. TradesShaped'
    BY DEF TradesShaped
  <1>2. ASSUME NEW s \in sessions', NEW id \in OrderId
        PROVE  Tracked(EntriesOf(books', s, id), orders'[s][id], op', s, id)
    <2> DEFINE E == EntriesOf(books, s, id)
               F == EntriesOf(books', s, id)
               o == orders[s][id]
               p == orders'[s][id]
    <2>1. Base(o, op, s, id) = o
      BY DEF Base
    <2>2. Tracked(F, p, op', s, id) <=>
               /\ \A e \in F : e.order = Base(p, op', s, id) /\ IsActive(p.state)
               /\ F = {} => p = None \/ ~IsActive(Base(p, op', s, id).state)
      BY PlainTracked
    <2>3. CASE /\ s \in sessions /\ F = E /\ p = o
               /\ ~(op'.phase = "match" /\ Mine(op'.incoming, s, id))
      <3>1. Tracked(E, o, op, s, id)
        BY <2>3 DEF MirrorInv
      <3>2. /\ \A e \in E : e.order = o /\ IsActive(o.state)
            /\ E = {} => o = None \/ ~IsActive(o.state)
        BY <2>1, <3>1, PlainTracked
      <3>3. Base(p, op', s, id) = o
        BY <2>3 DEF Base
      <3> QED
        BY <2>2, <2>3, <3>2, <3>3
    <2>4. CASE /\ F = {} /\ (p = None \/ ~IsActive(p.state))
               /\ ~(op'.phase = "match" /\ Mine(op'.incoming, s, id))
      BY <2>2, <2>4 DEF Base
    <2>5. CASE /\ op'.phase = "match" /\ Mine(op'.incoming, s, id)
               /\ F # {} /\ IsActive(p.state) /\ \A e \in F : e.order = Booked(op'.incoming)
      BY <2>2, <2>5 DEF Base
    <2> QED
      BY <2>3, <2>4, <2>5
  <1> QED
    BY <1>1, <1>2 DEF MirrorInv

\* Between the trades of two methods nothing is in hand.
LEMMA NothingInHand ==
  ASSUME EngineInv, op.phase \in {"idle", "drop", "expire"}
  PROVE  op.trades = <<>> /\ op.final = None /\ op.phase # "match" /\ op.askLeg = None
  BY DEF EngineInv, OpShape

\* The steps that only drop orders, or move nothing.
LEMMA RemovalsMirror ==
  ASSUME TypeOK, EngineInv, MirrorInv,
         \/ Tick \/ ExpireDayOrders \/ DropOrder \/ DropQuote \/ DropDone \/ ExpireDone
         \/ \E s \in Session : RegisterSession(s) \/ SessionDisconnect(s)
         \/ \E s \in Session, id \in OrderId : ExpireOrder(s, id)
  PROVE  MirrorInv'
  <1>1. op \in Op /\ \A i \in Instrument : books[i] \in Book
    BY DEF TypeOK
  <1>2. books \in [Instrument -> Book] /\ sessions \subseteq Session
        /\ orders \in [Session -> [OrderId -> Order \cup {None}]]
    BY DEF TypeOK
  <1>3. \A s, id : EntriesOf(books, s, id) = {}
          <=> \A i \in Instrument : \A e \in books[i].entries : ~Mine(e.order, s, id)
    BY DEF EntriesOf
  <1>4. \A i \in Instrument : (\A j \in Instrument : j # i => books'[j] = books[j]) =>
           \A s, id : (\A e : Mine(e.order, s, id) => (e \in books'[i].entries <=> e \in books[i].entries))
                        => EntriesOf(books', s, id) = EntriesOf(books, s, id)
    <2> TAKE i \in Instrument
    <2> HAVE \A j \in Instrument : j # i => books'[j] = books[j]
    <2> TAKE s, id
    <2> HAVE \A e : Mine(e.order, s, id) => (e \in books'[i].entries <=> e \in books[i].entries)
    <2>1. \A j \in Instrument : \A e :
            Mine(e.order, s, id) => (e \in books'[j].entries <=> e \in books[j].entries)
      OBVIOUS
    <2> QED
      BY <2>1, SameEntries
  <1>5. ASSUME op.phase \in {"idle", "drop", "expire"},
               op'.phase # "match", op'.trades = <<>>, op'.final = None, op'.askLeg = None,
               \A s \in sessions', id \in OrderId :
                  \/ /\ s \in sessions /\ EntriesOf(books', s, id) = EntriesOf(books, s, id)
                     /\ orders'[s][id] = orders[s][id]
                  \/ /\ EntriesOf(books', s, id) = {}
                     /\ orders'[s][id] = None \/ ~IsActive(orders'[s][id].state)
        PROVE  MirrorInv'
    <2>1. IncomingShaped'
      BY <1>5 DEF IncomingShaped
    <2> QED
      BY <1>5, <2>1, NothingInHand, PlainStep
  <1>6. ASSUME \/ Tick \/ ExpireDayOrders \/ DropDone \/ ExpireDone
               \/ \E s \in Session : SessionDisconnect(s)
        PROVE  MirrorInv'
    <2>1. /\ op.phase \in {"idle", "drop", "expire"} /\ op'.phase # "match"
          /\ op'.trades = <<>> /\ op'.final = None /\ op'.askLeg = None
      <3>1. CASE Tick
        BY <3>1, IdleFacts DEF Tick
      <3>2. CASE ExpireDayOrders \/ \E s \in Session : SessionDisconnect(s)
        <4>1. /\ op = Idle
              /\ \/ \E x : op' = [Idle EXCEPT !.phase = "expire", !.method = "other", !.expired = x]
                 \/ \E x : op' = [Idle EXCEPT !.phase = "drop", !.method = "other", !.leaving = x]
          BY <3>2, Zenon DEF ExpireDayOrders, SessionDisconnect
        <4> QED
          BY <4>1 DEF Idle
      <3>3. CASE DropDone \/ ExpireDone
        BY <3>3 DEF DropDone, ExpireDone, Publishing, Idle
      <3> QED
        BY <1>6, <3>1, <3>2, <3>3
    <2>2. orders' = orders /\ books' = books /\ sessions' \subseteq sessions
      BY <1>6 DEF Tick, ExpireDayOrders, DropDone, ExpireDone, SessionDisconnect
    <2> QED
      BY <1>5, <2>1, <2>2
  <1>7. ASSUME NEW s \in Session, RegisterSession(s)
        PROVE  MirrorInv'
    <2>1. op = Idle /\ op' = op /\ s \notin sessions /\ sessions' = sessions \cup {s} /\ books' = books
          /\ orders' = [orders EXCEPT ![s] = [id \in OrderId |-> None]]
      BY <1>7 DEF RegisterSession
    <2>2. /\ op.phase = "idle" /\ op.trades = <<>> /\ op.final = None /\ op.askLeg = None
          /\ op.leaving = {}
      BY <2>1, IdleFacts
    <2>3. \A id \in OrderId : EntriesOf(books', s, id) = {}
      BY <1>3, <2>1, <2>2 DEF EngineInv, EntriesOwned, Mine
    <2>4. \A t \in Session, id \in OrderId :
            orders'[t][id] = IF t = s THEN None ELSE orders[t][id]
      BY <1>2, <2>1
    <2> QED
      BY <1>2, <1>5, <2>1, <2>2, <2>3, <2>4
  <1>8. CASE DropOrder
    <2>1. PICK s \in op.leaving, id \in OrderId :
            /\ orders[s][id] # None
            /\ books' = [books EXCEPT ![orders[s][id].inst] =
                            Remove(@, s, id, orders[s][id].side, orders[s][id].price)]
            /\ orders' = [orders EXCEPT ![s][id] = None]
      BY <1>8 DEF DropOrder
    <2>2. op.phase = "drop" /\ op' = op /\ sessions' = sessions
      BY <1>8 DEF DropOrder
    <2>3. s \in Session /\ s \notin sessions
      BY <1>1 DEF EngineInv, OpShape, Op
    <2> DEFINE i == orders[s][id].inst
               b == Remove(books[i], s, id, orders[s][id].side, orders[s][id].price)
    <2>4. i \in Instrument
      BY <2>1, <2>3, MirrorFacts
    <2>5. \A t \in sessions, x \in OrderId : \A e :
             Mine(e.order, t, x) => (e \in b.entries <=> e \in books[i].entries)
      BY <1>1, <2>3, <2>4, RemoveOthers DEF Mine
    <2> HIDE DEF i, b
    <2>6. books'[i] = b /\ \A j \in Instrument : j # i => books'[j] = books[j]
      BY <1>2, <2>1, <2>4 DEF i, b
    <2>7. \A t \in sessions, x \in OrderId :
             /\ EntriesOf(books', t, x) = EntriesOf(books, t, x)
             /\ orders'[t][x] = orders[t][x]
      <3>1. \A t \in sessions, x \in OrderId : EntriesOf(books', t, x) = EntriesOf(books, t, x)
        BY <1>4, <2>4, <2>5, <2>6
      <3>2. \A t \in sessions, x \in OrderId : orders'[t][x] = orders[t][x]
        BY <1>2, <2>1, <2>3
      <3> QED
        BY <3>1, <3>2
    <2> QED
      BY <1>5, <2>2, <2>7, NothingInHand
  <1>9. CASE DropQuote
    <2>1. PICK s \in op.leaving, i \in Instrument :
            books' = [books EXCEPT ![i] = WithoutQuote(@, s, quotes[s][i])]
      BY <1>9 DEF DropQuote
    <2>2. op.phase = "drop" /\ op' = op /\ sessions' = sessions /\ orders' = orders
      BY <1>9 DEF DropQuote
    <2>3. s \in Session
      BY <1>1 DEF Op
    <2> DEFINE b == WithoutQuote(books[i], s, quotes[s][i])
    <2>4. \A t \in sessions, x \in OrderId : \A e :
             Mine(e.order, t, x) => (e \in b.entries <=> e \in books[i].entries)
      BY <2>3, QuoteRemovalHits, QuoteIdAssumption DEF Mine
    <2> HIDE DEF b
    <2>5. books'[i] = b /\ \A j \in Instrument : j # i => books'[j] = books[j]
      BY <1>2, <2>1 DEF b
    <2>6. \A t \in sessions, x \in OrderId : EntriesOf(books', t, x) = EntriesOf(books, t, x)
      BY <1>4, <2>4, <2>5
    <2> QED
      BY <1>5, <2>2, <2>6, NothingInHand
  <1>10. ASSUME NEW s \in Session, NEW id \in OrderId, ExpireOrder(s, id)
         PROVE  MirrorInv'
    <2> DEFINE old == orders[s][id]
               o == [old EXCEPT !.state = "Expired", !.remaining = 0]
               i == old.inst
               b == Remove(books[i], s, id, old.side, old.price)
    <2>1. /\ op.phase = "expire" /\ sessions' = sessions
          /\ op'.phase = "expire" /\ op'.trades = op.trades /\ op'.final = op.final
          /\ op'.askLeg = op.askLeg
      BY <1>1, <1>10 DEF ExpireOrder, Op
    <2>2. \/ UNCHANGED <<books, orders>>
          \/ /\ s \in sessions /\ old # None /\ IsActive(old.state)
             /\ books' = [books EXCEPT ![i] = b] /\ orders' = Synced(orders, o)
      BY <1>10 DEF ExpireOrder
    <2>3. CASE UNCHANGED <<books, orders>>
      BY <1>5, <2>1, <2>3, NothingInHand
    <2>4. CASE /\ s \in sessions /\ old # None
               /\ books' = [books EXCEPT ![i] = b] /\ orders' = Synced(orders, o)
      <3>1. old \in Order /\ i \in Instrument /\ old.session = s /\ old.id = id
        BY <2>4, MirrorFacts
      <3>2. o.session = s /\ o.id = id /\ ~IsActive(o.state)
        BY <3>1 DEF Order, IsActive
      <3>3. \A e : ~Mine(e.order, s, id) => (e \in b.entries <=> e \in books[i].entries)
        BY <1>1, <3>1, RemoveOthers
      <3>4. /\ \A e \in b.entries : ~Mine(e.order, s, id)
            /\ \A j \in Instrument : \A e \in books[j].entries : Mine(e.order, s, id) => j = i
        BY <2>1, <2>4, RemovalHits DEF Mine
      <3> HIDE DEF b, o, i
      <3>5. orders' = [orders EXCEPT ![s][id] = o]
        BY <2>4, <3>2, QuoteIdAssumption DEF Synced
      <3> HIDE DEF old
      <3>6. \A t \in Session, x \in OrderId :
               orders'[t][x] = IF t = s /\ x = id THEN o ELSE orders[t][x]
        BY <1>2, <3>5
      <3>7. EntriesOf(books', s, id) = {}
        <4>1. \A j \in Instrument : \A e \in books'[j].entries : ~Mine(e.order, s, id)
          BY <1>2, <2>4, <3>1, <3>4
        <4> QED
          BY <4>1, EntryOf
      <3>8. \A t \in sessions, x \in OrderId :
               (t = s /\ x = id) \/ EntriesOf(books', t, x) = EntriesOf(books, t, x)
        <4> TAKE t \in sessions, x \in OrderId
        <4>1. t # s \/ x # id => \A e : Mine(e.order, t, x) => ~Mine(e.order, s, id)
          BY DEF Mine
        <4>2. books'[i] = b /\ \A j \in Instrument : j # i => books'[j] = books[j]
          BY <1>2, <2>4, <3>1
        <4> QED
          BY <1>4, <3>1, <3>3, <4>1, <4>2
      <3> QED
        BY <1>2, <1>5, <2>1, <3>2, <3>6, <3>7, <3>8, NothingInHand
    <2> QED
      BY <2>2, <2>3, <2>4
  <1> QED
    BY <1>6, <1>7, <1>8, <1>9, <1>10

\* An order the mirror does not know has no entries.
LEMMA NoEntry ==
  ASSUME EngineInv, NEW s \in Session, NEW id \in OrderId, orders[s][id] = None,
         NEW i \in Instrument, NEW e \in books[i].entries
  PROVE  ~Mine(e.order, s, id)
  BY QuoteIdAssumption DEF EngineInv, EntriesOwned, Known, Mine

\* A request that books the order o: the orders it takes out of the book gone
\* are forgotten or are o itself.
LEMMA BookedStep ==
  ASSUME EngineInv, MirrorInv, op = Idle, sessions' = sessions,
         NEW i \in Instrument, NEW gone, NEW o \in Order, NEW m, NEW leg,
         op' = Matching(m, o, leg), IncomingShaped',
         books'[i] = Insert(gone, Booked(o)),
         \A j \in Instrument : j # i => books'[j] = books[j],
         \A t \in sessions, x \in OrderId :
            \/ /\ orders'[t][x] = orders[t][x] /\ ~Mine(o, t, x)
               /\ \A e : Mine(e.order, t, x) => (e \in gone.entries <=> e \in books[i].entries)
            \/ /\ \A e \in gone.entries : ~Mine(e.order, t, x)
               /\ \A j \in Instrument : \A e \in books[j].entries : Mine(e.order, t, x) => j = i
               /\ IF Mine(o, t, x) THEN IsActive(orders'[t][x].state) ELSE orders'[t][x] = None
  PROVE  MirrorInv'
  <1>1. /\ op.phase = "idle" /\ op.trades = <<>> /\ op.final = None /\ op.phase # "match"
    BY IdleFacts
  <1>2. op'.phase = "match" /\ op'.incoming = o /\ op'.trades = <<>> /\ op'.final = None
    BY DEF Matching, Idle
  <1> DEFINE n == [order |-> Booked(o), key |-> gone.levels[LevelOf(Booked(o))].next]
  <1>3. books'[i].entries = gone.entries \cup {n} /\ n.order = Booked(o)
    BY DEF Insert
  <1>4. Booked(o).session = o.session /\ Booked(o).id = o.id
    BY DEF Booked, Order
  <1> HIDE DEF n
  <1>5. ASSUME NEW t \in sessions, NEW x \in OrderId
        PROVE  \/ /\ EntriesOf(books', t, x) = EntriesOf(books, t, x)
                  /\ orders'[t][x] = orders[t][x] /\ ~Mine(o, t, x)
               \/ /\ EntriesOf(books', t, x) = {} /\ orders'[t][x] = None /\ ~Mine(o, t, x)
               \/ /\ Mine(o, t, x) /\ EntriesOf(books', t, x) # {} /\ IsActive(orders'[t][x].state)
                  /\ \A e \in EntriesOf(books', t, x) : e.order = Booked(o)
    <2>1. CASE /\ orders'[t][x] = orders[t][x] /\ ~Mine(o, t, x)
               /\ \A e : Mine(e.order, t, x) => (e \in gone.entries <=> e \in books[i].entries)
      <3>1. ~Mine(n.order, t, x)
        BY <1>3, <1>4, <2>1 DEF Mine
      <3>2. \A j \in Instrument : \A e :
              Mine(e.order, t, x) => (e \in books'[j].entries <=> e \in books[j].entries)
        BY <1>3, <2>1, <3>1
      <3> QED
        BY <2>1, <3>2, SameEntries
    <2>2. CASE /\ \A e \in gone.entries : ~Mine(e.order, t, x)
               /\ \A j \in Instrument : \A e \in books[j].entries : Mine(e.order, t, x) => j = i
               /\ IF Mine(o, t, x) THEN IsActive(orders'[t][x].state) ELSE orders'[t][x] = None
      <3>1. \A j \in Instrument : \A e \in books'[j].entries : Mine(e.order, t, x) => j = i /\ e = n
        BY <1>3, <2>2
      <3>2. \A e \in EntriesOf(books', t, x) : e = n /\ Mine(n.order, t, x)
        BY <3>1, EntryOf
      <3>3. Mine(n.order, t, x) => n \in EntriesOf(books', t, x)
        BY <1>3, EntryOf
      <3>4. Mine(n.order, t, x) <=> Mine(o, t, x)
        BY <1>3, <1>4 DEF Mine
      <3> QED
        BY <1>3, <2>2, <3>2, <3>3, <3>4
    <2> QED
      BY <2>1, <2>2
  <1> QED
    BY <1>1, <1>2, <1>5, PlainStep

LEMMA RequestsMirror ==
  ASSUME TypeOK, EngineInv, MirrorInv, NEW s \in Session, NEW id \in OrderId,
         \/ \E i \in Instrument, side \in Side, type \in OrderType, price \in Price,
               qty \in Quantity : CreateOrder(s, id, i, side, type, price, qty)
         \/ \E orig \in OrderId, type \in ReplaceType, price \in Price \cup {0},
               qty \in Quantity : ModifyOrder(s, orig, id, type, price, qty)
  PROVE  MirrorInv'
  <1>1. /\ sessions \subseteq Session /\ orders \in [Session -> [OrderId -> Order \cup {None}]]
        /\ books \in [Instrument -> Book] /\ next_arrival \in Nat
    BY DEF TypeOK
  <1>2. ASSUME NEW i \in Instrument, NEW side \in Side, NEW type \in OrderType, NEW price \in Price,
               NEW qty \in Quantity, CreateOrder(s, id, i, side, type, price, qty)
        PROVE  MirrorInv'
    <2> DEFINE o == NewOrder(s, id, i, side, type, price, qty, next_arrival + 1)
    <2>1. /\ op = Idle /\ sessions' = sessions /\ orders[s][id] = None
          /\ orders' = [orders EXCEPT ![s][id] = o]
          /\ books' = [books EXCEPT ![i] = Insert(@, Booked(o))]
          /\ op' = Matching("create", o, None)
      BY <1>2 DEF CreateOrder
    <2>2. o \in Order /\ o.session = s /\ o.id = id /\ IsActive(o.state)
      <3>1. qty \in Nat /\ price \in Price \cup {0} /\ next_arrival + 1 \in Nat
        BY <1>1, InputAssumption
      <3> QED
        BY <3>1, NewOrderType DEF NewOrder, IsActive
    <2> HIDE DEF o
    <2>3. /\ \A t \in Session, x \in OrderId :
               orders'[t][x] = IF t = s /\ x = id THEN o ELSE orders[t][x]
          /\ books'[i] = Insert(books[i], Booked(o))
          /\ \A j \in Instrument : j # i => books'[j] = books[j]
      BY <1>1, <2>1
    <2>4. op'.phase = "match" /\ op'.incoming = o /\ op'.final = None /\ op'.askLeg = None
      BY <2>1 DEF Matching, Idle
    <2>5. IncomingShaped'
      BY <2>2, <2>3, <2>4, NoneAssumption DEF IncomingShaped, Known, SameOrder
    <2>6. \A j \in Instrument : \A e \in books[j].entries : ~Mine(e.order, s, id)
      BY <2>1, NoEntry
    <2>7. \A t \in sessions, x \in OrderId : Mine(o, t, x) <=> t = s /\ x = id
      BY <2>2 DEF Mine
    <2> QED
      BY <1>1, <2>1, <2>2, <2>3, <2>5, <2>6, <2>7, BookedStep
  <1>3. ASSUME NEW orig \in OrderId, NEW type \in ReplaceType, NEW price \in Price \cup {0},
               NEW qty \in Quantity, ModifyOrder(s, orig, id, type, price, qty)
        PROVE  MirrorInv'
    <2> DEFINE old == orders[s][orig]
               o == Replacement(old, id, type, price, qty)
               i == old.inst
               gone == Remove(books[i], s, orig, old.side, old.price)
    <2>1. /\ op = Idle /\ sessions' = sessions /\ old # None /\ qty >= old.cum
          /\ id # orig => orders[s][id] = None
          /\ orders' = [orders EXCEPT ![s] = [@ EXCEPT ![orig] = None, ![id] = o]]
      BY <1>3, ZenonT(30) DEF ModifyOrder, FreshId
    <2>2. \/ o.remaining = 0 /\ books' = [books EXCEPT ![i] = gone] /\ op' = Publishing("replace", None, FALSE)
          \/ /\ o.remaining # 0 /\ books' = [books EXCEPT ![i] = Insert(gone, Booked(o))]
             /\ op' = Matching("replace", o, None)
      BY <1>3 DEF ModifyOrder
    <2>3. /\ old \in Order /\ i \in Instrument /\ old.session = s /\ old.id = orig
      BY <2>1, MirrorFacts
    <2>4. o \in Order
      BY <1>1, <2>1, <2>3, InputAssumption, ReplacementType
    <2>5. /\ o.session = s /\ o.id = id
          /\ o.remaining = 0 => ~IsActive(o.state)
          /\ o.remaining # 0 => IsActive(o.state)
      BY <2>3 DEF Replacement, Order, IsActive
    <2>6. /\ gone.entries \subseteq books[i].entries
          /\ \A e \in gone.entries : ~Mine(e.order, s, orig)
          /\ \A j \in Instrument : \A e \in books[j].entries : Mine(e.order, s, orig) => j = i
      BY <2>1, IdleFacts, RemovalHits DEF Mine
    <2>7. \A e : ~Mine(e.order, s, orig) => (e \in gone.entries <=> e \in books[i].entries)
      BY <1>1, <2>3, RemoveOthers
    <2> HIDE DEF o, gone, i
    <2>8. \A t \in Session, x \in OrderId :
            orders'[t][x] = IF t = s /\ x = id THEN o
                            ELSE IF t = s /\ x = orig THEN None ELSE orders[t][x]
      BY <1>1, <2>1
    <2>9. \A x \in OrderId : x = id \/ x = orig =>
            /\ \A e \in gone.entries : ~Mine(e.order, s, x)
            /\ \A j \in Instrument : \A e \in books[j].entries : Mine(e.order, s, x) => j = i
      <3>1. id # orig => \A j \in Instrument : \A e \in books[j].entries : ~Mine(e.order, s, id)
        BY <2>1, NoEntry
      <3> QED
        BY <2>3, <2>6, <3>1
    <2>10. \A t \in sessions, x \in OrderId : ~(t = s /\ x \in {id, orig}) =>
             \A e : Mine(e.order, t, x) => (e \in gone.entries <=> e \in books[i].entries)
      BY <2>7 DEF Mine
    <2>11. \A t \in sessions, x \in OrderId : Mine(o, t, x) <=> t = s /\ x = id
      BY <2>5 DEF Mine
    <2>12. CASE /\ o.remaining # 0 /\ books' = [books EXCEPT ![i] = Insert(gone, Booked(o))]
                /\ op' = Matching("replace", o, None)
      <3>1. op'.phase = "match" /\ op'.incoming = o /\ op'.final = None /\ op'.askLeg = None
        BY <2>12 DEF Matching, Idle
      <3>2. IncomingShaped'
        BY <2>4, <2>5, <2>8, <3>1, NoneAssumption DEF IncomingShaped, Known, SameOrder
      <3>3. books'[i] = Insert(gone, Booked(o)) /\ \A j \in Instrument : j # i => books'[j] = books[j]
        BY <1>1, <2>3, <2>12
      <3>4. \A t \in sessions, x \in OrderId :
            \/ /\ orders'[t][x] = orders[t][x] /\ ~Mine(o, t, x)
               /\ \A e : Mine(e.order, t, x) => (e \in gone.entries <=> e \in books[i].entries)
            \/ /\ \A e \in gone.entries : ~Mine(e.order, t, x)
               /\ \A j \in Instrument : \A e \in books[j].entries : Mine(e.order, t, x) => j = i
               /\ IF Mine(o, t, x) THEN IsActive(orders'[t][x].state) ELSE orders'[t][x] = None
        <4> TAKE t \in sessions, x \in OrderId
        <4>1. CASE t = s /\ x \in {id, orig}
          BY <1>1, <2>5, <2>8, <2>9, <2>11, <2>12, <4>1
        <4>2. CASE ~(t = s /\ x \in {id, orig})
          BY <1>1, <2>8, <2>10, <2>11, <4>2
        <4> QED
          BY <4>1, <4>2
      <3> QED
        BY <2>1, <2>3, <2>4, <2>12, <3>2, <3>3, <3>4, BookedStep
    <2>13. CASE /\ o.remaining = 0 /\ books' = [books EXCEPT ![i] = gone]
                /\ op' = Publishing("replace", None, FALSE)
      <3>1. op'.phase # "match" /\ op'.trades = <<>> /\ op'.final = None /\ op'.askLeg = None
        BY <2>13 DEF Publishing, Idle
      <3>2. op.phase # "match" /\ op.trades = <<>> /\ op.final = None
        BY <2>1, IdleFacts
      <3>3. IncomingShaped'
        BY <3>1 DEF IncomingShaped
      <3>4. books'[i] = gone /\ \A j \in Instrument : j # i => books'[j] = books[j]
        BY <1>1, <2>3, <2>13
      <3>5. ASSUME NEW t \in sessions, NEW x \in OrderId
            PROVE  \/ /\ EntriesOf(books', t, x) = EntriesOf(books, t, x)
                      /\ orders'[t][x] = orders[t][x]
                   \/ /\ EntriesOf(books', t, x) = {}
                      /\ orders'[t][x] = None \/ ~IsActive(orders'[t][x].state)
        <4>1. CASE t = s /\ x \in {id, orig}
          <5>1. \A j \in Instrument : \A e \in books'[j].entries : ~Mine(e.order, t, x)
            BY <2>9, <3>4, <4>1
          <5>2. EntriesOf(books', t, x) = {}
            BY <5>1, EntryOf
          <5>3. orders'[t][x] = None \/ ~IsActive(orders'[t][x].state)
            BY <1>1, <2>5, <2>8, <2>13, <4>1
          <5> QED
            BY <5>2, <5>3
        <4>2. CASE ~(t = s /\ x \in {id, orig})
          <5>1. \A j \in Instrument : \A e :
                  Mine(e.order, t, x) => (e \in books'[j].entries <=> e \in books[j].entries)
            BY <2>10, <3>4, <4>2
          <5> QED
            BY <1>1, <2>8, <4>2, <5>1, SameEntries
        <4> QED
          BY <4>1, <4>2
      <3> QED
        BY <2>1, <3>1, <3>2, <3>3, <3>5, PlainStep
    <2> QED
      BY <2>2, <2>12, <2>13
  <1> QED
    BY <1>2, <1>3

\* Quotes have no mirror.
LEMMA QuoteMirror ==
  ASSUME TypeOK, EngineInv, MirrorInv, NEW s \in Session, NEW i \in Instrument,
         NEW bid, NEW ask, NEW bidQty, NEW askQty, Quote(s, i, bid, bidQty, ask, askQty)
  PROVE  MirrorInv'
  <1> DEFINE gone == WithoutQuote(books[i], s, quotes[s][i])
  <1>1. op = Idle /\ sessions' = sessions /\ orders' = orders
    BY DEF Quote
  <1>2. \/ \E side, price, qty, arrival, leg :
              /\ books' = [books EXCEPT ![i] =
                    Insert(gone, Booked(QuoteLeg(s, i, side, price, qty, arrival)))]
              /\ op' = Matching("quote", QuoteLeg(s, i, side, price, qty, arrival), leg)
              /\ leg # None => leg.id = QuoteId
        \/ /\ books' = [books EXCEPT ![i] = gone]
           /\ op' = Publishing("quote", None, FALSE)
    <2>1. \A side, price, qty, arrival : QuoteLeg(s, i, side, price, qty, arrival).id = QuoteId
      BY DEF QuoteLeg, NewOrder
    <2> DEFINE Leg(side, price, qty, arrival) == QuoteLeg(s, i, side, price, qty, arrival)
               AskLeg(k) == IF ask # 0 THEN Leg("Sell", ask, askQty, next_arrival + k) ELSE None
               Booking(o) == books' = [books EXCEPT ![i] = Insert(gone, Booked(o))]
    <2>2. \A k : AskLeg(k) # None => AskLeg(k).id = QuoteId
      BY <2>1
    <2>3. \/ \E k : /\ Booking(Leg("Buy", bid, bidQty, next_arrival + 1))
                    /\ op' = Matching("quote", Leg("Buy", bid, bidQty, next_arrival + 1), AskLeg(k))
          \/ \E k : /\ Booking(Leg("Sell", ask, askQty, next_arrival + k))
                    /\ op' = Matching("quote", Leg("Sell", ask, askQty, next_arrival + k), None)
          \/ /\ books' = [books EXCEPT ![i] = gone]
             /\ op' = Publishing("quote", None, FALSE)
      BY Zenon DEF Quote
    <2> HIDE DEF AskLeg
    <2> QED
      BY <2>2, <2>3
  <1>3. \A e : e.order.id # QuoteId => (e \in gone.entries <=> e \in books[i].entries)
    BY QuoteRemovalHits
  <1> HIDE DEF gone
  <1>4. op.phase # "match" /\ op.trades = <<>> /\ op.final = None
    BY <1>1, IdleFacts
  <1>5. ASSUME IncomingShaped', op'.trades = <<>>, op'.final = None,
               op'.phase = "match" => op'.incoming.id = QuoteId,
               \A e : e.order.id # QuoteId => (e \in books'[i].entries <=> e \in books[i].entries),
               \A j \in Instrument : j # i => books'[j] = books[j]
        PROVE  MirrorInv'
    <2>1. ASSUME NEW t \in sessions, NEW x \in OrderId
          PROVE  /\ EntriesOf(books', t, x) = EntriesOf(books, t, x)
                 /\ ~(op'.phase = "match" /\ Mine(op'.incoming, t, x))
      <3>1. \A j \in Instrument : \A e :
              Mine(e.order, t, x) => (e \in books'[j].entries <=> e \in books[j].entries)
        BY <1>5, QuoteIdAssumption DEF Mine
      <3> QED
        BY <1>5, <3>1, SameEntries, QuoteIdAssumption DEF Mine
    <2> QED
      BY <1>1, <1>4, <1>5, <2>1, PlainStep
  <1>6. ASSUME NEW side, NEW price, NEW qty, NEW arrival, NEW leg,
               books' = [books EXCEPT ![i] =
                    Insert(gone, Booked(QuoteLeg(s, i, side, price, qty, arrival)))],
               op' = Matching("quote", QuoteLeg(s, i, side, price, qty, arrival), leg),
               leg # None => leg.id = QuoteId
        PROVE  MirrorInv'
    <2> DEFINE o == QuoteLeg(s, i, side, price, qty, arrival)
               n == [order |-> Booked(o), key |-> gone.levels[LevelOf(Booked(o))].next]
    <2>1. o.id = QuoteId /\ n.order.id = QuoteId
      BY DEF QuoteLeg, NewOrder, Booked
    <2>2. Insert(gone, Booked(o)).entries = gone.entries \cup {n}
      BY DEF Insert
    <2>3. /\ op'.phase = "match" /\ op'.incoming = o /\ op'.final = None /\ op'.askLeg = leg
          /\ op'.trades = <<>>
      BY <1>6 DEF Matching, Idle
    <2> HIDE DEF o, n
    <2>4. books'[i].entries = gone.entries \cup {n} /\ \A j \in Instrument : j # i => books'[j] = books[j]
      BY <1>6, <2>2 DEF TypeOK, o
    <2>5. IncomingShaped'
      BY <1>6, <2>1, <2>3 DEF IncomingShaped, Known
    <2>6. \A e : e.order.id # QuoteId => (e \in books'[i].entries <=> e \in books[i].entries)
      BY <1>3, <2>1, <2>4
    <2> QED
      BY <1>5, <2>1, <2>3, <2>4, <2>5, <2>6
  <1>7. CASE books' = [books EXCEPT ![i] = gone] /\ op' = Publishing("quote", None, FALSE)
    <2>1. op'.phase = "publish" /\ op'.final = None /\ op'.askLeg = None /\ op'.trades = <<>>
      BY <1>7 DEF Publishing, Idle
    <2>2. books'[i] = gone /\ \A j \in Instrument : j # i => books'[j] = books[j]
      BY <1>7 DEF TypeOK
    <2> QED
      BY <1>3, <1>5, <2>1, <2>2 DEF IncomingShaped
  <1> QED
    BY <1>2, <1>6, <1>7

\* The cancelled entry is what will be synced and is synced already.
LEMMA CancelMirror ==
  ASSUME TypeOK, EngineInv, MirrorInv, NEW s \in Session, NEW orig \in OrderId,
         CancelOrder(s, orig)
  PROVE  MirrorInv'
  <1> DEFINE old == orders[s][orig]
             i == old.inst
  <1>1. op = Idle /\ sessions' = sessions /\ old # None
    BY DEF CancelOrder
  <1>2. PICK e \in Located(books[i], s, orig, old.side, old.price) :
          /\ books' = [books EXCEPT ![i] = Drop(books[i], e)]
          /\ orders' = [orders EXCEPT ![s][orig] = [e.order EXCEPT !.state = "Cancelled"]]
          /\ op' = Publishing("cancel", [e.order EXCEPT !.state = "Cancelled"], TRUE)
    BY Zenon DEF CancelOrder
  <1>3. op.phase = "idle" /\ op.trades = <<>> /\ op.final = None
    BY <1>1, IdleFacts
  <1>4. i \in Instrument
    BY <1>1, MirrorFacts
  <1>5. /\ e \in books[i].entries /\ Mine(e.order, s, orig)
        /\ \A j \in Instrument : \A f \in books[j].entries : Mine(f.order, s, orig) => f = e /\ j = i
    BY <1>1, <1>3, LocatedIsOwn DEF Mine, Located
  <1> DEFINE c == [e.order EXCEPT !.state = "Cancelled"]
  <1>6. c \in Order /\ Mine(c, s, orig) /\ ~IsActive(c.state)
    <2>1. e.order \in Order
      BY <1>4, <1>5, EntryFacts
    <2> QED
      <3>1. "Cancelled" \in OrderState /\ ~IsActive("Cancelled")
        BY DEF OrderState, IsActive
      <3>2. c.session = e.order.session /\ c.id = e.order.id /\ c.state = "Cancelled"
        BY <2>1 DEF Order
      <3>3. c \in Order
        BY <2>1, <3>1, StateType
      <3> QED
        BY <1>5, <3>1, <3>2, <3>3 DEF Mine
  <1>7. op'.phase = "publish" /\ op'.trades = <<>> /\ op'.final = c /\ op'.askLeg = None
    BY <1>2 DEF Publishing, Idle
  <1> HIDE DEF c, i
  <1>8. /\ books'[i].entries = books[i].entries \ {e}
        /\ \A j \in Instrument : j # i => books'[j] = books[j]
    BY <1>2, <1>4 DEF TypeOK, Drop
  <1>9. \A t \in Session, x \in OrderId :
          orders'[t][x] = IF t = s /\ x = orig THEN c ELSE orders[t][x]
    BY <1>2 DEF TypeOK, c
  <1>10. TradesShaped' /\ IncomingShaped'
    BY <1>7 DEF TradesShaped, IncomingShaped
  <1>11. ASSUME NEW t \in sessions, NEW x \in OrderId
         PROVE  Tracked(EntriesOf(books', t, x), orders'[t][x], op', t, x)
    <2>1. t \in Session
      BY DEF TypeOK
    <2>2. CASE t = s /\ x = orig
      <3>1. \A j \in Instrument : \A f \in books'[j].entries : ~Mine(f.order, t, x)
        BY <1>5, <1>8, <2>2
      <3>2. EntriesOf(books', t, x) = {}
        BY <3>1, EntryOf
      <3>3. Latest(orders'[t][x], op', t, x, c)
        BY <1>6, <1>7, <2>2, NoneAssumption DEF Latest, IsFinal
      <3>4. DOMAIN op'.trades = {}
        BY <1>7
      <3> QED
        BY <1>6, <1>7, <1>9, <2>1, <2>2, <3>2, <3>3, <3>4 DEF Tracked
    <2>3. CASE ~(t = s /\ x = orig)
      <3>1. ~Mine(c, t, x)
        BY <1>6, <2>3 DEF Mine
      <3>2. \A j \in Instrument : \A f :
              Mine(f.order, t, x) => (f \in books'[j].entries <=> f \in books[j].entries)
        BY <1>5, <1>8, <2>3 DEF Mine
      <3>3. EntriesOf(books', t, x) = EntriesOf(books, t, x)
        BY <3>2, SameEntries
      <3>4. Tracked(EntriesOf(books, t, x), orders[t][x], op, t, x)
        BY DEF MirrorInv
      <3>5. /\ ~IsFinal(op', t, x) /\ ~IsFinal(op, t, x)
            /\ Base(orders[t][x], op', t, x) = Base(orders[t][x], op, t, x)
        BY <1>3, <1>7, <3>1 DEF IsFinal, Base
      <3>6. orders'[t][x] = orders[t][x]
        BY <1>9, <2>1, <2>3
      <3> QED
        BY <1>3, <1>7, <3>3, <3>4, <3>5, <3>6, SameTracked
    <2> QED
      BY <2>2, <2>3
  <1> QED
    BY <1>1, <1>10, <1>11 DEF MirrorInv

\* A trade of others, and a trade of the order itself.
LEMMA TrackedThroughTrade ==
  ASSUME NEW E, NEW F, NEW o, NEW w, NEW v, NEW s, NEW id, NEW t \in Trade,
         Tracked(E, o, w, s, id), w.trades \in Seq(Trade), v.trades = Append(w.trades, t),
         w.final = None, v.final = None, Base(o, v, s, id) = Base(o, w, s, id)
  PROVE  /\ Copies(t, s, id) = {} => Tracked(E, o, v, s, id)
         /\ \A c : /\ Copies(t, s, id) = {c} /\ E # {}
                   /\ \A e \in F : e.order = c
                   /\ F = {} <=> ~IsActive(c.state)
                   => Tracked(F, o, v, s, id)
  <1> DEFINE ts == w.trades
             us == v.trades
             l == Len(ts)
  <1>1. /\ DOMAIN us = 1..(l + 1) /\ DOMAIN ts = 1..l /\ l \in Nat
        /\ \A n \in DOMAIN ts : us[n] = ts[n]
        /\ us[l + 1] = t
        /\ \A c \in Copies(t, s, id) : LastCopy(us, s, id, c)
        /\ Copies(t, s, id) = {} =>
              /\ \A c : LastCopy(ts, s, id, c) => LastCopy(us, s, id, c)
              /\ Untraded(ts, s, id) => Untraded(us, s, id)
    BY TradedTracked
  <1>2. ~IsFinal(w, s, id) /\ ~IsFinal(v, s, id)
    BY DEF IsFinal
  <1>3. /\ \A n \in DOMAIN us : n \in DOMAIN ts \/ n = l + 1
        /\ \A n, k \in DOMAIN us : k > n => n \in DOMAIN ts
    BY <1>1
  <1> HIDE DEF ts, us, l
  <1>4. \A c : Latest(o, v, s, id, c) <=> \/ LastCopy(us, s, id, c)
                                          \/ Untraded(us, s, id) /\ c = Base(o, w, s, id)
    BY <1>2 DEF Latest, us
  <1>5. \A c : Latest(o, w, s, id, c) <=> \/ LastCopy(ts, s, id, c)
                                          \/ Untraded(ts, s, id) /\ c = Base(o, w, s, id)
    BY <1>2 DEF Latest, ts
  <1>6. /\ \A e \in E :
             /\ Latest(o, w, s, id, e.order) /\ IsActive(o.state)
             /\ \A n \in DOMAIN ts : \A c \in Copies(ts[n], s, id) : IsActive(c.state)
        /\ E = {} => o = None \/ \E c : Latest(o, w, s, id, c) /\ ~IsActive(c.state)
        /\ \A n \in DOMAIN ts : \A c \in Copies(ts[n], s, id) :
             /\ IsActive(o.state)
             /\ \A k \in DOMAIN ts : k > n /\ Copies(ts[k], s, id) # {} => IsActive(c.state)
    BY DEF Tracked, ts
  <1>7. ASSUME Copies(t, s, id) = {}
        PROVE  Tracked(E, o, v, s, id)
    <2>1. \A n \in DOMAIN us : Copies(us[n], s, id) # {} => n \in DOMAIN ts /\ us[n] = ts[n]
      BY <1>1, <1>3, <1>7
    <2>2. \A c : Latest(o, w, s, id, c) => Latest(o, v, s, id, c)
      BY <1>1, <1>4, <1>5, <1>7
    <2>3. \A n \in DOMAIN us : \A c \in Copies(us[n], s, id) :
             /\ IsActive(o.state)
             /\ \A k \in DOMAIN us : k > n /\ Copies(us[k], s, id) # {} => IsActive(c.state)
      BY <1>6, <2>1
    <2>4. \A e \in E :
             /\ Latest(o, v, s, id, e.order) /\ IsActive(o.state)
             /\ \A n \in DOMAIN us : \A c \in Copies(us[n], s, id) : IsActive(c.state)
      BY <1>6, <2>1, <2>2
    <2>5. E = {} => o = None \/ \E c : Latest(o, v, s, id, c) /\ ~IsActive(c.state)
      BY <1>6, <2>2
    <2> QED
      BY <1>2, <2>3, <2>4, <2>5 DEF Tracked, us
  <1>8. ASSUME NEW c, Copies(t, s, id) = {c}, E # {}, \A e \in F : e.order = c,
               F = {} <=> ~IsActive(c.state)
        PROVE  Tracked(F, o, v, s, id)
    <2>1. Latest(o, v, s, id, c)
      BY <1>1, <1>4, <1>8
    <2>2. IsActive(o.state) /\ \A n \in DOMAIN ts : \A d \in Copies(us[n], s, id) : IsActive(d.state)
      BY <1>1, <1>6, <1>8
    <2>3. \A n \in DOMAIN us : \A d \in Copies(us[n], s, id) :
             IsActive(d.state) \/ (d = c /\ n = l + 1)
      BY <1>1, <1>3, <1>8, <2>2
    <2>4. \A e \in F :
             /\ Latest(o, v, s, id, e.order) /\ IsActive(o.state)
             /\ \A n \in DOMAIN us : \A d \in Copies(us[n], s, id) : IsActive(d.state)
      BY <1>8, <2>1, <2>2, <2>3
    <2>5. \A n \in DOMAIN us : \A d \in Copies(us[n], s, id) :
             /\ IsActive(o.state)
             /\ \A k \in DOMAIN us : k > n /\ Copies(us[k], s, id) # {} => IsActive(d.state)
      BY <1>3, <2>2
    <2> QED
      BY <1>2, <1>8, <2>1, <2>4, <2>5 DEF Tracked, us
  <1> QED
    BY <1>7, <1>8

\* The entries after a trade, with the new copies of its parties.
LEMMA TradeEntries ==
  ASSUME NEW b, NEW bid \in b.entries, NEW ask \in b.entries, NEW t, NEW e,
         t.buyer.side = "Buy", ask.order.side = "Sell"
  PROVE  e \in AfterTrade(b, bid, ask, t).entries <=>
            \/ e \in b.entries \ {bid, ask}
            \/ t.buyer.remaining # 0 /\ e = [order |-> t.buyer, key |-> bid.key]
            \/ t.seller.remaining # 0 /\ e = [order |-> t.seller, key |-> ask.key]
  <1> DEFINE c == UpdateFill(b, bid, t.buyer, t.quantity)
             n == [order |-> t.buyer, key |-> bid.key]
             m == [order |-> t.seller, key |-> ask.key]
  <1>1. c.entries = (b.entries \ {bid}) \cup (IF t.buyer.remaining # 0 THEN {n} ELSE {})
    BY DEF UpdateFill, Drop
  <1>2. AfterTrade(b, bid, ask, t).entries
          = (c.entries \ {ask}) \cup (IF t.seller.remaining # 0 THEN {m} ELSE {})
    BY DEF AfterTrade, UpdateFill, Drop
  <1>3. n # ask
    <2>1. n.order.side = "Buy"
      OBVIOUS
    <2> QED
      BY <2>1
  <1> HIDE DEF c, n, m
  <1> QED
    BY <1>1, <1>2, <1>3 DEF n, m

\* A fill leaves an order active while something is open.
LEMMA FillState ==
  ASSUME NEW bid \in Order, NEW ask \in Order
  PROVE  LET t == TradeOf(bid, ask)
         IN  /\ t.buyer.remaining # 0 <=> IsActive(t.buyer.state)
             /\ t.seller.remaining # 0 <=> IsActive(t.seller.state)
  <1> DEFINE q == IF bid.remaining <= ask.remaining THEN bid.remaining ELSE ask.remaining
  <1>1. \A o \in Order : \A p :
          /\ ApplyFill(o, q, p).remaining = o.remaining - q
          /\ ApplyFill(o, q, p).state = IF o.remaining = q THEN "Filled" ELSE "PartialFill"
    BY DEF ApplyFill, Order
  <1>2. bid.remaining \in Nat /\ ask.remaining \in Nat /\ q \in Nat
    BY DEF Order
  <1> HIDE DEF q
  <1>3. \A p : /\ ApplyFill(bid, q, p).remaining # 0 <=> IsActive(ApplyFill(bid, q, p).state)
               /\ ApplyFill(ask, q, p).remaining # 0 <=> IsActive(ApplyFill(ask, q, p).state)
    BY <1>1, <1>2 DEF IsActive
  <1>4. \E p : TradeOf(bid, ask).buyer = ApplyFill(bid, q, p)
                 /\ TradeOf(bid, ask).seller = ApplyFill(ask, q, p)
    BY DEF TradeOf, q
  <1> QED
    BY <1>3, <1>4

\* A session has one entry under a client order id.
LEMMA OneEntry ==
  ASSUME TypeOK, EngineInv, NEW s \in Session, NEW id \in OrderId,
         NEW i \in Instrument, NEW e \in books[i].entries, Mine(e.order, s, id)
  PROVE  /\ orders[s][id] # None /\ SameOrder(orders[s][id], e.order)
         /\ \A j \in Instrument : \A f \in books[j].entries : Mine(f.order, s, id) => f = e /\ j = i
  <1>1. \A j \in Instrument : \A f \in books[j].entries :
           Mine(f.order, s, id) => /\ orders[s][id] # None /\ SameOrder(orders[s][id], f.order)
                                   /\ f.order.inst = j
    BY QuoteIdAssumption DEF Mine, EngineInv, EntriesOwned, Known
  <1>2. \A j \in Instrument : \A f \in books[j].entries :
           Mine(f.order, s, id) => j = i /\ f.order.arrival = e.order.arrival
    BY <1>1 DEF SameOrder
  <1> QED
    BY <1>1, <1>2 DEF EngineInv, ArrivalsUnique

\* A trade gives its parties a new latest copy.
LEMMA MatchMirror ==
  ASSUME TypeOK, EngineInv, MirrorInv, Match
  PROVE  MirrorInv'
  <1> DEFINE i == op.incoming.inst
  <1>1. op.phase = "match" /\ op \in Op /\ i \in Instrument /\ op.trades \in Seq(Trade)
    BY DEF Match, TypeOK, EngineInv, OpShape, Op, Order
  <1>2. PICK bid \in Top(books[i], "Buy"), ask \in Top(books[i], "Sell") :
          /\ books' = [books EXCEPT ![i] = AfterTrade(@, bid, ask, TradeOf(bid.order, ask.order))]
          /\ op' = [op EXCEPT !.trades = Append(@, TradeOf(bid.order, ask.order))]
    BY DEF Match
  <1> DEFINE t == TradeOf(bid.order, ask.order)
  <1>3. orders' = orders /\ sessions' = sessions
    BY DEF Match
  <1>4. /\ bid \in books[i].entries /\ ask \in books[i].entries /\ bid # ask
        /\ bid.order \in Order /\ ask.order \in Order
        /\ bid.order.side = "Buy" /\ ask.order.side = "Sell"
    BY <1>1, TopEntries DEF TypeOK
  <1>5. /\ op'.trades = Append(op.trades, t) /\ op'.phase = op.phase /\ op'.final = op.final
        /\ op'.incoming = op.incoming /\ op'.askLeg = op.askLeg
    BY <1>1, <1>2 DEF Op
  <1>6. /\ SameOrder(t.buyer, bid.order) /\ SameOrder(t.seller, ask.order)
        /\ t.buyer.remaining # 0 <=> IsActive(t.buyer.state)
        /\ t.seller.remaining # 0 <=> IsActive(t.seller.state)
    BY <1>4, TradeKeeps, FillState
  <1>7. t \in Trade
    BY <1>4, TradeOfType DEF Trade
  <1>8. op.final = None /\ Known(op.incoming)
    BY <1>1 DEF MirrorInv, IncomingShaped
  <1>9. /\ books'[i] = AfterTrade(books[i], bid, ask, t)
        /\ \A j \in Instrument : j # i => books'[j] = books[j]
    BY <1>1, <1>2 DEF TypeOK
  <1> HIDE DEF t, i
  <1>10. t.buyer.side = "Buy" /\ t.seller.side = "Sell"
    BY <1>4, <1>6 DEF SameOrder
  <1>11. \A e : e \in books'[i].entries <=>
            \/ e \in books[i].entries \ {bid, ask}
            \/ t.buyer.remaining # 0 /\ e = [order |-> t.buyer, key |-> bid.key]
            \/ t.seller.remaining # 0 /\ e = [order |-> t.seller, key |-> ask.key]
    BY <1>4, <1>9, <1>10, TradeEntries
  <1>12. TradesShaped'
    <2>1. \A n \in DOMAIN op'.trades :
             (n \in DOMAIN op.trades /\ op'.trades[n] = op.trades[n]) \/ op'.trades[n] = t
      BY <1>1, <1>5, <1>7, TradedTracked
    <2> QED
      BY <1>6, <1>10, <2>1 DEF MirrorInv, TradesShaped
  <1>13. IncomingShaped'
    BY <1>3, <1>5, <1>8 DEF MirrorInv, IncomingShaped, Known
  <1>14. ASSUME NEW s \in sessions, NEW id \in OrderId
         PROVE  Tracked(EntriesOf(books', s, id), orders[s][id], op', s, id)
    <2> DEFINE E == EntriesOf(books, s, id)
               F == EntriesOf(books', s, id)
               o == orders[s][id]
    <2>1. s \in Session /\ Tracked(E, o, op, s, id) /\ Base(o, op', s, id) = Base(o, op, s, id)
      BY <1>5 DEF MirrorInv, TypeOK, Base
    <2>2. /\ Copies(t, s, id) = {} => Tracked(E, o, op', s, id)
          /\ \A c : /\ Copies(t, s, id) = {c} /\ E # {}
                    /\ \A e \in F : e.order = c
                    /\ F = {} <=> ~IsActive(c.state)
                    => Tracked(F, o, op', s, id)
      BY <1>1, <1>5, <1>7, <1>8, <2>1, TrackedThroughTrade
    <2>3. /\ Mine(t.buyer, s, id) <=> Mine(bid.order, s, id)
          /\ Mine(t.seller, s, id) <=> Mine(ask.order, s, id)
      BY <1>6 DEF SameOrder, Mine
    <2>4. CASE ~Mine(bid.order, s, id) /\ ~Mine(ask.order, s, id)
      <3>1. Copies(t, s, id) = {}
        BY <2>3, <2>4 DEF Copies
      <3>2. \A j \in Instrument : \A e :
              Mine(e.order, s, id) => (e \in books'[j].entries <=> e \in books[j].entries)
        BY <1>9, <1>11, <2>3, <2>4
      <3> QED
        BY <2>2, <3>1, <3>2, SameEntries
    <2>5. ASSUME NEW e \in {bid, ask}, NEW c \in {t.buyer, t.seller}, Mine(e.order, s, id),
                 Copies(t, s, id) = {c}, c.remaining # 0 <=> IsActive(c.state),
                 Mine(c, s, id), e.order.side = c.side
          PROVE  Tracked(F, o, op', s, id)
      <3>1. \A j \in Instrument : \A f \in books[j].entries :
               Mine(f.order, s, id) => f = e /\ j = i
        BY <1>1, <1>4, <2>1, <2>5, OneEntry DEF i
      <3>2. E # {}
        BY <1>1, <1>4, <2>5, EntryOf DEF i
      <3> DEFINE n == [order |-> c, key |-> e.key]
      <3>3. \A j \in Instrument : \A f \in books'[j].entries :
               Mine(f.order, s, id) => f.order = c /\ c.remaining # 0
        BY <1>9, <1>11, <2>5, <3>1 DEF Copies
      <3>4. c.remaining # 0 => n \in books'[i].entries /\ Mine(n.order, s, id)
        BY <1>4, <1>10, <1>11, <2>5
      <3> HIDE DEF n
      <3>5. F = {} <=> ~IsActive(c.state)
        BY <1>1, <2>5, <3>3, <3>4, EntryOf DEF i
      <3>6. \A f \in F : f.order = c
        BY <3>3, EntryOf
      <3> HIDE DEF E, F, o
      <3> QED
        BY <2>2, <2>5, <3>2, <3>5, <3>6
    <2>6. ~(Mine(bid.order, s, id) /\ Mine(ask.order, s, id))
      BY <1>1, <1>4, <2>1, OneEntry DEF i
    <2>7. CASE Mine(bid.order, s, id)
      <3>1. Copies(t, s, id) = {t.buyer}
        BY <2>3, <2>6, <2>7 DEF Copies
      <3> QED
        BY <1>4, <1>6, <1>10, <2>3, <2>5, <2>7, <3>1
    <2>8. CASE Mine(ask.order, s, id)
      <3>1. Copies(t, s, id) = {t.seller}
        BY <2>3, <2>6, <2>8 DEF Copies
      <3> QED
        BY <1>4, <1>6, <1>10, <2>3, <2>5, <2>8, <3>1
    <2> QED
      BY <2>4, <2>7, <2>8
  <1> QED
    BY <1>3, <1>12, <1>13, <1>14 DEF MirrorInv

\* The final state of an order: its entry as it is left, or its last copy.
LEMMA FinalTracked ==
  ASSUME NEW E, NEW F, NEW o, NEW w, NEW v, NEW s, NEW id, NEW f,
         Tracked(E, o, w, s, id), w.final = None, w.trades \in Seq(Trade),
         v.trades = w.trades, v.final = f, f # None, Mine(f, s, id),
         \A e \in F : e.order = f, F = {} => ~IsActive(f.state),
         \/ E # {}
         \/ \E n \in DOMAIN w.trades : f \in Copies(w.trades[n], s, id) /\ F = {},
         \A n \in DOMAIN w.trades : \A c, d \in Copies(w.trades[n], s, id) : c = d
  PROVE  Tracked(F, o, v, s, id)
  <1> DEFINE ts == w.trades
  <1>1. DOMAIN ts \subseteq Nat
    OBVIOUS
  <1>2. IsFinal(v, s, id) /\ \A c : Latest(o, v, s, id, c) <=> c = f
    BY DEF IsFinal, Latest
  <1> HIDE DEF ts
  <1>3. /\ \A e \in E :
             /\ IsActive(o.state)
             /\ \A n \in DOMAIN ts : \A c \in Copies(ts[n], s, id) : IsActive(c.state)
        /\ \A n \in DOMAIN ts : \A c \in Copies(ts[n], s, id) :
             /\ IsActive(o.state)
             /\ \A k \in DOMAIN ts : k > n /\ Copies(ts[k], s, id) # {} => IsActive(c.state)
    BY DEF Tracked, ts
  <1>4. CASE E # {}
    <2>1. IsActive(o.state) /\ \A n \in DOMAIN ts : \A c \in Copies(ts[n], s, id) : IsActive(c.state)
      BY <1>3, <1>4
    <2> QED
      BY <1>2, <2>1 DEF Tracked, ts
  <1>5. CASE \E n \in DOMAIN ts : f \in Copies(ts[n], s, id) /\ F = {}
    <2>1. PICK n \in DOMAIN ts : f \in Copies(ts[n], s, id) /\ F = {}
      BY <1>5
    <2>2. IsActive(o.state) /\ ~IsActive(f.state)
      BY <1>3, <2>1
    <2>3. ASSUME NEW k \in DOMAIN ts, NEW c \in Copies(ts[k], s, id), ~IsActive(c.state)
          PROVE  c = f
      <3>1. ~(k > n) /\ ~(n > k)
        BY <1>3, <2>1, <2>2, <2>3
      <3>2. k = n
        BY <1>1, <3>1
      <3> QED
        BY <2>1, <2>3, <3>2 DEF ts
    <2> QED
      BY <1>2, <1>3, <2>1, <2>2, <2>3 DEF Tracked, ts
  <1> QED
    BY <1>4, <1>5 DEF ts

\* The copies of an order in the trades are of the order the mirror knows.
LEMMA OneCopy ==
  ASSUME TypeOK, EngineInv, TradesShaped, NEW s \in Session, NEW id \in OrderId,
         NEW n \in DOMAIN op.trades
  PROVE  /\ \A c, d \in Copies(op.trades[n], s, id) : c = d
         /\ \A c \in Copies(op.trades[n], s, id) :
              c \in Order /\ orders[s][id] # None /\ SameOrder(orders[s][id], c)
  <1> DEFINE t == op.trades[n]
  <1>1. t.buyer \in Order /\ t.seller \in Order
    <2>1. op.trades \in Seq(Trade)
      BY DEF TypeOK, Op
    <2>2. t \in Trade
      BY <2>1
    <2> QED
      BY <2>2 DEF Trade
  <1>2. Known(t.buyer) /\ Known(t.seller)
    BY DEF EngineInv, CopiesKnown
  <1>3. t.buyer.side = "Buy" /\ t.seller.side = "Sell"
    BY DEF TradesShaped
  <1> HIDE DEF t
  <1>4. \A c \in Copies(t, s, id) :
           c \in Order /\ orders[s][id] # None /\ SameOrder(orders[s][id], c)
    BY <1>1, <1>2, QuoteIdAssumption DEF Copies, Mine, Known
  <1>5. \A c, d \in Copies(t, s, id) : c.side = d.side
    BY <1>4 DEF SameOrder
  <1>6. \A c, d \in Copies(t, s, id) : c = d
    BY <1>3, <1>5 DEF Copies
  <1> QED
    BY <1>4, <1>6 DEF t

\* add() is over: the second leg of a quote goes in, or the incoming order is
\* found in the book or in its last trade.
LEMMA MatchDoneMirror ==
  ASSUME TypeOK, EngineInv, MirrorInv, MatchDone
  PROVE  MirrorInv'
  <1> DEFINE i == op.incoming.inst
             rest == IF op.incoming.type = "Market" /\ Resting # {}
                     THEN Drop(books[i], CHOOSE e \in Resting : TRUE) ELSE books[i]
             final == IF Resting # {} THEN {Remainder(e) : e \in Resting} ELSE Consumed
  <1>1. /\ op.phase = "match" /\ op \in Op /\ op.incoming \in Order /\ i \in Instrument
        /\ op.trades \in Seq(Trade) /\ sessions \subseteq Session
    BY DEF MatchDone, TypeOK, EngineInv, OpShape, Op, Order
  <1>2. orders' = orders /\ sessions' = sessions
    BY DEF MatchDone
  <1>3. op.final = None /\ Known(op.incoming)
    BY <1>1 DEF MirrorInv, IncomingShaped
  <1>4. \A s \in sessions, id \in OrderId :
           Tracked(EntriesOf(books, s, id), orders[s][id], op, s, id)
    BY DEF MirrorInv
  <1>5. CASE /\ op.askLeg # None
             /\ books' = [books EXCEPT ![i] = Insert(rest, Booked(op.askLeg))]
             /\ op' = [op EXCEPT !.incoming = op.askLeg, !.askLeg = None]
    <2>1. /\ op.incoming.id = QuoteId /\ op.askLeg.id = QuoteId /\ op.incoming.type = "Limit"
          /\ op.askLeg \in Order
      BY <1>1, <1>5 DEF MirrorInv, IncomingShaped, EngineInv, OpShape, Op
    <2>2. rest = books[i]
      BY <2>1
    <2> DEFINE b == Booked(op.askLeg)
               n == [order |-> b, key |-> books[i].levels[LevelOf(b)].next]
    <2>3. n.order.id = QuoteId
      <3>1. b.id = op.askLeg.id /\ n.order = b
        BY <2>1 DEF Booked, Order
      <3> QED
        BY <2>1, <3>1
    <2>4. /\ books'[i].entries = books[i].entries \cup {n}
          /\ \A j \in Instrument : j # i => books'[j] = books[j]
      <3>1. Insert(books[i], b).entries = books[i].entries \cup {n}
        BY DEF Insert
      <3>2. books' = [books EXCEPT ![i] = Insert(books[i], b)] /\ books \in [Instrument -> Book]
        BY <1>5, <2>2 DEF TypeOK
      <3> HIDE DEF b, n, i
      <3> QED
        BY <1>1, <3>1, <3>2
    <2> HIDE DEF n
    <2>5. /\ op'.phase = op.phase /\ op'.trades = op.trades /\ op'.final = None
          /\ op'.incoming = op.askLeg /\ op'.askLeg = None
      BY <1>1, <1>3, <1>5 DEF Op
    <2> HIDE DEF rest, final, i
    <2>6. TradesShaped' /\ IncomingShaped'
      BY <2>1, <2>5 DEF MirrorInv, TradesShaped, IncomingShaped, Known
    <2>7. ASSUME NEW s \in sessions, NEW id \in OrderId
          PROVE  Tracked(EntriesOf(books', s, id), orders[s][id], op', s, id)
      <3>1. \A j \in Instrument : \A e :
              Mine(e.order, s, id) => (e \in books'[j].entries <=> e \in books[j].entries)
        BY <2>3, <2>4, QuoteIdAssumption DEF Mine
      <3>2. EntriesOf(books', s, id) = EntriesOf(books, s, id)
        BY <3>1, SameEntries
      <3>3. Base(orders[s][id], op', s, id) = Base(orders[s][id], op, s, id)
        BY <2>1, <2>5, QuoteIdAssumption DEF Base, Mine
      <3> QED
        BY <1>3, <1>4, <2>5, <3>2, <3>3, SameTracked DEF IsFinal
    <2> QED
      BY <1>2, <2>6, <2>7 DEF MirrorInv
  <1>6. CASE /\ books' = [books EXCEPT ![i] = rest] /\ op.askLeg = None
             /\ \E o \in final : op' = [op EXCEPT !.phase = "publish", !.incoming = None,
                                                  !.final = o, !.status = StatusDue(o)]
    <2>1. PICK f \in final : op' = [op EXCEPT !.phase = "publish", !.incoming = None,
                                              !.final = f, !.status = StatusDue(f)]
      BY <1>6
    <2>2. /\ op'.phase = "publish" /\ op'.trades = op.trades /\ op'.final = f
          /\ op'.askLeg = None
      BY <1>1, <1>6, <2>1 DEF Op
    <2>3. TradesShaped' /\ IncomingShaped'
      BY <2>2 DEF MirrorInv, TradesShaped, IncomingShaped
    <2>4. f \in Order
      BY <1>1, <2>1, FinalKnown
    <2> DEFINE q == op.incoming.session
               x == op.incoming.id
    <2>5. Resting = {e \in books[i].entries :
             Mine(e.order, q, x) /\ LevelOf(e.order) = LevelOf(op.incoming)}
      BY DEF Resting, Located, Mine, LevelOf
    <2>6. Mine(f, q, x)
      <3>1. CASE Resting # {}
        <4>1. PICK e \in Resting : f = Remainder(e)
          BY <2>1, <3>1
        <4>2. e.order \in Order
          BY <1>1, <2>5, <4>1, EntryFacts
        <4> QED
          BY <2>5, <4>1, <4>2 DEF Remainder, Mine, Order
      <3>2. CASE Resting = {}
        BY <2>1, <3>2 DEF Consumed, Mine
      <3> QED
        BY <3>1, <3>2
    <2>7. /\ books'[i] = rest /\ \A j \in Instrument : j # i => books'[j] = books[j]
      <3>1. books \in [Instrument -> Book] /\ books' = [books EXCEPT ![i] = rest] /\ i \in Instrument
        BY <1>1, <1>6 DEF TypeOK
      <3> HIDE DEF i, rest
      <3> QED
        BY <3>1
    <2>8. /\ Resting = {} => rest = books[i]
          /\ \A e : Resting = {e} => IF op.incoming.type = "Market"
                                     THEN rest.entries = books[i].entries \ {e}
                                     ELSE rest = books[i]
          /\ \A e : ~Mine(e.order, q, x) => (e \in rest.entries <=> e \in books[i].entries)
      <3>1. Resting # {} => (CHOOSE e \in Resting : TRUE) \in Resting
        OBVIOUS
      <3>2. rest.entries = IF op.incoming.type = "Market" /\ Resting # {}
                           THEN books[i].entries \ {CHOOSE e \in Resting : TRUE}
                           ELSE books[i].entries
        BY DEF Drop
      <3>3. op.incoming.type # "Market" \/ Resting = {} => rest = books[i]
        OBVIOUS
      <3>4. \A e \in Resting : Mine(e.order, q, x)
        BY <2>5
      <3> HIDE DEF rest, i, q, x
      <3> QED
        BY <3>1, <3>2, <3>3, <3>4
    <2> HIDE DEF rest
    <2>9. ASSUME NEW s \in sessions, NEW id \in OrderId, s = q, id = x
          PROVE  Tracked(EntriesOf(books', s, id), orders[s][id], op', s, id)
      <3> DEFINE E == EntriesOf(books, s, id)
                 F == EntriesOf(books', s, id)
                 o == orders[s][id]
      <3> SUFFICES Tracked(F, o, op', s, id)
        OBVIOUS
      <3>1. s \in Session /\ Tracked(E, o, op, s, id)
        BY <1>1, <1>4
      <3>2. \A n \in DOMAIN op.trades : \A c, d \in Copies(op.trades[n], s, id) : c = d
        BY <3>1, OneCopy DEF MirrorInv
      <3>3. SameOrder(o, op.incoming)
        BY <1>3, <2>9, QuoteIdAssumption DEF Known
      <3>4. \A j \in Instrument : \A e \in books[j].entries :
               Mine(e.order, s, id) => j = i /\ e \in Resting
        <4> SUFFICES ASSUME NEW j \in Instrument, NEW e \in books[j].entries, Mine(e.order, s, id)
                     PROVE  j = i /\ e \in Resting
          OBVIOUS
        <4>1. SameOrder(o, e.order) /\ e.order.inst = j
          BY <3>1, OneEntry DEF EngineInv, EntriesOwned
        <4>2. SameOrder(op.incoming, e.order)
          BY <3>3, <4>1, SameOrderEquiv
        <4> QED
          BY <2>5, <2>9, <4>1, <4>2, SameLevel DEF SameOrder
      <3>5. \A e, g \in Resting : e = g
        BY <1>1, <2>5, <2>9, <3>1, OneEntry
      <3>6. Mine(f, s, id) /\ f # None
        BY <2>4, <2>6, <2>9, NoneAssumption
      <3>7. CASE Resting = {}
        <4>1. \A j \in Instrument : \A e \in books'[j].entries : ~Mine(e.order, s, id)
          BY <2>7, <2>8, <3>4, <3>7
        <4>2. F = {}
          BY <4>1, EntryOf
        <4>3. PICK n \in DOMAIN op.trades :
                 f = CopyIn(op.trades[n]) /\ CopyIn(op.trades[n]).remaining = 0
          BY <2>1, <3>7 DEF Consumed
        <4>4. f \in Copies(op.trades[n], s, id)
          BY <3>6, <4>3 DEF CopyIn, Copies
        <4>5. ~IsActive(f.state)
          BY <4>3 DEF MirrorInv, TradesShaped, CopyIn
        <4> HIDE DEF E, F, o, final
        <4> QED
          BY <1>1, <1>3, <2>2, <3>1, <3>2, <3>6, <4>2, <4>4, <4>5, FinalTracked
      <3>8. CASE Resting # {}
        <4>1. PICK e \in Resting : f = Remainder(e)
          BY <2>1, <3>8
        <4>2. Resting = {e} /\ e \in books[i].entries /\ Mine(e.order, s, id)
          BY <2>5, <2>9, <3>5, <4>1
        <4>3. E # {}
          BY <1>1, <4>2, EntryOf DEF i
        <4>4. \A j \in Instrument : \A g \in books[j].entries : Mine(g.order, s, id) => g = e /\ j = i
          BY <3>4, <4>2
        <4>5. e.order \in Order
          BY <1>1, <4>2, EntryFacts
        <4>6. CASE op.incoming.type = "Market"
          <5>1. \A j \in Instrument : \A g \in books'[j].entries : ~Mine(g.order, s, id)
            BY <2>7, <2>8, <4>2, <4>4, <4>6
          <5>2. F = {}
            BY <5>1, EntryOf
          <5>3. ~IsActive(f.state)
            BY <4>1, <4>5, <4>6 DEF Remainder, Order, IsActive
          <5> HIDE DEF E, F, o, final
          <5> QED
            BY <1>1, <1>3, <2>2, <3>1, <3>2, <3>6, <4>3, <5>2, <5>3, FinalTracked
        <4>7. CASE op.incoming.type # "Market"
          <5>1. f = e.order
            BY <4>1, <4>7 DEF Remainder
          <5>2. \A j \in Instrument : books'[j] = books[j]
            BY <2>7, <2>8, <4>2, <4>7
          <5>3. \A g \in F : g = e
            BY <4>4, <5>2, EntryOf
          <5>4. F # {}
            BY <1>1, <4>2, <5>2, EntryOf DEF i
          <5> HIDE DEF E, F, o, final
          <5> QED
            BY <1>1, <1>3, <2>2, <3>1, <3>2, <3>6, <4>3, <5>1, <5>3, <5>4, FinalTracked
        <4> QED
          BY <4>6, <4>7
      <3> QED
        BY <3>7, <3>8
    <2>10. ASSUME NEW s \in sessions, NEW id \in OrderId, ~(s = q /\ id = x)
           PROVE  Tracked(EntriesOf(books', s, id), orders[s][id], op', s, id)
      <3>1. \A j \in Instrument : \A e :
              Mine(e.order, s, id) => (e \in books'[j].entries <=> e \in books[j].entries)
        BY <2>7, <2>8, <2>10 DEF Mine
      <3>2. EntriesOf(books', s, id) = EntriesOf(books, s, id)
        BY <3>1, SameEntries
      <3>3. ~Mine(f, s, id) /\ ~Mine(op.incoming, s, id)
        BY <2>6, <2>10 DEF Mine
      <3>4. Base(orders[s][id], op', s, id) = Base(orders[s][id], op, s, id)
        BY <2>2, <3>3 DEF Base
      <3>5. ~IsFinal(op', s, id) /\ ~IsFinal(op, s, id)
        BY <1>3, <2>2, <3>3 DEF IsFinal
      <3> QED
        BY <1>4, <2>2, <3>2, <3>4, <3>5, SameTracked
    <2> HIDE DEF q, x, i, final
    <2> QED
      BY <1>2, <2>3, <2>9, <2>10 DEF MirrorInv
  <1> QED
    BY <1>5, <1>6 DEF MatchDone

\* send_fill makes the mirror the copy it was given, since only the execution
\* fields can differ.
LEMMA MirroredValue ==
  ASSUME NEW m \in [Session -> [OrderId -> Order \cup {None}]], sessions \subseteq Session,
         NEW s \in sessions, NEW id \in OrderId, NEW c \in Order,
         Mine(c, s, id) => m[s][id] # None /\ SameOrder(m[s][id], c)
  PROVE  Mirrored(m, c)[s][id] = IF Mine(c, s, id) THEN c ELSE m[s][id]
  <1>1. s \in Session
    OBVIOUS
  <1>2. CASE Mine(c, s, id)
    <2> DEFINE o == m[s][id]
               p == [o EXCEPT !.remaining = c.remaining, !.cum = c.cum,
                              !.notional = c.notional, !.state = c.state]
    <2>1. o \in Order /\ SameOrder(o, c)
      BY <1>1, <1>2
    <2>2. p = c
      <3> HIDE DEF o
      <3>1. o \in [session : Session, id : OrderId \cup {QuoteId}, inst : Instrument,
                   side : Side, type : OrderType, price : Price \cup {0}, quantity : Nat,
                   remaining : Nat, cum : Nat, notional : Nat, state : OrderState, arrival : Nat]
        BY <2>1 DEF Order
      <3>2. c \in [session : Session, id : OrderId \cup {QuoteId}, inst : Instrument,
                   side : Side, type : OrderType, price : Price \cup {0}, quantity : Nat,
                   remaining : Nat, cum : Nat, notional : Nat, state : OrderState, arrival : Nat]
        BY DEF Order
      <3> QED
        BY <2>1, <3>1, <3>2 DEF SameOrder
    <2>3. c.id # QuoteId /\ c.session \in sessions /\ m[c.session][c.id] # None
      BY <1>2, QuoteIdAssumption DEF Mine
    <2>4. Mirrored(m, c) = [m EXCEPT ![s][id] = p]
      BY <1>2, <2>3 DEF Mirrored, Mine
    <2> HIDE DEF p
    <2> QED
      BY <1>1, <1>2, <2>2, <2>4
  <1>3. CASE ~Mine(c, s, id)
    <2>1. CASE Mirrored(m, c) = m
      BY <1>3, <2>1
    <2>2. CASE \E p : Mirrored(m, c) = [m EXCEPT ![c.session][c.id] = p]
      <3>1. c.session # s \/ c.id # id
        BY <1>3 DEF Mine
      <3> QED
        BY <1>1, <1>3, <2>2, <3>1
    <2> QED
      BY <2>1, <2>2 DEF Mirrored
  <1> QED
    BY <1>2, <1>3

LEMMA ReportedValue ==
  ASSUME TypeOK, EngineInv, TradesShaped, Report, NEW s \in sessions, NEW id \in OrderId
  PROVE  /\ 1 \in DOMAIN op.trades
         /\ Copies(op.trades[1], s, id) = {} => orders'[s][id] = orders[s][id]
         /\ \A c \in Copies(op.trades[1], s, id) : orders'[s][id] = c
  <1> DEFINE t == op.trades[1]
             m == Mirrored(orders, t.buyer)
  <1>1. /\ sessions \subseteq Session /\ orders \in [Session -> [OrderId -> Order \cup {None}]]
        /\ op.trades \in Seq(Trade) /\ op.trades # <<>>
    BY DEF TypeOK, Op, Report
  <1>2. 1 \in DOMAIN op.trades /\ t \in Trade /\ t = Head(op.trades)
    BY <1>1
  <1>3. orders' = Mirrored(m, t.seller)
    BY <1>2 DEF Report
  <1>4. t.buyer \in Order /\ t.seller \in Order
    BY <1>2 DEF Trade
  <1>5. s \in Session
    BY <1>1
  <1>6. /\ \A c, d \in Copies(t, s, id) : c = d
        /\ \A c \in Copies(t, s, id) : orders[s][id] # None /\ SameOrder(orders[s][id], c)
    BY <1>2, <1>5, OneCopy
  <1>7. t.buyer.side = "Buy" /\ t.seller.side = "Sell"
    BY <1>2 DEF TradesShaped
  <1> HIDE DEF t, m
  <1>8. m \in [Session -> [OrderId -> Order \cup {None}]]
    BY <1>1, <1>4, MirrorTypes DEF m
  <1>9. ~(Mine(t.buyer, s, id) /\ Mine(t.seller, s, id))
    BY <1>6, <1>7 DEF Copies
  <1>10. m[s][id] = IF Mine(t.buyer, s, id) THEN t.buyer ELSE orders[s][id]
    BY <1>1, <1>4, <1>6, MirroredValue DEF m, Copies
  <1>11. orders'[s][id] = IF Mine(t.seller, s, id) THEN t.seller ELSE m[s][id]
    BY <1>1, <1>3, <1>4, <1>6, <1>8, <1>9, <1>10, MirroredValue DEF Copies
  <1> QED
    BY <1>2, <1>9, <1>10, <1>11 DEF Copies, t

LEMMA FinishedValue ==
  ASSUME TypeOK, EngineInv, Finish, NEW s \in sessions, NEW id \in OrderId
  PROVE  orders'[s][id] = IF IsFinal(op, s, id) THEN op.final ELSE orders[s][id]
  <1>1. /\ sessions \subseteq Session /\ orders \in [Session -> [OrderId -> Order \cup {None}]]
        /\ op \in Op /\ s \in Session
    BY DEF TypeOK
  <1>2. orders' = IF op.final # None THEN Synced(orders, op.final) ELSE orders
    BY DEF Finish
  <1>3. CASE IsFinal(op, s, id)
    <2>1. /\ op.final # None /\ op.final.session = s /\ op.final.id = id /\ id # QuoteId
      BY <1>3, QuoteIdAssumption DEF IsFinal, Mine
    <2>2. orders[s][id] # None
      BY <2>1 DEF EngineInv, CopiesKnown, Known
    <2>3. orders' = [orders EXCEPT ![s][id] = op.final]
      BY <1>2, <2>1, <2>2 DEF Synced
    <2> QED
      BY <1>1, <1>3, <2>3
  <1>4. CASE ~IsFinal(op, s, id)
    <2>1. CASE orders' = orders
      BY <1>4, <2>1
    <2>2. CASE op.final # None /\ orders' = [orders EXCEPT ![op.final.session][op.final.id] = op.final]
      <3>1. op.final.session # s \/ op.final.id # id
        BY <1>4, <2>2 DEF IsFinal, Mine
      <3> QED
        BY <1>1, <1>4, <2>2, <3>1
    <2> QED
      BY <1>2, <2>1, <2>2 DEF Synced
  <1> QED
    BY <1>3, <1>4

LEMMA ReportMirror ==
  ASSUME TypeOK, EngineInv, MirrorInv, Report
  PROVE  MirrorInv'
  <1> DEFINE ts == op.trades
             us == op'.trades
  <1>1. /\ op \in Op /\ ts \in Seq(Trade) /\ ts # <<>> /\ op.phase = "report"
        /\ sessions' = sessions /\ books' = books
        /\ op' = [op EXCEPT !.trades = Tail(@)]
    BY DEF Report, TypeOK, Op
  <1>2. /\ us = Tail(ts) /\ op'.phase = "report" /\ op'.final = op.final
        /\ op'.askLeg = op.askLeg /\ op'.incoming = op.incoming
    BY <1>1 DEF Op
  <1>3. TradesShaped /\ IncomingShaped
    BY DEF MirrorInv
  <1>4. /\ 1 \in DOMAIN ts
        /\ \A n \in DOMAIN us :
              n \in Nat /\ n > 0 /\ n + 1 \in DOMAIN ts /\ us[n] = ts[n + 1]
    BY <1>1, <1>2, ReportedTracked
  <1> HIDE DEF ts, us
  <1>5. TradesShaped' /\ IncomingShaped'
    BY <1>2, <1>3, <1>4 DEF TradesShaped, IncomingShaped, ts, us
  <1>6. ASSUME NEW s \in sessions, NEW id \in OrderId
        PROVE  Tracked(EntriesOf(books, s, id), orders'[s][id], op', s, id)
    <2> DEFINE E == EntriesOf(books, s, id)
               o == orders[s][id]
               p == orders'[s][id]
               C == Copies(ts[1], s, id)
    <2>1. s \in Session /\ Tracked(E, o, op, s, id)
      BY DEF MirrorInv, TypeOK
    <2>2. (C = {} => p = o) /\ \A c \in C : p = c
      BY <1>3, ReportedValue DEF ts
    <2>3. \A c, d \in C : c = d
      BY <1>3, <1>4, <2>1, OneCopy DEF ts
    <2>4. /\ \A c : LastCopy(ts, s, id, c) => LastCopy(us, s, id, c) \/ (Untraded(us, s, id) /\ c \in C)
          /\ Untraded(ts, s, id) => Untraded(us, s, id) /\ C = {}
      BY <1>1, <1>2, ReportedTracked
    <2>5. Base(o, op, s, id) = o /\ Base(p, op', s, id) = p
      BY <1>1, <1>2 DEF Base
    <2>6. IsFinal(op', s, id) <=> IsFinal(op, s, id)
      BY <1>2 DEF IsFinal
    <2> HIDE DEF E, o, p, C
    <2>7. \A c : Latest(o, op, s, id, c) => Latest(p, op', s, id, c)
      BY <1>2, <2>2, <2>4, <2>5, <2>6 DEF Latest, ts, us
    <2>8. /\ \A e \in E :
             /\ Latest(o, op, s, id, e.order) /\ IsActive(o.state)
             /\ \A n \in DOMAIN ts : \A c \in Copies(ts[n], s, id) : IsActive(c.state)
          /\ E = {} => o = None \/ \E c : Latest(o, op, s, id, c) /\ ~IsActive(c.state)
          /\ \A n \in DOMAIN ts : \A c \in Copies(ts[n], s, id) :
               /\ IsActive(o.state)
               /\ \A k \in DOMAIN ts : k > n /\ Copies(ts[k], s, id) # {} => IsActive(c.state)
          /\ IsFinal(op, s, id) =>
               /\ ~IsActive(o.state) => o = op.final
               /\ \A n \in DOMAIN ts : \A c \in Copies(ts[n], s, id) :
                    ~IsActive(c.state) => c = op.final
      BY <2>1 DEF Tracked, ts
    <2>9. \A e \in E :
             /\ Latest(p, op', s, id, e.order) /\ IsActive(p.state)
             /\ \A n \in DOMAIN us : \A c \in Copies(us[n], s, id) : IsActive(c.state)
      <3> TAKE e \in E
      <3>1. IsActive(p.state)
        BY <1>4, <2>2, <2>8 DEF C
      <3>2. \A n \in DOMAIN us : \A c \in Copies(us[n], s, id) : IsActive(c.state)
        BY <1>4, <2>8
      <3> QED
        BY <2>7, <2>8, <3>1, <3>2
    <2>10. E = {} => p = None \/ \E c : Latest(p, op', s, id, c) /\ ~IsActive(c.state)
      <3>1. o = None => C = {}
        BY <1>3, <1>4, <2>1, OneCopy DEF o, C, ts
      <3> QED
        BY <2>2, <2>7, <2>8, <3>1
    <2>11. ASSUME NEW n \in DOMAIN us, NEW c \in Copies(us[n], s, id)
           PROVE  /\ IsActive(p.state)
                  /\ \A k \in DOMAIN us : k > n /\ Copies(us[k], s, id) # {} => IsActive(c.state)
      <3>1. /\ n + 1 \in DOMAIN ts /\ n + 1 > 1 /\ c \in Copies(ts[n + 1], s, id)
            /\ \A k \in DOMAIN us : k > n => k + 1 \in DOMAIN ts /\ k + 1 > n + 1 /\ us[k] = ts[k + 1]
        BY <1>4, <2>11
      <3>2. IsActive(p.state)
        <4>1. \A d \in C : IsActive(d.state)
          BY <1>4, <2>8, <3>1 DEF C
        <4>2. IsActive(o.state)
          BY <2>8, <3>1
        <4> QED
          BY <2>2, <4>1, <4>2
      <3>3. \A k \in DOMAIN us : k > n /\ Copies(us[k], s, id) # {} => IsActive(c.state)
        BY <2>8, <3>1
      <3> QED
        BY <3>2, <3>3
    <2>12. IsFinal(op', s, id) =>
               /\ ~IsActive(p.state) => p = op'.final
               /\ \A n \in DOMAIN us : \A c \in Copies(us[n], s, id) :
                    ~IsActive(c.state) => c = op'.final
      BY <1>2, <1>4, <2>2, <2>6, <2>8 DEF C
    <2>13. Tracked(E, p, op', s, id)
      BY <2>9, <2>10, <2>11, <2>12 DEF Tracked, us
    <2> QED
      BY <2>13 DEF E, p
  <1> QED
    BY <1>1, <1>5, <1>6 DEF MirrorInv

LEMMA FinishMirror ==
  ASSUME TypeOK, EngineInv, MirrorInv, Finish
  PROVE  MirrorInv'
  <1>1. /\ op.phase = "report" /\ op.trades = <<>> /\ op' = Idle
        /\ sessions' = sessions /\ books' = books
    BY DEF Finish
  <1>2. op'.phase = "idle" /\ op'.trades = <<>> /\ op'.final = None /\ op'.askLeg = None
    BY <1>1 DEF Idle
  <1>3. TradesShaped' /\ IncomingShaped'
    BY <1>2 DEF TradesShaped, IncomingShaped
  <1>4. ASSUME NEW s \in sessions, NEW id \in OrderId
        PROVE  Tracked(EntriesOf(books, s, id), orders'[s][id], op', s, id)
    <2> DEFINE E == EntriesOf(books, s, id)
               o == orders[s][id]
               p == orders'[s][id]
    <2>1. s \in Session /\ Tracked(E, o, op, s, id)
      BY DEF MirrorInv, TypeOK
    <2>2. p = IF IsFinal(op, s, id) THEN op.final ELSE o
      BY FinishedValue
    <2>3. Base(o, op, s, id) = o /\ Base(p, op', s, id) = p
      BY <1>1, <1>2 DEF Base
    <2>4. CASE ~IsFinal(op, s, id)
      <3>1. ~IsFinal(op', s, id)
        BY <1>2 DEF IsFinal
      <3> HIDE DEF E, o, p
      <3>2. Tracked(E, o, op', s, id)
        BY <1>1, <1>2, <2>1, <2>2, <2>3, <2>4, <3>1, SameTracked
      <3> QED
        BY <2>2, <2>4, <3>2 DEF E, p
    <2>5. CASE IsFinal(op, s, id)
      <3>1. /\ \A e \in E : e.order = p
            /\ E = {} => o = None \/ ~IsActive(p.state)
        BY <2>1, <2>2, <2>5 DEF Tracked, Latest
      <3>2. \A e \in E : IsActive(e.order.state)
        BY EntryOf DEF EngineInv, EntriesOwned
      <3>3. o # None
        BY <2>5, QuoteIdAssumption DEF IsFinal, EngineInv, CopiesKnown, Known, Mine
      <3> HIDE DEF E, o, p
      <3>4. Tracked(E, p, op', s, id)
        BY <1>2, <2>3, <3>1, <3>2, <3>3, PlainTracked
      <3> QED
        BY <3>4 DEF E, p
    <2> QED
      BY <2>4, <2>5
  <1> QED
    BY <1>1, <1>3, <1>4 DEF MirrorInv

LEMMA QuietMirror ==
  ASSUME MirrorInv, UNCHANGED <<sessions, orders, books>>,
         op.phase # "match", op'.phase # "match", op'.trades = op.trades,
         op'.final = op.final, op'.askLeg = op.askLeg, op'.incoming = op.incoming
  PROVE  MirrorInv'
  <1>1. TradesShaped' /\ IncomingShaped'
    BY DEF MirrorInv, TradesShaped, IncomingShaped
  <1>2. ASSUME NEW s \in sessions, NEW id \in OrderId
        PROVE  Tracked(EntriesOf(books, s, id), orders[s][id], op', s, id)
    <2>1. Tracked(EntriesOf(books, s, id), orders[s][id], op, s, id)
      BY DEF MirrorInv
    <2> QED
      BY <2>1, SameTracked DEF IsFinal, Base
  <1> QED
    BY <1>1, <1>2 DEF MirrorInv

LEMMA MirrorInit == Init => MirrorInv
  <1> SUFFICES ASSUME Init PROVE MirrorInv
    OBVIOUS
  <1>1. sessions = {} /\ op = Idle
    BY DEF Init
  <1> QED
    BY <1>1, IdleFacts DEF MirrorInv, TradesShaped, IncomingShaped

LEMMA MirrorStepInv == TypeOK /\ EngineInv /\ MirrorInv /\ [Next]_vars => MirrorInv'
  <1> SUFFICES ASSUME TypeOK, EngineInv, MirrorInv, [Next]_vars PROVE MirrorInv'
    OBVIOUS
  <1>1. op \in Op
    BY DEF TypeOK
  <1>2. CASE UNCHANGED vars
    BY <1>2 DEF vars, MirrorInv, TradesShaped, IncomingShaped, Known
  <1>3. ASSUME NEW i \in Instrument, Publish(i)
        PROVE  MirrorInv'
    BY <1>3, QuietMirror DEF Publish
  <1>4. CASE PublishDone
    <2>1. /\ op.phase = "publish" /\ op' = [op EXCEPT !.phase = "report"]
          /\ UNCHANGED <<sessions, orders, books>>
      BY <1>4 DEF PublishDone
    <2>2. /\ op'.phase = "report" /\ op'.trades = op.trades /\ op'.final = op.final
          /\ op'.askLeg = op.askLeg /\ op'.incoming = op.incoming
      BY <1>1, <2>1 DEF Op
    <2> QED
      BY <2>1, <2>2, QuietMirror
  <1>5. ASSUME NEW s \in Session, Request(s)
        PROVE  MirrorInv'
    BY <1>5, RequestsMirror, CancelMirror, QuoteMirror DEF Request
  <1> QED
    BY <1>2, <1>3, <1>4, <1>5, RemovalsMirror, MatchMirror, MatchDoneMirror, ReportMirror,
       FinishMirror DEF Next, Continue

\* Between methods a record that is active is an entry, and the other way round.
LEMMA MirrorMeans == TypeOK /\ EngineInv /\ MirrorInv => MirrorAgrees
  <1> SUFFICES ASSUME TypeOK, EngineInv, MirrorInv, op = Idle, NEW o \in Order
               PROVE  (o.id # QuoteId /\ \E i \in Instrument : \E e \in books[i].entries : e.order = o)
                        <=> (IsActive(o.state) /\ \E s \in sessions, id \in OrderId : orders[s][id] = o)
    BY DEF MirrorAgrees
  <1>1. op.phase = "idle" /\ op.trades = <<>> /\ op.final = None /\ op.leaving = {}
    BY IdleFacts
  <1>2. ASSUME NEW s \in sessions, NEW id \in OrderId
        PROVE  /\ \A e \in EntriesOf(books, s, id) :
                    e.order = orders[s][id] /\ IsActive(orders[s][id].state)
               /\ EntriesOf(books, s, id) = {} =>
                    orders[s][id] = None \/ ~IsActive(orders[s][id].state)
    <2>1. Tracked(EntriesOf(books, s, id), orders[s][id], op, s, id)
      BY DEF MirrorInv
    <2>2. Base(orders[s][id], op, s, id) = orders[s][id]
      BY <1>1 DEF Base
    <2> QED
      BY <1>1, <2>1, <2>2, PlainTracked
  <1>3. ASSUME o.id # QuoteId, NEW i \in Instrument, NEW e \in books[i].entries, e.order = o
        PROVE  IsActive(o.state) /\ \E s \in sessions, id \in OrderId : orders[s][id] = o
    <2>1. o.session \in sessions /\ o.id \in OrderId
      BY <1>1, <1>3 DEF Order, EngineInv, EntriesOwned
    <2>2. e \in EntriesOf(books, o.session, o.id)
      BY <1>3, EntryOf DEF Mine
    <2>3. orders[o.session][o.id] = o /\ IsActive(o.state)
      BY <1>2, <1>3, <2>1, <2>2
    <2> QED
      BY <2>1, <2>3
  <1>4. ASSUME IsActive(o.state), NEW s \in sessions, NEW id \in OrderId, orders[s][id] = o
        PROVE  o.id # QuoteId /\ \E i \in Instrument : \E e \in books[i].entries : e.order = o
    <2>1. o # None
      BY NoneAssumption
    <2>2. o.id = id
      BY <1>4, <2>1, MirrorFacts DEF TypeOK
    <2>3. PICK e : e \in EntriesOf(books, s, id)
      BY <1>2, <1>4, <2>1
    <2>4. e.order = o
      BY <1>2, <1>4, <2>3
    <2> QED
      BY <2>2, <2>3, <2>4, EntryOf, QuoteIdAssumption
  <1> QED
    BY <1>3, <1>4

\* Cancel, replace, expiry and disconnect find through the mirror what is in
\* the books, whatever was traded, replaced or cancelled before.
THEOREM MirrorIsBook == Spec => []MirrorAgrees
  <1>1. TypeOK /\ EngineInv /\ MirrorInv => MirrorAgrees
    BY MirrorMeans
  <1> QED
    BY <1>1, MirrorInit, MirrorStepInv, TypeCorrect, EngineSafe, PTL DEF Spec

\* A terminal order in the mirror has no fill left to be reported.
LEMMA TerminalHasNoCopies ==
  ASSUME MirrorInv, NEW s \in sessions, NEW id \in OrderId, ~IsActive(orders[s][id].state),
         NEW n \in DOMAIN op.trades
  PROVE  Copies(op.trades[n], s, id) = {}
  BY DEF MirrorInv, Tracked

LEMMA TerminalStep ==
  ASSUME TypeOK, EngineInv, MirrorInv, [Next]_vars,
         NEW s \in sessions, s \in sessions', NEW id \in OrderId,
         orders[s][id] # None, ~IsActive(orders[s][id].state)
  PROVE  orders'[s][id] = orders[s][id]
  <1>1. /\ orders \in [Session -> [OrderId -> Order \cup {None}]] /\ s \in Session
        /\ op \in Op
    BY DEF TypeOK
  <1>2. CASE orders' = orders
    BY <1>2
  <1>3. ASSUME NEW t \in Session, RegisterSession(t)
        PROVE  orders'[s][id] = orders[s][id]
    BY <1>1, <1>3 DEF RegisterSession
  <1>4. CASE DropOrder
    <2>1. PICK t \in op.leaving, x \in OrderId : orders' = [orders EXCEPT ![t][x] = None]
      BY <1>4 DEF DropOrder
    <2>2. t # s
      BY DEF EngineInv, OpShape
    <2> QED
      BY <1>1, <2>1, <2>2
  <1>5. ASSUME NEW t \in Session, NEW x \in OrderId, NEW i, NEW side, NEW type, NEW price,
               NEW qty, CreateOrder(t, x, i, side, type, price, qty)
        PROVE  orders'[s][id] = orders[s][id]
    <2>1. /\ orders[t][x] = None
          /\ \E o : orders' = [orders EXCEPT ![t][x] = o]
      BY <1>5 DEF CreateOrder
    <2> QED
      BY <1>1, <2>1
  <1>6. ASSUME NEW t \in Session, NEW orig \in OrderId, NEW x \in OrderId, NEW type, NEW price,
               NEW qty, ModifyOrder(t, orig, x, type, price, qty)
        PROVE  orders'[s][id] = orders[s][id]
    <2>1. /\ IsActive(orders[t][orig].state) /\ (x # orig => orders[t][x] = None)
          /\ \E o : orders' = [orders EXCEPT ![t] = [@ EXCEPT ![orig] = None, ![x] = o]]
      BY <1>6 DEF ModifyOrder, FreshId
    <2> QED
      BY <1>1, <2>1
  <1>7. ASSUME NEW t \in Session, NEW orig \in OrderId, CancelOrder(t, orig)
        PROVE  orders'[s][id] = orders[s][id]
    <2>1. /\ IsActive(orders[t][orig].state)
          /\ \E o : orders' = [orders EXCEPT ![t][orig] = o]
      BY <1>7 DEF CancelOrder
    <2> QED
      BY <1>1, <2>1
  <1>8. ASSUME NEW t \in Session, NEW x \in OrderId, ExpireOrder(t, x)
        PROVE  orders'[s][id] = orders[s][id]
    <2> DEFINE o == [orders[t][x] EXCEPT !.state = "Expired", !.remaining = 0]
    <2>1. CASE t \in sessions /\ orders[t][x] # None /\ IsActive(orders[t][x].state)
               /\ orders' = Synced(orders, o)
      <3>1. /\ orders[t][x] \in Order /\ orders[t][x].session = t /\ orders[t][x].id = x
        BY <2>1, MirrorFacts
      <3>2. o.session = t /\ o.id = x
        BY <3>1 DEF Order
      <3> HIDE DEF o
      <3>3. orders' = orders \/ orders' = [orders EXCEPT ![t][x] = o]
        BY <2>1, <3>2 DEF Synced
      <3> QED
        BY <1>1, <2>1, <3>3
    <2> QED
      BY <1>2, <1>8, <2>1 DEF ExpireOrder
  <1>9. CASE Report
    <2>1. TradesShaped
      BY DEF MirrorInv
    <2>2. /\ 1 \in DOMAIN op.trades
          /\ Copies(op.trades[1], s, id) = {} => orders'[s][id] = orders[s][id]
      BY <1>9, <2>1, ReportedValue
    <2> QED
      BY <2>2, TerminalHasNoCopies
  <1>10. CASE Finish
    <2>1. orders'[s][id] = IF IsFinal(op, s, id) THEN op.final ELSE orders[s][id]
      BY <1>10, FinishedValue
    <2>2. Tracked(EntriesOf(books, s, id), orders[s][id], op, s, id)
      BY DEF MirrorInv
    <2>3. IsFinal(op, s, id) => orders[s][id] = op.final
      BY <2>2 DEF Tracked
    <2> QED
      BY <2>1, <2>3, Zenon
  <1>11. UNCHANGED vars \/ Tick \/ ExpireDayOrders \/ DropQuote \/ DropDone \/ ExpireDone
           \/ Match \/ MatchDone \/ PublishDone \/ (\E i \in Instrument : Publish(i))
           \/ (\E t \in Session : SessionDisconnect(t))
         => orders' = orders
    BY Zenon DEF vars, Tick, ExpireDayOrders, DropQuote, DropDone, ExpireDone, Match,
                 MatchDone, PublishDone, Publish, SessionDisconnect
  <1>12. ASSUME NEW t \in Session, Request(t)
         PROVE  orders'[s][id] = orders[s][id]
    <2>1. ASSUME NEW i \in Instrument, NEW bid, NEW ask, NEW bidQty, NEW askQty,
                 Quote(t, i, bid, bidQty, ask, askQty)
          PROVE  orders' = orders
      BY <2>1 DEF Quote
    <2> QED
      BY <1>2, <1>5, <1>6, <1>7, <1>12, <2>1 DEF Request
  <1> QED
    BY <1>2, <1>3, <1>4, <1>8, <1>9, <1>10, <1>11, <1>12 DEF Next, Continue

\* No fill and no sync, however late, revives or changes a terminal order.
THEOREM TerminalStays == Spec => TerminalIsFinal
  <1> DEFINE Stays ==
        \A s \in sessions \cap sessions', id \in OrderId :
          orders[s][id] # None /\ ~IsActive(orders[s][id].state)
              => orders'[s][id] = orders[s][id]
  <1>1. TypeOK /\ EngineInv /\ MirrorInv /\ [Next]_vars => Stays
    BY TerminalStep
  <1>2. Spec => []MirrorInv
    BY MirrorInit, MirrorStepInv, TypeCorrect, EngineSafe, PTL DEF Spec
  <1>3. [](TypeOK /\ EngineInv /\ MirrorInv) /\ [][Next]_vars => [][Stays]_vars
    BY <1>1, PTL
  <1> QED
    BY <1>2, <1>3, TypeCorrect, EngineSafe, PTL DEF Spec, TerminalIsFinal

-----------------------------------------------------------------------------
(* What the reports tell *)

ViewOrNone(o) == IF o = None THEN None ELSE ViewOf(o)

\* A report that is still to be sent tells session s of its order id: the
\* incoming order of create_order, the trades in hand, or a status.
ToldLater(w, s, id) ==
    \/ w.phase = "match" /\ w.method = "create" /\ Mine(w.incoming, s, id)
    \/ IsFinal(w, s, id) /\ (w.status \/ ~Untraded(w.trades, s, id))

\* A final state that is synced without a status is no news after the trades.
NoNews(o, w, s, id) ==
    IsFinal(w, s, id) /\ ~w.status =>
        \/ \E c : LastCopy(w.trades, s, id, c) /\ ViewOf(c) = ViewOf(w.final)
        \/ Untraded(w.trades, s, id) /\ o # None /\ ViewOf(o) = ViewOf(w.final)

\* Without the order id of session s the book b would not be crossed.
Apart(b, s, id) ==
    \A bid \in SideOf(b, "Buy"), ask \in SideOf(b, "Sell") :
        \/ Mine(bid.order, s, id) \/ Mine(ask.order, s, id)
        \/ EffectivePrice(bid.order) < EffectivePrice(ask.order)

\* The order being matched is the mirror's, is party to every trade, and is no
\* market order unless its method tells what became of the remainder.
IncomingTrades ==
    op.phase = "match" /\ op.incoming.id # QuoteId =>
        LET o == op.incoming
        IN  /\ orders[o.session][o.id] = o
            /\ op.method = "create" \/ o.type = "Limit"
            /\ Apart(books[o.inst], o.session, o.id)
            /\ \A n \in DOMAIN op.trades : Copies(op.trades[n], o.session, o.id) # {}

\* The inductive invariant of mirror and client.
ToldInv ==
    /\ IncomingTrades
    /\ \A s \in sessions, id \in OrderId :
         /\ ToldLater(op, s, id) \/ told[s][id] = ViewOrNone(orders[s][id])
         /\ NoNews(orders[s][id], op, s, id)

\* With nothing in hand everything was told.
LEMMA NothingToTell ==
  ASSUME EngineInv, ToldInv, op.phase \in {"idle", "drop", "expire"},
         NEW s \in sessions, NEW id \in OrderId
  PROVE  told[s][id] = ViewOrNone(orders[s][id])
  BY NothingInHand DEF ToldInv, ToldLater, IsFinal

LEMMA PlainTold ==
  ASSUME op'.phase # "match", op'.final = None,
         \A s \in sessions', id \in OrderId : told'[s][id] = ViewOrNone(orders'[s][id])
  PROVE  ToldInv'
  BY DEF ToldInv, IncomingTrades, NoNews, IsFinal

LEMMA QuietTold ==
  ASSUME ToldInv, UNCHANGED <<sessions, orders, told>>,
         op.phase # "match", op'.phase # "match", op'.trades = op.trades,
         op'.final = op.final, op'.status = op.status
  PROVE  ToldInv'
  <1>1. \A s, id : /\ ToldLater(op', s, id) <=> ToldLater(op, s, id)
                   /\ \A o : NoNews(o, op', s, id) <=> NoNews(o, op, s, id)
    BY DEF ToldLater, NoNews, IsFinal
  <1> QED
    BY <1>1 DEF ToldInv, IncomingTrades

\* The steps that only drop orders, or move nothing: expiry tells the client
\* what it writes into the mirror.
LEMMA RemovalsTold ==
  ASSUME TypeOK, EngineInv, ToldInv,
         \/ Tick \/ ExpireDayOrders \/ DropOrder \/ DropQuote \/ DropDone \/ ExpireDone
         \/ \E s \in Session : RegisterSession(s) \/ SessionDisconnect(s)
         \/ \E s \in Session, id \in OrderId : ExpireOrder(s, id)
  PROVE  ToldInv'
  <1>1. /\ op \in Op /\ sessions \subseteq Session
        /\ orders \in [Session -> [OrderId -> Order \cup {None}]]
        /\ told \in [Session -> [OrderId -> View \cup {None}]]
    BY DEF TypeOK
  <1>2. ASSUME op.phase \in {"idle", "drop", "expire"}, op'.phase # "match", op'.final = None,
               \A s \in sessions', id \in OrderId :
                  \/ s \in sessions /\ orders'[s][id] = orders[s][id] /\ told'[s][id] = told[s][id]
                  \/ told'[s][id] = ViewOrNone(orders'[s][id])
        PROVE  ToldInv'
    BY <1>2, NothingToTell, PlainTold
  <1>3. ASSUME \/ Tick \/ ExpireDayOrders \/ DropDone \/ ExpireDone
               \/ \E s \in Session : SessionDisconnect(s)
        PROVE  ToldInv'
    <2>1. op.phase \in {"idle", "drop", "expire"} /\ op'.phase # "match" /\ op'.final = None
      <3>1. CASE Tick
        BY <3>1, IdleFacts DEF Tick
      <3>2. CASE ExpireDayOrders \/ \E s \in Session : SessionDisconnect(s)
        <4>1. /\ op = Idle
              /\ \/ \E x : op' = [Idle EXCEPT !.phase = "expire", !.method = "other", !.expired = x]
                 \/ \E x : op' = [Idle EXCEPT !.phase = "drop", !.method = "other", !.leaving = x]
          BY <3>2, Zenon DEF ExpireDayOrders, SessionDisconnect
        <4> QED
          BY <4>1 DEF Idle
      <3>3. CASE DropDone \/ ExpireDone
        BY <3>3 DEF DropDone, ExpireDone, Publishing, Idle
      <3> QED
        BY <1>3, <3>1, <3>2, <3>3
    <2>2. /\ orders' = orders /\ sessions' \subseteq sessions
          /\ \A s \in sessions', id \in OrderId : told'[s][id] = told[s][id]
      <3>1. ASSUME NEW s \in Session, SessionDisconnect(s)
            PROVE  /\ orders' = orders /\ sessions' = sessions \ {s}
                   /\ \A t \in sessions', id \in OrderId : told'[t][id] = told[t][id]
        <4>1. orders' = orders /\ sessions' = sessions \ {s}
              /\ told' = [told EXCEPT ![s] = [id \in OrderId |-> None]]
          BY <3>1 DEF SessionDisconnect
        <4> QED
          BY <1>1, <4>1
      <3> QED
        BY <1>3, <3>1 DEF Tick, ExpireDayOrders, DropDone, ExpireDone
    <2> QED
      BY <1>2, <2>1, <2>2
  <1>4. ASSUME NEW s \in Session, RegisterSession(s)
        PROVE  ToldInv'
    <2>1. op = Idle /\ op' = op /\ sessions' = sessions \cup {s}
          /\ orders' = [orders EXCEPT ![s] = [id \in OrderId |-> None]]
          /\ told' = [told EXCEPT ![s] = [id \in OrderId |-> None]]
      BY <1>4 DEF RegisterSession
    <2>2. op.phase = "idle" /\ op.final = None
      BY <2>1, IdleFacts
    <2>3. \A t \in Session, id \in OrderId :
            /\ orders'[t][id] = IF t = s THEN None ELSE orders[t][id]
            /\ told'[t][id] = IF t = s THEN None ELSE told[t][id]
      BY <1>1, <2>1
    <2>4. ViewOrNone(None) = None
      BY DEF ViewOrNone
    <2> QED
      BY <1>1, <1>2, <2>1, <2>2, <2>3, <2>4
  <1>5. CASE DropOrder \/ DropQuote
    <2>1. op.phase = "drop" /\ op' = op /\ sessions' = sessions /\ told' = told
      BY <1>5 DEF DropOrder, DropQuote
    <2>2. \/ orders' = orders
          \/ \E s \in op.leaving, id \in OrderId : orders' = [orders EXCEPT ![s][id] = None]
      BY <1>5 DEF DropOrder, DropQuote
    <2>3. op.leaving \cap sessions = {} /\ op.leaving \subseteq Session
      BY <1>1 DEF EngineInv, OpShape, Op
    <2>4. \A s \in sessions, id \in OrderId : orders'[s][id] = orders[s][id]
      BY <1>1, <2>2, <2>3
    <2> QED
      BY <1>2, <2>1, <2>4, NothingInHand
  <1>6. ASSUME NEW s \in Session, NEW id \in OrderId, ExpireOrder(s, id)
        PROVE  ToldInv'
    <2> DEFINE old == orders[s][id]
               o == [old EXCEPT !.state = "Expired", !.remaining = 0]
    <2>1. /\ op.phase = "expire" /\ sessions' = sessions
          /\ op'.phase = "expire" /\ op'.final = op.final
      BY <1>1, <1>6 DEF ExpireOrder, Op
    <2>2. \/ UNCHANGED <<orders, told>>
          \/ /\ s \in sessions /\ old # None
             /\ orders' = Synced(orders, o) /\ told' = Told(told, o)
      BY <1>6 DEF ExpireOrder
    <2>3. CASE UNCHANGED <<orders, told>>
      BY <1>2, <2>1, <2>3, NothingInHand
    <2>4. CASE s \in sessions /\ old # None /\ orders' = Synced(orders, o) /\ told' = Told(told, o)
      <3>1. old \in Order /\ old.session = s /\ old.id = id
        BY <2>4, MirrorFacts
      <3>2. o.session = s /\ o.id = id /\ o \in Order
        <4>1. "Expired" \in OrderState /\ 0 \in Nat
          BY DEF OrderState
        <4> QED
          BY <3>1, <4>1 DEF Order
      <3> HIDE DEF o
      <3>3. orders' = [orders EXCEPT ![s][id] = o] /\ told' = [told EXCEPT ![s][id] = ViewOf(o)]
        BY <2>4, <3>2, QuoteIdAssumption DEF Synced, Told
      <3> HIDE DEF old
      <3>4. \A t \in Session, x \in OrderId :
               /\ orders'[t][x] = IF t = s /\ x = id THEN o ELSE orders[t][x]
               /\ told'[t][x] = IF t = s /\ x = id THEN ViewOf(o) ELSE told[t][x]
        BY <1>1, <3>3
      <3>5. ViewOrNone(o) = ViewOf(o)
        BY <3>2, NoneAssumption DEF ViewOrNone
      <3> QED
        BY <1>1, <1>2, <2>1, <3>4, <3>5, NothingInHand
    <2> QED
      BY <2>2, <2>3, <2>4
  <1> QED
    BY <1>3, <1>4, <1>5, <1>6

\* A method that starts matching the order o, with nothing traded yet.
LEMMA MatchingTold ==
  ASSUME NEW m, NEW o, NEW leg, op' = Matching(m, o, leg),
         o.id # QuoteId =>
            /\ orders'[o.session][o.id] = o
            /\ m = "create" \/ o.type = "Limit"
            /\ Apart(books'[o.inst], o.session, o.id),
         \A s \in sessions', id \in OrderId :
            (m = "create" /\ Mine(o, s, id)) \/ told'[s][id] = ViewOrNone(orders'[s][id])
  PROVE  ToldInv'
  <1>1. /\ op'.phase = "match" /\ op'.method = m /\ op'.incoming = o
        /\ op'.trades = <<>> /\ op'.final = None
    BY DEF Matching, Idle
  <1>2. DOMAIN op'.trades = {}
    BY <1>1
  <1>3. IncomingTrades'
    BY <1>1, <1>2 DEF IncomingTrades
  <1> QED
    BY <1>1, <1>3 DEF ToldInv, ToldLater, NoNews, IsFinal

\* What an idle engine's book is left with does not cross, but for a new order.
LEMMA ApartInsert ==
  ASSUME EngineInv, op = Idle, NEW i \in Instrument, NEW gone,
         gone.entries \subseteq books[i].entries, NEW o \in Order
  PROVE  Apart(Insert(gone, Booked(o)), o.session, o.id)
  <1> DEFINE n == [order |-> Booked(o), key |-> gone.levels[LevelOf(Booked(o))].next]
  <1>1. Insert(gone, Booked(o)).entries = gone.entries \cup {n} /\ n.order = Booked(o)
    BY DEF Insert
  <1>2. Booked(o).session = o.session /\ Booked(o).id = o.id
    BY DEF Booked, Order
  <1>3. Mine(n.order, o.session, o.id)
    BY <1>1, <1>2 DEF Mine
  <1> HIDE DEF n
  <1>4. \A bid \in SideOf(books[i], "Buy"), ask \in SideOf(books[i], "Sell") :
           EffectivePrice(bid.order) < EffectivePrice(ask.order)
    BY IdleFacts DEF EngineInv, Uncrossed
  <1>5. \A side : \A e \in SideOf(Insert(gone, Booked(o)), side) :
           e = n \/ e \in SideOf(books[i], side)
    BY <1>1 DEF SideOf
  <1> QED
    BY <1>3, <1>4, <1>5 DEF Apart

\* create_order leaves it to the matching to tell the client; a replacement is
\* reported at once, as it is booked.
LEMMA RequestsTold ==
  ASSUME TypeOK, EngineInv, ToldInv, "Market" \notin ReplaceType,
         NEW s \in Session, NEW id \in OrderId,
         \/ \E i \in Instrument, side \in Side, type \in OrderType, price \in Price,
               qty \in Quantity : CreateOrder(s, id, i, side, type, price, qty)
         \/ \E orig \in OrderId, type \in ReplaceType, price \in Price \cup {0},
               qty \in Quantity : ModifyOrder(s, orig, id, type, price, qty)
  PROVE  ToldInv'
  <1>1. /\ sessions \subseteq Session /\ orders \in [Session -> [OrderId -> Order \cup {None}]]
        /\ told \in [Session -> [OrderId -> View \cup {None}]]
        /\ books \in [Instrument -> Book] /\ next_arrival \in Nat
    BY DEF TypeOK
  <1>2. ASSUME NEW i \in Instrument, NEW side \in Side, NEW type \in OrderType, NEW price \in Price,
               NEW qty \in Quantity, CreateOrder(s, id, i, side, type, price, qty)
        PROVE  ToldInv'
    <2> DEFINE o == NewOrder(s, id, i, side, type, price, qty, next_arrival + 1)
    <2>1. /\ op = Idle /\ sessions' = sessions /\ told' = told
          /\ orders' = [orders EXCEPT ![s][id] = o]
          /\ books' = [books EXCEPT ![i] = Insert(@, Booked(o))]
          /\ op' = Matching("create", o, None)
      BY <1>2 DEF CreateOrder
    <2>2. o \in Order /\ o.session = s /\ o.id = id /\ o.inst = i
      <3>1. qty \in Nat /\ price \in Price \cup {0} /\ next_arrival + 1 \in Nat
        BY <1>1, InputAssumption
      <3> QED
        BY <3>1, NewOrderType DEF NewOrder
    <2> HIDE DEF o
    <2>3. /\ \A t \in Session, x \in OrderId :
               orders'[t][x] = IF t = s /\ x = id THEN o ELSE orders[t][x]
          /\ books'[i] = Insert(books[i], Booked(o))
      BY <1>1, <2>1
    <2>4. Apart(books'[i], s, id)
      BY <2>1, <2>2, <2>3, ApartInsert
    <2>5. \A t \in sessions, x \in OrderId :
             Mine(o, t, x) \/ told'[t][x] = ViewOrNone(orders'[t][x])
      BY <1>1, <2>1, <2>2, <2>3, IdleFacts, NothingToTell DEF Mine
    <2> QED
      BY <2>1, <2>2, <2>3, <2>4, <2>5, MatchingTold
  <1>3. ASSUME NEW orig \in OrderId, NEW type \in ReplaceType, NEW price \in Price \cup {0},
               NEW qty \in Quantity, ModifyOrder(s, orig, id, type, price, qty)
        PROVE  ToldInv'
    <2> DEFINE old == orders[s][orig]
               o == Replacement(old, id, type, price, qty)
               i == old.inst
               gone == Remove(books[i], s, orig, old.side, old.price)
    <2>1. /\ op = Idle /\ sessions' = sessions /\ old # None /\ qty >= old.cum
          /\ orders' = [orders EXCEPT ![s] = [@ EXCEPT ![orig] = None, ![id] = o]]
          /\ told' = [told EXCEPT ![s] = [@ EXCEPT ![orig] = None, ![id] = ViewOf(o)]]
      BY <1>3, ZenonT(30) DEF ModifyOrder
    <2>2. \/ op' = Publishing("replace", None, FALSE)
          \/ /\ books' = [books EXCEPT ![i] = Insert(gone, Booked(o))]
             /\ op' = Matching("replace", o, None)
      BY <1>3 DEF ModifyOrder
    <2>3. /\ old \in Order /\ i \in Instrument /\ old.session = s /\ old.id = orig
      BY <2>1, MirrorFacts
    <2>4. o \in Order
      BY <1>1, <2>1, <2>3, InputAssumption, ReplacementType
    <2>5. /\ o.session = s /\ o.id = id /\ o.inst = i /\ o.type = type
      BY <2>3 DEF Replacement, Order
    <2>6. o.type = "Limit"
      BY <2>5, InputAssumption DEF OrderType
    <2>7. gone.entries \subseteq books[i].entries
      BY <2>1, IdleFacts, RemovalHits
    <2> HIDE DEF o, gone, i
    <2>8. \A t \in Session, x \in OrderId :
            /\ orders'[t][x] = IF t = s /\ x = id THEN o
                               ELSE IF t = s /\ x = orig THEN None ELSE orders[t][x]
            /\ told'[t][x] = IF t = s /\ x = id THEN ViewOf(o)
                             ELSE IF t = s /\ x = orig THEN None ELSE told[t][x]
      BY <1>1, <2>1
    <2>9. \A t \in sessions, x \in OrderId : told[t][x] = ViewOrNone(orders[t][x])
      BY <2>1, IdleFacts, NothingToTell
    <2>10. ViewOrNone(o) = ViewOf(o) /\ ViewOrNone(None) = None
      BY <2>4, NoneAssumption DEF ViewOrNone
    <2>11. \A t \in sessions', x \in OrderId : told'[t][x] = ViewOrNone(orders'[t][x])
      BY <1>1, <2>1, <2>8, <2>9, <2>10
    <2>12. CASE op' = Publishing("replace", None, FALSE)
      <3>1. op'.phase # "match" /\ op'.final = None
        BY <2>12 DEF Publishing, Idle
      <3> QED
        BY <2>11, <3>1, PlainTold
    <2>13. CASE /\ books' = [books EXCEPT ![i] = Insert(gone, Booked(o))]
                /\ op' = Matching("replace", o, None)
      <3>1. books'[i] = Insert(gone, Booked(o))
        BY <1>1, <2>3, <2>13
      <3>2. Apart(books'[i], s, id)
        BY <2>1, <2>3, <2>4, <2>5, <2>7, <3>1, ApartInsert
      <3>3. orders'[s][id] = o
        BY <2>8
      <3> QED
        BY <2>5, <2>6, <2>11, <2>13, <3>2, <3>3, MatchingTold
    <2> QED
      BY <2>2, <2>12, <2>13
  <1> QED
    BY <1>2, <1>3

\* A cancelled order is told of by its status.  Nothing is told of quotes here.
LEMMA CancelTold ==
  ASSUME TypeOK, EngineInv, ToldInv, NEW s \in Session, NEW orig \in OrderId,
         CancelOrder(s, orig)
  PROVE  ToldInv'
  <1> DEFINE old == orders[s][orig]
  <1>1. op = Idle /\ sessions' = sessions /\ told' = told
    BY DEF CancelOrder
  <1>2. PICK e \in Located(books[old.inst], s, orig, old.side, old.price) :
          /\ orders' = [orders EXCEPT ![s][orig] = [e.order EXCEPT !.state = "Cancelled"]]
          /\ op' = Publishing("cancel", [e.order EXCEPT !.state = "Cancelled"], TRUE)
    BY Zenon DEF CancelOrder
  <1> DEFINE c == [e.order EXCEPT !.state = "Cancelled"]
  <1>3. c \in Order /\ c.session = s /\ c.id = orig
    <2>1. old.inst \in Instrument
      <3>1. old # None
        BY DEF CancelOrder
      <3> QED
        BY <3>1, MirrorFacts
    <2>2. e.order \in Order /\ e.order.session = s /\ e.order.id = orig
      BY <2>1, EntryFacts DEF Located
    <2>3. "Cancelled" \in OrderState
      BY DEF OrderState
    <2> QED
      BY <2>2, <2>3, StateType DEF Order
  <1>4. op'.phase = "publish" /\ op'.final = c /\ op'.status = TRUE
    BY <1>2 DEF Publishing, Idle
  <1> HIDE DEF c
  <1>5. \A t \in Session, x \in OrderId :
          orders'[t][x] = IF t = s /\ x = orig THEN c ELSE orders[t][x]
    BY <1>2 DEF TypeOK, c
  <1>6. ASSUME NEW t \in sessions, NEW x \in OrderId
        PROVE  /\ ToldLater(op', t, x) \/ told[t][x] = ViewOrNone(orders'[t][x])
               /\ NoNews(orders'[t][x], op', t, x)
    <2>1. CASE t = s /\ x = orig
      BY <1>3, <1>4, <2>1, NoneAssumption DEF ToldLater, NoNews, IsFinal, Mine
    <2>2. CASE ~(t = s /\ x = orig)
      <3>1. orders'[t][x] = orders[t][x] /\ told[t][x] = ViewOrNone(orders[t][x])
        BY <1>1, <1>5, <2>2, IdleFacts, NothingToTell DEF TypeOK
      <3> QED
        BY <1>4, <3>1 DEF NoNews
    <2> QED
      BY <2>1, <2>2
  <1> QED
    BY <1>1, <1>4, <1>6 DEF ToldInv, IncomingTrades

LEMMA QuoteTold ==
  ASSUME EngineInv, ToldInv, NEW s \in Session, NEW i \in Instrument,
         NEW bid, NEW ask, NEW bidQty, NEW askQty, Quote(s, i, bid, bidQty, ask, askQty)
  PROVE  ToldInv'
  <1>1. op = Idle /\ sessions' = sessions /\ orders' = orders /\ told' = told
    BY DEF Quote
  <1>2. \A t \in sessions, x \in OrderId : told[t][x] = ViewOrNone(orders[t][x])
    BY <1>1, IdleFacts, NothingToTell
  <1>3. \/ \E side, price, qty, arrival, leg :
              op' = Matching("quote", QuoteLeg(s, i, side, price, qty, arrival), leg)
        \/ op' = Publishing("quote", None, FALSE)
    BY Zenon DEF Quote
  <1>4. CASE \E side, price, qty, arrival, leg :
              op' = Matching("quote", QuoteLeg(s, i, side, price, qty, arrival), leg)
    <2>1. \A side, price, qty, arrival : QuoteLeg(s, i, side, price, qty, arrival).id = QuoteId
      BY DEF QuoteLeg, NewOrder
    <2> QED
      BY <1>1, <1>2, <1>4, <2>1, MatchingTold
  <1>5. CASE op' = Publishing("quote", None, FALSE)
    <2>1. op'.phase # "match" /\ op'.final = None
      BY <1>5 DEF Publishing, Idle
    <2> QED
      BY <1>1, <1>2, <2>1, PlainTold
  <1> QED
    BY <1>3, <1>4, <1>5

\* A trade is one of the incoming order: nothing else of its book crosses.
LEMMA MatchTold ==
  ASSUME TypeOK, EngineInv, MirrorInv, ToldInv, Match
  PROVE  ToldInv'
  <1> DEFINE i == op.incoming.inst
             q == op.incoming.session
             x == op.incoming.id
  <1>1. op.phase = "match" /\ op \in Op /\ i \in Instrument /\ op.trades \in Seq(Trade)
    BY DEF Match, TypeOK, EngineInv, OpShape, Op, Order
  <1>2. PICK bid \in Top(books[i], "Buy"), ask \in Top(books[i], "Sell") :
          /\ EffectivePrice(bid.order) >= EffectivePrice(ask.order)
          /\ books' = [books EXCEPT ![i] = AfterTrade(@, bid, ask, TradeOf(bid.order, ask.order))]
          /\ op' = [op EXCEPT !.trades = Append(@, TradeOf(bid.order, ask.order))]
    BY DEF Match
  <1> DEFINE t == TradeOf(bid.order, ask.order)
  <1>3. orders' = orders /\ sessions' = sessions /\ told' = told
    BY DEF Match
  <1>4. /\ bid \in SideOf(books[i], "Buy") /\ ask \in SideOf(books[i], "Sell")
        /\ bid.order \in Order /\ ask.order \in Order
        /\ bid.order.side = "Buy" /\ ask.order.side = "Sell"
    <2>1. bid \in SideOf(books[i], "Buy") /\ ask \in SideOf(books[i], "Sell")
      BY DEF Top
    <2> QED
      BY <1>1, <2>1, EntryFacts DEF SideOf
  <1>5. /\ op'.trades = Append(op.trades, t) /\ op'.phase = op.phase /\ op'.final = op.final
        /\ op'.incoming = op.incoming /\ op'.method = op.method
    BY <1>1, <1>2 DEF Op
  <1>6. /\ SameOrder(t.buyer, bid.order) /\ SameOrder(t.seller, ask.order)
        /\ t.buyer.side = "Buy" /\ t.seller.side = "Sell"
    BY <1>4, TradeKeeps DEF SameOrder
  <1>7. t \in Trade
    BY <1>4, TradeOfType DEF Trade
  <1>8. op.final = None
    BY <1>1 DEF MirrorInv, IncomingShaped
  <1>9. books'[i] = AfterTrade(books[i], bid, ask, t)
    BY <1>1, <1>2 DEF TypeOK
  <1>10. EffectivePrice(bid.order) \in Nat /\ EffectivePrice(ask.order) \in Nat
    BY <1>4, EffectivePriceType, LevelKeyNat
  <1> HIDE DEF t, i, q, x
  <1>11. ASSUME x # QuoteId
         PROVE  /\ Apart(books'[i], q, x)
                /\ \A n \in DOMAIN op'.trades : Copies(op'.trades[n], q, x) # {}
    <2>1. /\ Apart(books[i], q, x)
          /\ \A n \in DOMAIN op.trades : Copies(op.trades[n], q, x) # {}
      BY <1>1, <1>11 DEF ToldInv, IncomingTrades, i, q, x
    <2>2. Mine(bid.order, q, x) \/ Mine(ask.order, q, x)
      <3>1. ~(EffectivePrice(bid.order) < EffectivePrice(ask.order))
        BY <1>2, <1>10
      <3> QED
        BY <1>4, <2>1, <3>1 DEF Apart
    <2>3. Copies(t, q, x) # {}
      BY <1>6, <2>2 DEF Copies, Mine, SameOrder
    <2>4. \A n \in DOMAIN op'.trades :
             (n \in DOMAIN op.trades /\ op'.trades[n] = op.trades[n]) \/ op'.trades[n] = t
      BY <1>1, <1>5, <1>7, TradedTracked
    <2>5. \A side : \A e \in SideOf(books'[i], side) : \E f \in SideOf(books[i], side) :
             /\ EffectivePrice(e.order) = EffectivePrice(f.order)
             /\ Mine(f.order, q, x) => Mine(e.order, q, x)
      <3> TAKE side
      <3> TAKE e \in SideOf(books'[i], side)
      <3>1. \/ e \in books[i].entries
            \/ e.order = t.buyer \/ e.order = t.seller
        BY <1>9, AfterTradeEntries DEF SideOf
      <3>2. CASE e \in books[i].entries
        BY <3>2 DEF SideOf
      <3>3. CASE e.order = t.buyer
        BY <1>4, <1>6, <3>3, SameLevel DEF SideOf, SameOrder, Mine
      <3>4. CASE e.order = t.seller
        BY <1>4, <1>6, <3>4, SameLevel DEF SideOf, SameOrder, Mine
      <3> QED
        BY <3>1, <3>2, <3>3, <3>4
    <2>6. Apart(books'[i], q, x)
      BY <2>1, <2>5 DEF Apart
    <2> QED
      BY <2>1, <2>3, <2>4, <2>6
  <1>12. IncomingTrades'
    BY <1>3, <1>5, <1>11 DEF ToldInv, IncomingTrades, i, q, x
  <1>13. \A s, id : ToldLater(op', s, id) <=> ToldLater(op, s, id)
    BY <1>5, <1>8 DEF ToldLater, IsFinal
  <1> QED
    BY <1>3, <1>5, <1>8, <1>12, <1>13 DEF ToldInv, NoNews, IsFinal

\* The final state of the incoming order is a copy that a trade will report,
\* unless it is untraded or a cancelled remainder; then create_order sends a
\* status, and a replacement was told of already.
LEMMA MatchDoneTold ==
  ASSUME TypeOK, EngineInv, MirrorInv, ToldInv, MatchDone
  PROVE  ToldInv'
  <1> DEFINE i == op.incoming.inst
             q == op.incoming.session
             x == op.incoming.id
             final == IF Resting # {} THEN {Remainder(e) : e \in Resting} ELSE Consumed
  <1>1. /\ op.phase = "match" /\ op \in Op /\ op.incoming \in Order /\ i \in Instrument
        /\ op.trades \in Seq(Trade) /\ sessions \subseteq Session
    BY DEF MatchDone, TypeOK, EngineInv, OpShape, Op, Order
  <1>2. orders' = orders /\ sessions' = sessions /\ told' = told
    BY DEF MatchDone
  <1>3. op.final = None /\ Known(op.incoming)
    BY <1>1 DEF MirrorInv, IncomingShaped
  <1>4. CASE op.askLeg # None /\ op' = [op EXCEPT !.incoming = op.askLeg, !.askLeg = None]
    <2>1. op.incoming.id = QuoteId /\ op.askLeg.id = QuoteId
      BY <1>4 DEF MirrorInv, IncomingShaped, EngineInv, OpShape
    <2>2. op'.phase = op.phase /\ op'.final = None /\ op'.incoming = op.askLeg
      BY <1>1, <1>3, <1>4 DEF Op
    <2>3. IncomingTrades'
      BY <2>1, <2>2 DEF IncomingTrades
    <2>4. \A s \in sessions, id \in OrderId : ~ToldLater(op, s, id)
      BY <1>3, <2>1, QuoteIdAssumption DEF ToldLater, IsFinal, Mine
    <2>5. \A s \in sessions, id \in OrderId : told[s][id] = ViewOrNone(orders[s][id])
      BY <2>4 DEF ToldInv
    <2>6. \A s, id, o : NoNews(o, op', s, id)
      BY <2>2 DEF NoNews, IsFinal
    <2> QED
      BY <1>2, <2>3, <2>5, <2>6 DEF ToldInv
  <1>5. CASE \E o \in final : op' = [op EXCEPT !.phase = "publish", !.incoming = None,
                                               !.final = o, !.status = StatusDue(o)]
    <2>1. PICK f \in final : op' = [op EXCEPT !.phase = "publish", !.incoming = None,
                                              !.final = f, !.status = StatusDue(f)]
      BY <1>5
    <2>2. /\ op'.phase = "publish" /\ op'.trades = op.trades /\ op'.final = f
          /\ op'.status = StatusDue(f)
      BY <1>1, <2>1 DEF Op
    <2>3. f \in Order
      BY <1>1, <2>1, FinalKnown
    <2>4. \A e \in Resting :
            e \in books[i].entries /\ Mine(e.order, q, x) /\ e.order \in Order
      BY <1>1, EntryFacts DEF Resting, Located, Mine
    <2>5. Mine(f, q, x)
      <3>1. CASE Resting # {}
        <4>1. PICK e \in Resting : f = Remainder(e)
          BY <2>1, <3>1
        <4> QED
          BY <2>4, <4>1 DEF Remainder, Mine, Order
      <3>2. CASE Resting = {}
        BY <2>1, <3>2 DEF Consumed, Mine
      <3> QED
        BY <3>1, <3>2
    <2>6. IncomingTrades'
      BY <2>2 DEF IncomingTrades
    <2>7. ASSUME NEW s \in sessions, NEW id \in OrderId, s = q, id = x
          PROVE  /\ ToldLater(op', s, id) \/ told[s][id] = ViewOrNone(orders[s][id])
                 /\ NoNews(orders[s][id], op', s, id)
      <3> DEFINE o == orders[s][id]
                 E == EntriesOf(books, s, id)
      <3>1. /\ o = op.incoming /\ (op.method = "create" \/ o.type = "Limit")
            /\ \A n \in DOMAIN op.trades : Copies(op.trades[n], s, id) # {}
        BY <1>1, <2>7, QuoteIdAssumption DEF ToldInv, IncomingTrades
      <3>2. Tracked(E, o, op, s, id)
        BY DEF MirrorInv
      <3>3. IsFinal(op', s, id) /\ ~IsFinal(op, s, id) /\ Mine(f, s, id)
        BY <1>3, <2>2, <2>3, <2>5, <2>7, NoneAssumption DEF IsFinal
      <3>4. ASSUME op.method = "create"
            PROVE  ToldLater(op', s, id)
        <4>1. op.trades = <<>> => op'.status
          BY <2>2, <3>4 DEF StatusDue
        <4>2. op.trades # <<>> => ~Untraded(op.trades, s, id)
          <5>1. op.trades # <<>> => 1 \in DOMAIN op.trades
            BY <1>1
          <5> QED
            BY <3>1, <5>1 DEF Untraded
        <4> QED
          BY <2>2, <3>3, <4>1, <4>2 DEF ToldLater
      <3>5. op.method # "create" => told[s][id] = ViewOrNone(o)
        BY <3>3 DEF ToldInv, ToldLater
      <3>6. ASSUME ~StatusDue(f)
            PROVE  \/ \E c : LastCopy(op.trades, s, id, c) /\ ViewOf(c) = ViewOf(f)
                   \/ Untraded(op.trades, s, id) /\ o # None /\ ViewOf(o) = ViewOf(f)
        <4>1. CASE Resting = {}
          <5>1. PICK n \in DOMAIN op.trades :
                   f = CopyIn(op.trades[n]) /\ CopyIn(op.trades[n]).remaining = 0
            BY <2>1, <4>1 DEF Consumed
          <5>2. f \in Copies(op.trades[n], s, id) /\ ~IsActive(f.state)
            BY <3>3, <5>1 DEF MirrorInv, TradesShaped, CopyIn, Copies
          <5>3. \A k \in DOMAIN op.trades : k > n => Copies(op.trades[k], s, id) = {}
            BY <3>2, <5>2 DEF Tracked
          <5> QED
            BY <5>2, <5>3 DEF LastCopy
        <4>2. CASE Resting # {}
          <5>1. PICK e \in Resting : f = Remainder(e)
            BY <2>1, <4>2
          <5>2. e \in E
            BY <1>1, <2>4, <2>7, <5>1, EntryOf
          <5>3. Latest(o, op, s, id, e.order) /\ IsActive(o.state)
            BY <3>2, <5>2 DEF Tracked
          <5>4. \/ LastCopy(op.trades, s, id, e.order)
                \/ Untraded(op.trades, s, id) /\ e.order = Booked(op.incoming)
            BY <1>1, <2>7, <3>3, <5>3 DEF Latest, Base, Mine
          <5>5. f = e.order
            <6>1. CASE op.incoming.type = "Market"
              <7>1. f.state = "Cancelled" /\ f.type = e.order.type
                BY <2>4, <5>1, <6>1 DEF Remainder, Order
              <7>2. e.order.type = "Market"
                <8>1. SameOrder(o, e.order)
                  BY <1>1, <2>4, <2>7, <5>1, OneEntry
                <8> QED
                  BY <3>1, <6>1, <8>1 DEF SameOrder
              <7>3. op.method = "create"
                BY <3>1, <6>1
              <7> QED
                BY <3>6, <7>1, <7>2, <7>3 DEF StatusDue
            <6>2. CASE op.incoming.type # "Market"
              BY <5>1, <6>2 DEF Remainder
            <6> QED
              BY <6>1, <6>2
          <5>6. ViewOf(Booked(op.incoming)) = ViewOf(op.incoming)
            BY <1>1, <3>1, <5>3 DEF ViewOf, Booked, IsActive, Order
          <5>7. o # None
            BY <1>1, <3>1, NoneAssumption
          <5> QED
            BY <3>1, <5>4, <5>5, <5>6, <5>7
        <4> QED
          BY <4>1, <4>2
      <3>7. NoNews(o, op', s, id)
        BY <2>2, <3>6 DEF NoNews
      <3> QED
        BY <3>4, <3>5, <3>7
    <2>8. ASSUME NEW s \in sessions, NEW id \in OrderId, ~(s = q /\ id = x)
          PROVE  /\ ToldLater(op', s, id) \/ told[s][id] = ViewOrNone(orders[s][id])
                 /\ NoNews(orders[s][id], op', s, id)
      <3>1. ~IsFinal(op', s, id) /\ ~ToldLater(op, s, id)
        BY <1>3, <2>2, <2>5, <2>8 DEF IsFinal, ToldLater, Mine
      <3> QED
        BY <3>1 DEF ToldInv, NoNews
    <2> HIDE DEF q, x
    <2> QED
      BY <1>2, <2>6, <2>7, <2>8 DEF ToldInv
  <1> QED
    BY <1>4, <1>5, Zenon DEF MatchDone

\* What a report tells.
LEMMA ToldValue ==
  ASSUME NEW v \in [Session -> [OrderId -> View \cup {None}]], sessions \subseteq Session,
         NEW s \in sessions, NEW id \in OrderId, NEW c
  PROVE  Told(v, c)[s][id] = IF Mine(c, s, id) THEN ViewOf(c) ELSE v[s][id]
  <1>1. CASE Mine(c, s, id)
    <2>1. c.id # QuoteId /\ c.session \in sessions
      BY <1>1, QuoteIdAssumption DEF Mine
    <2>2. Told(v, c) = [v EXCEPT ![s][id] = ViewOf(c)]
      BY <1>1, <2>1 DEF Told, Mine
    <2> QED
      BY <1>1, <2>2
  <1>2. CASE ~Mine(c, s, id)
    <2>1. CASE Told(v, c) = v
      BY <1>2, <2>1
    <2>2. CASE Told(v, c) = [v EXCEPT ![c.session][c.id] = ViewOf(c)]
      <3>1. c.session # s \/ c.id # id
        BY <1>2 DEF Mine
      <3> QED
        BY <1>2, <2>2, <3>1
    <2> QED
      BY <2>1, <2>2 DEF Told
  <1> QED
    BY <1>1, <1>2

\* A pair of fill reports tells what it writes into the mirror.
LEMMA ReportTold ==
  ASSUME TypeOK, EngineInv, MirrorInv, ToldInv, Report
  PROVE  ToldInv'
  <1> DEFINE ts == op.trades
             us == op'.trades
  <1>1. /\ op \in Op /\ ts \in Seq(Trade) /\ ts # <<>> /\ op.phase = "report"
        /\ sessions' = sessions /\ sessions \subseteq Session
        /\ op' = [op EXCEPT !.trades = Tail(@)]
    BY DEF Report, TypeOK, Op
  <1>2. /\ us = Tail(ts) /\ op'.phase = "report" /\ op'.final = op.final
        /\ op'.status = op.status
    BY <1>1 DEF Op
  <1>3. /\ 1 \in DOMAIN ts /\ ts[1] = Head(ts) /\ ts[1] \in Trade
        /\ \A n \in DOMAIN ts : n = 1 \/ (n - 1 \in DOMAIN us /\ us[n - 1] = ts[n])
    BY <1>1, <1>2
  <1> HIDE DEF ts, us
  <1>4. ASSUME NEW s \in sessions, NEW id \in OrderId
        PROVE  /\ ToldLater(op', s, id) \/ told'[s][id] = ViewOrNone(orders'[s][id])
               /\ NoNews(orders'[s][id], op', s, id)
    <2> DEFINE o == orders[s][id]
               p == orders'[s][id]
               C == Copies(ts[1], s, id)
    <2>1. s \in Session /\ TradesShaped
      BY DEF MirrorInv, TypeOK
    <2>2. (C = {} => p = o) /\ \A c \in C : p = c
      BY <2>1, ReportedValue DEF ts
    <2>3. /\ \A c, d \in C : c = d
          /\ \A c \in C : c \in Order
      BY <1>3, <2>1, OneCopy DEF ts
    <2>4. /\ \A c : LastCopy(ts, s, id, c) => LastCopy(us, s, id, c) \/ (Untraded(us, s, id) /\ c \in C)
          /\ Untraded(ts, s, id) => Untraded(us, s, id) /\ C = {}
      BY <1>1, <1>2, ReportedTracked
    <2>5. Untraded(us, s, id) /\ C = {} => Untraded(ts, s, id)
      BY <1>3 DEF Untraded
    <2>6. (C = {} => told'[s][id] = told[s][id]) /\ \A c \in C : told'[s][id] = ViewOf(c)
      <3>1. told' = Told(Told(told, ts[1].buyer), ts[1].seller)
        BY <1>3 DEF Report, ts
      <3>2. /\ told \in [Session -> [OrderId -> View \cup {None}]]
            /\ Told(told, ts[1].buyer) \in [Session -> [OrderId -> View \cup {None}]]
        BY <1>3, ToldType DEF TypeOK, Trade
      <3>3. told'[s][id] = IF Mine(ts[1].seller, s, id) THEN ViewOf(ts[1].seller)
                           ELSE IF Mine(ts[1].buyer, s, id) THEN ViewOf(ts[1].buyer)
                           ELSE told[s][id]
        BY <1>1, <3>1, <3>2, ToldValue
      <3> QED
        BY <2>3, <3>3 DEF Copies
    <2>7. IsFinal(op', s, id) <=> IsFinal(op, s, id)
      BY <1>2 DEF IsFinal
    <2>8. \A c \in C : c # None /\ ViewOrNone(c) = ViewOf(c)
      BY <2>3, NoneAssumption DEF ViewOrNone
    <2>9. /\ ToldLater(op, s, id) \/ told[s][id] = ViewOrNone(o)
          /\ NoNews(o, op, s, id)
      BY DEF ToldInv
    <2> HIDE DEF o, p, C
    <2>10. ToldLater(op', s, id) \/ told'[s][id] = ViewOrNone(p)
      <3>1. CASE C = {}
        <4>1. ToldLater(op, s, id) => ToldLater(op', s, id)
          BY <1>1, <1>2, <2>5, <2>7, <3>1 DEF ToldLater, ts, us
        <4> QED
          BY <2>2, <2>6, <2>9, <3>1, <4>1
      <3>2. CASE C # {}
        BY <2>2, <2>6, <2>8, <3>2
      <3> QED
        BY <3>1, <3>2
    <2>11. NoNews(p, op', s, id)
      <3> SUFFICES ASSUME IsFinal(op, s, id), ~op.status
                   PROVE  \/ \E c : LastCopy(us, s, id, c) /\ ViewOf(c) = ViewOf(op.final)
                          \/ Untraded(us, s, id) /\ p # None /\ ViewOf(p) = ViewOf(op.final)
        BY <1>2, <2>7 DEF NoNews, us
      <3>1. \/ \E c : LastCopy(ts, s, id, c) /\ ViewOf(c) = ViewOf(op.final)
            \/ Untraded(ts, s, id) /\ o # None /\ ViewOf(o) = ViewOf(op.final)
        BY <2>9 DEF NoNews, ts
      <3> QED
        BY <2>2, <2>4, <2>8, <3>1
    <2> QED
      BY <2>10, <2>11 DEF p
  <1> QED
    BY <1>1, <1>2, <1>4 DEF ToldInv, IncomingTrades

\* The last sync is told of by the status or is no news.
LEMMA FinishTold ==
  ASSUME TypeOK, EngineInv, ToldInv, Finish
  PROVE  ToldInv'
  <1>1. /\ op.phase = "report" /\ op.trades = <<>> /\ op' = Idle /\ sessions' = sessions
        /\ told' = IF op.status THEN Told(told, op.final) ELSE told
        /\ told \in [Session -> [OrderId -> View \cup {None}]] /\ sessions \subseteq Session
    BY DEF Finish, TypeOK
  <1>2. op'.phase # "match" /\ op'.final = None
    BY <1>1 DEF Idle
  <1>3. ASSUME NEW s \in sessions, NEW id \in OrderId
        PROVE  told'[s][id] = ViewOrNone(orders'[s][id])
    <2>1. orders'[s][id] = IF IsFinal(op, s, id) THEN op.final ELSE orders[s][id]
      BY FinishedValue
    <2>2. /\ ToldLater(op, s, id) \/ told[s][id] = ViewOrNone(orders[s][id])
          /\ NoNews(orders[s][id], op, s, id)
      BY DEF ToldInv
    <2>3. \A c : ~LastCopy(op.trades, s, id, c)
      BY <1>1 DEF LastCopy
    <2>4. Untraded(op.trades, s, id)
      BY <1>1 DEF Untraded
    <2>5. CASE ~IsFinal(op, s, id)
      <3>1. told[s][id] = ViewOrNone(orders[s][id])
        BY <1>1, <2>2, <2>5 DEF ToldLater
      <3>2. op.status => ~Mine(op.final, s, id)
        BY <2>5 DEF EngineInv, OpShape, IsFinal
      <3> QED
        BY <1>1, <2>1, <2>5, <3>1, <3>2, ToldValue
    <2>6. CASE IsFinal(op, s, id)
      <3>1. op.final # None /\ Mine(op.final, s, id) /\ ViewOrNone(op.final) = ViewOf(op.final)
        BY <2>6 DEF IsFinal, ViewOrNone
      <3>2. CASE op.status
        BY <1>1, <2>1, <2>6, <3>1, <3>2, ToldValue
      <3>3. CASE ~op.status
        <4>1. orders[s][id] # None /\ ViewOf(orders[s][id]) = ViewOf(op.final)
          BY <2>2, <2>3, <2>6, <3>3 DEF NoNews
        <4>2. told[s][id] = ViewOrNone(orders[s][id])
          BY <1>1, <2>2, <2>4, <3>3 DEF ToldLater
        <4> QED
          BY <1>1, <2>1, <2>6, <3>1, <3>3, <4>1, <4>2 DEF ViewOrNone
      <3> QED
        BY <3>2, <3>3
    <2> QED
      BY <2>5, <2>6
  <1> QED
    BY <1>1, <1>2, <1>3, PlainTold

LEMMA ToldInit == Init => ToldInv
  <1> SUFFICES ASSUME Init PROVE ToldInv
    OBVIOUS
  <1>1. sessions = {} /\ op = Idle
    BY DEF Init
  <1> QED
    BY <1>1, IdleFacts DEF ToldInv, IncomingTrades

LEMMA ToldStep ==
  ASSUME "Market" \notin ReplaceType
  PROVE  TypeOK /\ EngineInv /\ MirrorInv /\ ToldInv /\ [Next]_vars => ToldInv'
  <1> SUFFICES ASSUME TypeOK, EngineInv, MirrorInv, ToldInv, [Next]_vars PROVE ToldInv'
    OBVIOUS
  <1>1. op \in Op
    BY DEF TypeOK
  <1>2. CASE UNCHANGED vars
    BY <1>2 DEF vars, ToldInv, IncomingTrades
  <1>3. ASSUME NEW i \in Instrument, Publish(i)
        PROVE  ToldInv'
    BY <1>3, QuietTold DEF Publish
  <1>4. CASE PublishDone
    <2>1. /\ op.phase = "publish" /\ op' = [op EXCEPT !.phase = "report"]
          /\ UNCHANGED <<sessions, orders, told>>
      BY <1>4 DEF PublishDone
    <2>2. /\ op'.phase = "report" /\ op'.trades = op.trades /\ op'.final = op.final
          /\ op'.status = op.status
      BY <1>1, <2>1 DEF Op
    <2> QED
      BY <2>1, <2>2, QuietTold
  <1>5. ASSUME NEW s \in Session, Request(s)
        PROVE  ToldInv'
    BY <1>5, RequestsTold, CancelTold, QuoteTold DEF Request
  <1> QED
    BY <1>2, <1>3, <1>4, <1>5, RemovalsTold, MatchTold, MatchDoneTold, ReportTold,
       FinishTold DEF Next, Continue

\* Between methods nothing is left to tell.
LEMMA ToldMeans == EngineInv /\ ToldInv => ClientInformed
  <1> SUFFICES ASSUME EngineInv, ToldInv, op = Idle, NEW s \in sessions, NEW id \in OrderId
               PROVE  told[s][id] = ViewOrNone(orders[s][id])
    BY DEF ClientInformed, ViewOrNone
  <1> QED
    BY IdleFacts, NothingToTell

\* When no replacement asks for a market order, the reports sent to a client say
\* of each of its orders what the engine's record says, however many trades and
\* replacements there were and whoever the counterparty was.
THEOREM ClientsAreInformed ==
  ASSUME "Market" \notin ReplaceType
  PROVE  Spec => []ClientInformed
  <1>1. EngineInv /\ ToldInv => ClientInformed
    BY ToldMeans
  <1>2. Spec => []MirrorInv
    BY MirrorInit, MirrorStepInv, TypeCorrect, EngineSafe, PTL DEF Spec
  <1>3. TypeOK /\ EngineInv /\ MirrorInv /\ ToldInv /\ [Next]_vars => ToldInv'
    BY ToldStep
  <1> QED
    BY <1>1, <1>2, <1>3, ToldInit, TypeCorrect, EngineSafe, PTL DEF Spec

-----------------------------------------------------------------------------
(* The end of matching *)

\* Every order of a book has something open.
Alive(b) == \A e \in b.entries : e.order.remaining > 0

\* What is in a book can trade, and is not what an earlier trade filled; the
\* ask leg of a quote arrives after every order of the trades so far.
EndsInv ==
    /\ MatchingEnds
    /\ \A i \in Instrument : Alive(books[i])
    /\ op.askLeg # None => op.askLeg.remaining > 0
    /\ op.phase = "match" =>
         \A n \in DOMAIN op.trades :
             /\ \A a \in Parties(op.trades[n]) : a <= op.incoming.arrival
             /\ \A e \in books[op.incoming.inst].entries :
                   e.order.arrival \notin FilledBy(op.trades[n])

LEMMA InsertAlive ==
  ASSUME NEW b, Alive(b), NEW o, o.remaining > 0
  PROVE  Alive(Insert(b, o))
  BY DEF Alive, Insert

\* A book is left alive by what only takes entries out of it.
LEMMA RemoveAlive ==
  ASSUME NEW b \in Book, Alive(b), NEW s, NEW id, NEW side, NEW price
  PROVE  Remove(b, s, id, side, price) \in Book /\ Alive(Remove(b, s, id, side, price))
  BY RemoveType DEF Alive

LEMMA WithoutQuoteAlive ==
  ASSUME NEW b \in Book, Alive(b), NEW s, NEW pair
  PROVE  Alive(WithoutQuote(b, s, pair))
  <1> DEFINE c == Remove(b, s, QuoteId, "Buy", pair.bid)
  <1>1. c \in Book /\ Alive(c)
    BY RemoveAlive
  <1> HIDE DEF c
  <1>2. Alive(Remove(c, s, QuoteId, "Sell", pair.ask))
    BY <1>1, RemoveAlive
  <1> QED
    BY <1>2 DEF WithoutQuote, c

\* A step with no trades in hand that leaves one book alive and the others alone.
LEMMA FreshEnds ==
  ASSUME TypeOK, EndsInv, NEW i \in Instrument, NEW b, Alive(b),
         books' = [books EXCEPT ![i] = b], op'.trades = <<>>,
         op'.askLeg # None => op'.askLeg.remaining > 0
  PROVE  EndsInv'
  <1>1. \A j \in Instrument : Alive(books'[j])
    BY DEF EndsInv, TypeOK
  <1>2. MatchingEnds'
    BY DEF MatchingEnds
  <1> QED
    BY <1>1, <1>2 DEF EndsInv, Alive

\* ... or all the books.
LEMMA QuietEnds ==
  ASSUME EndsInv, UNCHANGED books, op'.trades = <<>>, op'.askLeg = None
  PROVE  EndsInv'
  <1>1. MatchingEnds'
    BY DEF MatchingEnds
  <1> QED
    BY <1>1 DEF EndsInv, Alive

LEMMA RemovalsEnds ==
  ASSUME TypeOK, EngineInv, EndsInv,
         \/ DropOrder \/ DropQuote
         \/ \E s \in Session, id \in OrderId : ExpireOrder(s, id) \/ CancelOrder(s, id)
  PROVE  EndsInv'
  <1>1. \A i \in Instrument : books[i] \in Book /\ Alive(books[i])
    BY DEF TypeOK, EndsInv
  <1>2. op \in Op /\ op.leaving \subseteq Session
    BY DEF TypeOK, Op
  <1>3. ASSUME op'.trades = <<>>, op'.askLeg = None, NEW s \in Session, NEW id \in OrderId,
               orders[s][id] # None,
               books' = [books EXCEPT ![orders[s][id].inst] =
                   Remove(@, s, id, orders[s][id].side, orders[s][id].price)]
        PROVE  EndsInv'
    BY <1>1, <1>3, MirrorFacts, RemoveAlive, FreshEnds
  <1>4. CASE DropOrder
    <2>1. PICK s \in op.leaving, id \in OrderId :
            /\ orders[s][id] # None
            /\ books' = [books EXCEPT ![orders[s][id].inst] =
                   Remove(@, s, id, orders[s][id].side, orders[s][id].price)]
      BY <1>4 DEF DropOrder
    <2>2. op'.trades = <<>> /\ op'.askLeg = None
      BY <1>4, NothingInHand DEF DropOrder
    <2> QED
      BY <1>2, <1>3, <2>1, <2>2
  <1>5. CASE DropQuote
    <2>1. PICK s \in op.leaving, i \in Instrument :
            books' = [books EXCEPT ![i] = WithoutQuote(books[i], s, quotes[s][i])]
      BY <1>5 DEF DropQuote
    <2>2. op'.trades = <<>> /\ op'.askLeg = None
      BY <1>5, NothingInHand DEF DropQuote
    <2> QED
      BY <1>1, <2>1, <2>2, WithoutQuoteAlive, FreshEnds
  <1>6. ASSUME NEW s \in Session, NEW id \in OrderId, ExpireOrder(s, id)
        PROVE  EndsInv'
    <2>1. \/ UNCHANGED books
          \/ /\ orders[s][id] # None
             /\ books' = [books EXCEPT ![orders[s][id].inst] =
                   Remove(@, s, id, orders[s][id].side, orders[s][id].price)]
      BY <1>6 DEF ExpireOrder
    <2>2. op'.trades = <<>> /\ op'.askLeg = None
      BY <1>2, <1>6, NothingInHand DEF ExpireOrder, Op
    <2> QED
      BY <1>3, <2>1, <2>2, QuietEnds
  <1>7. ASSUME NEW s \in Session, NEW id \in OrderId, CancelOrder(s, id)
        PROVE  EndsInv'
    <2> DEFINE i == orders[s][id].inst
    <2>1. i \in Instrument
      <3>1. orders[s][id] # None
        BY <1>7, Zenon DEF CancelOrder
      <3> QED
        BY <3>1, MirrorFacts
    <2>2. PICK e \in books[i].entries :
            /\ books' = [books EXCEPT ![i] = Drop(books[i], e)]
            /\ op' = Publishing("cancel", [e.order EXCEPT !.state = "Cancelled"], TRUE)
      BY <1>7 DEF CancelOrder, Located
    <2>3. op'.trades = <<>> /\ op'.askLeg = None
      BY <2>2 DEF Publishing, Idle
    <2> HIDE DEF i
    <2>4. Alive(Drop(books[i], e))
      BY <1>1, <2>1 DEF Alive, Drop
    <2> QED
      BY <2>1, <2>2, <2>3, <2>4, FreshEnds
  <1> QED
    BY <1>4, <1>5, <1>6, <1>7

\* What a request puts into a book has something open.
LEMMA RequestsEnds ==
  ASSUME TypeOK, EngineInv, EndsInv, NEW s \in Session, Request(s)
  PROVE  EndsInv'
  <1>1. \A i \in Instrument : books[i] \in Book /\ Alive(books[i])
    BY DEF TypeOK, EndsInv
  <1>2. next_arrival \in Nat
    BY DEF TypeOK
  <1>3. \A q \in Quantity : q \in Nat /\ q > 0
    BY InputAssumption
  <1>4. ASSUME NEW o \in Order
        PROVE  Booked(o).remaining = o.remaining
    BY StateKeeps DEF Booked
  <1>5. ASSUME NEW id \in OrderId, NEW i \in Instrument, NEW side \in Side,
               NEW type \in OrderType, NEW price \in Price, NEW qty \in Quantity,
               CreateOrder(s, id, i, side, type, price, qty)
        PROVE  EndsInv'
    <2> DEFINE o == NewOrder(s, id, i, side, type, price, qty, next_arrival + 1)
    <2>1. o \in Order /\ o.remaining > 0
      BY <1>2, <1>3, NewOrderType DEF NewOrder
    <2>2. books' = [books EXCEPT ![i] = Insert(books[i], Booked(o))]
          /\ op' = Matching("create", o, None)
      BY <1>5 DEF CreateOrder
    <2> HIDE DEF o
    <2>3. Alive(Insert(books[i], Booked(o)))
      BY <1>1, <1>4, <2>1, InsertAlive
    <2>4. op'.trades = <<>> /\ op'.askLeg = None
      BY <2>2 DEF Matching, Idle
    <2> QED
      BY <2>2, <2>3, <2>4, FreshEnds
  <1>6. ASSUME NEW orig \in OrderId, NEW id \in OrderId, NEW type \in ReplaceType,
               NEW price \in Price \cup {0}, NEW qty \in Quantity,
               ModifyOrder(s, orig, id, type, price, qty)
        PROVE  EndsInv'
    <2> DEFINE old == orders[s][orig]
               o == Replacement(old, id, type, price, qty)
               i == old.inst
               gone == Remove(books[i], s, orig, old.side, old.price)
    <2>1. /\ old # None /\ qty >= old.cum
          /\ \/ /\ books' = [books EXCEPT ![i] = gone]
                /\ op' = Publishing("replace", None, FALSE)
             \/ /\ o.remaining # 0
                /\ books' = [books EXCEPT ![i] = Insert(gone, Booked(o))]
                /\ op' = Matching("replace", o, None)
      BY <1>6 DEF ModifyOrder
    <2>2. i \in Instrument /\ old \in Order
      BY <2>1, MirrorFacts
    <2>3. Alive(gone)
      BY <1>1, <2>2, RemoveAlive
    <2>4. o \in Order
      <3>1. type \in OrderType /\ qty \in Nat
        BY InputAssumption
      <3> QED
        BY <1>2, <2>1, <2>2, <3>1, ReplacementType
    <2>5. o.remaining \in Nat
      BY <2>4 DEF Order
    <2> HIDE DEF o, gone, i
    <2>6. o.remaining # 0 => Alive(Insert(gone, Booked(o)))
      BY <1>4, <2>3, <2>4, <2>5, InsertAlive
    <2>7. op'.trades = <<>> /\ op'.askLeg = None
      BY <2>1 DEF Publishing, Matching, Idle
    <2> QED
      BY <2>1, <2>2, <2>3, <2>6, <2>7, FreshEnds
  <1>7. ASSUME NEW i \in Instrument, NEW bid \in Price \cup {0}, NEW ask \in Price \cup {0},
               NEW bidQty \in Quantity, NEW askQty \in Quantity,
               Quote(s, i, bid, bidQty, ask, askQty)
        PROVE  EndsInv'
    <2> DEFINE gone == WithoutQuote(books[i], s, quotes[s][i])
               legs == (IF bid # 0 THEN 1 ELSE 0) + (IF ask # 0 THEN 1 ELSE 0)
               bidLeg == QuoteLeg(s, i, "Buy", bid, bidQty, next_arrival + 1)
               askLeg == QuoteLeg(s, i, "Sell", ask, askQty, next_arrival + legs)
    <2>1. \/ /\ books' = [books EXCEPT ![i] = Insert(gone, Booked(bidLeg))]
             /\ op' = Matching("quote", bidLeg, IF ask # 0 THEN askLeg ELSE None)
          \/ /\ books' = [books EXCEPT ![i] = Insert(gone, Booked(askLeg))]
             /\ op' = Matching("quote", askLeg, None)
          \/ /\ books' = [books EXCEPT ![i] = gone]
             /\ op' = Publishing("quote", None, FALSE)
      BY <1>7 DEF Quote
    <2>2. Alive(gone)
      BY <1>1, WithoutQuoteAlive
    <2>3. "Limit" \in OrderType /\ "Buy" \in Side /\ "Sell" \in Side
      BY DEF OrderType, Side
    <2>4. /\ bidLeg \in Order /\ bidLeg.remaining > 0
          /\ askLeg \in Order /\ askLeg.remaining > 0
      <3>1. next_arrival + 1 \in Nat /\ next_arrival + legs \in Nat
        BY <1>2
      <3> HIDE DEF legs
      <3> QED
        BY <1>3, <2>3, <3>1, NewOrderType DEF QuoteLeg, NewOrder
    <2> HIDE DEF gone, bidLeg, askLeg
    <2>5. Alive(Insert(gone, Booked(bidLeg))) /\ Alive(Insert(gone, Booked(askLeg)))
      BY <1>4, <2>2, <2>4, InsertAlive
    <2>6. op'.trades = <<>> /\ op'.askLeg \in {askLeg, None}
      BY <2>1 DEF Publishing, Matching, Idle
    <2> QED
      BY <2>1, <2>2, <2>4, <2>5, <2>6, FreshEnds
  <1>8. ASSUME NEW orig \in OrderId, CancelOrder(s, orig)
        PROVE  EndsInv'
    BY <1>8, RemovalsEnds
  <1> QED
    BY <1>5, <1>6, <1>7, <1>8 DEF Request

\* A trade between two orders with something open fills one of them.
LEMMA TradeFills ==
  ASSUME NEW bid \in Order, NEW ask \in Order, bid.remaining > 0, ask.remaining > 0
  PROVE  LET t == TradeOf(bid, ask)
         IN  /\ t.quantity > 0 /\ FilledBy(t) # {}
             /\ Parties(t) = {bid.arrival, ask.arrival}
             /\ bid.arrival \in FilledBy(t) /\ bid.arrival # ask.arrival => t.buyer.remaining = 0
             /\ ask.arrival \in FilledBy(t) /\ bid.arrival # ask.arrival => t.seller.remaining = 0
             /\ t.buyer.remaining # 0 => t.buyer.remaining > 0
             /\ t.seller.remaining # 0 => t.seller.remaining > 0
             /\ FilledBy(t) \subseteq Parties(t)
  <1> DEFINE q == IF bid.remaining <= ask.remaining THEN bid.remaining ELSE ask.remaining
             t == TradeOf(bid, ask)
  <1>1. bid.remaining \in Nat /\ ask.remaining \in Nat
    BY DEF Order
  <1>2. q > 0 /\ bid.remaining - q \in Nat /\ ask.remaining - q \in Nat
        /\ (bid.remaining - q = 0 \/ ask.remaining - q = 0)
    BY <1>1
  <1>3. /\ t.quantity = q
        /\ t.buyer.remaining = bid.remaining - q /\ t.seller.remaining = ask.remaining - q
        /\ t.buyer.arrival = bid.arrival /\ t.seller.arrival = ask.arrival
    BY DEF TradeOf, ApplyFill, Order
  <1> HIDE DEF q, t
  <1>4. Parties(t) = {bid.arrival, ask.arrival}
    BY <1>3 DEF Parties
  <1>5. \A a : a \in FilledBy(t) <=> \/ a = bid.arrival /\ t.buyer.remaining = 0
                                     \/ a = ask.arrival /\ t.seller.remaining = 0
    BY <1>3 DEF FilledBy
  <1>6. /\ t.buyer.remaining # 0 => t.buyer.remaining > 0
        /\ t.seller.remaining # 0 => t.seller.remaining > 0
    BY <1>2, <1>3
  <1>7. FilledBy(t) # {}
    BY <1>2, <1>3, <1>5
  <1> QED
    BY <1>2, <1>3, <1>4, <1>5, <1>6, <1>7 DEF t

\* A trade leaves out of the book what it filled.
LEMMA MatchEnds ==
  ASSUME TypeOK, EngineInv, EndsInv, Match
  PROVE  EndsInv'
  <1> DEFINE i == op.incoming.inst
  <1>1. PICK bid \in Top(books[i], "Buy"), ask \in Top(books[i], "Sell") :
          /\ books' = [books EXCEPT ![i] =
                 AfterTrade(books[i], bid, ask, TradeOf(bid.order, ask.order))]
          /\ op' = [op EXCEPT !.trades = Append(@, TradeOf(bid.order, ask.order))]
    BY DEF Match
  <1> DEFINE t == TradeOf(bid.order, ask.order)
             ts == op.trades
             us == op'.trades
  <1>2. op \in Op /\ op.phase = "match" /\ op.incoming \in Order /\ i \in Instrument
    BY DEF Match, TypeOK, EngineInv, OpShape, Op, Order
  <1>3. /\ bid \in books[i].entries /\ bid.order.side = "Buy" /\ bid.order \in Order
        /\ ask \in books[i].entries /\ ask.order.side = "Sell" /\ ask.order \in Order
    BY <1>2, EntryFacts DEF Top, SideOf
  <1>4. \A e, f \in books[i].entries : e.order.arrival = f.order.arrival => e = f
    BY <1>2 DEF EngineInv, ArrivalsUnique
  <1>5. bid.order.arrival # ask.order.arrival
    BY <1>3, <1>4
  <1>6. Alive(books[i])
    BY <1>2 DEF EndsInv
  <1>7. /\ t.quantity > 0 /\ FilledBy(t) # {}
        /\ Parties(t) = {bid.order.arrival, ask.order.arrival}
        /\ bid.order.arrival \in FilledBy(t) => t.buyer.remaining = 0
        /\ ask.order.arrival \in FilledBy(t) => t.seller.remaining = 0
        /\ t.buyer.remaining # 0 => t.buyer.remaining > 0
        /\ t.seller.remaining # 0 => t.seller.remaining > 0
        /\ FilledBy(t) \subseteq Parties(t)
    BY <1>3, <1>5, <1>6, TradeFills DEF Alive
  <1>8. /\ t \in Trade /\ t.buyer.arrival = bid.order.arrival
        /\ t.seller.arrival = ask.order.arrival
    <2>1. t \in Trade
      BY <1>3, TradeOfType DEF Trade
    <2>2. SameOrder(t.buyer, bid.order) /\ SameOrder(t.seller, ask.order)
      BY <1>3, TradeKeeps
    <2> HIDE DEF t
    <2> QED
      BY <2>1, <2>2 DEF SameOrder
  <1>9. books'[i] = AfterTrade(books[i], bid, ask, t)
        /\ \A j \in Instrument : j # i => books'[j] = books[j]
    BY <1>1, <1>2 DEF TypeOK
  <1>10. us = Append(ts, t) /\ op'.phase = "match" /\ op'.incoming = op.incoming
         /\ op'.askLeg = op.askLeg /\ ts \in Seq(Trade)
    BY <1>1, <1>2 DEF Op
  <1>11. \A e \in books'[i].entries :
           \/ e \in books[i].entries \ {bid, ask}
           \/ t.buyer.remaining # 0 /\ e = [order |-> t.buyer, key |-> bid.key]
           \/ t.seller.remaining # 0 /\ e = [order |-> t.seller, key |-> ask.key]
    BY <1>9, AfterTradeEntries
  <1> HIDE DEF t
  <1>12. /\ DOMAIN us = 1..(Len(ts) + 1) /\ DOMAIN ts = 1..Len(ts) /\ Len(ts) \in Nat
         /\ us[Len(ts) + 1] = t
         /\ \A n \in DOMAIN ts : us[n] = ts[n]
    BY <1>8, <1>10
  <1> HIDE DEF ts, us, i
  <1>13. \A j \in Instrument : Alive(books[j])'
    <2>1. Alive(books'[i])
      BY <1>6, <1>7, <1>11 DEF Alive
    <2>2. \A j \in Instrument : Alive(books'[j])
      BY <1>9, <2>1 DEF EndsInv
    <2> QED
      BY <2>2 DEF Alive
  <1>14. \A e \in books'[i].entries :
           /\ e.order.arrival \notin FilledBy(t)
           /\ \E f \in books[i].entries : f.order.arrival = e.order.arrival
    <2> TAKE e \in books'[i].entries
    <2>1. CASE e \in books[i].entries \ {bid, ask}
      BY <1>3, <1>4, <1>7, <2>1
    <2>2. CASE t.buyer.remaining # 0 /\ e = [order |-> t.buyer, key |-> bid.key]
      BY <1>3, <1>7, <1>8, <2>2
    <2>3. CASE t.seller.remaining # 0 /\ e = [order |-> t.seller, key |-> ask.key]
      BY <1>3, <1>7, <1>8, <2>3
    <2> QED
      BY <1>11, <2>1, <2>2, <2>3
  <1>15. \A n \in DOMAIN ts :
           /\ \A a \in Parties(ts[n]) : a <= op.incoming.arrival
           /\ \A e \in books[i].entries : e.order.arrival \notin FilledBy(ts[n])
    BY <1>2 DEF EndsInv, ts, i
  <1>16. \A a \in Parties(t) : a <= op.incoming.arrival
    BY <1>2, <1>3, <1>7 DEF EngineInv, ArrivalsUnique, i
  <1>17. \A n \in DOMAIN us :
           (n \in DOMAIN ts /\ us[n] = ts[n]) \/ (n = Len(ts) + 1 /\ us[n] = t)
    BY <1>12
  <1>18. \A n \in DOMAIN ts :
           /\ ts[n].quantity > 0 /\ FilledBy(ts[n]) # {}
           /\ \A k \in DOMAIN ts : k > n => FilledBy(ts[n]) \cap Parties(ts[k]) = {}
           /\ FilledBy(ts[n]) \cap Parties(t) = {}
    <2>1. \A n \in DOMAIN ts : FilledBy(ts[n]) \cap Parties(t) = {}
      BY <1>3, <1>7, <1>15
    <2> QED
      BY <2>1 DEF EndsInv, MatchingEnds, ts
  <1>19. MatchingEnds'
    <2> SUFFICES ASSUME NEW n \in DOMAIN us
                 PROVE  /\ us[n].quantity > 0
                        /\ FilledBy(us[n]) # {}
                        /\ \A k \in DOMAIN us :
                              k > n => FilledBy(us[n]) \cap Parties(us[k]) = {}
      BY DEF MatchingEnds, us
    <2>1. CASE n \in DOMAIN ts /\ us[n] = ts[n]
      BY <1>17, <1>18, <2>1
    <2>2. CASE n = Len(ts) + 1 /\ us[n] = t
      <3>1. \A k \in DOMAIN us : ~(k > n)
        BY <1>12, <2>2
      <3> QED
        BY <1>7, <2>2, <3>1
    <2> QED
      BY <1>17, <2>1, <2>2
  <1>20. \A n \in DOMAIN us :
           /\ \A a \in Parties(us[n]) : a <= op.incoming.arrival
           /\ \A e \in books'[i].entries : e.order.arrival \notin FilledBy(us[n])
    BY <1>14, <1>15, <1>16, <1>17
  <1>21. op'.askLeg # None => op'.askLeg.remaining > 0
    BY <1>10 DEF EndsInv
  <1> QED
    BY <1>10, <1>13, <1>19, <1>20, <1>21 DEF EndsInv, us, i

\* The ask leg of a quote matches after the bid leg, as the last to arrive.
LEMMA MatchDoneEnds ==
  ASSUME TypeOK, EngineInv, EndsInv, MatchDone
  PROVE  EndsInv'
  <1> DEFINE i == op.incoming.inst
             rest == IF op.incoming.type = "Market" /\ Resting # {}
                     THEN Drop(books[i], CHOOSE e \in Resting : TRUE) ELSE books[i]
  <1>1. op \in Op /\ op.phase = "match" /\ op.incoming \in Order /\ i \in Instrument
    BY DEF MatchDone, TypeOK, EngineInv, OpShape, Op, Order
  <1>2. Alive(rest) /\ rest.entries \subseteq books[i].entries
    BY <1>1 DEF EndsInv, Alive, Drop
  <1>3. \A n \in DOMAIN op.trades :
          /\ \A a \in Parties(op.trades[n]) : a \in Nat /\ a <= op.incoming.arrival
          /\ FilledBy(op.trades[n]) \subseteq Parties(op.trades[n])
          /\ \A e \in books[i].entries : e.order.arrival \notin FilledBy(op.trades[n])
    <2>1. \A n \in DOMAIN op.trades : op.trades[n] \in Trade
      BY <1>1 DEF Op
    <2>2. \A t \in Trade : FilledBy(t) \subseteq Parties(t) /\ Parties(t) \subseteq Nat
      BY DEF FilledBy, Parties, Trade, Order
    <2> QED
      BY <1>1, <2>1, <2>2 DEF EndsInv
  <1>4. \/ /\ op.askLeg # None
           /\ books' = [books EXCEPT ![i] = Insert(rest, Booked(op.askLeg))]
           /\ op' = [op EXCEPT !.incoming = op.askLeg, !.askLeg = None]
        \/ /\ op.askLeg = None
           /\ books' = [books EXCEPT ![i] = rest]
           /\ \E o : op' = [op EXCEPT !.phase = "publish", !.incoming = None,
                                      !.final = o, !.status = StatusDue(o)]
    BY Zenon DEF MatchDone
  <1>5. op'.trades = op.trades /\ op'.askLeg = None
    BY <1>1, <1>4 DEF Op
  <1>6. MatchingEnds'
    BY <1>5 DEF EndsInv, MatchingEnds
  <1> HIDE DEF rest
  <1>7. \A b : Alive(b) /\ books' = [books EXCEPT ![i] = b]
                 => books'[i] = b /\ \A j \in Instrument : Alive(books[j])'
    BY <1>1 DEF EndsInv, TypeOK, Alive
  <1>8. CASE /\ op.askLeg # None
             /\ books' = [books EXCEPT ![i] = Insert(rest, Booked(op.askLeg))]
             /\ op' = [op EXCEPT !.incoming = op.askLeg, !.askLeg = None]
    <2>1. /\ op.askLeg \in Order /\ op.askLeg.inst = i /\ op.askLeg.remaining > 0
          /\ op.incoming.arrival < op.askLeg.arrival
      BY <1>1, <1>8 DEF EngineInv, OpShape, EndsInv, Op
    <2>2. op.askLeg.arrival \in Nat /\ op.incoming.arrival \in Nat
      BY <1>1, <2>1 DEF Order
    <2>3. Booked(op.askLeg).remaining > 0 /\ Booked(op.askLeg).arrival = op.askLeg.arrival
      BY <2>1, StateKeeps DEF Booked, SameOrder
    <2>4. Alive(Insert(rest, Booked(op.askLeg)))
      BY <1>2, <2>3, InsertAlive
    <2>5. \A e \in Insert(rest, Booked(op.askLeg)).entries :
            e \in books[i].entries \/ e.order.arrival = op.askLeg.arrival
      BY <1>2, <2>3 DEF Insert
    <2>6. op'.phase = "match" /\ op'.incoming = op.askLeg
      BY <1>1, <1>8 DEF Op
    <2>7. /\ books'[i] = Insert(rest, Booked(op.askLeg))
          /\ \A j \in Instrument : Alive(books[j])'
      BY <1>7, <1>8, <2>4
    <2>8. \A n \in DOMAIN op.trades :
            /\ \A a \in Parties(op.trades[n]) : a <= op.askLeg.arrival
            /\ op.askLeg.arrival \notin FilledBy(op.trades[n])
      <3> HIDE DEF i
      <3>1. ASSUME NEW n \in DOMAIN op.trades, NEW a \in Parties(op.trades[n])
            PROVE  a <= op.askLeg.arrival /\ a # op.askLeg.arrival
        <4>1. a \in Nat /\ a <= op.incoming.arrival
          BY <1>3, <3>1
        <4> QED
          BY <2>1, <2>2, <4>1
      <3> QED
        BY <1>3, <3>1
    <2>9. \A n \in DOMAIN op.trades : \A e \in books'[i].entries :
            e.order.arrival \notin FilledBy(op.trades[n])
      BY <1>3, <2>5, <2>7, <2>8
    <2> HIDE DEF i
    <2> QED
      BY <1>5, <1>6, <2>1, <2>6, <2>7, <2>8, <2>9 DEF EndsInv
  <1>9. CASE /\ books' = [books EXCEPT ![i] = rest]
             /\ \E o : op' = [op EXCEPT !.phase = "publish", !.incoming = None,
                                        !.final = o, !.status = StatusDue(o)]
    <2>1. op'.phase = "publish"
      BY <1>1, <1>9 DEF Op
    <2> QED
      BY <1>2, <1>5, <1>6, <1>7, <1>9, <2>1 DEF EndsInv
  <1> QED
    BY <1>4, <1>8, <1>9

\* The trades still to be reported are the last of those that were made.
LEMMA ReportEnds ==
  ASSUME TypeOK, EndsInv, Report
  PROVE  EndsInv'
  <1> DEFINE ts == op.trades
  <1>1. op \in Op /\ op.phase = "report" /\ op' = [op EXCEPT !.trades = Tail(ts)]
        /\ ts # <<>> /\ UNCHANGED books
    BY DEF Report, TypeOK
  <1>2. ts \in Seq(Trade) /\ op'.trades = Tail(ts) /\ op'.phase = "report" /\ op'.askLeg = op.askLeg
    BY <1>1 DEF Op
  <1> HIDE DEF ts
  <1>3. \A n \in DOMAIN Tail(ts) : n \in Nat /\ n + 1 \in DOMAIN ts /\ Tail(ts)[n] = ts[n + 1]
    BY <1>1, <1>2
  <1>4. MatchingEnds'
    <2> DEFINE us == Tail(ts)
    <2> SUFFICES ASSUME NEW n \in DOMAIN us
                 PROVE  /\ us[n].quantity > 0
                        /\ FilledBy(us[n]) # {}
                        /\ \A k \in DOMAIN us :
                              k > n => FilledBy(us[n]) \cap Parties(us[k]) = {}
      BY <1>2 DEF MatchingEnds
    <2>1. \A k \in DOMAIN us : k > n => k + 1 > n + 1
      BY <1>3
    <2> HIDE DEF us
    <2> QED
      BY <1>3, <2>1 DEF EndsInv, MatchingEnds, ts, us
  <1> QED
    BY <1>1, <1>2, <1>4 DEF EndsInv, Alive

LEMMA EndsInit == Init => EndsInv
  <1> SUFFICES ASSUME Init PROVE EndsInv
    OBVIOUS
  <1>1. op = Idle /\ \A i \in Instrument : books[i].entries = {}
    BY DEF Init, EmptyBook
  <1> QED
    BY <1>1, IdleFacts DEF EndsInv, MatchingEnds, Alive

LEMMA EndsStep == TypeOK /\ EngineInv /\ EndsInv /\ [Next]_vars => EndsInv'
  <1> SUFFICES ASSUME TypeOK, EngineInv, EndsInv, [Next]_vars PROVE EndsInv'
    OBVIOUS
  <1>1. op \in Op
    BY DEF TypeOK
  <1>2. ASSUME UNCHANGED <<books, op>>
        PROVE  EndsInv'
    BY <1>2 DEF EndsInv, MatchingEnds, Alive
  <1>3. CASE UNCHANGED vars
    BY <1>2, <1>3 DEF vars
  <1>4. ASSUME NEW s \in Session, RegisterSession(s) \/ SessionDisconnect(s)
        PROVE  EndsInv'
    BY <1>2, <1>4, QuietEnds DEF RegisterSession, SessionDisconnect, Idle
  <1>5. CASE Tick \/ ExpireDayOrders
    BY <1>2, <1>5, QuietEnds DEF Tick, ExpireDayOrders, Idle
  <1>6. CASE DropDone \/ ExpireDone
    BY <1>6, QuietEnds DEF DropDone, ExpireDone, Publishing, Idle
  <1>7. ASSUME NEW i \in Instrument, Publish(i)
        PROVE  EndsInv'
    BY <1>2, <1>7 DEF Publish
  <1>8. CASE PublishDone
    <2>1. /\ op'.phase = "report" /\ op'.trades = op.trades /\ op'.askLeg = op.askLeg
          /\ UNCHANGED books
      BY <1>1, <1>8 DEF PublishDone, Op
    <2> QED
      BY <2>1 DEF EndsInv, MatchingEnds, Alive
  <1>9. CASE Finish
    <2>1. UNCHANGED books /\ op' = Idle
      BY <1>9, Zenon DEF Finish
    <2> QED
      BY <2>1, IdleFacts, QuietEnds DEF Idle
  <1> QED
    BY <1>3, <1>4, <1>5, <1>6, <1>7, <1>8, <1>9, RemovalsEnds, RequestsEnds, MatchEnds,
       MatchDoneEnds, ReportEnds DEF Next, Continue

\* The match loop ends for every quantity and every number of orders: each trade
\* moves something and fills one of its orders, and what was filled is in no
\* later trade, so a call makes fewer trades than the book has orders
\* (match_trades, update_fill), although replacements and quote legs come back
\* under the same id.
THEOREM MatchingTerminates == Spec => []MatchingEnds
  <1>1. EndsInv => MatchingEnds
    BY DEF EndsInv
  <1> QED
    BY <1>1, EndsInit, EndsStep, TypeCorrect, EngineSafe, PTL DEF Spec
=============================================================================
