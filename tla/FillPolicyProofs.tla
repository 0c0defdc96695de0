-------------------------- MODULE FillPolicyProofs --------------------------
(***************************************************************************)
(* The engine under either fill policy, for every table of tiers, every    *)
(* number of sessions, orders and instruments: no book operation of a      *)
(* tiered method fails, an order executes exactly what the table grants,   *)
(* and totals, mirrors, reports and snapshots stay exact.                  *)
(***************************************************************************)
EXTENDS EngineViewProofs, FillPolicy

-----------------------------------------------------------------------------
(* The plan *)

\* A plan is full chunks and a last fill.
LotPlan(p) ==
    /\ p \in Seq(Nat \ {0})
    /\ \A k \in 1..Len(p) : k < Len(p) => p[k] = TierChunk

\* The quantity it fills.
Planned(p) == IF p = <<>> THEN 0 ELSE (Len(p) - 1) * TierChunk + p[Len(p)]

\* Nothing is planned when there is nothing to fill.
LEMMA EmptyPlan == LotPlan(<<>>) /\ Planned(<<>>) = 0 /\ Len(<<>>) = 0
  BY DEF LotPlan, Planned

\* One fill of q.
LEMMA SinglePlan ==
  ASSUME NEW q \in Nat \ {0}
  PROVE  LotPlan(<<q>>) /\ Planned(<<q>>) = q /\ Len(<<q>>) = 1
  <1>1. <<q>> \in Seq(Nat \ {0}) /\ Len(<<q>>) = 1 /\ <<q>>[1] = q /\ <<q>> # <<>>
    OBVIOUS
  <1>2. (1 - 1) * TierChunk = 0
    BY TierAssumption
  <1> QED
    BY <1>1, <1>2 DEF LotPlan, Planned

\* A full chunk before a plan.
LEMMA ChunkFirst ==
  ASSUME NEW p, LotPlan(p), p # <<>>
  PROVE  LET c == <<TierChunk>> \o p
         IN  LotPlan(c) /\ Planned(c) = TierChunk + Planned(p) /\ c # <<>>
  <1> DEFINE c == <<TierChunk>> \o p
             n == Len(p)
  <1>1. p \in Seq(Nat \ {0}) /\ n \in Nat \ {0} /\ TierChunk \in Nat \ {0}
    BY TierAssumption DEF LotPlan
  <1>2. c \in Seq(Nat \ {0}) /\ Len(c) = n + 1 /\ c # <<>>
    BY <1>1
  <1>3. c[1] = TierChunk /\ \A k \in 2..(n + 1) : c[k] = p[k - 1]
    BY <1>1
  <1>4. p[n] \in Nat /\ c[n + 1] = p[n]
    BY <1>1, <1>3
  <1> HIDE DEF c
  <1>5. \A k \in 1..Len(c) : k < Len(c) => c[k] = TierChunk
    <2> TAKE k \in 1..Len(c)
    <2>1. CASE k = 1
      BY <1>3, <2>1
    <2>2. CASE k # 1
      <3>1. k \in 2..(n + 1) /\ (k < Len(c) => k - 1 < n) /\ k - 1 \in 1..n
        BY <1>1, <1>2, <2>2
      <3> QED
        BY <1>3, <3>1 DEF LotPlan
    <2> QED
      BY <2>1, <2>2
  <1>6. Planned(c) = n * TierChunk + p[n]
    BY <1>1, <1>2, <1>4 DEF Planned
  <1>7. Planned(p) = (n - 1) * TierChunk + p[n]
    BY DEF Planned
  <1> HIDE DEF n
  <1>8. n * TierChunk = TierChunk + (n - 1) * TierChunk
    BY <1>1
  <1>9. (n - 1) * TierChunk \in Int
    BY <1>1
  <1> QED
    BY <1>1, <1>2, <1>4, <1>5, <1>6, <1>7, <1>8, <1>9 DEF LotPlan, c

\* The fills still to be made after the first.
LEMMA PlanTail ==
  ASSUME NEW p, LotPlan(p), p # <<>>
  PROVE  /\ Head(p) \in Nat \ {0} /\ LotPlan(Tail(p))
         /\ Planned(p) = Head(p) + Planned(Tail(p))
         /\ Planned(p) \in Nat /\ Planned(Tail(p)) \in Nat
         /\ Tail(p) # <<>> => Planned(Tail(p)) > 0
         /\ Len(p) \in Nat /\ Len(Tail(p)) < Len(p)
  <1> DEFINE n == Len(p)
             t == Tail(p)
  <1>1. p \in Seq(Nat \ {0}) /\ n \in Nat \ {0} /\ TierChunk \in Nat \ {0}
    BY TierAssumption DEF LotPlan
  <1>2. /\ t \in Seq(Nat \ {0}) /\ Len(t) = n - 1 /\ Head(p) = p[1]
        /\ \A k \in 1..(n - 1) : t[k] = p[k + 1]
        /\ \A k \in 1..n : p[k] \in Nat \ {0}
    BY <1>1
  <1>8. \A k \in 1..n : k < n => p[k] = TierChunk
    BY DEF LotPlan
  <1>3. Planned(p) = (n - 1) * TierChunk + p[n]
    BY DEF Planned
  <1>4. (n - 1) * TierChunk \in Nat
    BY <1>1
  <1> HIDE DEF t
  <1>5. LotPlan(t)
    <2>1. \A k \in 1..(n - 1) : k < n - 1 => p[k + 1] = TierChunk
      BY <1>1 DEF LotPlan
    <2> QED
      BY <1>2, <2>1 DEF LotPlan
  <1>6. CASE t = <<>>
    <2>1. n = 1 /\ Planned(t) = 0
      BY <1>1, <1>2, <1>6 DEF Planned
    <2>2. (n - 1) * TierChunk = 0
      BY <1>1, <2>1
    <2> HIDE DEF n
    <2>3. p[1] \in Nat \ {0} /\ Planned(p) = p[1]
      BY <1>1, <1>2, <1>3, <2>1, <2>2
    <2>4. /\ Planned(p) = Head(p) + Planned(t) /\ Planned(p) \in Nat /\ Planned(t) \in Nat
          /\ Len(t) < n
      BY <1>1, <1>2, <2>1, <2>3
    <2> QED
      BY <1>1, <1>2, <1>5, <1>6, <2>1, <2>3, <2>4 DEF t, n
  <1>7. CASE t # <<>>
    <2>1. n > 1
      BY <1>1, <1>2, <1>7
    <2>2. Planned(t) = (n - 2) * TierChunk + p[n]
      <3>1. Planned(t) = (Len(t) - 1) * TierChunk + t[Len(t)]
        BY <1>7 DEF Planned
      <3>2. Len(t) - 1 = n - 2 /\ n - 1 \in 1..(n - 1) /\ (n - 1) + 1 = n /\ Len(t) = n - 1
        BY <1>1, <1>2, <2>1
      <3>3. t[Len(t)] = p[n]
        BY <1>2, <3>2
      <3> HIDE DEF n
      <3> QED
        BY <3>1, <3>2, <3>3
    <2>3. p[1] = TierChunk
      BY <1>1, <1>8, <2>1
    <2> HIDE DEF n
    <2>4. (n - 2) * TierChunk \in Nat /\ p[n] \in Nat \ {0}
      BY <1>1, <1>2, <2>1
    <2>5. (n - 1) * TierChunk = TierChunk + (n - 2) * TierChunk
      BY <1>1
    <2> QED
      BY <1>1, <1>2, <1>3, <1>5, <2>1, <2>2, <2>3, <2>4, <2>5 DEF t, n
  <1> QED
    BY <1>6, <1>7

\* The loop of tier_fill_plan, as an equation.
LotsFrom(f, D) ==
    f = [rest \in D |-> IF rest > TierChunk THEN <<TierChunk>> \o f[rest - TierChunk]
                        ELSE IF rest # 0 THEN <<rest>> ELSE <<>>]

\* Lots takes the last value of that loop.
LEMMA LotsDef ==
  ASSUME NEW r
  PROVE  Lots(r) = (CHOOSE f : LotsFrom(f, 0..r))[r]
  BY DEF Lots, LotsFrom

\* The loop ends, whatever is left when it starts.
LEMMA LotsExist ==
  ASSUME NEW r \in Nat
  PROVE  \E f : LotsFrom(f, 0..r)
  <1> DEFINE Done == {n \in Nat : \E f : LotsFrom(f, 0..n)}
             F(f, rest) == IF rest > TierChunk THEN <<TierChunk>> \o f[rest - TierChunk]
                           ELSE IF rest # 0 THEN <<rest>> ELSE <<>>
  <1>0. TierChunk \in Nat \ {0}
    BY TierAssumption
  <1>1. 0 \in Done
    <2>1. LotsFrom([rest \in 0..0 |-> <<>>], 0..0)
      BY <1>0 DEF LotsFrom
    <2> QED
      BY <2>1
  <1>2. ASSUME NEW n \in Nat, n \in Done
        PROVE  n + 1 \in Done
    <2>1. PICK f : LotsFrom(f, 0..n)
      BY <1>2
    <2> DEFINE g == [rest \in 0..(n + 1) |-> F(f, rest)]
    <2>2. \A rest \in 0..n : f[rest] = F(f, rest)
      BY <2>1 DEF LotsFrom
    <2> HIDE DEF F
    <2>3. \A rest \in 0..n : rest \in 0..(n + 1) /\ g[rest] = f[rest]
      BY <2>2
    <2>4. \A rest \in 0..(n + 1) : rest > TierChunk => rest - TierChunk \in 0..n
      BY <1>0
    <2>5. g = [rest \in 0..(n + 1) |-> F(g, rest)]
      <3>1. \A rest \in 0..(n + 1) : F(f, rest) = F(g, rest)
        <4> HIDE DEF g
        <4> QED
          BY <2>3, <2>4 DEF F
      <3> QED
        BY <3>1
    <2>6. LotsFrom(g, 0..(n + 1))
      BY <2>5 DEF LotsFrom, F
    <2> QED
      BY <2>6
  <1>3. r \in Done
    <2> HIDE DEF Done
    <2> QED
      BY <1>1, <1>2, EveryNatural
  <1> QED
    BY <1>3

\* The lots add up to what they are made of.
LEMMA LotsPlanned ==
  ASSUME NEW r \in Nat
  PROVE  LotPlan(Lots(r)) /\ Planned(Lots(r)) = r
  <1>1. PICK f : LotsFrom(f, 0..r) /\ Lots(r) = f[r]
    BY LotsDef, LotsExist
  <1> DEFINE Good(rest) == /\ LotPlan(f[rest]) /\ Planned(f[rest]) = rest
                           /\ rest # 0 => f[rest] # <<>>
             Done == {n \in Nat : \A rest \in 0..r : rest <= n => Good(rest)}
  <1>2. TierChunk \in Nat \ {0}
    BY TierAssumption
  <1>3. \A rest \in 0..r :
          f[rest] = IF rest > TierChunk THEN <<TierChunk>> \o f[rest - TierChunk]
                    ELSE IF rest # 0 THEN <<rest>> ELSE <<>>
    BY <1>1 DEF LotsFrom
  <1>4. ASSUME NEW rest \in 0..r, \A m \in 0..r : m < rest => Good(m)
        PROVE  Good(rest)
    <2>1. CASE rest > TierChunk
      <3> DEFINE m == rest - TierChunk
      <3>1. m \in 0..r /\ m < rest /\ m # 0 /\ m \in Nat /\ TierChunk + m = rest
        BY <1>2, <2>1
      <3>2. f[rest] = <<TierChunk>> \o f[m]
        BY <1>3, <2>1
      <3> HIDE DEF m
      <3>3. LotPlan(f[m]) /\ Planned(f[m]) = m /\ f[m] # <<>>
        BY <1>4, <3>1
      <3>4. LotPlan(f[rest]) /\ Planned(f[rest]) = TierChunk + m /\ f[rest] # <<>>
        BY <3>2, <3>3, ChunkFirst
      <3> QED
        BY <3>1, <3>4
    <2>2. CASE rest <= TierChunk /\ rest # 0
      <3>1. rest \in Nat \ {0} /\ ~(rest > TierChunk)
        BY <1>2, <2>2
      <3>2. f[rest] = <<rest>>
        BY <1>3, <2>2, <3>1, Zenon
      <3> QED
        BY <3>1, <3>2, SinglePlan
    <2>3. CASE rest = 0
      <3>0. ~(rest > TierChunk)
        BY <1>2, <2>3
      <3>1. f[rest] = <<>>
        BY <1>3, <2>3, <3>0, Zenon
      <3> QED
        BY <2>3, <3>1, EmptyPlan
    <2> QED
      BY <1>2, <2>1, <2>2, <2>3
  <1> HIDE DEF Good
  <1>5. 0 \in Done
    <2>1. \A rest \in 0..r : rest <= 0 => Good(rest)
      BY <1>4
    <2> QED
      BY <2>1
  <1>6. ASSUME NEW n \in Nat, n \in Done
        PROVE  n + 1 \in Done
    <2>1. \A rest \in 0..r : rest <= n + 1 => Good(rest)
      <3> SUFFICES ASSUME NEW rest \in 0..r, rest <= n + 1 PROVE Good(rest)
        OBVIOUS
      <3>1. \A m \in 0..r : m < rest => Good(m)
        BY <1>6
      <3> QED
        BY <1>4, <3>1
    <2> QED
      BY <2>1
  <1>7. r \in Done
    <2> HIDE DEF Done
    <2> QED
      BY <1>5, <1>6, EveryNatural
  <1>8. Good(r)
    BY <1>7
  <1> QED
    BY <1>1, <1>8 DEF Good

\* A bound on products bounds the factors.
LEMMA ProductBound ==
  ASSUME NEW a \in Nat, NEW b \in Nat, NEW c \in Nat \ {0}, a * c < b * c
  PROVE  a < b
  <1> SUFFICES ASSUME b <= a PROVE FALSE
    OBVIOUS
  <1>1. a - b \in Nat
    OBVIOUS
  <1>2. (a - b) * c \in Nat /\ a * c \in Nat /\ b * c \in Nat
    BY <1>1
  <1>3. (a - b) * c = a * c - b * c
    OBVIOUS
  <1> QED
    BY <1>2, <1>3

\* A plan never has more fills than the table allows and plans exactly what
\* the table grants, which is no more than is open (tier_fill_plan).
LEMMA TierPlanExact ==
  ASSUME NEW r \in Nat, PlanFits(r)
  PROVE  /\ LotPlan(TierPlan(r)) /\ Len(TierPlan(r)) <= MaxTierFills
         /\ Planned(TierPlan(r)) = TierTotal(r)
         /\ TierTotal(r) \in Nat /\ TierTotal(r) <= r
  <1>1. /\ TierChunk \in Nat \ {0} /\ TierOne > TierChunk /\ TierHalf > TierOne
        /\ MaxTierFills \in Nat /\ TierHalf < MaxTierFills * TierChunk
        /\ TierOne \in Nat /\ TierHalf \in Nat
    BY TierAssumption
  <1>2. MaxTierFills >= 1
    <2>1. MaxTierFills = 0 => MaxTierFills * TierChunk = 0
      BY <1>1
    <2> QED
      BY <1>1, <2>1
  <1>3. CASE r <= TierChunk
    <2>1. TierPlan(r) = <<>> /\ TierTotal(r) = 0
      BY <1>1, <1>3 DEF TierPlan, TierTotal
    <2>2. LotPlan(TierPlan(r)) /\ Len(TierPlan(r)) = 0 /\ Planned(TierPlan(r)) = 0
      BY <2>1, EmptyPlan, Zenon
    <2> QED
      BY <1>1, <1>2, <2>1, <2>2
  <1>4. CASE r > TierChunk /\ r <= TierOne
    <2>1. TierPlan(r) = <<r>> /\ TierTotal(r) = r /\ r \in Nat \ {0}
      BY <1>1, <1>4 DEF TierPlan, TierTotal
    <2> QED
      BY <1>2, <2>1, SinglePlan
  <1>5. CASE r > TierOne /\ r <= TierHalf
    <2> DEFINE h == r \div 2
    <2>1. TierPlan(r) = <<h>> /\ TierTotal(r) = h
      BY <1>1, <1>5 DEF TierPlan, TierTotal
    <2>2. h \in Nat \ {0} /\ h <= r
      BY <1>1, <1>5
    <2> HIDE DEF h
    <2> QED
      BY <1>2, <2>1, <2>2, SinglePlan
  <1>6. CASE r > TierHalf
    <2> DEFINE p == Lots(r)
               n == Len(p)
    <2>1. TierPlan(r) = p /\ TierTotal(r) = r
      BY <1>1, <1>6 DEF TierPlan, TierTotal
    <2>2. LotPlan(p) /\ Planned(p) = r
      BY LotsPlanned
    <2> HIDE DEF p
    <2>3. p # <<>>
      BY <1>1, <1>6, <2>2 DEF Planned
    <2>4. p \in Seq(Nat \ {0}) /\ n \in Nat \ {0} /\ p[n] \in Nat \ {0}
      BY <2>2, <2>3 DEF LotPlan
    <2>5. r = (n - 1) * TierChunk + p[n]
      BY <2>2, <2>3 DEF Planned
    <2> HIDE DEF n
    <2>6. n - 1 \in Nat /\ (n - 1) * TierChunk \in Nat /\ MaxTierFills * TierChunk \in Nat
      BY <1>1, <2>4
    <2>7. (n - 1) * TierChunk < MaxTierFills * TierChunk
      BY <2>4, <2>5, <2>6 DEF PlanFits
    <2>8. n - 1 < MaxTierFills
      BY <1>1, <2>6, <2>7, ProductBound
    <2>9. n <= MaxTierFills
      BY <1>1, <2>4, <2>8
    <2> QED
      BY <2>1, <2>2, <2>9 DEF n
  <1> QED
    BY <1>1, <1>3, <1>4, <1>5, <1>6

-----------------------------------------------------------------------------
(* The tiered engine: what is proved inductive *)

\* What a request entitles an order to have executed.
Grant == [executed : Nat, open : Nat]

\* The work a tiered method can have in hand.
TieredOp ==
    [phase    : {"idle", "fill", "publish", "report", "drop", "expire"},
     method   : {"none", "create", "replace", "cancel", "quote", "other"},
     incoming : Order \cup {None},
     askLeg   : {None},
     trades   : {<<>>},
     final    : Order \cup {None},
     status   : BOOLEAN,
     leaving  : SUBSET Session,
     expired  : SUBSET (Session \X OrderId)]

\* The types, for an engine that fills by plan: it has no quotes, no trades and
\* no statistics.
TieredType ==
    /\ sessions \subseteq Session
    /\ orders \in [Session -> [OrderId -> Order \cup {None}]]
    /\ quotes \in [Session -> [Instrument -> {None}]]
    /\ books \in [Instrument -> Book]
    /\ next_arrival \in Nat
    /\ sequence \in Nat
    /\ pending \in [Instrument -> Nat]
    /\ published \in [Instrument -> [version : Nat, depth : SUBSET Row,
                                     stats : {NoStatistics}]]
    /\ stats = [i \in Instrument |-> NoStatistics]
    /\ told \in [Session -> [OrderId -> View \cup {None}]]
    /\ op \in TieredOp
    /\ granted \in [Session -> [OrderId -> Grant \cup {None}]]

\* Every entry is an open limit order of a client, and its session's record of
\* it is the same, field by field.
TieredEntries ==
    \A i \in Instrument : \A e \in books[i].entries :
        /\ e.order.inst = i /\ e.order.id \in OrderId
        /\ e.order.type = "Limit" /\ e.order.price > 0
        /\ IsActive(e.order.state)
        /\ e.order.session \in sessions \cup op.leaving
        /\ orders[e.order.session][e.order.id] = e.order

\* An order has one entry.
OneEntryEach ==
    \A i \in Instrument : \A e, f \in books[i].entries : e.order = f.order => e = f

\* The record of an order is filed under its session and id, and while the
\* order is active its entry is in the book.
TieredMirror ==
    \A s \in Session, id \in OrderId : orders[s][id] # None =>
        /\ orders[s][id].session = s /\ orders[s][id].id = id
        /\ s \in sessions /\ IsActive(orders[s][id].state) =>
              \E e \in books[orders[s][id].inst].entries : e.order = orders[s][id]

\* Session.orders: the record of the order that o is a copy of.
RecordOf(o) == orders[o.session][o.id]

\* The order being filled and the final state still to be reported are orders
\* on record.
TieredWork ==
    /\ op.leaving \cap sessions = {}
    /\ op.phase # "drop" => op.leaving = {}
    /\ op.phase = "fill" =>
         /\ op.incoming # None /\ op.incoming.session \in sessions
         /\ op.incoming.id \in OrderId
         /\ RecordOf(op.incoming) # None /\ SameOrder(RecordOf(op.incoming), op.incoming)
    /\ op.status <=> op.final # None
    /\ op.final # None =>
         /\ op.phase \in {"publish", "report"}
         /\ op.final.session \in sessions /\ op.final.id \in OrderId
         /\ RecordOf(op.final) = op.final

\* What is planned is open in the order being filled.
TieredPlan ==
    /\ LotPlan(plan) /\ Len(plan) <= MaxTierFills
    /\ plan # <<>> =>
         /\ op.phase = "fill" /\ IsActive(RecordOf(op.incoming).state)
         /\ Planned(plan) <= RecordOf(op.incoming).remaining

\* A client knows of each of its orders what the record says, unless a report
\* on it is still to be sent.
TieredTold ==
    \A s \in sessions, id \in OrderId :
        \/ op.status /\ op.final.session = s /\ op.final.id = id
        \/ told[s][id] = ViewOrNone(orders[s][id])

\* What an order has executed and what is planned for it make up the grant.
Due(s, id) ==
    IF op.phase = "fill" /\ op.incoming.session = s /\ op.incoming.id = id
    THEN Planned(plan) ELSE 0

TieredGrants ==
    \A s \in sessions, id \in OrderId : orders[s][id] # None =>
        /\ granted[s][id] \in Grant
        /\ orders[s][id].cum + Due(s, id)
              = granted[s][id].executed + TierTotal(granted[s][id].open)

\* A book that its slot does not show is marked dirty, or is being filled.
TieredShown ==
    /\ \A i \in Instrument :
         pending[i] # 0 \/ (op.phase = "fill" /\ op.incoming.inst = i) \/ Shown(i)
    /\ op.phase \in {"idle", "report"} => \A i \in Instrument : pending[i] = 0

\* The inductive invariant under FillPolicy::Tiered.
TieredInv ==
    /\ TieredType
    /\ TieredEntries /\ OneEntryEach /\ TieredMirror /\ LevelInv
    /\ TieredWork /\ TieredPlan
    /\ TieredTold /\ TieredGrants /\ TieredShown
    /\ ~faulted

-----------------------------------------------------------------------------
(* The tiered engine: books and records *)

\* What is in a book besides the orders ids of session s.
Others(b, s, ids) == {e \in b.entries : ~(e.order.session = s /\ e.order.id \in ids)}

\* What an entry must be to belong to a book of the tiered engine.
GoodEntry(e, i) ==
    /\ e.order.inst = i /\ e.order.id \in OrderId
    /\ e.order.type = "Limit" /\ e.order.price > 0
    /\ IsActive(e.order.state)

\* A method step touches the entries and the records of a few orders of one
\* session, consistently; all others stay as they are.
ChangesOnly(s, ids) ==
    /\ \A t \in Session, id \in OrderId :
         ~(t = s /\ id \in ids) => orders'[t][id] = orders[t][id]
    /\ \A i \in Instrument : Others(books'[i], s, ids) = Others(books[i], s, ids)
    /\ \A i \in Instrument : \A e \in books'[i].entries :
         e.order.session = s /\ e.order.id \in ids =>
            GoodEntry(e, i) /\ orders'[s][e.order.id] = e.order
    /\ \A i \in Instrument : \A e, f \in books'[i].entries :
         e.order.session = s /\ e.order.id \in ids /\ e.order = f.order => e = f
    /\ \A id \in ids : orders'[s][id] # None =>
         /\ orders'[s][id].session = s /\ orders'[s][id].id = id
         /\ s \in sessions /\ IsActive(orders'[s][id].state) =>
               \E e \in books'[orders'[s][id].inst].entries : e.order = orders'[s][id]

\* So books and records still agree.
LEMMA ChangeCore ==
  ASSUME TieredType, TieredEntries, OneEntryEach, TieredMirror,
         UNCHANGED sessions, op'.leaving = op.leaving,
         NEW s \in sessions \cup op.leaving, NEW ids \in SUBSET OrderId,
         ChangesOnly(s, ids)
  PROVE  TieredEntries' /\ OneEntryEach' /\ TieredMirror'
  <1>0. sessions \subseteq Session /\ op.leaving \subseteq Session
    BY DEF TieredType, TieredOp
  <1> USE DEF ChangesOnly
  <1>1. \A i \in Instrument : \A e \in books'[i].entries :
          \/ e.order.session = s /\ e.order.id \in ids
          \/ e \in books[i].entries /\ ~(e.order.session = s /\ e.order.id \in ids)
    BY DEF Others
  <1>2. \A i \in Instrument : \A e \in books[i].entries :
          \/ e.order.session = s /\ e.order.id \in ids
          \/ e \in books'[i].entries
    BY DEF Others
  <1>3. TieredEntries'
    <2> SUFFICES ASSUME NEW i \in Instrument, NEW e \in books'[i].entries
                 PROVE  /\ GoodEntry(e, i)
                        /\ e.order.session \in sessions \cup op.leaving
                        /\ orders'[e.order.session][e.order.id] = e.order
      BY DEF TieredEntries, GoodEntry
    <2>1. CASE e.order.session = s /\ e.order.id \in ids
      BY <2>1
    <2>2. CASE e \in books[i].entries /\ ~(e.order.session = s /\ e.order.id \in ids)
      <3>1. /\ GoodEntry(e, i)
            /\ e.order.session \in sessions \cup op.leaving
            /\ orders[e.order.session][e.order.id] = e.order
        BY <2>2 DEF TieredEntries, GoodEntry
      <3>2. e.order.session \in Session /\ e.order.id \in OrderId
        BY <1>0, <3>1 DEF GoodEntry
      <3> QED
        BY <2>2, <3>1, <3>2
    <2> QED
      BY <1>1, <2>1, <2>2
  <1>4. OneEntryEach'
    <2> SUFFICES ASSUME NEW i \in Instrument, NEW e \in books'[i].entries,
                        NEW f \in books'[i].entries, e.order = f.order
                 PROVE  e = f
      BY DEF OneEntryEach
    <2>1. CASE e.order.session = s /\ e.order.id \in ids
      BY <2>1
    <2>2. CASE ~(e.order.session = s /\ e.order.id \in ids)
      <3>1. e \in books[i].entries /\ f \in books[i].entries
        BY <1>1, <2>2
      <3> QED
        BY <3>1 DEF OneEntryEach
    <2> QED
      BY <2>1, <2>2
  <1>5. TieredMirror'
    <2> SUFFICES ASSUME NEW t \in Session, NEW id \in OrderId, orders'[t][id] # None
                 PROVE  /\ orders'[t][id].session = t /\ orders'[t][id].id = id
                        /\ t \in sessions /\ IsActive(orders'[t][id].state) =>
                              \E e \in books'[orders'[t][id].inst].entries :
                                 e.order = orders'[t][id]
      BY DEF TieredMirror
    <2>1. CASE t = s /\ id \in ids
      BY <2>1
    <2>2. CASE ~(t = s /\ id \in ids)
      <3> DEFINE r == orders[t][id]
      <3>1. r # None /\ orders'[t][id] = r
        BY <2>2
      <3>2. r \in Order /\ r.inst \in Instrument
        BY <3>1 DEF TieredType, Order
      <3>3. /\ r.session = t /\ r.id = id
            /\ t \in sessions /\ IsActive(r.state) =>
                  \E e \in books[r.inst].entries : e.order = r
        BY <3>1 DEF TieredMirror
      <3> HIDE DEF r
      <3>4. \A e \in books[r.inst].entries : e.order = r => e \in books'[r.inst].entries
        BY <1>2, <2>2, <3>2, <3>3
      <3> QED
        BY <3>1, <3>3, <3>4
    <2> QED
      BY <2>1, <2>2
  <1> QED
    BY <1>3, <1>4, <1>5

\* Steps that leave books and records alone.
LEMMA SameCore ==
  ASSUME TieredEntries, OneEntryEach, TieredMirror, LevelInv,
         UNCHANGED <<sessions, orders, books>>, op'.leaving = op.leaving
  PROVE  TieredEntries' /\ OneEntryEach' /\ TieredMirror' /\ LevelInv'
  BY DEF TieredEntries, OneEntryEach, TieredMirror, LevelInv

\* Nothing in a book is of an order its session has no record of.
LEMMA NoRecordNoEntry ==
  ASSUME TieredType, TieredEntries, NEW s \in Session, NEW id \in OrderId,
         orders[s][id] = None \/ ~IsActive(orders[s][id].state)
  PROVE  \A i \in Instrument : \A e \in books[i].entries :
            ~(e.order.session = s /\ e.order.id = id)
  <1> SUFFICES ASSUME NEW i \in Instrument, NEW e \in books[i].entries,
                      e.order.session = s, e.order.id = id
               PROVE  FALSE
    OBVIOUS
  <1>1. orders[s][id] = e.order /\ IsActive(e.order.state)
    BY DEF TieredEntries
  <1>2. e.order \in Order
    BY BookFacts DEF TieredType
  <1> QED
    BY <1>1, <1>2, NoneAssumption

\* An order on record is in the book of its instrument only.
LEMMA RecordBook ==
  ASSUME TieredType, TieredEntries, NEW s \in Session, NEW id \in OrderId,
         orders[s][id] # None
  PROVE  /\ orders[s][id] \in Order /\ orders[s][id].inst \in Instrument
         /\ \A i \in Instrument : \A e \in books[i].entries :
               e.order.session = s /\ e.order.id = id => i = orders[s][id].inst
  BY DEF TieredType, TieredEntries, Order

\* What remove() and cancel() find of an order on record, at the side and price
\* of the record, is its one entry.
LEMMA LocatedRecord ==
  ASSUME TieredType, TieredEntries, OneEntryEach, TieredMirror,
         NEW s \in Session, NEW id \in OrderId, orders[s][id] # None
  PROVE  LET r == orders[s][id]
             found == Located(books[r.inst], s, id, r.side, r.price)
         IN  /\ r \in Order /\ r.inst \in Instrument
             /\ \A e, f \in found : e = f
             /\ \A e \in found : e.order = r /\ IsActive(r.state) /\ r.type = "Limit"
             /\ books[r.inst].entries \ found = Others(books[r.inst], s, {id})
  <1> DEFINE r == orders[s][id]
             b == books[r.inst]
             found == Located(b, s, id, r.side, r.price)
  <1>1. r \in Order /\ r.inst \in Instrument
    BY DEF TieredType, Order
  <1>2. \A i \in Instrument : \A e \in books[i].entries :
           e.order.session = s /\ e.order.id = id =>
              e.order = r /\ e.order.inst = i /\ IsActive(r.state) /\ r.type = "Limit"
    BY DEF TieredEntries
  <1> HIDE DEF r
  <1>3. \A e \in b.entries : e.order.session = s /\ e.order.id = id => e \in found
    <2> SUFFICES ASSUME NEW e \in b.entries, e.order.session = s, e.order.id = id
                 PROVE  LevelOf(e.order) = <<r.side, r.price>>
      BY DEF Located
    <2>1. e.order = r /\ r.type = "Limit"
      BY <1>1, <1>2
    <2> QED
      BY <2>1 DEF LevelOf, EffectivePrice
  <1>4. \A e \in found : e \in b.entries /\ e.order.session = s /\ e.order.id = id
    BY DEF Located
  <1> HIDE DEF found
  <1>5. \A e, f \in found : e = f
    BY <1>1, <1>2, <1>4 DEF OneEntryEach
  <1>6. b.entries \ found = Others(b, s, {id})
    BY <1>3, <1>4 DEF Others
  <1>7. \A e \in found : e.order = r /\ IsActive(r.state) /\ r.type = "Limit"
    BY <1>1, <1>2, <1>4
  <1> QED
    BY <1>1, <1>5, <1>6, <1>7 DEF r, found

\* remove() of an order on record takes out exactly its entry.
LEMMA RemovedBook ==
  ASSUME TieredType, TieredEntries, OneEntryEach, TieredMirror, LevelInv,
         NEW s \in Session, NEW id \in OrderId, orders[s][id] # None
  PROVE  LET r == orders[s][id]
             b == Remove(books[r.inst], s, id, r.side, r.price)
         IN  /\ b \in Book /\ Summed(b)
             /\ b.entries = Others(books[r.inst], s, {id})
  <1> DEFINE r == orders[s][id]
             b == books[r.inst]
  <1>1. b \in Book /\ Summed(b)
    BY LocatedRecord DEF TieredType, LevelInv
  <1>2. /\ \A e, f \in Located(b, s, id, r.side, r.price) : e = f
        /\ b.entries \ Located(b, s, id, r.side, r.price) = Others(b, s, {id})
    BY LocatedRecord
  <1> HIDE DEF b, r
  <1>3. Remove(b, s, id, r.side, r.price).entries = Others(b, s, {id})
    BY <1>2, RemoveEntries
  <1> QED
    BY <1>1, <1>3, RemoveType, RemoveSummed DEF b, r

\* ... and the record becomes x, which is none or of an order that is done.
LEMMA RemovedCore ==
  ASSUME TieredType, TieredEntries, OneEntryEach, TieredMirror, LevelInv,
         UNCHANGED sessions, op'.leaving = op.leaving,
         NEW s \in sessions \cup op.leaving, NEW id \in OrderId, orders[s][id] # None,
         NEW b \in Book, Summed(b),
         b.entries = Others(books[orders[s][id].inst], s, {id}),
         books' = [books EXCEPT ![orders[s][id].inst] = b],
         NEW x, x = None \/ (x.session = s /\ x.id = id /\ ~IsActive(x.state)),
         orders' = [orders EXCEPT ![s][id] = x]
  PROVE  TieredEntries' /\ OneEntryEach' /\ TieredMirror' /\ LevelInv'
  <1> DEFINE i == orders[s][id].inst
             ids == {id}
  <1>0. s \in Session
    BY DEF TieredType, TieredOp
  <1>1. i \in Instrument /\ \A j \in Instrument : \A e \in books[j].entries :
           e.order.session = s /\ e.order.id = id => j = i
    BY <1>0, RecordBook
  <1>2. \A j \in Instrument : books'[j] = IF j = i THEN b ELSE books[j]
    BY <1>1 DEF TieredType
  <1>3. /\ orders'[s][id] = x
        /\ \A t \in Session, k \in OrderId : ~(t = s /\ k = id) => orders'[t][k] = orders[t][k]
    BY <1>0 DEF TieredType
  <1>4. LevelInv'
    BY <1>1 DEF LevelInv, TieredType
  <1>5. b.entries = Others(books[i], s, ids)
    OBVIOUS
  <1> HIDE DEF i, ids
  <1>6. \A j \in Instrument : \A e \in books'[j].entries :
           ~(e.order.session = s /\ e.order.id \in ids)
    <2> SUFFICES ASSUME NEW j \in Instrument, NEW e \in books'[j].entries
                 PROVE  ~(e.order.session = s /\ e.order.id \in ids)
      OBVIOUS
    <2>1. CASE j = i
      BY <1>2, <1>5, <2>1 DEF Others
    <2>2. CASE j # i
      BY <1>1, <1>2, <2>2 DEF ids
    <2> QED
      BY <2>1, <2>2
  <1>7. \A j \in Instrument : Others(books'[j], s, ids) = Others(books[j], s, ids)
    <2>1. Others(books'[i], s, ids) = Others(books[i], s, ids)
      BY <1>1, <1>2, <1>5 DEF Others
    <2> QED
      BY <1>2, <2>1
  <1>8. /\ \A t \in Session, k \in OrderId :
              ~(t = s /\ k \in ids) => orders'[t][k] = orders[t][k]
        /\ \A k \in ids : orders'[s][k] # None =>
              /\ orders'[s][k].session = s /\ orders'[s][k].id = k
              /\ ~IsActive(orders'[s][k].state)
        /\ ids \in SUBSET OrderId
    BY <1>3 DEF ids
  <1>9. /\ \A j \in Instrument : \A e \in books'[j].entries :
              e.order.session = s /\ e.order.id \in ids =>
                 GoodEntry(e, j) /\ orders'[s][e.order.id] = e.order
        /\ \A j \in Instrument : \A e, f \in books'[j].entries :
              e.order.session = s /\ e.order.id \in ids /\ e.order = f.order => e = f
        /\ \A k \in ids : orders'[s][k] # None =>
              /\ orders'[s][k].session = s /\ orders'[s][k].id = k
              /\ s \in sessions /\ IsActive(orders'[s][k].state) =>
                    \E e \in books'[orders'[s][k].inst].entries : e.order = orders'[s][k]
    BY <1>6, <1>8
  <1>10. TieredEntries' /\ OneEntryEach' /\ TieredMirror'
    <2>1. ChangesOnly(s, ids)
      BY <1>7, <1>8, <1>9 DEF ChangesOnly
    <2> QED
      BY <1>8, <2>1, ChangeCore
  <1> QED
    BY <1>4, <1>10

\* The book of instrument i gets at most one entry, X, of order o in exchange for
\* those of the orders orig and id of session s; o is on record as id.
Places(s, orig, id, i, o, X, c) ==
    /\ \A j \in Instrument : j # i => \A e \in books[j].entries :
         ~(e.order.session = s /\ e.order.id \in {orig, id})
    /\ o.session = s /\ o.id = id /\ o.inst = i
    /\ \A x \in X : x.order = o /\ GoodEntry(x, i)
    /\ \A x, y \in X : x = y
    /\ IsActive(o.state) => X # {}
    /\ c.entries = Others(books[i], s, {orig, id}) \cup X
    /\ books' = [books EXCEPT ![i] = c]
    /\ orders'[s][id] = o
    /\ orig # id => orders'[s][orig] = None
    /\ \A t \in Session, k \in OrderId :
         ~(t = s /\ k \in {orig, id}) => orders'[t][k] = orders[t][k]

\* An order placed, and the order it replaces gone: books, records and totals
\* still agree.
LEMMA PlacedCore ==
  ASSUME TieredType, TieredEntries, OneEntryEach, TieredMirror, LevelInv,
         UNCHANGED sessions, op'.leaving = op.leaving,
         NEW s \in sessions, NEW orig \in OrderId, NEW id \in OrderId, NEW i \in Instrument,
         NEW o \in Order, NEW X, NEW c \in Book, Summed(c), Places(s, orig, id, i, o, X, c)
  PROVE  TieredEntries' /\ OneEntryEach' /\ TieredMirror' /\ LevelInv'
  <1> USE DEF Places
  <1> DEFINE ids == {orig, id}
             B == Others(books[i], s, ids)
  <1>1. \A j \in Instrument : books'[j] = IF j = i THEN c ELSE books[j]
    BY DEF TieredType
  <1>2. LevelInv'
    BY <1>1 DEF LevelInv
  <1>3. c.entries = B \cup X /\ \A e \in B : ~(e.order.session = s /\ e.order.id \in ids)
    BY DEF Others
  <1>4. \A x \in X : x.order = o /\ x.order.session = s /\ x.order.id \in ids
    OBVIOUS
  <1>5. \A j \in Instrument : Others(books'[j], s, ids) = Others(books[j], s, ids)
    <2>1. Others(c, s, ids) = B
      <3> HIDE DEF B, ids
      <3> QED
        BY <1>3, <1>4 DEF Others
    <2> HIDE DEF ids
    <2> QED
      BY <1>1, <2>1
  <1>6. \A j \in Instrument : \A e \in books'[j].entries :
          e.order.session = s /\ e.order.id \in ids => j = i /\ e \in X
    <2> SUFFICES ASSUME NEW j \in Instrument, NEW e \in books'[j].entries,
                        e.order.session = s, e.order.id \in ids
                 PROVE  j = i /\ e \in X
      OBVIOUS
    <2>1. j = i
      BY <1>1
    <2> HIDE DEF B, ids
    <2> QED
      BY <1>1, <1>3, <2>1
  <1>7. \A j \in Instrument : \A e \in books'[j].entries :
          e.order.session = s /\ e.order.id \in ids =>
             GoodEntry(e, j) /\ orders'[s][e.order.id] = e.order
    <2> HIDE DEF ids
    <2> QED
      BY <1>6
  <1>8. \A j \in Instrument : \A e, f \in books'[j].entries :
          e.order.session = s /\ e.order.id \in ids /\ e.order = f.order => e = f
    <2> HIDE DEF ids
    <2> QED
      BY <1>6
  <1>9. \A k \in ids : orders'[s][k] # None =>
          /\ orders'[s][k].session = s /\ orders'[s][k].id = k
          /\ s \in sessions /\ IsActive(orders'[s][k].state) =>
                \E e \in books'[orders'[s][k].inst].entries : e.order = orders'[s][k]
    <2> SUFFICES ASSUME NEW k \in ids, orders'[s][k] # None
                 PROVE  /\ orders'[s][k].session = s /\ orders'[s][k].id = k
                        /\ IsActive(orders'[s][k].state) =>
                             \E e \in books'[orders'[s][k].inst].entries : e.order = orders'[s][k]
      OBVIOUS
    <2>1. k = id /\ orders'[s][k] = o
      OBVIOUS
    <2>2. IsActive(o.state) => \E e \in books'[i].entries : e.order = o
      BY <1>1, <1>3, <1>4
    <2> QED
      BY <2>1, <2>2
  <1>10. ids \in SUBSET OrderId /\ s \in sessions \cup op.leaving
    OBVIOUS
  <1>11. \A t \in Session, k \in OrderId :
            ~(t = s /\ k \in ids) => orders'[t][k] = orders[t][k]
    OBVIOUS
  <1> HIDE DEF ids, Places
  <1>12. TieredEntries' /\ OneEntryEach' /\ TieredMirror'
    <2>1. ChangesOnly(s, ids)
      BY <1>5, <1>7, <1>8, <1>9, <1>11, Zenon DEF ChangesOnly
    <2> QED
      BY <1>10, <2>1, ChangeCore
  <1> QED
    BY <1>2, <1>12

\* An order that comes to rest in a book without entries of orig and id.
LEMMA RestedCore ==
  ASSUME TieredType, TieredEntries, OneEntryEach, TieredMirror, LevelInv,
         UNCHANGED sessions, op'.leaving = op.leaving,
         NEW s \in sessions, NEW orig \in OrderId, NEW id \in OrderId, NEW i \in Instrument,
         \A j \in Instrument : j # i => \A e \in books[j].entries :
            ~(e.order.session = s /\ e.order.id \in {orig, id}),
         NEW o \in Order, o.session = s, o.id = id, o.inst = i, o.type = "Limit",
         o.price > 0, IsActive(o.state),
         NEW b \in Book, Summed(b), b.entries = Others(books[i], s, {orig, id}),
         books' = [books EXCEPT ![i] = Insert(b, o)],
         orders' = [orders EXCEPT ![s] = [@ EXCEPT ![orig] = None, ![id] = o]]
  PROVE  TieredEntries' /\ OneEntryEach' /\ TieredMirror' /\ LevelInv'
  <1> DEFINE x == [order |-> o, key |-> b.levels[LevelOf(o)].next]
             c == Insert(b, o)
  <1>0. s \in Session
    BY DEF TieredType
  <1>1. c.entries = Others(books[i], s, {orig, id}) \cup {x} /\ x.order = o
    BY DEF Insert
  <1>2. x \notin b.entries
    BY DEF Others
  <1>3. c \in Book /\ Summed(c)
    BY <1>2, InsertType, InsertSummed
  <1>4. /\ orders'[s][id] = o /\ (orig # id => orders'[s][orig] = None)
        /\ \A t \in Session, k \in OrderId :
             ~(t = s /\ k \in {orig, id}) => orders'[t][k] = orders[t][k]
    BY <1>0 DEF TieredType
  <1>5. GoodEntry(x, i)
    BY <1>1 DEF GoodEntry
  <1> DEFINE X == {x}
  <1>6. /\ \A y \in X : y.order = o /\ GoodEntry(y, i)
        /\ \A y, z \in X : y = z
        /\ X # {} /\ c.entries = Others(books[i], s, {orig, id}) \cup X
    BY <1>1, <1>5
  <1>7. books' = [books EXCEPT ![i] = c]
    OBVIOUS
  <1> HIDE DEF c, x, X
  <1>8. Places(s, orig, id, i, o, X, c)
    BY <1>4, <1>6, <1>7 DEF Places
  <1> QED
    BY <1>3, <1>8, PlacedCore

\* A fill of q on the entry e of an order r on record makes both f.
FillsEntry(s, id, r, e, q, price, f) ==
    /\ orders[s][id] = r
    /\ e \in books[r.inst].entries /\ e.order = r
    /\ q <= r.remaining
    /\ f = ApplyFill(r, q, price)
    /\ books' = [books EXCEPT ![r.inst] = UpdateFill(books[r.inst], e, f, q)]
    /\ orders' = [orders EXCEPT ![s][id] = f]

\* A fill takes the same from the record, the entry and the level.
LEMMA FilledCore ==
  ASSUME TieredType, TieredEntries, OneEntryEach, TieredMirror, LevelInv,
         UNCHANGED sessions, op'.leaving = op.leaving,
         NEW s \in sessions, NEW id \in OrderId, NEW r \in Order, NEW e,
         NEW q \in Nat \ {0}, NEW price \in Nat, NEW f,
         FillsEntry(s, id, r, e, q, price, f)
  PROVE  /\ TieredEntries' /\ OneEntryEach' /\ TieredMirror' /\ LevelInv'
         /\ f \in Order /\ SameOrder(f, r)
         /\ f.remaining = r.remaining - q /\ f.cum = r.cum + q
         /\ f.remaining # 0 => IsActive(f.state)
  <1> USE DEF FillsEntry
  <1> DEFINE i == r.inst
             b == books[i]
             c == UpdateFill(b, e, f, q)
             x == [order |-> f, key |-> e.key]
             X == IF f.remaining = 0 THEN {} ELSE {x}
  <1>1. /\ s \in Session /\ i \in Instrument /\ b \in Book /\ Summed(b)
        /\ r.remaining \in Nat /\ r.cum \in Nat
    BY DEF TieredType, Order, LevelInv
  <1>2. f \in Order
    BY ApplyFillType
  <1>3. /\ SameOrder(f, r) /\ f.remaining = r.remaining - q /\ f.cum = r.cum + q
        /\ f.state = IF r.remaining = q THEN "Filled" ELSE "PartialFill"
    BY DEF ApplyFill, SameOrder, Order
  <1>4. /\ f.remaining # 0 => IsActive(f.state)
        /\ IsActive(f.state) => f.remaining # 0
    BY <1>1, <1>3 DEF IsActive
  <1>5. /\ r.inst = i /\ r.session = s /\ r.id = id /\ r.type = "Limit" /\ r.price > 0
        /\ \A j \in Instrument : \A g \in books[j].entries :
             g.order.session = s /\ g.order.id = id => j = i /\ g = e
    <2>1. r # None
      BY NoneAssumption
    <2>2. r.session = s /\ r.id = id
      BY <1>1, <2>1 DEF TieredMirror
    <2>3. r.type = "Limit" /\ r.price > 0
      BY <1>1 DEF TieredEntries
    <2>4. \A j \in Instrument : \A g \in books[j].entries :
             g.order.session = s /\ g.order.id = id => g.order = r /\ g.order.inst = j
      BY DEF TieredEntries
    <2>5. \A g \in books[i].entries : g.order = r => g = e
      BY <1>1 DEF OneEntryEach
    <2> QED
      BY <2>2, <2>3, <2>4, <2>5
  <1>6. Others(b, s, {id}) = b.entries \ {e}
    BY <1>1, <1>5 DEF Others
  <1>7. c.entries = Others(b, s, {id}) \cup X
    BY <1>6 DEF UpdateFill, Drop
  <1>8. c \in Book /\ Summed(c)
    <2>1. x \notin b.entries \ {e}
      <3> SUFFICES ASSUME x \in b.entries, x # e PROVE FALSE
        OBVIOUS
      <3>1. x.order.session = s /\ x.order.id = id
        BY <1>3, <1>5 DEF SameOrder
      <3> QED
        BY <1>1, <1>5, <3>1
    <2>2. LevelOf(f) = LevelOf(e.order)
      BY <1>3, SameLevel
    <2>3. f.remaining = e.order.remaining - q /\ q \in Nat
      BY <1>3
    <2> HIDE DEF b
    <2> QED
      BY <1>1, <1>2, <2>1, <2>2, <2>3, UpdateFillType, UpdateFillSummed DEF b
  <1>9. GoodEntry(x, i) \/ X = {}
    <2>1. CASE f.remaining = 0
      BY <2>1
    <2>2. CASE f.remaining # 0
      <3>1. f.inst = i /\ f.id = id /\ f.type = "Limit" /\ f.price > 0
        BY <1>3, <1>5 DEF SameOrder
      <3>2. x.order = f
        OBVIOUS
      <3> QED
        BY <1>4, <2>2, <3>1, <3>2 DEF GoodEntry
    <2> QED
      BY <2>1, <2>2
  <1>10. /\ \A y \in X : y.order = f /\ GoodEntry(y, i)
         /\ \A y, z \in X : y = z
         /\ IsActive(f.state) => X # {}
    <2>1. x.order = f /\ \A y \in X : y = x
      OBVIOUS
    <2>2. f.remaining # 0 => X # {}
      OBVIOUS
    <2> HIDE DEF x, X
    <2> QED
      BY <1>4, <1>9, <2>1, <2>2
  <1>11. /\ f.session = s /\ f.id = id /\ f.inst = i
         /\ orders'[s][id] = f
         /\ \A t \in Session, k \in OrderId :
              ~(t = s /\ k = id) => orders'[t][k] = orders[t][k]
    BY <1>1, <1>3, <1>5 DEF SameOrder, TieredType
  <1>12. {id, id} = {id} /\ books' = [books EXCEPT ![i] = c]
    OBVIOUS
  <1>13. Places(s, id, id, i, f, X, c)
    <2>1. \A j \in Instrument : j # i => \A g \in books[j].entries :
             ~(g.order.session = s /\ g.order.id \in {id, id})
      BY <1>5
    <2>2. c.entries = Others(books[i], s, {id, id}) \cup X
      BY <1>7, <1>12
    <2>3. \A t \in Session, k \in OrderId :
             ~(t = s /\ k \in {id, id}) => orders'[t][k] = orders[t][k]
      BY <1>11
    <2> HIDE DEF X, c, x, b, i
    <2> QED
      BY <2>1, <2>2, <2>3, <1>10, <1>11, <1>12, Zenon DEF Places
  <1>14. TieredEntries' /\ OneEntryEach' /\ TieredMirror' /\ LevelInv'
    <2> HIDE DEF X, c, x, b
    <2> QED
      BY <1>1, <1>2, <1>8, <1>13, PlacedCore
  <1> QED
    BY <1>2, <1>3, <1>4, <1>14

-----------------------------------------------------------------------------
(* The tiered engine: one step of a method *)

\* What the methods of the tiered engine have in hand.
LEMMA TieredOps ==
  /\ Idle \in TieredOp
  /\ \A m \in {"replace", "cancel", "create", "other"}, f \in Order \cup {None}, st \in BOOLEAN :
        Publishing(m, f, st) \in TieredOp
  /\ \A m \in {"create", "replace"}, o \in Order : Filling(m, o) \in TieredOp
  /\ \A l \in SUBSET Session :
        [Idle EXCEPT !.phase = "drop", !.method = "other", !.leaving = l] \in TieredOp
  /\ \A x \in SUBSET (Session \X OrderId) :
        [Idle EXCEPT !.phase = "expire", !.method = "other", !.expired = x] \in TieredOp
  BY DEF Idle, TieredOp, Publishing, Filling

\* What the phases of a tiered method carry.
LEMMA TieredOpFields ==
  /\ Idle.phase = "idle" /\ Idle.leaving = {} /\ Idle.final = None /\ Idle.status = FALSE
  /\ \A m, f, st :
        /\ Publishing(m, f, st).phase = "publish" /\ Publishing(m, f, st).leaving = {}
        /\ Publishing(m, f, st).final = f /\ Publishing(m, f, st).status = st
  /\ \A m, o :
        /\ Filling(m, o).phase = "fill" /\ Filling(m, o).leaving = {}
        /\ Filling(m, o).final = None /\ Filling(m, o).status = FALSE
        /\ Filling(m, o).incoming = o
  BY DEF Idle, Publishing, Filling

\* Steps of the methods that do not look at the policy execute nothing.
LEMMA SharedRest ==
  ASSUME TieredInv, UNCHANGED tiered, op.phase # "fill", op'.phase # "fill",
         \A s \in sessions', id \in OrderId : orders'[s][id] # None =>
            s \in sessions /\ orders[s][id] # None /\ orders'[s][id].cum = orders[s][id].cum
  PROVE  TieredPlan' /\ TieredGrants' /\ ~faulted'
  <1>1. plan = <<>> /\ UNCHANGED <<plan, faulted, granted>> /\ ~faulted
    BY DEF TieredInv, TieredPlan, tiered
  <1>2. TieredPlan'
    BY <1>1 DEF TieredInv, TieredPlan
  <1>3. TieredGrants'
    BY <1>1 DEF TieredInv, TieredGrants, Due
  <1> QED
    BY <1>1, <1>2, <1>3

\* Steps that leave books, statistics and slots alone.
LEMMA QuietShown ==
  ASSUME TieredShown, UNCHANGED <<books, pending, stats, published>>, op.phase # "fill",
         op'.phase \in {"idle", "report"} =>
            op.phase \in {"idle", "report"} \/ \A i \in Instrument : pending[i] = 0
  PROVE  TieredShown'
  BY DEF TieredShown, Shown

\* Steps that record a new version of a book.
LEMMA DirtyShown ==
  ASSUME TieredType, TieredShown, NEW i \in Instrument, RecordMarketData(i), stats' = stats,
         \A j \in Instrument : j # i => books'[j] = books[j],
         op.phase = "fill" => op.incoming.inst = i,
         op'.phase \notin {"idle", "report"}
  PROVE  /\ TieredShown'
         /\ sequence' \in Nat /\ pending' \in [Instrument -> Nat] /\ published' = published
  <1>1. /\ sequence + 1 \in Nat /\ sequence + 1 # 0
        /\ pending' = [pending EXCEPT ![i] = sequence + 1] /\ published' = published
        /\ sequence' = sequence + 1
    BY DEF RecordMarketData, TieredType
  <1>2. /\ pending'[i] # 0 /\ pending' \in [Instrument -> Nat]
        /\ \A j \in Instrument : j # i => pending'[j] = pending[j]
    BY <1>1 DEF TieredType
  <1>3. \A j \in Instrument : j # i => (Shown(j)' <=> Shown(j))
    BY <1>1 DEF Shown
  <1> QED
    BY <1>1, <1>2, <1>3 DEF TieredShown

\* With nothing in hand everything was told.
LEMMA ToldSoFar ==
  ASSUME TieredInv, op.phase \notin {"publish", "report"}
  PROVE  \A s \in sessions, id \in OrderId : told[s][id] = ViewOrNone(orders[s][id])
  BY DEF TieredInv, TieredWork, TieredTold

\* register_session: a new session has no orders and was told of none.
LEMMA TieredRegister ==
  ASSUME TieredInv, UNCHANGED tiered, NEW s \in Session, RegisterSession(s)
  PROVE  TieredInv'
  <1>1. /\ op = Idle /\ s \notin sessions /\ op' = op
        /\ sessions' = sessions \cup {s}
        /\ orders' = [orders EXCEPT ![s] = [id \in OrderId |-> None]]
        /\ quotes' = [quotes EXCEPT ![s] = [i \in Instrument |-> None]]
        /\ told' = [told EXCEPT ![s] = [id \in OrderId |-> None]]
        /\ UNCHANGED <<books, next_arrival, sequence, pending, stats, published>>
        /\ UNCHANGED <<plan, faulted, granted>>
    BY DEF RegisterSession, market_data, tiered
  <1>2. op.phase = "idle" /\ op.leaving = {} /\ op.final = None /\ ~op.status
    BY <1>1, TieredOpFields
  <1>3. /\ \A id \in OrderId : orders'[s][id] = None /\ told'[s][id] = None
        /\ \A t \in Session : t # s => orders'[t] = orders[t] /\ told'[t] = told[t]
    BY <1>1 DEF TieredInv, TieredType
  <1>4. sessions \subseteq Session
    BY DEF TieredInv, TieredType
  <1>5. TieredType'
    BY <1>1 DEF TieredInv, TieredType
  <1>6. TieredEntries' /\ OneEntryEach' /\ LevelInv'
    BY <1>1, <1>2, <1>3, <1>4 DEF TieredInv, TieredEntries, OneEntryEach, LevelInv
  <1>7. TieredMirror'
    BY <1>1, <1>3 DEF TieredInv, TieredMirror
  <1>8. TieredWork'
    BY <1>1, <1>2 DEF TieredWork, TieredInv
  <1>9. TieredTold'
    <2>1. \A t \in sessions, id \in OrderId : told[t][id] = ViewOrNone(orders[t][id])
      BY <1>2, ToldSoFar
    <2> QED
      BY <1>1, <1>3, <1>4, <2>1 DEF TieredTold, ViewOrNone
  <1>10. TieredPlan' /\ TieredGrants' /\ ~faulted'
    BY <1>1, <1>2, <1>3, SharedRest
  <1>11. TieredShown'
    BY <1>1, <1>2, QuietShown DEF TieredInv
  <1> QED
    BY <1>5, <1>6, <1>7, <1>8, <1>9, <1>10, <1>11 DEF TieredInv

\* A session that disconnects leaves its orders in the books, to be dropped.
LEMMA TieredDisconnect ==
  ASSUME TieredInv, UNCHANGED tiered, NEW s \in Session, SessionDisconnect(s)
  PROVE  TieredInv'
  <1>1. /\ op = Idle /\ s \in sessions
        /\ sessions' = sessions \ {s}
        /\ told' = [told EXCEPT ![s] = [id \in OrderId |-> None]]
        /\ op' = [Idle EXCEPT !.phase = "drop", !.method = "other", !.leaving = {s}]
        /\ UNCHANGED <<orders, quotes, books, next_arrival, sequence, pending, stats, published>>
        /\ UNCHANGED <<plan, faulted, granted>>
    BY DEF SessionDisconnect, market_data, tiered
  <1>2. op.phase = "idle" /\ op.leaving = {} /\ op.final = None /\ ~op.status
    BY <1>1, TieredOpFields
  <1>3. op'.phase = "drop" /\ op'.leaving = {s} /\ op'.final = None /\ op'.status = FALSE
    BY <1>1 DEF Idle
  <1>4. \A t \in Session : t # s => told'[t] = told[t]
    BY <1>1 DEF TieredInv, TieredType
  <1>5. TieredType'
    BY <1>1, TieredOps DEF TieredInv, TieredType
  <1>6. TieredEntries' /\ OneEntryEach' /\ LevelInv'
    BY <1>1, <1>2, <1>3 DEF TieredInv, TieredEntries, OneEntryEach, LevelInv
  <1>7. TieredMirror'
    BY <1>1 DEF TieredInv, TieredMirror
  <1>8. TieredWork'
    BY <1>1, <1>3 DEF TieredWork, TieredInv
  <1>9. TieredTold'
    <2>1. \A t \in sessions, id \in OrderId : told[t][id] = ViewOrNone(orders[t][id])
      BY <1>2, ToldSoFar
    <2>2. sessions \subseteq Session
      BY DEF TieredInv, TieredType
    <2> QED
      BY <1>1, <1>4, <2>1, <2>2 DEF TieredTold
  <1>10. TieredPlan' /\ TieredGrants' /\ ~faulted'
    BY <1>1, <1>2, <1>3, SharedRest
  <1>11. TieredShown'
    BY <1>1, <1>2, <1>3, QuietShown DEF TieredInv
  <1> QED
    BY <1>5, <1>6, <1>7, <1>8, <1>9, <1>10, <1>11 DEF TieredInv

\* Steps that change only what the method has in hand, or the calendar.
LEMMA TieredOpOnly ==
  ASSUME TieredInv, UNCHANGED tiered, op' \in TieredOp, op.phase # "fill",
         op'.phase # "fill", op'.leaving = op.leaving, op'.phase # "drop" => op'.leaving = {},
         UNCHANGED <<op.final, op.status>> \/ (op.final = None /\ op'.final = None /\ ~op'.status),
         op'.final # None => op'.phase \in {"publish", "report"},
         op'.phase \in {"idle", "report"} =>
            op.phase \in {"idle", "report"} \/ \A i \in Instrument : pending[i] = 0,
         UNCHANGED <<sessions, orders, quotes, books, next_arrival, sequence, pending, stats,
                     published, told>>
  PROVE  TieredInv'
  <1>1. TieredType'
    BY DEF TieredInv, TieredType, tiered
  <1>2. TieredEntries' /\ OneEntryEach' /\ TieredMirror' /\ LevelInv'
    BY SameCore DEF TieredInv
  <1>3. op.status <=> op.final # None
    BY DEF TieredInv, TieredWork
  <1>4. TieredWork'
    BY <1>3 DEF TieredInv, TieredWork, RecordOf
  <1>5. TieredTold'
    BY <1>3 DEF TieredInv, TieredTold
  <1>6. TieredPlan' /\ TieredGrants' /\ ~faulted'
    BY SharedRest
  <1>7. TieredShown'
    BY QuietShown DEF TieredInv
  <1> QED
    BY <1>1, <1>2, <1>4, <1>5, <1>6, <1>7 DEF TieredInv

\* Steps of the clock, of day expiry and of publication that touch no book.
LEMMA TieredQuiet ==
  ASSUME TieredInv, UNCHANGED tiered, Tick \/ ExpireDayOrders \/ ExpireDone \/ PublishDone
  PROVE  TieredInv'
  <1>0. op \in TieredOp /\ (op.phase # "drop" => op.leaving = {}) /\ (op.status <=> op.final # None)
        /\ (op.final # None => op.phase \in {"publish", "report"})
    BY DEF TieredInv, TieredType, TieredWork
  <1>1. CASE Tick
    BY <1>0, <1>1, TieredOpFields, TieredOpOnly DEF Tick, market_data
  <1>2. CASE ExpireDayOrders
    <2>1. op' = [Idle EXCEPT !.phase = "expire", !.method = "other", !.expired = Overdue]
      BY <1>2 DEF ExpireDayOrders
    <2>2. Overdue \in SUBSET (Session \X OrderId)
      BY DEF Overdue
    <2>3. op' \in TieredOp
      BY <2>1, <2>2, TieredOps
    <2>4. op'.phase = "expire" /\ op'.leaving = {} /\ op'.final = None /\ op'.status = FALSE
      BY <2>1 DEF Idle
    <2>5. op.phase = "idle" /\ op.leaving = {} /\ op.final = None
      BY <1>2, TieredOpFields DEF ExpireDayOrders
    <2> QED
      BY <1>2, <2>3, <2>4, <2>5, TieredOpOnly DEF ExpireDayOrders, market_data
  <1>3. CASE ExpireDone
    <2>1. op.phase = "expire" /\ op' = Publishing("other", None, FALSE)
      BY <1>3 DEF ExpireDone
    <2>2. op' \in TieredOp
      BY <2>1, TieredOps
    <2>3. op'.phase = "publish" /\ op'.leaving = {} /\ op'.final = None /\ op'.status = FALSE
      BY <2>1 DEF Publishing, Idle
    <2>4. op.leaving = {} /\ op.final = None
      BY <1>0, <2>1
    <2> QED
      BY <1>3, <2>1, <2>2, <2>3, <2>4, TieredOpOnly DEF ExpireDone, market_data
  <1>4. CASE PublishDone
    <2>1. /\ op.phase = "publish" /\ op' = [op EXCEPT !.phase = "report"]
          /\ \A i \in Instrument : pending[i] = 0
      BY <1>4 DEF PublishDone
    <2>2. /\ op' \in TieredOp /\ op'.phase = "report" /\ op'.leaving = op.leaving
          /\ op'.final = op.final /\ op'.status = op.status
      BY <1>0, <2>1 DEF TieredOp
    <2> QED
      BY <1>0, <1>4, <2>1, <2>2, TieredOpOnly DEF PublishDone, market_data
  <1> QED
    BY <1>1, <1>2, <1>3, <1>4

\* The disconnect is over when nothing of the session is left.
LEMMA TieredDropDone ==
  ASSUME TieredInv, UNCHANGED tiered, DropDone
  PROVE  TieredInv'
  <1>1. /\ op.phase = "drop" /\ op' = Publishing("other", None, FALSE)
        /\ \A s \in op.leaving, id \in OrderId : orders[s][id] = None
        /\ UNCHANGED <<sessions, orders, quotes, books, next_arrival, sequence, pending, stats,
                       published, told>>
    BY DEF DropDone, market_data
  <1>2. op'.phase = "publish" /\ op'.leaving = {} /\ op'.final = None /\ op'.status = FALSE
    BY <1>1 DEF Publishing, Idle
  <1>3. TieredType'
    BY <1>1, TieredOps DEF TieredInv, TieredType, tiered
  <1>4. TieredEntries'
    <2>1. \A i \in Instrument : \A e \in books[i].entries : e.order.session \in sessions
      <3> SUFFICES ASSUME NEW i \in Instrument, NEW e \in books[i].entries
                   PROVE  e.order.session \notin op.leaving
        BY DEF TieredInv, TieredEntries
      <3>1. e.order.id \in OrderId /\ orders[e.order.session][e.order.id] = e.order
        BY DEF TieredInv, TieredEntries
      <3>2. e.order # None
        BY BookFacts, NoneAssumption DEF TieredInv, TieredType
      <3> QED
        BY <1>1, <3>1, <3>2
    <2> QED
      BY <1>1, <1>2, <2>1 DEF TieredInv, TieredEntries
  <1>5. OneEntryEach' /\ TieredMirror' /\ LevelInv'
    BY <1>1 DEF TieredInv, OneEntryEach, TieredMirror, LevelInv
  <1>6. TieredWork'
    BY <1>2 DEF TieredWork
  <1>7. TieredTold'
    BY <1>1, ToldSoFar DEF TieredTold
  <1>8. TieredPlan' /\ TieredGrants' /\ ~faulted'
    BY <1>1, <1>2, SharedRest
  <1>9. TieredShown'
    BY <1>1, <1>2, QuietShown DEF TieredInv
  <1> QED
    BY <1>3, <1>4, <1>5, <1>6, <1>7, <1>8, <1>9 DEF TieredInv

\* A changed book is published.
LEMMA TieredPublish ==
  ASSUME TieredInv, UNCHANGED tiered, NEW i \in Instrument, Publish(i)
  PROVE  TieredInv'
  <1>1. /\ op.phase = "publish" /\ op' = op
        /\ published' = [published EXCEPT ![i] =
              [version |-> pending[i], depth |-> Depth(books[i]), stats |-> stats[i]]]
        /\ pending' = [pending EXCEPT ![i] = 0]
        /\ UNCHANGED <<sessions, orders, quotes, books, next_arrival, sequence, stats, told>>
    BY DEF Publish
  <1>2. /\ published'[i] = [version |-> pending[i], depth |-> Depth(books[i]), stats |-> stats[i]]
        /\ \A j \in Instrument : j # i => published'[j] = published[j] /\ pending'[j] = pending[j]
    BY <1>1 DEF TieredInv, TieredType
  <1>3. [version |-> pending[i], depth |-> Depth(books[i]), stats |-> stats[i]]
           \in [version : Nat, depth : SUBSET Row, stats : {NoStatistics}]
    <2>1. books[i] \in Book /\ pending[i] \in Nat /\ stats[i] = NoStatistics
      BY DEF TieredInv, TieredType
    <2> QED
      BY <2>1, DepthType
  <1>4. TieredType'
    <2>1. pending' \in [Instrument -> Nat]
      BY <1>1 DEF TieredInv, TieredType
    <2>2. published' \in [Instrument -> [version : Nat, depth : SUBSET Row,
                                         stats : {NoStatistics}]]
      BY <1>1, <1>3 DEF TieredInv, TieredType
    <2> QED
      BY <1>1, <2>1, <2>2 DEF TieredInv, TieredType, tiered
  <1>5. TieredEntries' /\ OneEntryEach' /\ TieredMirror' /\ LevelInv'
    BY <1>1, SameCore DEF TieredInv
  <1>6. TieredWork' /\ TieredTold'
    BY <1>1 DEF TieredInv, TieredWork, TieredTold, RecordOf
  <1>7. TieredPlan' /\ TieredGrants' /\ ~faulted'
    BY <1>1, SharedRest
  <1>8. TieredShown'
    <2>1. Shown(i)' /\ \A j \in Instrument : j # i => (Shown(j)' <=> Shown(j))
      BY <1>1, <1>2 DEF Shown
    <2> QED
      BY <1>1, <1>2, <2>1 DEF TieredInv, TieredShown
  <1> QED
    BY <1>4, <1>5, <1>6, <1>7, <1>8 DEF TieredInv

\* The final state is synced to the record it was taken from, and reported.
LEMMA TieredFinish ==
  ASSUME TieredInv, UNCHANGED tiered, Finish
  PROVE  TieredInv'
  <1> DEFINE s == op.final.session
             id == op.final.id
  <1>1. /\ op.phase = "report" /\ op' = Idle
        /\ orders' = IF op.final # None THEN Synced(orders, op.final) ELSE orders
        /\ told' = IF op.status THEN Told(told, op.final) ELSE told
        /\ UNCHANGED <<sessions, quotes, books, next_arrival, sequence, pending, stats,
                       published>>
    BY DEF Finish, market_data
  <1>2. /\ op'.phase = "idle" /\ op'.leaving = {} /\ op'.final = None /\ op'.status = FALSE
        /\ op.leaving = {} /\ (op.status <=> op.final # None)
    BY <1>1, TieredOpFields DEF TieredInv, TieredWork
  <1>3. op.final # None => /\ s \in sessions /\ id \in OrderId /\ id # QuoteId
                           /\ orders[s][id] = op.final /\ op.final \in Order
    BY QuoteIdAssumption DEF TieredInv, TieredWork, RecordOf, TieredType, TieredOp
  <1>4. orders' = orders
    <2>1. CASE op.final = None
      BY <1>1, <2>1
    <2>2. CASE op.final # None
      <3>1. orders' = [orders EXCEPT ![s][id] = orders[s][id]]
        BY <1>1, <1>3, <2>2 DEF Synced
      <3>2. orders \in [Session -> [OrderId -> Order \cup {None}]] /\ s \in Session
        BY <1>3, <2>2 DEF TieredInv, TieredType
      <3> HIDE DEF s, id
      <3> QED
        BY <1>3, <2>2, <3>1, <3>2
    <2> QED
      BY <2>1, <2>2
  <1>5. TieredType'
    <2>1. told' \in [Session -> [OrderId -> View \cup {None}]]
      BY <1>1, <1>2, <1>3, ToldType DEF TieredInv, TieredType
    <2> QED
      BY <1>1, <1>4, <2>1, TieredOps DEF TieredInv, TieredType, tiered
  <1>6. TieredEntries' /\ OneEntryEach' /\ TieredMirror' /\ LevelInv'
    BY <1>1, <1>2, <1>4, SameCore DEF TieredInv
  <1>7. TieredWork'
    BY <1>2 DEF TieredWork
  <1>8. TieredTold'
    <2> SUFFICES ASSUME NEW t \in sessions, NEW k \in OrderId
                 PROVE  told'[t][k] = ViewOrNone(orders[t][k])
      BY <1>1, <1>4 DEF TieredTold
    <2>1. (op.final # None /\ s = t /\ id = k) \/ told[t][k] = ViewOrNone(orders[t][k])
      BY <1>2 DEF TieredInv, TieredTold
    <2>2. t \in Session /\ told \in [Session -> [OrderId -> View \cup {None}]]
      BY DEF TieredInv, TieredType
    <2>3. CASE op.final = None
      BY <1>1, <1>2, <2>1, <2>3
    <2>4. CASE op.final # None
      <3>1. told' = [told EXCEPT ![s][id] = ViewOf(op.final)]
        BY <1>1, <1>2, <1>3, <2>4 DEF Told
      <3>2. CASE s = t /\ id = k
        BY <1>3, <2>2, <2>4, <3>1, <3>2 DEF ViewOrNone
      <3>3. CASE ~(s = t /\ id = k)
        <4>1. told'[t][k] = told[t][k]
          <5> HIDE DEF s, id
          <5> QED
            BY <2>2, <3>1, <3>3
        <4> QED
          BY <2>1, <3>3, <4>1
      <3> QED
        BY <3>2, <3>3
    <2> QED
      BY <2>3, <2>4
  <1>9. TieredPlan' /\ TieredGrants' /\ ~faulted'
    BY <1>1, <1>2, <1>4, SharedRest
  <1>10. TieredShown'
    BY <1>1, <1>2, QuietShown DEF TieredInv
  <1> QED
    BY <1>5, <1>6, <1>7, <1>8, <1>9, <1>10 DEF TieredInv

\* An order leaves its book, and its record becomes x: for a session that stays,
\* an order that is done and has executed as much.
LEMMA TieredRemoval ==
  ASSUME TieredInv, UNCHANGED <<sessions, quotes, next_arrival, stats>>, UNCHANGED tiered,
         op' \in TieredOp, op'.leaving = op.leaving, op.phase # "fill",
         op'.phase \notin {"fill", "idle", "report"},
         NEW s \in sessions \cup op.leaving, NEW id \in OrderId, orders[s][id] # None,
         NEW b \in Book, Summed(b),
         b.entries = Others(books[orders[s][id].inst], s, {id}),
         books' = [books EXCEPT ![orders[s][id].inst] = b],
         RecordMarketData(orders[s][id].inst),
         NEW x, orders' = [orders EXCEPT ![s][id] = x],
         \/ x = None /\ s \notin sessions
         \/ /\ x \in Order /\ x.session = s /\ x.id = id /\ ~IsActive(x.state)
            /\ x.cum = orders[s][id].cum,
         told' \in [Session -> [OrderId -> View \cup {None}]],
         TieredWork', TieredTold'
  PROVE  TieredInv'
  <1> DEFINE i == orders[s][id].inst
  <1>0. s \in Session /\ sessions \subseteq Session
    BY DEF TieredInv, TieredType, TieredOp
  <1>1. i \in Instrument
    BY <1>0, RecordBook DEF TieredInv
  <1>2. TieredEntries' /\ OneEntryEach' /\ TieredMirror' /\ LevelInv'
    BY RemovedCore DEF TieredInv
  <1>3. /\ TieredShown' /\ sequence' \in Nat /\ pending' \in [Instrument -> Nat]
        /\ published' = published
    <2>1. \A j \in Instrument : j # i => books'[j] = books[j]
      BY DEF TieredInv, TieredType
    <2> HIDE DEF i
    <2>2. RecordMarketData(i)
      BY DEF i
    <2> QED
      BY <1>1, <2>1, <2>2, DirtyShown DEF TieredInv
  <1>4. TieredType'
    <2>1. books' \in [Instrument -> Book]
      BY DEF TieredInv, TieredType
    <2>2. orders' \in [Session -> [OrderId -> Order \cup {None}]]
      BY <1>0 DEF TieredInv, TieredType
    <2> QED
      BY <1>3, <2>1, <2>2 DEF TieredInv, TieredType, tiered
  <1>5. TieredPlan' /\ TieredGrants' /\ ~faulted'
    <2> SUFFICES ASSUME NEW t \in sessions, NEW k \in OrderId, orders'[t][k] # None
                 PROVE  orders[t][k] # None /\ orders'[t][k].cum = orders[t][k].cum
      BY SharedRest
    <2>1. orders'[t][k] = IF t = s /\ k = id THEN x ELSE orders[t][k]
      BY <1>0 DEF TieredInv, TieredType
    <2>2. CASE t = s /\ k = id
      BY <2>1, <2>2
    <2>3. CASE ~(t = s /\ k = id)
      BY <2>1, <2>3
    <2> QED
      BY <2>2, <2>3
  <1> QED
    BY <1>2, <1>3, <1>4, <1>5 DEF TieredInv

\* The disconnect takes an order of its session out.
LEMMA TieredDropOrder ==
  ASSUME TieredInv, UNCHANGED tiered, DropOrder
  PROVE  TieredInv'
  <1>1. PICK s \in op.leaving, id \in OrderId :
          /\ orders[s][id] # None
          /\ books' = [books EXCEPT ![orders[s][id].inst] =
                Remove(@, s, id, orders[s][id].side, orders[s][id].price)]
          /\ RecordMarketData(orders[s][id].inst)
          /\ orders' = [orders EXCEPT ![s][id] = None]
    BY DEF DropOrder
  <1>2. /\ op.phase = "drop" /\ op' = op
        /\ UNCHANGED <<sessions, quotes, next_arrival, stats, told>>
    BY DEF DropOrder
  <1> DEFINE r == orders[s][id]
             b == Remove(books[r.inst], s, id, r.side, r.price)
  <1>3. op \in TieredOp /\ s \in Session /\ s \notin sessions /\ sessions \subseteq Session
    BY DEF TieredInv, TieredType, TieredOp, TieredWork
  <1>4. b \in Book /\ Summed(b) /\ b.entries = Others(books[r.inst], s, {id})
    BY <1>1, <1>3, RemovedBook DEF TieredInv
  <1>5. books' = [books EXCEPT ![r.inst] = b]
    BY <1>1
  <1>6. \A t \in sessions : orders'[t] = orders[t]
    BY <1>1, <1>3 DEF TieredInv, TieredType
  <1>7. TieredWork'
    <2>1. op.final = None /\ ~op.status
      BY <1>2 DEF TieredInv, TieredWork
    <2> QED
      BY <1>2, <2>1 DEF TieredInv, TieredWork
  <1>8. TieredTold'
    BY <1>2, <1>6, ToldSoFar DEF TieredTold
  <1>9. told' \in [Session -> [OrderId -> View \cup {None}]]
    BY <1>2 DEF TieredInv, TieredType
  <1> HIDE DEF b
  <1> QED
    BY <1>1, <1>2, <1>3, <1>4, <1>5, <1>7, <1>8, <1>9, TieredRemoval

\* An overdue order expires.
LEMMA TieredExpireOrder ==
  ASSUME TieredInv, UNCHANGED tiered, NEW s \in Session, NEW id \in OrderId,
         ExpireOrder(s, id)
  PROVE  TieredInv'
  <1> DEFINE r == orders[s][id]
             o == [r EXCEPT !.state = "Expired", !.remaining = 0]
  <1>1. /\ op.phase = "expire" /\ op' = [op EXCEPT !.expired = @ \ {<<s, id>>}]
        /\ UNCHANGED <<sessions, quotes, next_arrival, stats>>
    BY DEF ExpireOrder
  <1>2. /\ op' \in TieredOp /\ op'.phase = "expire" /\ op'.leaving = op.leaving
        /\ op'.final = op.final /\ op'.status = op.status
    BY <1>1 DEF TieredInv, TieredType, TieredOp
  <1>3. op.leaving = {} /\ op.final = None /\ ~op.status
    BY <1>1 DEF TieredInv, TieredWork
  <1>4. TieredWork'
    BY <1>2, <1>3 DEF TieredWork
  <1>5. CASE s \in sessions /\ r # None /\ IsActive(r.state)
    <2>1. /\ books' = [books EXCEPT ![r.inst] = Remove(@, s, id, r.side, r.price)]
          /\ orders' = Synced(orders, o) /\ told' = Told(told, o)
          /\ RecordMarketData(r.inst)
      BY <1>5 DEF ExpireOrder
    <2>2. r \in Order /\ r.session = s /\ r.id = id
      BY <1>5 DEF TieredInv, TieredType, TieredMirror
    <2>3. /\ o \in Order /\ o.session = s /\ o.id = id /\ o.cum = r.cum
          /\ ~IsActive(o.state) /\ o # None /\ id # QuoteId
      <3> HIDE DEF r
      <3>1. o \in Order
        BY <2>2 DEF Order, OrderState
      <3>2. o.session = s /\ o.id = id /\ o.cum = r.cum /\ o.state = "Expired"
        BY <2>2 DEF Order
      <3> QED
        BY <3>1, <3>2, NoneAssumption, QuoteIdAssumption DEF IsActive
    <2> DEFINE b == Remove(books[r.inst], s, id, r.side, r.price)
    <2>4. b \in Book /\ Summed(b) /\ b.entries = Others(books[r.inst], s, {id})
      BY <1>5, RemovedBook DEF TieredInv
    <2>5. books' = [books EXCEPT ![r.inst] = b]
      BY <2>1
    <2> HIDE DEF o, b
    <2>6. /\ orders' = [orders EXCEPT ![s][id] = o]
          /\ told' = [told EXCEPT ![s][id] = ViewOf(o)]
      BY <1>5, <2>1, <2>3 DEF Synced, Told
    <2>7. told' \in [Session -> [OrderId -> View \cup {None}]]
      BY <2>3, <2>6, ViewType DEF TieredInv, TieredType
    <2>8. TieredTold'
      <3> SUFFICES ASSUME NEW t \in sessions, NEW k \in OrderId
                   PROVE  told'[t][k] = ViewOrNone(orders'[t][k])
        BY <1>1 DEF TieredTold
      <3>1. t \in Session /\ told[t][k] = ViewOrNone(orders[t][k])
        BY <1>1, ToldSoFar DEF TieredInv, TieredType
      <3>2. CASE t = s /\ k = id
        BY <2>3, <2>6, <3>1, <3>2 DEF TieredInv, TieredType, ViewOrNone
      <3>3. CASE ~(t = s /\ k = id)
        <4>1. told'[t][k] = told[t][k] /\ orders'[t][k] = orders[t][k]
          BY <2>6, <3>1, <3>3 DEF TieredInv, TieredType
        <4> QED
          BY <3>1, <4>1
      <3> QED
        BY <3>2, <3>3
    <2>9. RecordMarketData(r.inst) /\ s \in sessions \cup op.leaving /\ op.phase # "fill"
          /\ op'.phase \notin {"fill", "idle", "report"}
      BY <1>1, <1>2, <1>5, <2>1
    <2> QED
      BY <1>1, <1>2, <1>4, <1>5, <2>3, <2>4, <2>5, <2>6, <2>7, <2>8, <2>9, TieredRemoval
  <1>6. CASE ~(s \in sessions /\ r # None /\ IsActive(r.state))
    <2>1. UNCHANGED <<books, orders, told, sequence, pending, published>>
      BY <1>6 DEF ExpireOrder
    <2> QED
      BY <1>1, <1>2, <1>3, <2>1, TieredOpOnly
  <1> QED
    BY <1>5, <1>6

\* A cancelled order leaves the book; its report waits for the snapshot.
LEMMA TieredCancel ==
  ASSUME TieredInv, UNCHANGED tiered, NEW s \in Session, NEW id \in OrderId,
         CancelOrder(s, id)
  PROVE  TieredInv'
  <1> DEFINE r == orders[s][id]
  <1>1. /\ op = Idle /\ s \in sessions /\ r # None
        /\ RecordMarketData(r.inst)
        /\ UNCHANGED <<sessions, quotes, next_arrival, stats, told>>
    BY DEF CancelOrder
  <1>2. PICK e \in Located(books[r.inst], s, id, r.side, r.price) :
          /\ books' = [books EXCEPT ![r.inst] = Drop(@, e)]
          /\ orders' = [orders EXCEPT ![s][id] = [e.order EXCEPT !.state = "Cancelled"]]
          /\ op' = Publishing("cancel", [e.order EXCEPT !.state = "Cancelled"], TRUE)
    BY DEF CancelOrder
  <1> DEFINE b == Drop(books[r.inst], e)
             o == [e.order EXCEPT !.state = "Cancelled"]
             found == Located(books[r.inst], s, id, r.side, r.price)
  <1>3. /\ r \in Order /\ r.inst \in Instrument /\ e.order = r
        /\ \A f, g \in found : f = g
        /\ books[r.inst].entries \ found = Others(books[r.inst], s, {id})
    BY <1>1, LocatedRecord DEF TieredInv
  <1>4. r.session = s /\ r.id = id
    BY <1>1 DEF TieredInv, TieredMirror
  <1>5. b \in Book /\ Summed(b) /\ b.entries = Others(books[r.inst], s, {id})
    <2>1. found = {e} /\ e \in books[r.inst].entries
      BY <1>3 DEF Located
    <2>2. books[r.inst] \in Book /\ Summed(books[r.inst])
      BY <1>3 DEF TieredInv, TieredType, LevelInv
    <2>3. b.entries = books[r.inst].entries \ {e}
      BY DEF Drop
    <2> HIDE DEF r, found
    <2> QED
      BY <1>3, <2>1, <2>2, <2>3, DropType, DropSummed
  <1>6. /\ o \in Order /\ o.session = s /\ o.id = id /\ o.cum = r.cum
        /\ ~IsActive(o.state) /\ o # None
    BY <1>3, <1>4, NoneAssumption DEF Order, OrderState, IsActive
  <1>7. books' = [books EXCEPT ![r.inst] = b] /\ orders' = [orders EXCEPT ![s][id] = o]
        /\ op' = Publishing("cancel", o, TRUE)
    BY <1>2
  <1> HIDE DEF o, b
  <1>8. op.leaving = {} /\ op.phase = "idle"
    BY <1>1 DEF Idle
  <1>9. op' \in TieredOp
    BY <1>6, <1>7, TieredOps
  <1>10. op'.phase = "publish" /\ op'.leaving = {} /\ op'.final = o /\ op'.status = TRUE
    BY <1>7 DEF Publishing, Idle
  <1>11. orders'[s][id] = o
    BY <1>7 DEF TieredInv, TieredType
  <1>12. TieredWork'
    BY <1>1, <1>6, <1>10, <1>11 DEF TieredWork, RecordOf
  <1>13. TieredTold'
    <2> SUFFICES ASSUME NEW t \in sessions, NEW k \in OrderId, ~(t = s /\ k = id)
                 PROVE  told[t][k] = ViewOrNone(orders'[t][k])
      BY <1>1, <1>6, <1>10 DEF TieredTold
    <2>1. orders'[t][k] = orders[t][k]
      BY <1>7 DEF TieredInv, TieredType
    <2> QED
      BY <1>8, <2>1, ToldSoFar
  <1>14. told' \in [Session -> [OrderId -> View \cup {None}]]
    BY <1>1 DEF TieredInv, TieredType
  <1> QED
    BY <1>1, <1>5, <1>6, <1>7, <1>8, <1>9, <1>10, <1>12, <1>13, <1>14, TieredRemoval

-----------------------------------------------------------------------------
(* The tiered engine: requests that come to rest, and their fills *)

\* What a session has under id is now v, and nothing is left under orig.
Replaced(m, s, orig, id, v) == [m EXCEPT ![s] = [@ EXCEPT ![orig] = None, ![id] = v]]

\* n is m with the record orig of s gone and its record id set to v.
IsReplaced(n, m, s, orig, id, v, T) ==
    /\ n \in [Session -> [OrderId -> T]]
    /\ n[s][id] = v /\ (orig # id => n[s][orig] = None)
    /\ \A t \in Session, k \in OrderId :
         ~(t = s /\ k \in {orig, id}) => n[t][k] = m[t][k]

\* Replaced makes such a change.
LEMMA ReplacedFacts ==
  ASSUME NEW T, None \in T, NEW m, m \in [Session -> [OrderId -> T]], NEW s, s \in Session,
         NEW orig, orig \in OrderId, NEW id, id \in OrderId, NEW v, v \in T
  PROVE  IsReplaced(Replaced(m, s, orig, id, v), m, s, orig, id, v, T)
  <1> DEFINE g == [m[s] EXCEPT ![orig] = None, ![id] = v]
  <1>1. m[s] \in [OrderId -> T]
    OBVIOUS
  <1>2. /\ g \in [OrderId -> T] /\ g[id] = v /\ (orig # id => g[orig] = None)
        /\ \A k \in OrderId : k \notin {orig, id} => g[k] = m[s][k]
    BY <1>1
  <1> DEFINE n == [m EXCEPT ![s] = g]
  <1>3. Replaced(m, s, orig, id, v) = n
    BY DEF Replaced
  <1> HIDE DEF g
  <1>4. n \in [Session -> [OrderId -> T]] /\ n[s] = g /\ \A t \in Session : t # s => n[t] = m[t]
    BY <1>2
  <1> HIDE DEF n
  <1> QED
    BY <1>2, <1>3, <1>4 DEF IsReplaced

\* A new order takes the place of none.
LEMMA ReplacedNone ==
  ASSUME NEW T, NEW m \in [Session -> [OrderId -> T]], NEW s \in Session, NEW id \in OrderId,
         NEW v
  PROVE  [m EXCEPT ![s][id] = v] = Replaced(m, s, id, id, v)
  <1>1. m[s] \in [OrderId -> T]
    OBVIOUS
  <1>2. [m[s] EXCEPT ![id] = v] = [m[s] EXCEPT ![id] = None, ![id] = v]
    BY <1>1
  <1> QED
    BY <1>2 DEF Replaced

\* An order that rests is open; only its state is set.
LEMMA RestedOrder ==
  ASSUME NEW o \in Order
  PROVE  /\ Rested(o) \in Order /\ SameOrder(Rested(o), o) /\ IsActive(Rested(o).state)
         /\ Rested(o).remaining = o.remaining /\ Rested(o).cum = o.cum
         /\ IsActive(o.state) => ViewOf(Rested(o)) = ViewOf(o)
  <1>1. Rested(o) \in Order /\ Rested(o).state \in {"Booked", "PartialFill"}
    BY DEF Rested, Order, OrderState
  <1>2. /\ SameOrder(Rested(o), o) /\ Rested(o).remaining = o.remaining
        /\ Rested(o).cum = o.cum /\ Rested(o).notional = o.notional
    BY DEF Rested, Order, SameOrder
  <1> QED
    BY <1>1, <1>2 DEF IsActive, ViewOf

\* What a request does to the records of its session: o takes the place of orig,
\* is told, and has the grant g.
LEMMA RequestRecords ==
  ASSUME TieredInv, op = Idle, op'.status = FALSE, UNCHANGED sessions,
         NEW s \in sessions, NEW orig \in OrderId, NEW id \in OrderId,
         NEW o \in Order, NEW g \in Grant,
         orders' = Replaced(orders, s, orig, id, o),
         told' = Replaced(told, s, orig, id, ViewOf(o)),
         granted' = Replaced(granted, s, orig, id, g)
  PROVE  /\ IsReplaced(orders', orders, s, orig, id, o, Order \cup {None})
         /\ IsReplaced(granted', granted, s, orig, id, g, Grant \cup {None})
         /\ told' \in [Session -> [OrderId -> View \cup {None}]]
         /\ TieredTold'
  <1>1. s \in Session /\ sessions \subseteq Session /\ o # None
    BY NoneAssumption DEF TieredInv, TieredType
  <1>2. ASSUME NEW T, NEW m, m \in [Session -> [OrderId -> T \cup {None}]], NEW v \in T
        PROVE  IsReplaced(Replaced(m, s, orig, id, v), m, s, orig, id, v, T \cup {None})
    <2> DEFINE U == T \cup {None}
    <2>1. None \in U /\ v \in U /\ m \in [Session -> [OrderId -> U]]
      BY <1>2
    <2> HIDE DEF U
    <2>2. IsReplaced(Replaced(m, s, orig, id, v), m, s, orig, id, v, U)
      BY <1>1, <2>1, ReplacedFacts, Zenon
    <2> QED
      BY <2>2 DEF U
  <1>3. IsReplaced(orders', orders, s, orig, id, o, Order \cup {None})
    <2>1. orders \in [Session -> [OrderId -> Order \cup {None}]]
      BY DEF TieredInv, TieredType
    <2> QED
      BY <1>2, <2>1, Zenon
  <1>4. IsReplaced(told', told, s, orig, id, ViewOf(o), View \cup {None})
    <2>1. told \in [Session -> [OrderId -> View \cup {None}]]
      BY DEF TieredInv, TieredType
    <2> QED
      BY <1>2, <2>1, ViewType, Zenon
  <1>5. IsReplaced(granted', granted, s, orig, id, g, Grant \cup {None})
    <2>1. granted \in [Session -> [OrderId -> Grant \cup {None}]]
      BY DEF TieredInv, TieredType
    <2> QED
      BY <1>2, <2>1, Zenon
  <1>6. TieredTold'
    <2> SUFFICES ASSUME NEW t \in sessions, NEW k \in OrderId
                 PROVE  told'[t][k] = ViewOrNone(orders'[t][k])
      BY DEF TieredTold
    <2>1. t \in Session /\ told[t][k] = ViewOrNone(orders[t][k])
      BY <1>1, ToldSoFar, TieredOpFields
    <2>2. CASE t = s /\ k = id
      BY <1>1, <1>3, <1>4, <2>2 DEF ViewOrNone, IsReplaced
    <2>3. CASE t = s /\ k = orig /\ orig # id
      BY <1>3, <1>4, <2>3 DEF ViewOrNone, IsReplaced
    <2>4. CASE ~(t = s /\ k \in {orig, id})
      BY <1>3, <1>4, <2>1, <2>4 DEF IsReplaced
    <2> QED
      BY <2>2, <2>3, <2>4
  <1> QED
    BY <1>3, <1>4, <1>5, <1>6 DEF IsReplaced

\* What a request that comes to rest does: o is inserted into the book b, which
\* has no entry of orig or id, takes the place of orig on record, is told, and
\* is to be filled by the plan for what it has open.
Rests(s, orig, id, i, o, b, m) ==
    /\ op = Idle
    /\ o.session = s /\ o.id = id /\ o.inst = i /\ o.type = "Limit" /\ o.price > 0
    /\ IsActive(o.state) /\ PlanFits(o.remaining)
    /\ \A j \in Instrument : j # i => \A e \in books[j].entries :
         ~(e.order.session = s /\ e.order.id \in {orig, id})
    /\ b.entries = Others(books[i], s, {orig, id})
    /\ books' = [books EXCEPT ![i] = Insert(b, o)]
    /\ orders' = Replaced(orders, s, orig, id, o)
    /\ told' = Replaced(told, s, orig, id, ViewOf(o))
    /\ granted' = Replaced(granted, s, orig, id, [executed |-> o.cum, open |-> o.remaining])
    /\ plan' = TierPlan(o.remaining)
    /\ op' = Filling(m, o)
    /\ next_arrival' = next_arrival + 1
    /\ UNCHANGED <<sequence, pending, published>> \/ RecordMarketData(i)
    /\ UNCHANGED <<sessions, quotes, stats, faulted>>

\* submit_order and modify_order of the tiered engine: the order rests and its
\* plan is made.
LEMMA TieredRests ==
  ASSUME TieredInv, NEW s \in sessions, NEW orig \in OrderId, NEW id \in OrderId,
         NEW i \in Instrument, NEW o \in Order, NEW b \in Book, Summed(b),
         NEW m \in {"create", "replace"}, Rests(s, orig, id, i, o, b, m)
  PROVE  TieredInv'
  <1>0. s \in Session /\ sessions \subseteq Session
    BY DEF TieredInv, TieredType
  <1>1. op.phase = "idle" /\ op.leaving = {} /\ op.final = None /\ ~op.status
    BY TieredOpFields DEF Rests
  <1>2. /\ op' \in TieredOp /\ op'.phase = "fill" /\ op'.leaving = {} /\ op'.final = None
        /\ op'.status = FALSE /\ op'.incoming = o
    <2>1. op' = Filling(m, o)
      BY DEF Rests
    <2> QED
      BY <2>1, TieredOps DEF Filling, Idle
  <1>3. /\ TierPlan(o.remaining) = plan' /\ LotPlan(plan') /\ Len(plan') <= MaxTierFills
        /\ Planned(plan') = TierTotal(o.remaining) /\ TierTotal(o.remaining) <= o.remaining
        /\ o.remaining \in Nat /\ o.cum \in Nat /\ TierTotal(o.remaining) \in Nat
    BY TierPlanExact DEF Order, Rests
  <1> DEFINE g == [executed |-> o.cum, open |-> o.remaining]
  <1>4. /\ ViewOf(o) \in View /\ g \in Grant /\ o # None
    BY <1>3, ViewType, NoneAssumption DEF Grant
  <1> HIDE DEF g
  <1>5. /\ IsReplaced(orders', orders, s, orig, id, o, Order \cup {None})
        /\ IsReplaced(granted', granted, s, orig, id, g, Grant \cup {None})
        /\ told' \in [Session -> [OrderId -> View \cup {None}]]
        /\ TieredTold'
    <2>1. /\ op = Idle /\ UNCHANGED sessions /\ orders' = Replaced(orders, s, orig, id, o)
          /\ told' = Replaced(told, s, orig, id, ViewOf(o))
          /\ granted' = Replaced(granted, s, orig, id, g)
      BY DEF Rests, g
    <2> QED
      BY <1>2, <1>4, <2>1, RequestRecords
  <1>6. /\ orders' \in [Session -> [OrderId -> Order \cup {None}]]
        /\ orders'[s][id] = o /\ (orig # id => orders'[s][orig] = None)
        /\ \A t \in Session, k \in OrderId :
             ~(t = s /\ k \in {orig, id}) => orders'[t][k] = orders[t][k]
    BY <1>5 DEF IsReplaced
  <1>7. /\ granted' \in [Session -> [OrderId -> Grant \cup {None}]]
        /\ granted'[s][id] = g
        /\ \A t \in Session, k \in OrderId :
             ~(t = s /\ k \in {orig, id}) => granted'[t][k] = granted[t][k]
    BY <1>5 DEF IsReplaced
  <1>8. TieredEntries' /\ OneEntryEach' /\ TieredMirror' /\ LevelInv'
    <2>1. UNCHANGED sessions /\ op'.leaving = op.leaving
      BY <1>1, <1>2 DEF Rests
    <2>2. orders' = [orders EXCEPT ![s] = [@ EXCEPT ![orig] = None, ![id] = o]]
      BY DEF Rests, Replaced
    <2>3. /\ o.session = s /\ o.id = id /\ o.inst = i /\ o.type = "Limit" /\ o.price > 0
          /\ IsActive(o.state) /\ b.entries = Others(books[i], s, {orig, id})
          /\ \A j \in Instrument : j # i => \A e \in books[j].entries :
               ~(e.order.session = s /\ e.order.id \in {orig, id})
          /\ books' = [books EXCEPT ![i] = Insert(b, o)]
      BY DEF Rests
    <2>4. TieredType /\ TieredEntries /\ OneEntryEach /\ TieredMirror /\ LevelInv
      BY DEF TieredInv
    <2> QED
      BY <2>1, <2>2, <2>3, <2>4, RestedCore
  <1>9. /\ sequence' \in Nat /\ pending' \in [Instrument -> Nat] /\ published' = published
        /\ TieredShown'
    <2>1. \A j \in Instrument : j # i => books'[j] = books[j]
      BY DEF TieredInv, TieredType, Rests
    <2>2. stats' = stats /\ (UNCHANGED <<sequence, pending, published>> \/ RecordMarketData(i))
      BY DEF Rests
    <2>3. CASE RecordMarketData(i)
      BY <1>1, <1>2, <2>1, <2>2, <2>3, DirtyShown DEF TieredInv
    <2>4. CASE UNCHANGED <<sequence, pending, published>>
      <3>1. o.inst = i /\ \A j \in Instrument : j # i => (Shown(j)' <=> Shown(j))
        BY <2>1, <2>2, <2>4 DEF Rests, Shown
      <3> QED
        BY <1>1, <1>2, <2>4, <3>1 DEF TieredInv, TieredType, TieredShown
    <2> QED
      BY <2>2, <2>3, <2>4
  <1>10. TieredType'
    <2>1. books' \in [Instrument -> Book]
      <3>1. Insert(b, o) \in Book
        BY InsertType
      <3> QED
        BY <3>1 DEF TieredInv, TieredType, Rests
    <2>2. UNCHANGED <<sessions, quotes, stats>> /\ next_arrival' \in Nat
      BY DEF TieredInv, TieredType, Rests
    <2> QED
      BY <1>2, <1>5, <1>6, <1>7, <1>9, <2>1, <2>2 DEF TieredInv, TieredType
  <1>11. o.session = s /\ o.id = id /\ IsActive(o.state) /\ UNCHANGED <<sessions, faulted>>
    BY DEF Rests
  <1>12. TieredWork'
    BY <1>2, <1>4, <1>6, <1>11 DEF TieredWork, RecordOf, SameOrder
  <1>13. TieredPlan'
    BY <1>2, <1>3, <1>6, <1>11 DEF TieredPlan, RecordOf
  <1>14. TieredGrants'
    <2> SUFFICES ASSUME NEW t \in sessions, NEW k \in OrderId, orders'[t][k] # None
                 PROVE  /\ granted'[t][k] \in Grant
                        /\ orders'[t][k].cum + Due(t, k)'
                             = granted'[t][k].executed + TierTotal(granted'[t][k].open)
      BY <1>11 DEF TieredGrants
    <2>1. CASE t = s /\ k = id
      <3>1. Due(t, k)' = TierTotal(o.remaining)
        BY <1>2, <1>3, <1>11, <2>1 DEF Due
      <3>2. granted'[t][k] = g /\ g.executed = o.cum /\ g.open = o.remaining
        BY <1>7, <2>1 DEF g
      <3>3. orders'[t][k] = o
        BY <1>6, <2>1
      <3> QED
        BY <1>4, <3>1, <3>2, <3>3
    <2>2. CASE ~(t = s /\ k \in {orig, id})
      <3>1. Due(t, k)' = 0 /\ Due(t, k) = 0
        BY <1>1, <1>2, <1>11, <2>2 DEF Due
      <3>2. orders'[t][k] = orders[t][k] /\ granted'[t][k] = granted[t][k]
        BY <1>0, <1>6, <1>7, <2>2
      <3> QED
        BY <3>1, <3>2 DEF TieredInv, TieredGrants
    <2> QED
      BY <1>6, <2>1, <2>2
  <1>15. ~faulted'
    BY <1>11 DEF TieredInv
  <1> QED
    BY <1>5, <1>8, <1>9, <1>10, <1>12, <1>13, <1>14, <1>15 DEF TieredInv

\* A new order always finds its place in the book.
LEMMA TieredCreates ==
  ASSUME TieredInv, UNCHANGED policy, NEW s \in Session, NEW id \in OrderId,
         NEW i \in Instrument, NEW side \in Side, NEW type \in OrderType, NEW price \in Price,
         NEW qty \in TieredQuantity, TieredCreate(s, id, i, side, type, price, qty)
  PROVE  TieredInv'
  <1> DEFINE p == IF type = "Market" THEN TieredMarketPrice ELSE price
             n == NewOrder(s, id, i, side, "Limit", p, qty, next_arrival + 1)
             o == Rested(n)
             b == books[i]
  <1>1. /\ op = Idle /\ s \in sessions /\ orders[s][id] = None /\ PlanFits(qty)
        /\ next_arrival' = next_arrival + 1
        /\ granted' = [granted EXCEPT ![s][id] = [executed |-> 0, open |-> qty]]
        /\ op' = Filling("create", o)
        /\ UNCHANGED <<sessions, quotes, sequence, pending, stats, published>>
    BY DEF TieredCreate, TieredOrder, market_data
  <1>2. p \in Price /\ p > 0 /\ p \in Nat /\ qty \in Nat \ {0} /\ next_arrival \in Nat
    BY TierAssumption, PriceAssumption DEF TieredInv, TieredType
  <1>3. /\ n \in Order /\ n.session = s /\ n.id = id /\ n.inst = i /\ n.type = "Limit"
        /\ n.price = p /\ n.remaining = qty /\ n.cum = 0 /\ n.side = side
    <2>1. n \in Order
      BY <1>2, NewOrderType DEF OrderType
    <2> QED
      BY <2>1 DEF NewOrder
  <1>4. /\ o \in Order /\ SameOrder(o, n) /\ IsActive(o.state)
        /\ o.remaining = qty /\ o.cum = 0
    <2> HIDE DEF n
    <2> QED
      BY <1>3, RestedOrder
  <1>5. /\ o.session = s /\ o.id = id /\ o.inst = i /\ o.type = "Limit" /\ o.price > 0
    BY <1>2, <1>3, <1>4 DEF SameOrder
  <1>6. \A j \in Instrument : \A e \in books[j].entries :
          ~(e.order.session = s /\ e.order.id = id)
    BY <1>1, NoRecordNoEntry DEF TieredInv
  <1>7. b \in Book /\ Summed(b) /\ b.entries = Others(books[i], s, {id, id})
    BY <1>6 DEF TieredInv, TieredType, LevelInv, Others
  <1>8. Insertable(b, n)
    BY <1>2, <1>3, <1>6 DEF Insertable, Located
  <1>9. /\ books' = [books EXCEPT ![i] = Insert(b, o)]
        /\ orders' = [orders EXCEPT ![s][id] = o]
        /\ told' = [told EXCEPT ![s][id] = ViewOf(o)]
        /\ plan' = TierPlan(qty) /\ UNCHANGED faulted
    BY <1>8 DEF TieredCreate, TieredOrder
  <1> HIDE DEF n, o, p
  <1>10. /\ orders' = Replaced(orders, s, id, id, o)
         /\ told' = Replaced(told, s, id, id, ViewOf(o))
         /\ granted' = Replaced(granted, s, id, id, [executed |-> 0, open |-> qty])
    <2>1. /\ orders \in [Session -> [OrderId -> Order \cup {None}]]
          /\ told \in [Session -> [OrderId -> View \cup {None}]]
          /\ granted \in [Session -> [OrderId -> Grant \cup {None}]]
      BY DEF TieredInv, TieredType
    <2> QED
      BY <1>1, <1>9, <2>1, ReplacedNone
  <1>11. Rests(s, id, id, i, o, b, "create")
    BY <1>1, <1>4, <1>5, <1>6, <1>7, <1>9, <1>10 DEF Rests
  <1> QED
    BY <1>1, <1>4, <1>7, <1>11, TieredRests

\* What a replacement with nothing open does: the original leaves the book, which
\* becomes b, and the replacement o is on record as done.
Retires(s, orig, id, i, o, b) ==
    /\ op = Idle
    /\ o.session = s /\ o.id = id /\ o.inst = i /\ ~IsActive(o.state)
    /\ \A j \in Instrument : j # i => \A e \in books[j].entries :
         ~(e.order.session = s /\ e.order.id \in {orig, id})
    /\ b.entries = Others(books[i], s, {orig, id})
    /\ books' = [books EXCEPT ![i] = b]
    /\ orders' = Replaced(orders, s, orig, id, o)
    /\ told' = Replaced(told, s, orig, id, ViewOf(o))
    /\ granted' = Replaced(granted, s, orig, id, [executed |-> o.cum, open |-> 0])
    /\ op' = Publishing("replace", None, FALSE)
    /\ next_arrival' = next_arrival + 1
    /\ RecordMarketData(i)
    /\ UNCHANGED <<sessions, quotes, stats, plan, faulted>>

\* modify_order to a quantity that is executed already: the order leaves the book.
LEMMA TieredRetires ==
  ASSUME TieredInv, NEW s \in sessions, NEW orig \in OrderId, NEW id \in OrderId,
         NEW i \in Instrument, NEW o \in Order, NEW b \in Book, Summed(b),
         Retires(s, orig, id, i, o, b)
  PROVE  TieredInv'
  <1>0. s \in Session /\ sessions \subseteq Session
    BY DEF TieredInv, TieredType
  <1>1. op.phase = "idle" /\ op.leaving = {} /\ op.final = None /\ ~op.status
    BY TieredOpFields DEF Retires
  <1>2. /\ op' \in TieredOp /\ op'.phase = "publish" /\ op'.leaving = {} /\ op'.final = None
        /\ op'.status = FALSE
    <2>1. op' = Publishing("replace", None, FALSE)
      BY DEF Retires
    <2> QED
      BY <2>1, TieredOps DEF Publishing, Idle
  <1> DEFINE g == [executed |-> o.cum, open |-> 0]
  <1>3. g \in Grant /\ o.cum \in Nat /\ TierTotal(0) = 0
    BY TierAssumption DEF Grant, Order, TierTotal
  <1> HIDE DEF g
  <1>4. /\ IsReplaced(orders', orders, s, orig, id, o, Order \cup {None})
        /\ IsReplaced(granted', granted, s, orig, id, g, Grant \cup {None})
        /\ told' \in [Session -> [OrderId -> View \cup {None}]]
        /\ TieredTold'
    <2>1. /\ op = Idle /\ UNCHANGED sessions /\ orders' = Replaced(orders, s, orig, id, o)
          /\ told' = Replaced(told, s, orig, id, ViewOf(o))
          /\ granted' = Replaced(granted, s, orig, id, g)
      BY DEF Retires, g
    <2> QED
      BY <1>2, <1>3, <2>1, RequestRecords
  <1>5. /\ orders' \in [Session -> [OrderId -> Order \cup {None}]]
        /\ orders'[s][id] = o /\ (orig # id => orders'[s][orig] = None)
        /\ \A t \in Session, k \in OrderId :
             ~(t = s /\ k \in {orig, id}) => orders'[t][k] = orders[t][k]
    BY <1>4 DEF IsReplaced
  <1>6. /\ granted' \in [Session -> [OrderId -> Grant \cup {None}]]
        /\ granted'[s][id] = g
        /\ \A t \in Session, k \in OrderId :
             ~(t = s /\ k \in {orig, id}) => granted'[t][k] = granted[t][k]
    BY <1>4 DEF IsReplaced
  <1>7. TieredEntries' /\ OneEntryEach' /\ TieredMirror' /\ LevelInv'
    <2> DEFINE X == {}
    <2>1. b.entries = Others(books[i], s, {orig, id}) \cup X
      BY DEF Retires
    <2>2. Places(s, orig, id, i, o, X, b)
      <3>1. /\ \A x \in X : x.order = o /\ GoodEntry(x, i)
            /\ \A x, y \in X : x = y
        OBVIOUS
      <3> HIDE DEF X
      <3> QED
        BY <1>5, <2>1, <3>1, Zenon DEF Places, Retires
    <2>3. /\ UNCHANGED sessions /\ op'.leaving = op.leaving
          /\ TieredType /\ TieredEntries /\ OneEntryEach /\ TieredMirror /\ LevelInv
      BY <1>1, <1>2 DEF Retires, TieredInv
    <2> HIDE DEF X
    <2> QED
      BY <2>2, <2>3, PlacedCore
  <1>8. /\ TieredShown' /\ sequence' \in Nat /\ pending' \in [Instrument -> Nat]
        /\ published' = published
    <2>1. \A j \in Instrument : j # i => books'[j] = books[j]
      BY DEF TieredInv, TieredType, Retires
    <2>2. stats' = stats /\ RecordMarketData(i)
      BY DEF Retires
    <2> QED
      BY <1>1, <1>2, <2>1, <2>2, DirtyShown DEF TieredInv
  <1>9. TieredType'
    <2>1. /\ books' \in [Instrument -> Book] /\ next_arrival' \in Nat
          /\ UNCHANGED <<sessions, quotes, stats>>
      BY DEF TieredInv, TieredType, Retires
    <2> QED
      BY <1>2, <1>4, <1>5, <1>6, <1>8, <2>1 DEF TieredInv, TieredType
  <1>10. plan = <<>> /\ UNCHANGED <<plan, faulted, sessions>>
    BY <1>1 DEF TieredInv, TieredPlan, Retires
  <1>11. TieredWork' /\ TieredPlan'
    BY <1>2, <1>10 DEF TieredInv, TieredWork, TieredPlan
  <1>12. TieredGrants'
    <2> SUFFICES ASSUME NEW t \in sessions, NEW k \in OrderId, orders'[t][k] # None
                 PROVE  /\ granted'[t][k] \in Grant
                        /\ orders'[t][k].cum + Due(t, k)'
                             = granted'[t][k].executed + TierTotal(granted'[t][k].open)
      BY <1>10 DEF TieredGrants
    <2>1. Due(t, k)' = 0 /\ Due(t, k) = 0
      BY <1>1, <1>2 DEF Due
    <2>2. CASE t = s /\ k = id
      <3>1. granted'[t][k] = g /\ g.executed = o.cum /\ g.open = 0 /\ orders'[t][k] = o
        BY <1>5, <1>6, <2>2 DEF g
      <3> QED
        BY <1>3, <2>1, <3>1
    <2>3. CASE ~(t = s /\ k \in {orig, id})
      <3>1. orders'[t][k] = orders[t][k] /\ granted'[t][k] = granted[t][k]
        BY <1>0, <1>5, <1>6, <2>3
      <3> QED
        BY <2>1, <3>1 DEF TieredInv, TieredGrants
    <2> QED
      BY <1>5, <2>2, <2>3
  <1> QED
    BY <1>4, <1>7, <1>8, <1>9, <1>10, <1>11, <1>12 DEF TieredInv

\* A replacement finds the place it needs, unless it has nothing open.
LEMMA TieredModifies ==
  ASSUME TieredInv, UNCHANGED policy, NEW s \in Session, NEW orig \in OrderId,
         NEW id \in OrderId, NEW type \in OrderType, NEW price \in Price,
         NEW qty \in TieredQuantity, TieredModify(s, orig, id, type, price, qty)
  PROVE  TieredInv'
  <1> DEFINE old == orders[s][orig]
             p == IF type = "Market" THEN TieredMarketPrice ELSE price
             n == Replacement(old, id, "Limit", p, qty)
             i == old.inst
             gone == Remove(books[i], s, orig, old.side, old.price)
  <1>1. /\ op = Idle /\ s \in sessions /\ old # None /\ IsActive(old.state)
        /\ qty >= old.cum /\ FreshId(s, orig, id) /\ PlanFits(qty - old.cum)
        /\ next_arrival' = next_arrival + 1
        /\ granted' = Replaced(granted, s, orig, id,
                               [executed |-> old.cum, open |-> qty - old.cum])
        /\ RecordMarketData(i)
        /\ UNCHANGED <<sessions, quotes, stats>>
    BY DEF TieredModify, Replaced
  <1>2. /\ old \in Order /\ i \in Instrument /\ old.session = s /\ old.cum \in Nat
        /\ \A j \in Instrument : \A e \in books[j].entries :
             e.order.session = s /\ e.order.id = orig => j = i
    BY <1>1, RecordBook DEF TieredInv, TieredMirror, Order
  <1>3. p \in Price /\ p > 0 /\ p \in Nat /\ qty \in Nat /\ next_arrival \in Nat
    BY TierAssumption, PriceAssumption DEF TieredInv, TieredType
  <1>4. gone \in Book /\ Summed(gone) /\ gone.entries = Others(books[i], s, {orig})
    BY <1>1, RemovedBook DEF TieredInv
  <1>5. id # orig => \A j \in Instrument : \A e \in books[j].entries :
          ~(e.order.session = s /\ e.order.id = id)
    BY <1>1, NoRecordNoEntry DEF TieredInv, FreshId
  <1>6. \A j \in Instrument : j # i => \A e \in books[j].entries :
          ~(e.order.session = s /\ e.order.id \in {orig, id})
    <2> HIDE DEF i
    <2> QED
      BY <1>2, <1>5
  <1>7. gone.entries = Others(books[i], s, {orig, id})
    <2> HIDE DEF i, gone
    <2> QED
      BY <1>2, <1>4, <1>5 DEF Others
  <1>8. /\ n \in Order /\ n.session = s /\ n.id = id /\ n.inst = i /\ n.type = "Limit"
        /\ n.price = p /\ n.remaining = qty - old.cum /\ n.cum = old.cum
        /\ n.remaining # 0 => IsActive(n.state)
        /\ n.remaining = 0 => ~IsActive(n.state)
    <2>1. n \in Order
      BY <1>1, <1>2, <1>3, ReplacementType DEF OrderType
    <2> HIDE DEF old, p
    <2>2. /\ n.session = s /\ n.id = id /\ n.inst = i /\ n.type = "Limit"
          /\ n.price = p /\ n.remaining = qty - old.cum /\ n.cum = old.cum
      BY <1>2 DEF Replacement, Order
    <2>3. n.state = IF qty - old.cum = 0 THEN "Filled"
                    ELSE IF old.cum # 0 THEN "PartialFill" ELSE "Booked"
      BY <1>2 DEF Replacement, Order
    <2> HIDE DEF n
    <2> QED
      BY <2>1, <2>2, <2>3 DEF IsActive
  <1>9. CASE n.remaining # 0
    <2> DEFINE o == Rested(n)
    <2>1. Insertable(gone, n)
      <3>1. n.remaining > 0
        BY <1>8, <1>9 DEF Order
      <3>2. Located(gone, s, id, n.side, n.price) = {}
        <4> HIDE DEF gone, n, i, old
        <4> QED
          BY <1>7 DEF Located, Others
      <3> QED
        BY <1>8, <3>1, <3>2 DEF Insertable
    <2>2. /\ op' = Filling("replace", o)
          /\ orders' = Replaced(orders, s, orig, id, o)
          /\ books' = [books EXCEPT ![i] = Insert(gone, o)]
          /\ told' = Replaced(told, s, orig, id, ViewOf(n))
          /\ plan' = TierPlan(qty - old.cum) /\ UNCHANGED faulted
      BY <1>9, <2>1 DEF TieredModify, Replaced
    <2> HIDE DEF n, gone
    <2>3. /\ o \in Order /\ SameOrder(o, n) /\ IsActive(o.state)
          /\ o.remaining = n.remaining /\ o.cum = n.cum /\ ViewOf(o) = ViewOf(n)
      BY <1>8, <1>9, RestedOrder
    <2> HIDE DEF o, p
    <2>4. /\ o.session = s /\ o.id = id /\ o.inst = i /\ o.type = "Limit" /\ o.price > 0
          /\ o.remaining = qty - old.cum /\ o.cum = old.cum
      BY <1>3, <1>8, <2>3 DEF SameOrder
    <2> HIDE DEF i, old
    <2>5. Rests(s, orig, id, i, o, gone, "replace")
      BY <1>1, <1>6, <1>7, <2>2, <2>3, <2>4 DEF Rests
    <2> QED
      BY <1>1, <1>2, <1>4, <2>3, <2>5, TieredRests
  <1>10. CASE n.remaining = 0
    <2>1. /\ op' = Publishing("replace", None, FALSE)
          /\ orders' = Replaced(orders, s, orig, id, n)
          /\ books' = [books EXCEPT ![i] = gone]
          /\ told' = Replaced(told, s, orig, id, ViewOf(n))
          /\ UNCHANGED <<plan, faulted>>
      BY <1>10 DEF TieredModify, Replaced
    <2>2. /\ granted' = Replaced(granted, s, orig, id, [executed |-> n.cum, open |-> 0])
          /\ \A k : k \in {orig, id} <=> k = orig \/ k = id
      BY <1>1, <1>8, <1>10
    <2> HIDE DEF n, gone, i, old, p
    <2>3. Retires(s, orig, id, i, n, gone)
      BY <1>1, <1>6, <1>7, <1>8, <1>10, <2>1, <2>2 DEF Retires
    <2> QED
      BY <1>1, <1>2, <1>4, <1>8, <2>3, TieredRetires
  <1> QED
    BY <1>9, <1>10

\* send_fill makes the record the copy it was given.
LEMMA MirroredFill ==
  ASSUME NEW m \in [Session -> [OrderId -> Order \cup {None}]], NEW c \in Order,
         c.session \in sessions, c.id \in OrderId,
         m[c.session][c.id] \in Order, SameOrder(m[c.session][c.id], c)
  PROVE  Mirrored(m, c) = [m EXCEPT ![c.session][c.id] = c]
  <1> DEFINE o == m[c.session][c.id]
             p == [o EXCEPT !.remaining = c.remaining, !.cum = c.cum,
                            !.notional = c.notional, !.state = c.state]
  <1>1. p = c
    <2>1. o \in Order /\ c \in Order /\ SameOrder(o, c)
      OBVIOUS
    <2> HIDE DEF o
    <2> QED
      BY <2>1 DEF Order, SameOrder
  <1>2. c.id # QuoteId /\ o # None
    BY QuoteIdAssumption, NoneAssumption
  <1>3. Mirrored(m, c) = [m EXCEPT ![c.session][c.id] = p]
    BY <1>2 DEF Mirrored
  <1> HIDE DEF p
  <1> QED
    BY <1>1, <1>3

\* What the plan asks of the book is there: a fill is made, and recorded.
LEMMA TieredFills ==
  ASSUME TieredInv, TieredFill
  PROVE  TieredInv'
  <1> DEFINE o == op.incoming
             s == o.session
             id == o.id
             r == orders[s][id]
             q == Head(plan)
             rest == Tail(plan)
             found == Executable(books[o.inst], o, q)
  <1>1. /\ op.phase = "fill" /\ plan # <<>> /\ op' = op
        /\ UNCHANGED <<sessions, quotes, next_arrival, sequence, pending, stats, published,
                       granted>>
    BY DEF TieredFill, market_data
  <1>2. /\ s \in sessions /\ s \in Session /\ id \in OrderId
        /\ r \in Order /\ r # None /\ SameOrder(r, o) /\ IsActive(r.state)
    <2>1. s \in sessions /\ id \in OrderId /\ r # None /\ SameOrder(r, o)
      BY <1>1 DEF TieredInv, TieredWork, RecordOf
    <2>2. IsActive(r.state)
      BY <1>1 DEF TieredInv, TieredPlan, RecordOf
    <2>3. s \in Session /\ orders \in [Session -> [OrderId -> Order \cup {None}]]
      BY <2>1 DEF TieredInv, TieredType
    <2> HIDE DEF s, id
    <2> QED
      BY <2>1, <2>2, <2>3
  <1>3. /\ LotPlan(plan) /\ Len(plan) <= MaxTierFills /\ Planned(plan) <= r.remaining
        /\ op.leaving = {} /\ op.final = None /\ ~op.status
    BY <1>1 DEF TieredInv, TieredWork, TieredPlan, RecordOf
  <1>4. /\ q \in Nat \ {0} /\ LotPlan(rest) /\ Planned(plan) = q + Planned(rest)
        /\ Planned(plan) \in Nat /\ Planned(rest) \in Nat
        /\ rest # <<>> => Planned(rest) > 0
        /\ Len(rest) <= MaxTierFills
    <2>1. MaxTierFills \in Nat /\ Len(rest) \in Nat
      BY <1>1, <1>3, PlanTail, TierAssumption DEF LotPlan
    <2> QED
      BY <1>1, <1>3, <2>1, PlanTail
  <1>5. r.session = s /\ r.id = id /\ r.inst = o.inst /\ r.side = o.side /\ r.price = o.price
    BY <1>2 DEF SameOrder
  <1>6. r.remaining \in Nat /\ r.cum \in Nat /\ r.price \in Nat /\ r.inst \in Instrument
        /\ q <= r.remaining
    <2>1. r \in Order
      BY <1>2
    <2> HIDE DEF r, q
    <2>2. /\ r.remaining \in Nat /\ r.cum \in Nat /\ r.inst \in Instrument
          /\ r.price \in Price \cup {0}
      BY <2>1 DEF Order
    <2> QED
      <3>1. Price \cup {0} \subseteq Nat
        BY PriceAssumption
      <3>2. r.price \in Nat
        BY <2>2, <3>1
      <3> HIDE DEF rest
      <3>3. /\ Planned(plan) <= r.remaining /\ Planned(plan) = q + Planned(rest)
            /\ q \in Nat /\ Planned(rest) \in Nat
        BY <1>3, <1>4
      <3>4. q <= r.remaining
        BY <2>2, <3>3
      <3> QED
        BY <2>2, <3>2, <3>4
  <1>7. found # {}
    <2>1. PICK e \in books[r.inst].entries : e.order = r
      <3> HIDE DEF s, id
      <3> QED
        BY <1>2 DEF TieredInv, TieredMirror
    <2>2. r.type = "Limit" /\ r.price > 0
      BY <1>6, <2>1 DEF TieredInv, TieredEntries
    <2>3. LevelOf(r) = <<o.side, o.price>>
      BY <1>5, <2>2 DEF LevelOf, EffectivePrice
    <2> HIDE DEF r, q
    <2>4. e \in found
      BY <1>2, <1>4, <1>5, <1>6, <2>1, <2>2, <2>3 DEF Executable, Located
    <2> QED
      BY <2>4
  <1> DEFINE e == CHOOSE x \in found : TRUE
             f == ApplyFill(e.order, q, o.price)
  <1>8. e \in books[r.inst].entries /\ e.order = r
    <2>1. e \in found
      BY <1>7
    <2> HIDE DEF e
    <2>2. e \in books[o.inst].entries /\ e.order.session = s /\ e.order.id = id
      BY <2>1 DEF Executable, Located
    <2> QED
      BY <1>5, <1>6, <2>2 DEF TieredInv, TieredEntries
  <1>9. /\ books' = [books EXCEPT ![o.inst] = UpdateFill(@, e, f, q)]
        /\ orders' = Mirrored(orders, f) /\ told' = Told(told, f)
        /\ plan' = rest /\ UNCHANGED faulted
    BY <1>7 DEF TieredFill
  <1> HIDE DEF e, found
  <1>10. f = ApplyFill(r, q, r.price)
    BY <1>5, <1>8
  <1>11. books' = [books EXCEPT ![r.inst] = UpdateFill(books[r.inst], e, f, q)]
    BY <1>5, <1>6, <1>9 DEF TieredInv, TieredType
  <1> HIDE DEF f
  <1>12. f \in Order /\ SameOrder(f, r)
    <2>1. f \in Order
      BY <1>2, <1>4, <1>6, <1>10, ApplyFillType
    <2> HIDE DEF r, q
    <2>2. SameOrder(f, r)
      BY <1>2, <1>10 DEF ApplyFill, SameOrder, Order
    <2> QED
      BY <2>1, <2>2
  <1>13. f.session = s /\ f.id = id /\ id # QuoteId /\ f # None
    BY <1>2, <1>5, <1>12, QuoteIdAssumption, NoneAssumption DEF SameOrder
  <1>14. orders' = [orders EXCEPT ![s][id] = f]
    <2>1. SameOrder(r, f)
      BY <1>12 DEF SameOrder
    <2>2. orders \in [Session -> [OrderId -> Order \cup {None}]]
      BY DEF TieredInv, TieredType
    <2> QED
      BY <1>2, <1>9, <1>12, <1>13, <2>1, <2>2, MirroredFill
  <1>15. /\ TieredEntries' /\ OneEntryEach' /\ TieredMirror' /\ LevelInv'
         /\ f.remaining = r.remaining - q /\ f.cum = r.cum + q
         /\ f.remaining # 0 => IsActive(f.state)
    <2>1. /\ TieredType /\ TieredEntries /\ OneEntryEach /\ TieredMirror /\ LevelInv
          /\ UNCHANGED sessions /\ op'.leaving = op.leaving /\ orders[s][id] = r
      BY <1>1 DEF TieredInv
    <2>2. /\ s \in sessions /\ id \in OrderId /\ r \in Order /\ q \in Nat \ {0}
          /\ q <= r.remaining /\ r.price \in Nat
      BY <1>2, <1>4, <1>6
    <2> HIDE DEF r, q, s, id
    <2>3. FillsEntry(s, id, r, e, q, r.price, f)
      BY <1>8, <1>10, <1>11, <1>14, <2>1, <2>2 DEF FillsEntry
    <2> QED
      BY <2>1, <2>2, <2>3, FilledCore
  <1>16. /\ told' = [told EXCEPT ![s][id] = ViewOf(f)]
         /\ told' \in [Session -> [OrderId -> View \cup {None}]]
    <2>1. told' = [told EXCEPT ![s][id] = ViewOf(f)]
      BY <1>2, <1>9, <1>13 DEF Told
    <2> QED
      BY <1>12, <2>1, ViewType DEF TieredInv, TieredType
  <1>17. TieredType'
    <2>1. orders' \in [Session -> [OrderId -> Order \cup {None}]]
      BY <1>12, <1>14 DEF TieredInv, TieredType
    <2>2. books' \in [Instrument -> Book]
      <3>1. UpdateFill(books[r.inst], e, f, q) \in Book
        BY <1>4, <1>6, <1>8, <1>12, UpdateFillType DEF TieredInv, TieredType
      <3> QED
        BY <1>11, <3>1 DEF TieredInv, TieredType
    <2> QED
      BY <1>1, <1>16, <2>1, <2>2 DEF TieredInv, TieredType
  <1>18. /\ orders'[s][id] = f
         /\ \A t \in Session, k \in OrderId :
              ~(t = s /\ k = id) => orders'[t][k] = orders[t][k] /\ told'[t][k] = told[t][k]
    BY <1>2, <1>14, <1>16 DEF TieredInv, TieredType
  <1>19. TieredWork'
    <2>1. SameOrder(f, o)
      BY <1>2, <1>12 DEF SameOrder
    <2> QED
      BY <1>1, <1>3, <1>13, <1>18, <2>1 DEF TieredInv, TieredWork, RecordOf
  <1>20. TieredPlan'
    <2>1. RecordOf(op.incoming)' = f
      BY <1>1, <1>18 DEF RecordOf
    <2>2. rest # <<>> => f.remaining # 0
      <3> HIDE DEF r, q, rest
      <3> QED
        BY <1>3, <1>4, <1>6, <1>15
    <2>3. Planned(rest) <= f.remaining
      <3> HIDE DEF r, q, rest
      <3> QED
        BY <1>3, <1>4, <1>6, <1>15
    <2> QED
      BY <1>1, <1>4, <1>9, <1>15, <2>1, <2>2, <2>3 DEF TieredPlan
  <1>21. TieredTold'
    <2> SUFFICES ASSUME NEW t \in sessions, NEW k \in OrderId
                 PROVE  told'[t][k] = ViewOrNone(orders'[t][k])
      BY <1>1 DEF TieredTold
    <2>1. t \in Session /\ told[t][k] = ViewOrNone(orders[t][k])
      BY <1>1, ToldSoFar DEF TieredInv, TieredType
    <2>2. CASE t = s /\ k = id
      BY <1>2, <1>13, <1>16, <1>18, <2>2 DEF ViewOrNone, TieredInv, TieredType
    <2>3. CASE ~(t = s /\ k = id)
      BY <1>18, <2>1, <2>3
    <2> QED
      BY <2>2, <2>3
  <1>22. TieredGrants'
    <2> SUFFICES ASSUME NEW t \in sessions, NEW k \in OrderId, orders'[t][k] # None
                 PROVE  /\ granted[t][k] \in Grant
                        /\ orders'[t][k].cum + Due(t, k)'
                             = granted[t][k].executed + TierTotal(granted[t][k].open)
      BY <1>1 DEF TieredGrants
    <2>1. t \in Session
      BY DEF TieredInv, TieredType
    <2>2. CASE t = s /\ k = id
      <3>1. Due(t, k)' = Planned(rest) /\ Due(t, k) = Planned(plan)
        BY <1>1, <1>9, <2>2 DEF Due
      <3>2. orders'[t][k].cum = r.cum + q /\ orders[t][k] = r
        BY <1>15, <1>18, <2>2
      <3>3. /\ granted[t][k] \in Grant
            /\ r.cum + Planned(plan) = granted[t][k].executed + TierTotal(granted[t][k].open)
        BY <1>2, <2>2, <3>1, <3>2 DEF TieredInv, TieredGrants
      <3>4. r.cum + Planned(plan) = (r.cum + q) + Planned(rest)
        BY <1>4, <1>6
      <3> QED
        BY <3>1, <3>2, <3>3, <3>4
    <2>3. CASE ~(t = s /\ k = id)
      <3>1. Due(t, k)' = 0 /\ Due(t, k) = 0
        BY <1>1, <2>3 DEF Due
      <3>2. orders'[t][k] = orders[t][k]
        BY <1>18, <2>1, <2>3
      <3> QED
        BY <3>1, <3>2 DEF TieredInv, TieredGrants
    <2> QED
      BY <2>2, <2>3
  <1>23. TieredShown'
    <2>1. \A j \in Instrument : j # o.inst => (Shown(j)' <=> Shown(j))
      BY <1>1, <1>9 DEF Shown, TieredInv, TieredType
    <2> QED
      BY <1>1, <2>1 DEF TieredInv, TieredShown
  <1> QED
    BY <1>9, <1>15, <1>17, <1>19, <1>20, <1>21, <1>22, <1>23 DEF TieredInv

\* When no fill is left the version is recorded.
LEMMA TieredFillsDone ==
  ASSUME TieredInv, TieredFillDone
  PROVE  TieredInv'
  <1>1. /\ op.phase = "fill" /\ plan = <<>> /\ RecordMarketData(op.incoming.inst)
        /\ op' = Publishing(op.method, None, FALSE)
        /\ UNCHANGED <<sessions, orders, quotes, books, next_arrival, stats, told, plan,
                       faulted, granted>>
    BY DEF TieredFillDone, tiered
  <1>2. op'.phase = "publish" /\ op'.leaving = {} /\ op'.final = None /\ op'.status = FALSE
    BY <1>1 DEF Publishing, Idle
  <1>3. /\ op.leaving = {} /\ op.final = None /\ ~op.status /\ op.incoming \in Order
        /\ op.incoming.inst \in Instrument
    BY <1>1 DEF TieredInv, TieredWork, TieredType, TieredOp, Order
  <1>4. op' \in TieredOp
    BY <1>1 DEF TieredInv, TieredType, TieredOp, Publishing, Idle
  <1>5. /\ TieredShown' /\ sequence' \in Nat /\ pending' \in [Instrument -> Nat]
        /\ published' = published
    BY <1>1, <1>2, <1>3, DirtyShown DEF TieredInv
  <1>6. TieredType'
    BY <1>1, <1>4, <1>5 DEF TieredInv, TieredType
  <1>7. TieredEntries' /\ OneEntryEach' /\ TieredMirror' /\ LevelInv'
    BY <1>1, <1>2, <1>3, SameCore DEF TieredInv
  <1>8. TieredWork' /\ TieredPlan'
    BY <1>1, <1>2 DEF TieredInv, TieredWork, TieredPlan
  <1>9. TieredTold'
    BY <1>1, ToldSoFar DEF TieredTold
  <1>10. TieredGrants'
    <2>1. \A t, k : Due(t, k)' = 0 /\ Due(t, k) = 0
      BY <1>1, <1>2, EmptyPlan DEF Due
    <2> QED
      BY <1>1, <2>1 DEF TieredInv, TieredGrants
  <1> QED
    BY <1>1, <1>5, <1>6, <1>7, <1>8, <1>9, <1>10 DEF TieredInv

\* Nothing of a method of the matching engine is ever in hand.
LEMMA NeverMatching ==
  ASSUME TieredInv
  PROVE  ~Match /\ ~MatchDone /\ ~Report /\ ~DropQuote
  <1>1. op.phase # "match" /\ op.trades = <<>> /\ op.leaving \subseteq Session
    BY DEF TieredInv, TieredType, TieredOp
  <1>2. \A s \in Session, i \in Instrument : quotes[s][i] = None
    BY DEF TieredInv, TieredType
  <1> QED
    BY <1>1, <1>2 DEF Match, MatchDone, Report, DropQuote

\* Every step of a tiered engine keeps the invariant.
LEMMA TieredStep == TieredInv /\ policy = "Tiered" /\ [PolicyNext]_policyVars => TieredInv'
  <1> SUFFICES ASSUME TieredInv, policy = "Tiered", [PolicyNext]_policyVars
               PROVE  TieredInv'
    OBVIOUS
  <1>1. CASE UNCHANGED policyVars
    <2>1. UNCHANGED <<sessions, orders, quotes, books, next_arrival, sequence, pending, stats,
                      published, told, op, plan, faulted, granted>>
      BY <1>1 DEF policyVars, vars, tiered
    <2>2. TieredType' /\ TieredWork' /\ TieredPlan' /\ TieredTold'
      BY <2>1 DEF TieredInv, TieredType, TieredWork, TieredPlan, TieredTold, RecordOf
    <2>3. TieredGrants' /\ TieredShown' /\ ~faulted'
      BY <2>1 DEF TieredInv, TieredGrants, TieredShown, Shown, Due
    <2>4. TieredEntries' /\ OneEntryEach' /\ TieredMirror' /\ LevelInv'
      BY <2>1, SameCore DEF TieredInv
    <2> QED
      BY <2>2, <2>3, <2>4 DEF TieredInv
  <1>2. CASE Shared /\ UNCHANGED tiered
    <2>1. ASSUME NEW s \in Session, RegisterSession(s) \/ SessionDisconnect(s)
          PROVE  TieredInv'
      BY <1>2, <2>1, TieredRegister, TieredDisconnect
    <2>2. CASE Tick \/ ExpireDayOrders
      BY <1>2, <2>2, TieredQuiet
    <2>3. CASE Continue
      BY <1>2, <2>3, NeverMatching, TieredQuiet, TieredDropOrder, TieredDropDone,
         TieredExpireOrder, TieredPublish, TieredFinish DEF Continue
    <2> QED
      BY <1>2, <2>1, <2>2, <2>3 DEF Shared
  <1>3. ASSUME NEW s \in Session, TieredRequest(s)
        PROVE  TieredInv'
    <2>1. ASSUME NEW id \in OrderId, NEW i \in Instrument, NEW side \in Side,
                 NEW type \in OrderType, NEW price \in Price, NEW qty \in TieredQuantity,
                 TieredCreate(s, id, i, side, type, price, qty)
          PROVE  TieredInv'
      BY <2>1, TieredCreates DEF TieredCreate
    <2>2. ASSUME NEW orig \in OrderId, NEW id \in OrderId, NEW type \in OrderType,
                 NEW price \in Price, NEW qty \in TieredQuantity,
                 TieredModify(s, orig, id, type, price, qty)
          PROVE  TieredInv'
      BY <2>2, TieredModifies DEF TieredModify
    <2>3. ASSUME NEW orig \in OrderId, CancelOrder(s, orig), UNCHANGED tiered
          PROVE  TieredInv'
      BY <2>3, TieredCancel
    <2> QED
      BY <1>3, <2>1, <2>2, <2>3 DEF TieredRequest
  <1>4. CASE TieredFill \/ TieredFillDone
    BY <1>4, TieredFills, TieredFillsDone
  <1> QED
    BY <1>1, <1>2, <1>3, <1>4 DEF PolicyNext

\* An engine starts without sessions, orders and plans.
LEMMA TieredInit == PolicyInit => TieredInv
  <1> SUFFICES ASSUME PolicyInit PROVE TieredInv
    OBVIOUS
  <1>1. Init /\ plan = <<>> /\ faulted = FALSE
        /\ granted = [s \in Session |-> [id \in OrderId |-> None]]
    BY DEF PolicyInit
  <1>2. /\ sessions = {} /\ op = Idle /\ books = [i \in Instrument |-> EmptyBook]
        /\ pending = [i \in Instrument |-> 0]
        /\ stats = [i \in Instrument |-> NoStatistics]
        /\ published = [i \in Instrument |-> NoSnapshot]
        /\ orders = [s \in Session |-> [id \in OrderId |-> None]]
    BY <1>1 DEF Init
  <1>3. TieredType
    <2>1. EmptyBook \in Book /\ NoSnapshot \in [version : Nat, depth : SUBSET Row,
                                                stats : {NoStatistics}]
      BY DEF EmptyBook, Book, NoLevel, Level, NoSnapshot
    <2> QED
      BY <1>1, <2>1, TieredOps DEF Init, TieredType
  <1>4. TieredEntries /\ OneEntryEach /\ TieredMirror
    BY <1>2 DEF EmptyBook, TieredEntries, OneEntryEach, TieredMirror
  <1>5. LevelInv
    BY <1>1, LevelInit
  <1>6. TieredWork
    BY <1>2, TieredOpFields DEF TieredWork
  <1>7. TieredPlan
    BY <1>1, EmptyPlan, TierAssumption DEF TieredPlan
  <1>8. TieredTold /\ TieredGrants
    BY <1>2 DEF TieredTold, TieredGrants
  <1>9. TieredShown
    BY <1>2 DEF TieredShown, Shown, EmptyBook, Depth, NoSnapshot
  <1> QED
    BY <1>1, <1>3, <1>4, <1>5, <1>6, <1>7, <1>8, <1>9 DEF TieredInv

-----------------------------------------------------------------------------
(* The engine under either policy *)

\* Under FillPolicy::Real the engine takes no step that module Engine has not,
\* so what is inductive there is inductive here.
RealInv ==
    /\ TypeInv /\ EngineInv /\ MirrorInv /\ SnapshotInv /\ LevelInv
    /\ plan = <<>> /\ ~faulted

\* A step under FillPolicy::Real is a step of module Engine.
LEMMA RealSteps ==
  ASSUME RealInv, policy = "Real", [PolicyNext]_policyVars
  PROVE  [Next]_vars /\ UNCHANGED tiered
  <1>1. op.phase # "fill"
    BY DEF RealInv, TypeInv, TypeOK, Op, Phase
  <1>2. ~TieredFill /\ ~TieredFillDone
    BY <1>1 DEF TieredFill, TieredFillDone
  <1>3. CASE UNCHANGED policyVars
    BY <1>3 DEF policyVars
  <1>4. CASE Shared /\ UNCHANGED tiered
    BY <1>4 DEF Shared, Next
  <1>5. ASSUME NEW s \in Session, Request(s), UNCHANGED tiered
        PROVE  [Next]_vars /\ UNCHANGED tiered
    BY <1>5 DEF Next
  <1> QED
    BY <1>2, <1>3, <1>4, <1>5 DEF PolicyNext

\* It keeps what is inductive there,
LEMMA RealStep == RealInv /\ policy = "Real" /\ [PolicyNext]_policyVars => RealInv'
  <1> SUFFICES ASSUME RealInv, [Next]_vars, UNCHANGED tiered PROVE RealInv'
    BY RealSteps
  <1>1. TypeOK
    BY DEF RealInv, TypeInv
  <1>2. TypeInv' /\ EngineInv'
    BY <1>1, NextTypeInv, NextInv DEF RealInv
  <1>3. MirrorInv' /\ SnapshotInv' /\ LevelInv'
    BY <1>1, MirrorStepInv, SnapshotStep, LevelStep DEF RealInv
  <1> QED
    BY <1>2, <1>3 DEF RealInv, tiered

\* which holds at the start.
LEMMA RealInit == PolicyInit => RealInv
  <1> SUFFICES ASSUME PolicyInit PROVE RealInv
    OBVIOUS
  <1>1. Init /\ plan = <<>> /\ ~faulted
    BY DEF PolicyInit
  <1>2. TypeInv
    <2>1. op = Idle
      BY <1>1 DEF Init
    <2> QED
      BY <1>1, <2>1, InitType DEF TypeInv, Idle
  <1> QED
    BY <1>1, <1>2, InitInv, MirrorInit, SnapshotInit, LevelInit DEF RealInv

\* The invariant of the engine, by its policy.
PolicyInv ==
    \/ policy = "Real" /\ RealInv
    \/ policy = "Tiered" /\ TieredInv

\* An engine keeps the policy it was created with.
LEMMA PolicyStays == [PolicyNext]_policyVars => policy' = policy
  <1> SUFFICES ASSUME [PolicyNext]_policyVars PROVE policy' = policy
    OBVIOUS
  <1>1. UNCHANGED tiered => policy' = policy
    BY DEF tiered
  <1>2. UNCHANGED policyVars => UNCHANGED tiered
    BY DEF policyVars
  <1>3. ASSUME NEW s \in Session, TieredRequest(s)
        PROVE  policy' = policy
    <2>1. ASSUME NEW id, NEW i, NEW side, NEW type, NEW price, NEW qty,
                 TieredCreate(s, id, i, side, type, price, qty)
          PROVE  policy' = policy
      BY <2>1 DEF TieredCreate
    <2>2. ASSUME NEW orig, NEW id, NEW type, NEW price, NEW qty,
                 TieredModify(s, orig, id, type, price, qty)
          PROVE  policy' = policy
      BY <2>2 DEF TieredModify
    <2> QED
      BY <1>1, <1>3, <2>1, <2>2 DEF TieredRequest
  <1>4. TieredFill \/ TieredFillDone => policy' = policy
    BY <1>1 DEF TieredFill, TieredFillDone
  <1> QED
    BY <1>1, <1>2, <1>3, <1>4 DEF PolicyNext

\* What is inductive under the policy of the engine holds.
LEMMA PolicySafe == PolicySpec => []PolicyInv
  <1>1. PolicyInit => PolicyInv
    BY RealInit, TieredInit DEF PolicyInit, PolicyInv
  <1>2. PolicyInv /\ [PolicyNext]_policyVars => PolicyInv'
    <2> SUFFICES ASSUME PolicyInv, [PolicyNext]_policyVars PROVE PolicyInv'
      OBVIOUS
    <2>1. policy' = policy
      BY PolicyStays
    <2> QED
      BY <2>1, RealStep, TieredStep DEF PolicyInv
  <1> QED
    BY <1>1, <1>2, PTL DEF PolicySpec

\* Whatever quantities were sent, replaced and filled before: what a plan asks of
\* the book after the request was validated is there, at that price, in that
\* quantity, so no book operation of a tiered method fails (TieredBookError).
THEOREM BooksNeverFault == PolicySpec => []NoBookFault
  <1>1. PolicyInv => NoBookFault
    BY DEF PolicyInv, RealInv, TieredInv, NoBookFault
  <1> QED
    BY <1>1, PolicySafe, PTL

\* For every chunk, tier limit and quantity: between methods an order has
\* executed exactly what the table of docs/tiered-fill-plan.md grants to the
\* request that made it, on top of what the replaced order had executed, and no
\* plan has more than MAX_TIER_FILLS fills.
THEOREM TiersAreExact == PolicySpec => []TierOutcome
  <1>1. RealInv /\ policy = "Real" => TierOutcome
    BY EmptyPlan, TierAssumption DEF RealInv, TierOutcome
  <1>2. TieredInv => TierOutcome
    <2> SUFFICES ASSUME TieredInv, op = Idle, NEW s \in sessions, NEW id \in OrderId,
                        orders[s][id] # None
                 PROVE  orders[s][id].cum = granted[s][id].executed
                                               + TierTotal(granted[s][id].open)
      BY DEF TierOutcome, TieredInv, TieredPlan
    <2>1. Due(s, id) = 0
      BY TieredOpFields DEF Due
    <2>2. s \in Session /\ orders[s][id] \in Order
      BY DEF TieredInv, TieredType
    <2>3. orders[s][id].cum \in Nat
      BY <2>2 DEF Order
    <2> QED
      BY <2>1, <2>3 DEF TieredInv, TieredGrants
  <1>3. PolicyInv => TierOutcome
    BY <1>1, <1>2 DEF PolicyInv
  <1> QED
    BY <1>3, PolicySafe, PTL

\* The invariant of the tiered engine says that its books are kept.
LEMMA TieredKeepsBooks == TieredInv => PolicyKeepsBooks
  <1> SUFFICES ASSUME TieredInv PROVE PolicyKeepsBooks
    OBVIOUS
  <1>1. LevelTotals
    BY DEF TieredInv, LevelInv, Summed, Queue, LevelTotals, OpenIn
  <1>2. MirrorAgrees
    <2> SUFFICES ASSUME op = Idle, NEW o \in Order
                 PROVE  (o.id # QuoteId /\ \E i \in Instrument : \E e \in books[i].entries : e.order = o)
                          <=> (IsActive(o.state) /\ \E s \in sessions, id \in OrderId : orders[s][id] = o)
      BY DEF MirrorAgrees
    <2>1. op.leaving = {}
      BY TieredOpFields
    <2>2. ASSUME NEW i \in Instrument, NEW e \in books[i].entries, e.order = o
          PROVE  IsActive(o.state) /\ \E s \in sessions, id \in OrderId : orders[s][id] = o
      BY <2>1, <2>2 DEF TieredInv, TieredEntries
    <2>3. ASSUME IsActive(o.state), NEW s \in sessions, NEW id \in OrderId, orders[s][id] = o
          PROVE  o.id # QuoteId /\ \E i \in Instrument : \E e \in books[i].entries : e.order = o
      <3>1. o # None /\ s \in Session /\ o.inst \in Instrument
        BY NoneAssumption DEF TieredInv, TieredType, Order
      <3> QED
        BY <2>3, <3>1, QuoteIdAssumption DEF TieredInv, TieredMirror
    <2> QED
      BY <2>2, <2>3
  <1>3. ClientInformed
    BY ToldSoFar, TieredOpFields DEF ClientInformed, ViewOrNone
  <1>4. SnapshotCurrent
    <2> SUFFICES ASSUME NEW i \in Instrument
                 PROVE  /\ op = Idle => published[i].depth = Depth(books[i])
                        /\ op = Idle \/ op.phase = "report" => published[i].stats = stats[i]
      BY DEF SnapshotCurrent
    <2>1. op = Idle => op.phase = "idle"
      BY TieredOpFields
    <2> QED
      BY <2>1 DEF TieredInv, TieredShown, Shown
  <1> QED
    BY <1>1, <1>2, <1>3, <1>4 DEF PolicyKeepsBooks

\* Level totals, mirrors, reports and snapshots are exact under either policy;
\* under FillPolicy::Real the reports need what ClientsAreInformed needs.
THEOREM EitherPolicyKeepsBooks ==
  ASSUME "Market" \notin ReplaceType
  PROVE  PolicySpec => []PolicyKeepsBooks
  <1> DEFINE RealTold == policy = "Real" => ToldInv
  <1>1. PolicyInit => RealTold
    BY ToldInit DEF PolicyInit
  <1>2. PolicyInv /\ RealTold /\ [PolicyNext]_policyVars => RealTold'
    <2> SUFFICES ASSUME PolicyInv, RealTold, [PolicyNext]_policyVars, policy' = "Real"
                 PROVE  ToldInv'
      OBVIOUS
    <2>1. policy = "Real"
      BY PolicyStays
    <2>2. RealInv
      BY <2>1 DEF PolicyInv
    <2>3. [Next]_vars
      BY <2>1, <2>2, RealSteps
    <2> QED
      BY <2>1, <2>2, <2>3, ToldStep DEF RealInv, TypeInv
  <1>3. PolicyInv /\ RealTold => PolicyKeepsBooks
    <2>1. RealInv /\ ToldInv => PolicyKeepsBooks
      <3> SUFFICES ASSUME RealInv, ToldInv PROVE PolicyKeepsBooks
        OBVIOUS
      <3>1. LevelTotals
        BY DEF RealInv, LevelInv, Summed, Queue, LevelTotals, OpenIn
      <3>2. MirrorAgrees /\ SnapshotCurrent /\ ClientInformed
        BY MirrorMeans, SnapshotMeans, ToldMeans DEF RealInv, TypeInv
      <3> QED
        BY <3>1, <3>2 DEF PolicyKeepsBooks
    <2> QED
      BY <2>1, TieredKeepsBooks DEF PolicyInv
  <1> HIDE DEF RealTold
  <1> QED
    BY <1>1, <1>2, <1>3, PolicySafe, PTL DEF PolicySpec
=============================================================================
