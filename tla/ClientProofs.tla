---------------------------- MODULE ClientProofs -----------------------------
(***************************************************************************)
(* A connection of the gateway and the initiator behind it.  First the     *)
(* ClOrdIDs of a connection, for every client, every set of strings and    *)
(* every range of order ids; then the initiator on it, for any number of   *)
(* threads, requests, quantities and trades: what the client is told comes *)
(* to agree with what the exchange did.                                    *)
(***************************************************************************)
EXTENDS AnyClient, Client, WellFoundedInduction, TLAPS

-----------------------------------------------------------------------------
(* The names of a connection *)

\* The two HashMaps of a WireIdMap are inverse to each other.
Inverses(m) ==
    /\ \A w \in Wire : m.to_internal[w] # 0 => m.to_wire[m.to_internal[w]] = w
    /\ \A n \in InternalId : m.to_wire[n] # NoWire => m.to_internal[m.to_wire[n]] = n

\* m calls the order with id n by the name w.
Knows(m, n, w) == n \in InternalId /\ w \in Wire /\ m.to_wire[n] = w

\* A message that is translated by the map m gets the names it must have.
Named(m, r) ==
    r.kind = "exec" /\ r.id # 0 =>
        /\ Knows(m, r.id, r.names.wire)
        /\ r.orig # 0 => Knows(m, r.orig, r.names.orig)

\* s is a sequence of such messages.
AllNamed(m, s) == \E S : s \in Seq(S) /\ \A r \in S : Named(m, r)

\* Each order is known by its request's name.
OrdersNamed(m, os) ==
    /\ DOMAIN os = InternalId
    /\ \A n \in InternalId :
         os[n] # None => "name" \in DOMAIN os[n] /\ Knows(m, n, os[n].name)

\* What the engine has accepted is a ClOrdID that is used up.
AcceptedUsed(m, acc) ==
    /\ acc \in [Wire -> 0..1]
    /\ \A w \in Wire : acc[w] = 1 => m.to_internal[w] # 0

\* m gives the ClOrdIDs its kind has.
Wired(m) ==
    /\ m.kind \in {"new", "cancel", "replace"} => m.wire \in Wire
    /\ m.kind \in {"cancel", "replace"} => m.orig \in Wire

AllWired(s) == \E S : s \in Seq(S) /\ \A m \in S : Wired(m)

GatewayInv ==
    /\ ids \in WireIdMap /\ Inverses(ids)
    /\ OrdersNamed(ids, orders)
    /\ AcceptedUsed(ids, accepted)
    /\ AllWired(inbox)
    /\ AllNamed(ids, out)

-----------------------------------------------------------------------------
(* WireIdMap *)

\* Every non-empty set of naturals has a least member, which Min names.
LEMMA MinIsLeast ==
  ASSUME NEW S, S \subseteq Nat, S # {}
  PROVE  Min(S) \in S /\ \A y \in S : Min(S) <= y
  <1>1. PICK x \in S : \A y \in S : ~(<<y, x>> \in OpToRel(<, Nat))
    BY NatLessThanWellFounded, WFMin
  <1>2. \A y \in S : x <= y
    <2> TAKE y \in S
    <2>1. y < x => <<y, x>> \in OpToRel(<, Nat)
      BY Zenon DEF OpToRel
    <2>2. ~(y < x)
      BY <1>1, <2>1, Zenon
    <2> QED
      BY <2>2
  <1> QED
    BY <1>2 DEF Min

\* intern() of a new string: it gets an id that no other string has, and the
\* map changes there only.
LEMMA InternFresh ==
  ASSUME NEW m \in WireIdMap, Inverses(m), NEW w \in Wire, IsFresh(m, w)
  PROVE  /\ InternedId(m, w) \in InternalId /\ m.to_wire[InternedId(m, w)] = NoWire
         /\ Intern(m, w) \in WireIdMap
         /\ Intern(m, w).to_internal = [m.to_internal EXCEPT ![w] = InternedId(m, w)]
         /\ Intern(m, w).to_wire = [m.to_wire EXCEPT ![InternedId(m, w)] = w]
  <1> DEFINE n == InternedId(m, w)
  <1>1. m.to_internal[w] = 0 /\ (Prefers(m, w) \/ Candidates(m) # {})
    BY DEF IsFresh, CanIntern
  <1>2. n \in Free(m)
    <2>1. CASE Prefers(m, w)
      BY <1>1, <2>1 DEF InternedId, Prefers
    <2>2. CASE ~Prefers(m, w)
      <3>1. n = Min(Candidates(m)) /\ Candidates(m) # {}
        BY <1>1, <2>2 DEF InternedId
      <3>2. Candidates(m) \subseteq Nat /\ Candidates(m) \subseteq Free(m)
        BY WireAssumption DEF Candidates, Free, InternalId
      <3> QED
        BY <3>1, <3>2, MinIsLeast
    <2> QED
      BY <2>1, <2>2
  <1>3. n \in InternalId /\ m.to_wire[n] = NoWire
    BY <1>2 DEF Free
  <1>4. After(n) \in InternalId
    BY <1>3, WireAssumption DEF After, InternalId
  <1>5. Intern(m, w) = [to_internal |-> [m.to_internal EXCEPT ![w] = n],
                        to_wire |-> [m.to_wire EXCEPT ![n] = w],
                        next_internal |->
                          IF Prefers(m, w) THEN m.next_internal ELSE After(n)]
    BY <1>1 DEF Intern
  <1> HIDE DEF n
  <1>6. Intern(m, w) \in WireIdMap
    BY <1>3, <1>4, <1>5, WireAssumption DEF WireIdMap, InternalId
  <1>7. /\ Intern(m, w).to_internal = [m.to_internal EXCEPT ![w] = n]
        /\ Intern(m, w).to_wire = [m.to_wire EXCEPT ![n] = w]
    BY <1>5
  <1> QED
    BY <1>3, <1>6, <1>7 DEF n

\* m2 knows all that m knows.
Extends(m, m2) ==
    /\ \A n \in InternalId, w \in Wire : Knows(m, n, w) => Knows(m2, n, w)
    /\ \A w \in Wire : m.to_internal[w] # 0 => m2.to_internal[w] # 0

\* fresh_id keeps the maps inverse, and forgets nothing.
LEMMA InternKeeps ==
  ASSUME NEW m \in WireIdMap, Inverses(m), NEW w \in Wire, IsFresh(m, w)
  PROVE  /\ InternedId(m, w) \in InternalId /\ m.to_wire[InternedId(m, w)] = NoWire
         /\ Intern(m, w) \in WireIdMap
         /\ Inverses(Intern(m, w)) /\ Extends(m, Intern(m, w))
         /\ Knows(Intern(m, w), InternedId(m, w), w)
         /\ Intern(m, w).to_internal[w] # 0
         /\ \A v \in Wire \ {w} : Intern(m, w).to_internal[v] = m.to_internal[v]
  <1> DEFINE n == InternedId(m, w)
             m2 == Intern(m, w)
  <1>1. /\ n \in InternalId /\ m.to_wire[n] = NoWire /\ m2 \in WireIdMap
        /\ m2.to_internal = [m.to_internal EXCEPT ![w] = n]
        /\ m2.to_wire = [m.to_wire EXCEPT ![n] = w]
    BY InternFresh
  <1>2. /\ m.to_internal \in [Wire -> 0..MaxOrderId]
        /\ m.to_wire \in [InternalId -> Wire \cup {NoWire}]
        /\ m.to_internal[w] = 0 /\ n # 0 /\ NoWire \notin Wire
    BY <1>1, WireAssumption DEF WireIdMap, InternalId, IsFresh
  <1> HIDE DEF n, m2
  <1>3. /\ m2.to_internal[w] = n
        /\ \A v \in Wire : v # w => m2.to_internal[v] = m.to_internal[v]
        /\ m2.to_wire[n] = w
        /\ \A k \in InternalId : k # n => m2.to_wire[k] = m.to_wire[k]
    BY <1>1, <1>2
  <1>4. /\ \A v \in Wire : m.to_internal[v] # 0 => m.to_internal[v] \in InternalId
        /\ \A k \in InternalId : m.to_wire[k] # NoWire => m.to_wire[k] \in Wire
    BY <1>2, WireAssumption DEF InternalId
  <1>5. Inverses(m2)
    <2>1. ASSUME NEW v \in Wire, m2.to_internal[v] # 0
          PROVE  m2.to_wire[m2.to_internal[v]] = v
      BY <1>1, <1>2, <1>3, <1>4, <2>1 DEF Inverses
    <2>2. ASSUME NEW k \in InternalId, m2.to_wire[k] # NoWire
          PROVE  m2.to_internal[m2.to_wire[k]] = k
      <3>1. CASE k = n
        BY <1>3, <3>1
      <3>2. CASE k # n
        <4>1. m2.to_wire[k] = m.to_wire[k] /\ m.to_wire[k] \in Wire
          BY <1>3, <1>4, <2>2, <3>2
        <4>2. m.to_internal[m.to_wire[k]] = k /\ k # 0
          BY <1>2, <2>2, <4>1, WireAssumption DEF Inverses, InternalId
        <4>3. m.to_wire[k] # w
          BY <1>2, <4>2
        <4> QED
          BY <1>3, <4>1, <4>2, <4>3
      <3> QED
        BY <3>1, <3>2
    <2> QED
      BY <2>1, <2>2 DEF Inverses
  <1>6. Extends(m, m2)
    BY <1>1, <1>2, <1>3 DEF Extends, Knows
  <1>7. Knows(m2, n, w)
    BY <1>1, <1>3 DEF Knows
  <1> QED
    BY <1>1, <1>2, <1>3, <1>5, <1>6, <1>7 DEF n, m2

-----------------------------------------------------------------------------
(* Names that are right stay right when more ClOrdIDs arrive. *)

LEMMA NamedStays ==
  ASSUME NEW m, NEW m2, Extends(m, m2), NEW r, Named(m, r)
  PROVE  Named(m2, r)
  BY DEF Named, Extends, Knows

LEMMA AllNamedStays ==
  ASSUME NEW m, NEW m2, Extends(m, m2), NEW s, AllNamed(m, s)
  PROVE  AllNamed(m2, s)
  BY NamedStays DEF AllNamed

LEMMA OrdersNamedStays ==
  ASSUME NEW m, NEW m2, Extends(m, m2), NEW os, OrdersNamed(m, os)
  PROVE  OrdersNamed(m2, os)
  BY DEF OrdersNamed, Extends, Knows

-----------------------------------------------------------------------------
(* Sequences of messages *)

LEMMA AppendNamed ==
  ASSUME NEW m, NEW s, AllNamed(m, s), NEW r, Named(m, r)
  PROVE  AllNamed(m, Append(s, r))
  <1>1. PICK S : s \in Seq(S) /\ \A x \in S : Named(m, x)
    BY DEF AllNamed
  <1>2. s \in Seq(S \cup {r}) /\ \A x \in S \cup {r} : Named(m, x)
    BY <1>1
  <1>3. Append(s, r) \in Seq(S \cup {r})
    BY <1>2
  <1> QED
    BY <1>2, <1>3 DEF AllNamed

LEMMA ConcatNamed ==
  ASSUME NEW m, NEW s, AllNamed(m, s), NEW t, AllNamed(m, t)
  PROVE  AllNamed(m, s \o t)
  <1>1. PICK S : s \in Seq(S) /\ \A x \in S : Named(m, x)
    BY DEF AllNamed
  <1>2. PICK T : t \in Seq(T) /\ \A x \in T : Named(m, x)
    BY DEF AllNamed
  <1>3. s \in Seq(S \cup T) /\ t \in Seq(S \cup T) /\ \A x \in S \cup T : Named(m, x)
    BY <1>1, <1>2
  <1>4. s \o t \in Seq(S \cup T)
    BY <1>3
  <1> QED
    BY <1>3, <1>4 DEF AllNamed

LEMMA EmptyNamed ==
  ASSUME NEW m
  PROVE  AllNamed(m, <<>>)
  <1> DEFINE S == {}
  <1>1. <<>> \in Seq(S) /\ \A r \in S : Named(m, r)
    OBVIOUS
  <1> HIDE DEF S
  <1> QED
    BY <1>1 DEF AllNamed

LEMMA TailNamed ==
  ASSUME NEW m, NEW s, AllNamed(m, s), s # <<>>
  PROVE  AllNamed(m, Tail(s))
  <1>1. PICK S : s \in Seq(S) /\ \A x \in S : Named(m, x)
    BY DEF AllNamed
  <1>2. Tail(s) \in Seq(S)
    BY <1>1
  <1> QED
    BY <1>1, <1>2 DEF AllNamed

LEMMA ReportFields ==
  ASSUME NEW id, NEW orig, NEW o, NEW last, NEW names
  PROVE  /\ Report(id, orig, o, last, names).id = id
         /\ Report(id, orig, o, last, names).orig = orig
         /\ Report(id, orig, o, last, names).names = names
  BY DEF Report

\* send_trade_reports names the order.
LEMMA FillReportsNamed ==
  ASSUME NEW m, NEW n, NEW o, Knows(m, n, o.name), NEW fills, Len(fills) \in Nat
  PROVE  AllNamed(m, FillReports(n, o, fills))
  <1> DEFINE s == FillReports(n, o, fills)
             S == {s[k] : k \in 1..Len(fills)}
  <1>1. \A k \in 1..Len(fills) :
            s[k] = Report(n, 0, Traded(o, fills[k]),
                          fills[k] - (IF k = 1 THEN 0 ELSE fills[k - 1]),
                          [wire |-> o.name, orig |-> NoWire])
    BY DEF FillReports
  <1>2. s \in [1..Len(fills) -> S]
    BY DEF FillReports
  <1>3. \A r \in S : Named(m, r)
    <2> TAKE r \in S
    <2>1. PICK k \in 1..Len(fills) : r = s[k]
      OBVIOUS
    <2>2. r.id = n /\ r.orig = 0 /\ r.names.wire = o.name
      BY <1>1, <2>1, ReportFields
    <2> QED
      BY <2>2 DEF Named
  <1> HIDE DEF s, S
  <1>4. s \in Seq(S)
    BY <1>2
  <1> QED
    BY <1>3, <1>4 DEF AllNamed, s

-----------------------------------------------------------------------------
(* Orders *)

\* o is the record of the request with ClOrdID w.
NamedBy(o, w) == "name" \in DOMAIN o /\ o.name = w

\* Trades and what add_to_book does with the rest leave the name alone.
LEMMA TradedName ==
  ASSUME NEW o, NEW w, NamedBy(o, w), NEW n
  PROVE  NamedBy(Traded(o, n), w)
  BY DEF NamedBy, Traded

LEMMA StateName ==
  ASSUME NEW o, NEW w, NamedBy(o, w), NEW state
  PROVE  NamedBy([o EXCEPT !.state = state], w)
  BY DEF NamedBy

LEMMA MatchedName ==
  ASSUME NEW o, NEW w, NamedBy(o, w), NEW type, NEW fills
  PROVE  NamedBy(Matched(o, type, fills), w)
  BY TradedName, StateName DEF Matched

\* A record that its map calls by its name may be put in.
LEMMA PutOrder ==
  ASSUME NEW m, NEW os, OrdersNamed(m, os),
         NEW n \in InternalId, NEW o, NEW w, NamedBy(o, w), Knows(m, n, w)
  PROVE  OrdersNamed(m, [os EXCEPT ![n] = o])
  BY DEF OrdersNamed, NamedBy

LEMMA DropOrder ==
  ASSUME NEW m, NEW os, OrdersNamed(m, os), NEW n \in InternalId
  PROVE  OrdersNamed(m, [os EXCEPT ![n] = None])
  BY DEF OrdersNamed

LEMMA NoOrders ==
  ASSUME NEW m
  PROVE  OrdersNamed(m, [n \in InternalId |-> None])
  BY DEF OrdersNamed

-----------------------------------------------------------------------------
(* Requests *)

\* What a request carries.
LEMMA ReadsTyped ==
  ASSUME GatewayInv, NEW kind, Reads(kind)
  PROVE  /\ AllWired(inbox')
         /\ kind \in {"new", "cancel", "replace"} => Head(inbox).wire \in Wire
         /\ kind \in {"cancel", "replace"} => Head(inbox).orig \in Wire
  <1>1. PICK S : inbox \in Seq(S) /\ \A m \in S : Wired(m)
    BY DEF GatewayInv, AllWired
  <1>2. inbox # <<>> /\ inbox' = Tail(inbox) /\ Head(inbox).kind = kind
    BY DEF Reads
  <1>3. Wired(Head(inbox)) /\ inbox' \in Seq(S)
    BY <1>1, <1>2
  <1> QED
    BY <1>1, <1>2, <1>3 DEF Wired, AllWired

\* The map after fresh_id, whether it takes the ClOrdID or not.
LEMMA UsedKeeps ==
  ASSUME GatewayInv, NEW m, m.wire \in Wire
  PROVE  /\ Used(m) \in WireIdMap /\ Inverses(Used(m)) /\ Extends(ids, Used(m))
         /\ IsFresh(ids, m.wire) =>
              /\ Used(m) = Intern(ids, m.wire)
              /\ Knows(Used(m), InternedId(ids, m.wire), m.wire)
              /\ InternedId(ids, m.wire) \in InternalId
              /\ ids.to_wire[InternedId(ids, m.wire)] = NoWire
              /\ Used(m).to_internal[m.wire] # 0
              /\ \A v \in Wire \ {m.wire} :
                    Used(m).to_internal[v] = ids.to_internal[v]
  <1>1. ids \in WireIdMap /\ Inverses(ids)
    BY DEF GatewayInv
  <1>2. CASE IsFresh(ids, m.wire)
    BY <1>1, <1>2, InternKeeps DEF Used
  <1>3. CASE ~IsFresh(ids, m.wire)
    BY <1>1, <1>3 DEF Used, Extends
  <1> QED
    BY <1>2, <1>3

\* The ClOrdID of an accepted request was new, and is used up.
LEMMA AcceptKeeps ==
  ASSUME GatewayInv, NEW m, m.wire \in Wire, IsFresh(ids, m.wire)
  PROVE  AcceptedUsed(Used(m), [accepted EXCEPT ![m.wire] = @ + 1])
  <1>1. /\ accepted \in [Wire -> 0..1]
        /\ \A w \in Wire : accepted[w] = 1 => ids.to_internal[w] # 0
        /\ ids.to_internal[m.wire] = 0
    BY DEF GatewayInv, AcceptedUsed, IsFresh
  <1>2. accepted[m.wire] = 0
    BY <1>1
  <1>3. /\ Used(m).to_internal[m.wire] # 0
        /\ \A w \in Wire : ids.to_internal[w] # 0 => Used(m).to_internal[w] # 0
    BY UsedKeeps DEF Extends
  <1>4. [accepted EXCEPT ![m.wire] = @ + 1] \in [Wire -> 0..1]
    BY <1>1, <1>2
  <1> QED
    BY <1>1, <1>2, <1>3, <1>4 DEF AcceptedUsed

\* A request that is refused after fresh_id.
LEMMA RefusalKeeps ==
  ASSUME GatewayInv, NEW m, m.wire \in Wire, ids' = Used(m), AllWired(inbox'),
         orders' = orders, accepted' = accepted,
         NEW r, r.kind # "exec", out' = Append(out, r)
  PROVE  GatewayInv'
  <1>1. ids' \in WireIdMap /\ Inverses(ids') /\ Extends(ids, ids')
    BY UsedKeeps
  <1>2. OrdersNamed(ids', orders')
    BY <1>1, OrdersNamedStays DEF GatewayInv
  <1>3. AcceptedUsed(ids', accepted')
    BY <1>1 DEF GatewayInv, AcceptedUsed, Extends
  <1>4. AllNamed(ids', out')
    <2>1. AllNamed(ids', out) /\ Named(ids', r)
      BY <1>1, AllNamedStays DEF GatewayInv, Named
    <2> QED
      BY <2>1, AppendNamed
  <1> QED
    BY <1>1, <1>2, <1>3, <1>4 DEF GatewayInv

LEMMA TradesAreSeqs ==
  ASSUME NEW n, NEW fills \in Fills(n)
  PROVE  fills \in Seq(1..n) /\ Len(fills) \in Nat
  <1> DEFINE S == 1..n
  <1>1. fills \in UNION {[1..k -> S] : k \in 0..MaxTrades}
    BY DEF Fills, BoundedSeq, SeqOf
  <1>2. PICK k \in 0..MaxTrades : fills \in [1..k -> S]
    BY <1>1
  <1> HIDE DEF S
  <1>3. k \in Nat
    BY GatewayAssumption
  <1>4. fills \in Seq(S) /\ Len(fills) \in Nat
    BY <1>2, <1>3
  <1> QED
    BY <1>4 DEF S

LEMMA NewKeeps ==
  ASSUME GatewayInv, NewOrderSingle
  PROVE  GatewayInv'
  <1> DEFINE m == Head(inbox)
             n == InternedId(ids, m.wire)
             o == [contract |-> m.contract, qty |-> m.qty, cum |-> 0,
                   state |-> "New", name |-> m.wire]
  <1>1. m.wire \in Wire /\ AllWired(inbox') /\ ids' = Used(m)
    BY ReadsTyped DEF NewOrderSingle
  <1>2. CASE MayCreate(m)
    <2>1. PICK fills \in Fills(m.qty) :
            /\ orders' = [orders EXCEPT ![n] = Matched(o, m.type, fills)]
            /\ out' = out \o FillReports(n, o, fills) \o
                 IF fills = <<>> \/ Matched(o, m.type, fills).state = "Cancelled"
                 THEN <<Report(n, 0, Matched(o, m.type, fills), 0,
                               [wire |-> m.wire, orig |-> NoWire])>>
                 ELSE <<>>
            /\ accepted' = [accepted EXCEPT ![m.wire] = @ + 1]
      BY <1>2 DEF NewOrderSingle
    <2>2. IsFresh(ids, m.wire)
      BY <1>2 DEF MayCreate
    <2>3. /\ ids' \in WireIdMap /\ Inverses(ids') /\ Extends(ids, ids')
          /\ n \in InternalId /\ Knows(ids', n, m.wire)
      BY <1>1, <2>2, UsedKeeps
    <2>4. NamedBy(o, m.wire)
      BY DEF NamedBy
    <2> HIDE DEF m, n, o
    <2>5. OrdersNamed(ids', orders')
      BY <2>1, <2>3, <2>4, OrdersNamedStays, MatchedName, PutOrder DEF GatewayInv
    <2>6. AcceptedUsed(ids', accepted')
      BY <1>1, <2>1, <2>2, AcceptKeeps
    <2>7. AllNamed(ids', out')
      <3> DEFINE r == Report(n, 0, Matched(o, m.type, fills), 0,
                             [wire |-> m.wire, orig |-> NoWire])
      <3>1. AllNamed(ids', out)
        BY <2>3, AllNamedStays DEF GatewayInv
      <3>2. AllNamed(ids', FillReports(n, o, fills))
        BY <2>3, <2>4, TradesAreSeqs, FillReportsNamed DEF NamedBy
      <3>3. Named(ids', r)
        BY <2>3, ReportFields DEF Named
      <3>4. AllNamed(ids', <<r>>) /\ AllNamed(ids', <<>>)
        <4> HIDE DEF r
        <4>1. Append(<<>>, r) = <<r>>
          OBVIOUS
        <4> QED
          BY <3>3, <4>1, EmptyNamed, AppendNamed
      <3> HIDE DEF r
      <3>5. AllNamed(ids', out \o FillReports(n, o, fills))
        BY <3>1, <3>2, ConcatNamed
      <3> QED
        BY <2>1, <3>4, <3>5, ConcatNamed DEF r
    <2> QED
      BY <1>1, <2>3, <2>5, <2>6, <2>7 DEF GatewayInv
  <1>3. CASE ~MayCreate(m)
    <2>1. RejectedExec(m).kind # "exec"
      BY DEF RejectedExec
    <2> QED
      BY <1>1, <1>3, <2>1, RefusalKeeps DEF NewOrderSingle
  <1> QED
    BY <1>2, <1>3

\* The order a cancel or replace request may touch is one the map knows by the
\* name the request gives, and is not the request itself.
LEMMA OriginalKnown ==
  ASSUME GatewayInv, NEW m, m.wire \in Wire, m.orig \in Wire, MayCancel(m)
  PROVE  LET old == ids.to_internal[m.orig]
         IN  /\ old \in InternalId /\ orders[old] # None
             /\ Knows(ids, old, m.orig) /\ "name" \in DOMAIN orders[old]
             /\ Knows(ids, old, orders[old].name)
             /\ old # InternedId(ids, m.wire)
  <1> DEFINE old == ids.to_internal[m.orig]
             n == InternedId(ids, m.wire)
  <1>1. IsFresh(ids, m.wire) /\ orders[n] = None
    BY DEF MayCancel
  <1>2. /\ Intern(ids, m.wire) = Used(m) /\ n \in InternalId
        /\ Knows(Used(m), n, m.wire) /\ Used(m).to_internal[m.wire] # 0
        /\ Inverses(Used(m)) /\ ids.to_wire[n] = NoWire /\ NoWire \notin Wire
        /\ \A v \in Wire \ {m.wire} : Used(m).to_internal[v] = ids.to_internal[v]
    BY <1>1, UsedKeeps, WireAssumption
  <1>3. Original(Used(m), m) # None
    BY <1>2 DEF MayCancel
  <1>4. m.orig # m.wire
    <2> SUFFICES ASSUME m.orig = m.wire PROVE FALSE
      OBVIOUS
    <2>1. Used(m).to_internal[m.wire] = n
      BY <1>2 DEF Inverses, Knows
    <2> QED
      BY <1>1, <1>3, <2>1 DEF Original
  <1>5. old # 0 /\ orders[old] # None
    BY <1>2, <1>3, <1>4 DEF Original
  <1>6. old \in InternalId
    BY <1>5, WireAssumption DEF GatewayInv, WireIdMap, InternalId
  <1>7. Knows(ids, old, m.orig)
    BY <1>5, <1>6 DEF GatewayInv, Inverses, Knows
  <1>8. "name" \in DOMAIN orders[old] /\ Knows(ids, old, orders[old].name)
    BY <1>5, <1>6 DEF GatewayInv, OrdersNamed
  <1>9. old # n
    BY <1>2, <1>7 DEF Knows
  <1> QED
    BY <1>5, <1>6, <1>7, <1>8, <1>9

LEMMA CancelRejectKeeps ==
  ASSUME GatewayInv, NEW m, m.wire \in Wire, ids' = Used(m), AllWired(inbox'),
         RejectCancel(m)
  PROVE  GatewayInv'
  <1> DEFINE o == Original(Used(m), m)
             r == CancelReject(m, IF o = None THEN "Rejected" ELSE o.state)
  <1>1. out' = Append(out, r) /\ orders' = orders /\ accepted' = accepted
    BY DEF RejectCancel
  <1>2. r.kind # "exec"
    BY DEF CancelReject
  <1> HIDE DEF r
  <1> QED
    BY <1>1, <1>2, RefusalKeeps

LEMMA CancelKeeps ==
  ASSUME GatewayInv, CancelRequest
  PROVE  GatewayInv'
  <1> DEFINE m == Head(inbox)
             n == InternedId(ids, m.wire)
             old == ids.to_internal[m.orig]
             o == [orders[old] EXCEPT !.state = "Cancelled"]
             r == Report(n, old, o, 0, [wire |-> m.wire, orig |-> m.orig])
  <1>1. m.wire \in Wire /\ m.orig \in Wire /\ AllWired(inbox') /\ ids' = Used(m)
    BY ReadsTyped DEF CancelRequest
  <1>2. CASE MayCancel(m)
    <2>1. /\ orders' = [orders EXCEPT ![old] = o] /\ out' = Append(out, r)
          /\ accepted' = [accepted EXCEPT ![m.wire] = @ + 1]
      BY <1>2 DEF CancelRequest
    <2>2. IsFresh(ids, m.wire)
      BY <1>2 DEF MayCancel
    <2>3. /\ ids' \in WireIdMap /\ Inverses(ids') /\ Extends(ids, ids')
          /\ n \in InternalId /\ Knows(ids', n, m.wire)
      BY <1>1, <2>2, UsedKeeps
    <2>4. /\ old \in InternalId /\ Knows(ids', old, m.orig)
          /\ Knows(ids', old, orders[old].name) /\ NamedBy(orders[old], orders[old].name)
      BY <1>1, <1>2, <2>3, OriginalKnown DEF Extends, NamedBy, Knows
    <2>5. NamedBy(o, orders[old].name)
      BY <2>4, StateName
    <2> HIDE DEF m, n, old, o
    <2>6. Named(ids', r)
      <3>1. r.id = n /\ r.orig = old /\ r.names = [wire |-> m.wire, orig |-> m.orig]
        BY ReportFields
      <3> HIDE DEF r
      <3> QED
        BY <2>3, <2>4, <3>1 DEF Named
    <2> HIDE DEF r
    <2>7. OrdersNamed(ids', orders')
      BY <2>1, <2>3, <2>4, <2>5, OrdersNamedStays, PutOrder DEF GatewayInv
    <2>8. AcceptedUsed(ids', accepted')
      BY <1>1, <2>1, <2>2, AcceptKeeps
    <2>9. AllNamed(ids', out')
      BY <2>1, <2>3, <2>6, AllNamedStays, AppendNamed DEF GatewayInv
    <2> QED
      BY <1>1, <2>3, <2>7, <2>8, <2>9 DEF GatewayInv
  <1>3. CASE ~MayCancel(m)
    BY <1>1, <1>3, CancelRejectKeeps DEF CancelRequest
  <1> QED
    BY <1>2, <1>3

LEMMA ReplaceKeeps ==
  ASSUME GatewayInv, CancelReplace
  PROVE  GatewayInv'
  <1> DEFINE m == Head(inbox)
             n == InternedId(ids, m.wire)
             old == ids.to_internal[m.orig]
             o == Traded([orders[old] EXCEPT !.qty = m.qty, !.name = m.wire], 0)
             r == Report(n, old, o, 0, [wire |-> m.wire, orig |-> m.orig])
  <1>1. m.wire \in Wire /\ m.orig \in Wire /\ AllWired(inbox') /\ ids' = Used(m)
    BY ReadsTyped DEF CancelReplace
  <1>2. CASE MayReplace(m)
    <2>1. PICK fills \in Fills(o.qty - o.cum) :
            /\ orders' = [orders EXCEPT ![old] = None,
                              ![n] = IF o.state = "Filled" THEN o
                                     ELSE Matched(o, m.type, fills)]
            /\ out' = Append(out, r) \o FillReports(n, o, fills)
            /\ accepted' = [accepted EXCEPT ![m.wire] = @ + 1]
      BY <1>2 DEF CancelReplace
    <2>2. IsFresh(ids, m.wire) /\ MayCancel(m)
      BY <1>2 DEF MayCancel, MayReplace
    <2>3. /\ ids' \in WireIdMap /\ Inverses(ids') /\ Extends(ids, ids')
          /\ n \in InternalId /\ Knows(ids', n, m.wire)
      BY <1>1, <2>2, UsedKeeps
    <2>4. /\ old \in InternalId /\ Knows(ids', old, m.orig)
          /\ "name" \in DOMAIN orders[old]
      BY <1>1, <2>2, <2>3, OriginalKnown DEF Extends, Knows
    <2>5. NamedBy(o, m.wire)
      <3>1. NamedBy([orders[old] EXCEPT !.qty = m.qty, !.name = m.wire], m.wire)
        BY <2>4 DEF NamedBy
      <3> QED
        BY <3>1, TradedName
    <2> HIDE DEF m, n, old, o
    <2>6. Named(ids', r)
      <3>1. r.id = n /\ r.orig = old /\ r.names = [wire |-> m.wire, orig |-> m.orig]
        BY ReportFields
      <3> HIDE DEF r
      <3> QED
        BY <2>3, <2>4, <3>1 DEF Named
    <2> HIDE DEF r
    <2>7. OrdersNamed(ids', orders')
      <3> DEFINE new == IF o.state = "Filled" THEN o ELSE Matched(o, m.type, fills)
      <3>1. NamedBy(new, m.wire)
        BY <2>5, MatchedName
      <3>2. OrdersNamed(ids', [orders EXCEPT ![old] = None])
        BY <2>3, <2>4, OrdersNamedStays, DropOrder DEF GatewayInv
      <3>3. orders' = [[orders EXCEPT ![old] = None] EXCEPT ![n] = new]
        BY <2>1
      <3> HIDE DEF new
      <3> QED
        BY <2>3, <3>1, <3>2, <3>3, PutOrder
    <2>8. AcceptedUsed(ids', accepted')
      BY <1>1, <2>1, <2>2, AcceptKeeps
    <2>9. AllNamed(ids', out')
      <3>1. AllNamed(ids', Append(out, r))
        BY <2>3, <2>6, AllNamedStays, AppendNamed DEF GatewayInv
      <3>2. AllNamed(ids', FillReports(n, o, fills))
        BY <2>3, <2>5, TradesAreSeqs, FillReportsNamed DEF NamedBy
      <3> QED
        BY <2>1, <3>1, <3>2, ConcatNamed
    <2> QED
      BY <1>1, <2>3, <2>7, <2>8, <2>9 DEF GatewayInv
  <1>3. CASE ~MayReplace(m)
    BY <1>1, <1>3, CancelRejectKeeps DEF CancelReplace
  <1> QED
    BY <1>2, <1>3

-----------------------------------------------------------------------------
(* Steps that take no ClOrdID *)

LEMMA SameIds ==
  ASSUME GatewayInv, ids' = ids, accepted' = accepted, AllWired(inbox'),
         OrdersNamed(ids, orders'), AllNamed(ids, out')
  PROVE  GatewayInv'
  BY DEF GatewayInv

LEMMA OneNamed ==
  ASSUME NEW m, NEW r, Named(m, r)
  PROVE  AllNamed(m, <<r>>)
  <1>1. Append(<<>>, r) = <<r>>
    OBVIOUS
  <1> QED
    BY <1>1, EmptyNamed, AppendNamed

LEMMA QuoteFillNamed ==
  ASSUME NEW m, NEW n
  PROVE  Named(m, QuoteFill(n))
  BY DEF Named, QuoteFill

LEMMA RefuseKeeps ==
  ASSUME GatewayInv, RefuseRequest
  PROVE  GatewayInv'
  <1>1. /\ AllWired(inbox') /\ ids' = ids /\ accepted' = accepted /\ orders' = orders
        /\ out' = Append(out, SessionReject)
    BY ReadsTyped DEF RefuseRequest
  <1>2. Named(ids, SessionReject)
    BY DEF Named, SessionReject
  <1>3. AllNamed(ids, out')
    BY <1>1, <1>2, AppendNamed DEF GatewayInv
  <1> QED
    BY <1>1, <1>3, SameIds DEF GatewayInv

LEMMA QuoteKeeps ==
  ASSUME GatewayInv, MassQuote
  PROVE  GatewayInv'
  <1> DEFINE m == Head(inbox)
             ok == m.contract \in Listed /\ m.qty > 0
             ack == [kind |-> "ack", ok |-> ok]
             acks == IF m.level = 2 \/ (m.level = 1 /\ ~ok) THEN <<ack>> ELSE <<>>
  <1>1. AllWired(inbox') /\ ids' = ids /\ accepted' = accepted /\ orders' = orders
    BY ReadsTyped DEF MassQuote
  <1>2. PICK fill : out' = out \o (IF fill > 0 THEN <<QuoteFill(fill)>> ELSE <<>>) \o acks
    BY DEF MassQuote
  <1>3. Named(ids, ack)
    BY DEF Named
  <1> HIDE DEF ack
  <1>4. AllNamed(ids, acks)
    BY <1>3, OneNamed, EmptyNamed
  <1>5. AllNamed(ids, IF fill > 0 THEN <<QuoteFill(fill)>> ELSE <<>>)
    BY QuoteFillNamed, OneNamed, EmptyNamed
  <1> HIDE DEF acks
  <1>6. AllNamed(ids, out')
    BY <1>2, <1>4, <1>5, ConcatNamed DEF GatewayInv
  <1> QED
    BY <1>1, <1>6, SameIds DEF GatewayInv

LEMMA EndKeeps ==
  ASSUME GatewayInv, Logout
  PROVE  GatewayInv'
  <1>1. /\ AllWired(inbox') /\ ids' = ids /\ accepted' = accepted
        /\ orders' = [n \in InternalId |-> None] /\ out' = out \o <<LogoutMsg>>
    BY ReadsTyped DEF Logout, EndSession
  <1>2. Named(ids, LogoutMsg)
    BY DEF Named, LogoutMsg
  <1>3. AllNamed(ids, out')
    BY <1>1, <1>2, OneNamed, ConcatNamed DEF GatewayInv
  <1> QED
    BY <1>1, <1>3, NoOrders, SameIds

\* send_fill and expire_day_orders, for an order that is resting.
LEMMA EngineKeeps ==
  ASSUME GatewayInv, EngineStep
  PROVE  GatewayInv'
  <1>1. ASSUME NEW n \in InternalId, Fill(n)
        PROVE  GatewayInv'
    <2> DEFINE w == orders[n].name
    <2>1. NamedBy(orders[n], w) /\ Knows(ids, n, w)
      BY <1>1 DEF Fill, GatewayInv, OrdersNamed, NamedBy
    <2>2. /\ orders' = [orders EXCEPT ![n] = Traded(orders[n], 1)]
          /\ out' = out \o FillReports(n, orders[n], <<1>>)
          /\ ids' = ids /\ accepted' = accepted /\ AllWired(inbox')
      BY <1>1 DEF Fill, GatewayInv
    <2>3. OrdersNamed(ids, orders')
      BY <2>1, <2>2, TradedName, PutOrder DEF GatewayInv
    <2>4. AllNamed(ids, FillReports(n, orders[n], <<1>>))
      <3>1. Len(<<1>>) \in Nat
        OBVIOUS
      <3> QED
        BY <2>1, <3>1, FillReportsNamed
    <2>5. AllNamed(ids, out')
      BY <2>2, <2>4, ConcatNamed DEF GatewayInv
    <2> QED
      BY <2>2, <2>3, <2>5, SameIds
  <1>2. ASSUME NEW n \in InternalId, Expire(n)
        PROVE  GatewayInv'
    <2> DEFINE w == orders[n].name
               o == [orders[n] EXCEPT !.state = "Expired"]
               r == Report(n, 0, o, 0, [wire |-> o.name, orig |-> NoWire])
    <2>1. NamedBy(orders[n], w) /\ Knows(ids, n, w)
      BY <1>2 DEF Expire, GatewayInv, OrdersNamed, NamedBy
    <2>2. /\ orders' = [orders EXCEPT ![n] = o] /\ out' = Append(out, r)
          /\ ids' = ids /\ accepted' = accepted /\ AllWired(inbox')
      BY <1>2 DEF Expire, GatewayInv
    <2>3. NamedBy(o, w)
      BY <2>1, StateName
    <2> HIDE DEF o
    <2>4. Named(ids, r)
      BY <2>1, <2>3, ReportFields DEF Named, NamedBy
    <2> HIDE DEF r
    <2>5. OrdersNamed(ids, orders')
      BY <2>1, <2>2, <2>3, PutOrder DEF GatewayInv
    <2>6. AllNamed(ids, out')
      BY <2>2, <2>4, AppendNamed DEF GatewayInv
    <2> QED
      BY <2>2, <2>5, <2>6, SameIds
  <1>3. CASE FillQuote
    <2>1. /\ ids' = ids /\ accepted' = accepted /\ orders' = orders
          /\ AllWired(inbox') /\ out' = Append(out, QuoteFill(1))
      BY <1>3 DEF FillQuote, GatewayInv
    <2>2. AllNamed(ids, out')
      BY <2>1, QuoteFillNamed, AppendNamed DEF GatewayInv
    <2> QED
      BY <2>1, <2>2, SameIds DEF GatewayInv
  <1> QED
    BY <1>1, <1>2, <1>3 DEF EngineStep

-----------------------------------------------------------------------------
(* Any client *)

LEMMA StartsNamed ==
  ASSUME NEW phase, NEW first, GatewayInit(phase, first), AllWired(first)
  PROVE  GatewayInv
  <1>1. NoIds \in WireIdMap /\ Inverses(NoIds)
    BY WireAssumption DEF NoIds, WireIdMap, Inverses, InternalId
  <1>2. /\ ids = NoIds /\ orders = [n \in InternalId |-> None] /\ out = <<>>
        /\ inbox = first /\ accepted = [w \in Wire |-> 0]
    BY DEF GatewayInit
  <1>3. AcceptedUsed(ids, accepted)
    BY <1>2 DEF AcceptedUsed
  <1> QED
    BY <1>1, <1>2, <1>3, NoOrders, EmptyNamed DEF GatewayInv

LEMMA AnyStart ==
  ASSUME AnyInit
  PROVE  GatewayInv
  <1> DEFINE S == {}
  <1>1. <<>> \in Seq(S) /\ \A m \in S : Wired(m)
    OBVIOUS
  <1> HIDE DEF S
  <1>2. AllWired(<<>>)
    BY <1>1 DEF AllWired
  <1> QED
    BY <1>2, StartsNamed DEF AnyInit

LEMMA AnyStep ==
  ASSUME GatewayInv, [AnyNext]_<<gateway, sent>>
  PROVE  GatewayInv'
  <1>1. CASE Send
    <2>1. PICK m \in Request : inbox' = <<m>>
      BY <1>1 DEF Send
    <2>2. AllWired(inbox')
      <3>1. \A r \in Request : Wired(r)
        BY DEF Request, Wired
      <3> HIDE DEF Request
      <3> QED
        BY <2>1, <3>1 DEF AllWired
    <2> QED
      BY <1>1, <2>2, SameIds DEF Send, GatewayInv
  <1>2. CASE Write
    <2>1. AllNamed(ids, out')
      BY <1>2, TailNamed DEF Write, GatewayInv
    <2> QED
      BY <1>2, <2>1, SameIds DEF Write, GatewayInv
  <1>3. CASE EngineStep
    BY <1>3, EngineKeeps
  <1>4. CASE ReadRequest
    BY <1>4, RefuseKeeps, NewKeeps, CancelKeeps, ReplaceKeeps, QuoteKeeps, EndKeeps
       DEF ReadRequest
  <1>5. CASE UNCHANGED <<gateway, sent>>
    BY <1>5, SameIds DEF gateway, GatewayInv
  <1> QED
    BY <1>1, <1>2, <1>3, <1>4, <1>5 DEF AnyNext

\* For every client: each execution report still to be written gets the ClOrdID
\* of the request it answers, and the OrigClOrdID that request gave, whatever
\* fresh_id has taken in since the report was queued.
THEOREM ReportsAreNamed == AnySpec => []ReportsNamed
  <1>1. AnyInit => GatewayInv
    BY AnyStart
  <1>2. GatewayInv /\ [AnyNext]_<<gateway, sent>> => GatewayInv'
    BY AnyStep
  <1>3. GatewayInv => ReportsNamed
    <2> SUFFICES ASSUME GatewayInv PROVE ReportsNamed
      OBVIOUS
    <2>1. PICK S : out \in Seq(S) /\ \A r \in S : Named(ids, r)
      BY DEF GatewayInv, AllNamed
    <2>2. \A k \in DOMAIN out : Named(ids, out[k])
      BY <2>1
    <2>3. \A n \in InternalId :
              orders[n] # None => Knows(ids, n, orders[n].name) /\ ids.to_wire[n] # NoWire
      BY WireAssumption DEF GatewayInv, OrdersNamed, Knows
    <2>4. \A n \in InternalId : orders[n] # None => ids.to_internal[orders[n].name] = n
      BY <2>3 DEF GatewayInv, Inverses, Knows
    <2> QED
      BY <2>2, <2>4 DEF ReportsNamed, Named, Knows
  <1> QED
    BY <1>1, <1>2, <1>3, PTL DEF AnySpec

\* For every client: fresh_id lets a ClOrdID take effect at most once on a
\* connection, however often the client repeats it.
THEOREM AcceptedAtMostOnce == AnySpec => []AcceptedOnce
  <1>1. AnyInit => GatewayInv
    BY AnyStart
  <1>2. GatewayInv /\ [AnyNext]_<<gateway, sent>> => GatewayInv'
    BY AnyStep
  <1>3. GatewayInv => AcceptedOnce
    BY DEF GatewayInv, AcceptedUsed, AcceptedOnce
  <1> QED
    BY <1>1, <1>2, <1>3, PTL DEF AnySpec

-----------------------------------------------------------------------------
(* What is under way *)

\* A request that uses up a ClOrdID.  modify_order asks for limit orders only.
Asking ==
    [kind : {"new"}, wire : Wire, contract : Contract, type : OrderType,
     qty : Quantity]
    \cup [kind : {"cancel"}, wire : Wire, orig : Wire, contract : Contract]
    \cup [kind : {"replace"}, wire : Wire, orig : Wire, contract : Contract,
          type : {"Limit"}, qty : Quantity]

\* What else the client sends.
Plain ==
    [kind : {"quote"}, level : {0}, contract : Contract, qty : Nat]
    \cup {[kind |-> "logon"], LogoutMsg}

\* No report shows an order as New.
Shown == OrderState \ {"New"}

\* What the exchange may send to a client that used the ClOrdIDs up to n.
Reply(n) ==
    [kind : {"exec"}, id : Nat, orig : Nat, state : Shown, leaves : Nat, qty : Nat,
     last : Nat, names : [wire : 0..n, orig : 0..n]]
    \cup [kind : {"reject"}, wire : 1..n, qty : Nat]
    \cup [kind : {"cxlrej"}, wire : 1..n, orig : 1..n, state : Shown]
    \cup {SessionReject, [kind |-> "logon"], LogoutMsg}

LEMMA AskingFields ==
  ASSUME NEW m \in Asking
  PROVE  /\ m.kind \in {"new", "cancel", "replace"}
         /\ m.wire \in Wire /\ m.contract \in Contract
         /\ m.kind # "cancel" => "qty" \in DOMAIN m /\ m.qty \in Nat
         /\ m.kind = "new" => m.type \in OrderType
         /\ m.kind # "new" => m.orig \in Wire
         /\ m.kind = "replace" => m.type = "Limit"
  BY GatewayAssumption DEF Asking

LEMMA PlainFields ==
  ASSUME NEW m \in Plain
  PROVE  /\ m.kind \in {"quote", "logon", "logout"}
         /\ m.kind = "quote" => m.level = 0 /\ m.qty \in Nat
         /\ m.kind = "logout" => m = LogoutMsg
  BY DEF Plain, LogoutMsg

LEMMA ReplyFields ==
  ASSUME NEW n, NEW m \in Reply(n)
  PROVE  /\ m.kind \in {"exec", "reject", "cxlrej", "sessionreject", "logon", "logout"}
         /\ m.kind = "exec" =>
              /\ m.state \in Shown /\ m.leaves \in Nat /\ m.qty \in Nat /\ m.last \in Nat
              /\ m.names.wire \in 0..n /\ m.names.orig \in 0..n
         /\ m.kind = "reject" => m.wire \in 1..n /\ m.qty \in Nat
         /\ m.kind = "cxlrej" => m.wire \in 1..n /\ m.orig \in 1..n /\ m.state \in Shown
         /\ m.kind = "logout" => m = LogoutMsg
  BY DEF Reply, SessionReject, LogoutMsg

LEMMA MoreReplies ==
  ASSUME NEW n \in Nat
  PROVE  Reply(n) \subseteq Reply(n + 1)
  <1>1. 0..n \subseteq 0..(n + 1) /\ 1..n \subseteq 1..(n + 1)
    OBVIOUS
  <1>2. ASSUME NEW m \in Reply(n) PROVE m \in Reply(n + 1)
    BY <1>1, <1>2 DEF Reply
  <1> QED
    BY <1>2

-----------------------------------------------------------------------------
(* What a client learns from a reply *)

NameOf(m) == IF m.id = 0 THEN NoWire ELSE m.names.wire

OrigOf(m) == IF m.orig = 0 THEN NoWire ELSE m.names.orig

\* What the reader thread makes of a reply: the views, and what on_fill heard.
Applied(st, m) ==
    IF m.kind = "exec"
    THEN [views |-> Reported(st.views, m, NameOf(m), OrigOf(m)), seen |-> st.seen + m.last]
    ELSE IF m.kind = "reject"
    THEN [views |-> Updated(st.views, m.wire, "Rejected", 0, m.qty), seen |-> st.seen]
    ELSE IF m.kind = "cxlrej"
    THEN [views |-> CancelRejected(st.views, m), seen |-> st.seen]
    ELSE st

-----------------------------------------------------------------------------
(* The table of views *)

Table == [Wire -> View \cup {None}]

\* A view as a report tells it.
Shows(v, state, remaining, qty) ==
    v.state = state /\ v.remaining = remaining /\ v.qty = qty

LEMMA UpdatedTable ==
  ASSUME NEW t \in Table, NEW w \in Wire,
         NEW state \in OrderState, NEW remaining \in Nat, NEW qty \in Nat
  PROVE  LET r == Updated(t, w, state, remaining, qty)
         IN  /\ r \in Table
             /\ \A v \in Wire : v # w => r[v] = t[v]
             /\ r[w] = None <=> t[w] = None
             /\ r[w] # None => Shows(r[w], state, remaining, qty)
  <1> DEFINE r == Updated(t, w, state, remaining, qty)
             x == [t[w] EXCEPT !.state = state, !.remaining = remaining, !.qty = qty]
  <1>1. CASE t[w] = None
    BY <1>1 DEF Updated
  <1>2. CASE t[w] # None
    <2>1. t[w] \in View
      BY <1>2 DEF Table
    <2>2. x \in View /\ Shows(x, state, remaining, qty)
      BY <2>1 DEF View, Shows
    <2>3. r = [t EXCEPT ![w] = x]
      BY <1>2, <2>1 DEF Updated, Table
    <2>4. x # None
      BY <2>2, ViewAssumption
    <2> HIDE DEF x, r
    <2>5. r \in Table /\ r[w] = x /\ \A v \in Wire : v # w => r[v] = t[v]
      BY <2>2, <2>3 DEF Table
    <2> QED
      BY <1>2, <2>2, <2>4, <2>5 DEF r
  <1> QED
    BY <1>1, <1>2

LEMMA ReportedTable ==
  ASSUME NEW t \in Table, NEW n, NEW m \in Reply(n), m.kind = "exec",
         NEW w \in Wire, NEW orig \in Wire \cup {NoWire}
  PROVE  LET r == Reported(t, m, w, orig)
         IN  /\ r \in Table
             /\ \A v \in Wire : v # w /\ v # orig => r[v] = t[v]
             /\ orig \in Wire \ {w} => r[orig] = None
             /\ t[w] # None => r[w] # None
             /\ r[w] # None => Shows(r[w], m.state, m.leaves, m.qty)
  <1> DEFINE a == Adopted(t, w, orig)
             u == Updated(a, w, m.state, m.leaves, m.qty)
             r == Reported(t, m, w, orig)
  <1>1. /\ a \in Table /\ \A v \in Wire : v # w => a[v] = t[v]
        /\ t[w] # None => a[w] # None
    BY DEF Adopted, Table
  <1>2. m.state \in OrderState /\ m.leaves \in Nat /\ m.qty \in Nat
    BY ReplyFields DEF Shown
  <1>3. r = WithoutOriginal(u, w, orig)
    BY WireAssumption DEF Reported
  <1> HIDE DEF a
  <1>4. /\ u \in Table /\ \A v \in Wire : v # w => u[v] = a[v]
        /\ u[w] = None <=> a[w] = None
        /\ u[w] # None => Shows(u[w], m.state, m.leaves, m.qty)
    <2>1. a \in Table
      BY <1>1
    <2> HIDE DEF u
    <2>2. u = Updated(a, w, m.state, m.leaves, m.qty)
      BY DEF u
    <2>3. u \in Table
      BY <1>2, <2>1, <2>2, UpdatedTable
    <2>4. \A v \in Wire : v # w => u[v] = a[v]
      BY <2>1, <2>2 DEF Updated, Table
    <2>5. u[w] = None <=> a[w] = None
      BY <1>2, <2>1, <2>2, UpdatedTable
    <2>6. u[w] # None => Shows(u[w], m.state, m.leaves, m.qty)
      BY <1>2, <2>1, <2>2, UpdatedTable
    <2> QED
      BY <2>3, <2>4, <2>5, <2>6
  <1> HIDE DEF u, r
  <1>5. /\ r \in Table /\ \A v \in Wire : v # orig => r[v] = u[v]
        /\ r[w] = u[w] /\ (orig \in Wire \ {w} => r[orig] = None)
    BY <1>3, <1>4, WireAssumption DEF WithoutOriginal, Table
  <1> QED
    BY <1>1, <1>4, <1>5 DEF r

LEMMA CancelRejectedTable ==
  ASSUME NEW t \in Table, NEW m, m.wire \in Wire, m.orig \in Wire, m.state \in OrderState
  PROVE  LET r == CancelRejected(t, m)
         IN  /\ r \in Table
             /\ r[m.wire] = None
             /\ \A v \in Wire : v # m.wire /\ v # m.orig => r[v] = t[v]
             /\ m.orig # m.wire =>
                  /\ r[m.orig] = None <=> t[m.orig] = None
                  /\ r[m.orig] # None =>
                       Shows(r[m.orig], m.state, t[m.orig].remaining, t[m.orig].qty)
  <1> DEFINE u == Unreplaced(t, m.wire)
             x == [u[m.orig] EXCEPT !.state = m.state]
             r == CancelRejected(t, m)
  <1>1. u \in Table /\ u[m.wire] = None /\ \A v \in Wire : v # m.wire => u[v] = t[v]
    BY DEF Unreplaced, Table
  <1> HIDE DEF u
  <1>2. CASE u[m.orig] = None
    <2>1. r = u
      BY <1>2 DEF CancelRejected, u
    <2> QED
      BY <1>1, <1>2, <2>1
  <1>3. CASE u[m.orig] # None
    <2>1. u[m.orig] \in View /\ m.orig # m.wire
      BY <1>1, <1>3 DEF Table
    <2>2. /\ x \in View /\ Shows(x, m.state, t[m.orig].remaining, t[m.orig].qty)
      BY <1>1, <2>1 DEF View, Shows
    <2>3. r = [u EXCEPT ![m.orig] = x] /\ x # None
      BY <1>3, <2>2, ViewAssumption DEF CancelRejected, u
    <2> HIDE DEF x, r
    <2>4. r \in Table /\ r[m.orig] = x /\ \A v \in Wire : v # m.orig => r[v] = u[v]
      BY <1>1, <2>2, <2>3 DEF Table
    <2> QED
      BY <1>1, <1>3, <2>1, <2>2, <2>3, <2>4 DEF r
  <1> QED
    BY <1>2, <1>3

\* A new view next to what is being read: no reply is about its ClOrdID.
Put(t, w, v) == [t EXCEPT ![w] = v]

LEMMA ReportedPut ==
  ASSUME NEW t \in Table, NEW m, NEW w, NEW orig, NEW x \in Wire, NEW v, w # x, orig # x
  PROVE  Reported(Put(t, x, v), m, w, orig) = Put(Reported(t, m, w, orig), x, v)
  <1>1. CASE w = NoWire
    BY <1>1 DEF Reported
  <1>2. CASE w # NoWire
    <2> DEFINE a == Adopted(t, w, orig)
               u == Updated(a, w, m.state, m.leaves, m.qty)
    <2>1. Adopted(Put(t, x, v), w, orig) = Put(a, x, v) /\ DOMAIN a = Wire
      <3>1. DOMAIN t = Wire /\ Put(t, x, v)[w] = t[w] /\ Put(t, x, v)[orig] = t[orig]
        BY DEF Put, Table
      <3>2. CASE t[w] = None /\ orig # NoWire
        BY <3>1, <3>2 DEF Adopted, Put
      <3>3. CASE ~(t[w] = None /\ orig # NoWire)
        BY <3>1, <3>3 DEF Adopted
      <3> QED
        BY <3>2, <3>3
    <2> HIDE DEF a
    <2>2. /\ Updated(Put(a, x, v), w, m.state, m.leaves, m.qty) = Put(u, x, v)
          /\ DOMAIN u = Wire
      BY <2>1 DEF Updated, Put
    <2> HIDE DEF u
    <2>3. WithoutOriginal(Put(u, x, v), w, orig) = Put(WithoutOriginal(u, w, orig), x, v)
      BY <2>2 DEF WithoutOriginal, Put
    <2> QED
      BY <1>2, <2>1, <2>2, <2>3 DEF Reported, a, u
  <1> QED
    BY <1>1, <1>2

-----------------------------------------------------------------------------
(* What the client will have learnt *)

Known == [views : Table, seen : Nat]

LEMMA AppliedKnown ==
  ASSUME NEW st \in Known, NEW n \in 0..MaxOrderId, NEW m \in Reply(n)
  PROVE  Applied(st, m) \in Known
  <1>1. st.views \in Table /\ st.seen \in Nat
    BY DEF Known
  <1>2. CASE m.kind = "exec"
    <2> DEFINE w == NameOf(m)
               orig == OrigOf(m)
               r == Reported(st.views, m, w, orig)
    <2>1. /\ w \in Wire \cup {NoWire} /\ orig \in Wire \cup {NoWire} /\ m.last \in Nat
      BY <1>2, ReplyFields, ClientAssumption, WireAssumption DEF NameOf, OrigOf
    <2> HIDE DEF w, orig
    <2>2. r \in Table
      <3>1. CASE w = NoWire
        BY <1>1, <3>1 DEF Reported
      <3>2. CASE w # NoWire
        <4>1. w \in Wire
          BY <2>1, <3>2
        <4> QED
          BY <1>1, <1>2, <2>1, <4>1, ReportedTable, Zenon DEF r
      <3> QED
        BY <3>1, <3>2
    <2>3. Applied(st, m) = [views |-> r, seen |-> st.seen + m.last]
      BY <1>2 DEF Applied, w, orig
    <2> HIDE DEF r
    <2> QED
      BY <1>1, <2>1, <2>2, <2>3 DEF Known
  <1>3. CASE m.kind = "reject"
    <2> DEFINE r == Updated(st.views, m.wire, "Rejected", 0, m.qty)
    <2>1. m.wire \in Wire /\ m.qty \in Nat /\ "Rejected" \in OrderState /\ 0 \in Nat
      BY <1>3, ReplyFields, ClientAssumption, WireAssumption DEF OrderState
    <2>2. r \in Table
      BY <1>1, <2>1, UpdatedTable, Zenon DEF r
    <2>3. Applied(st, m) = [views |-> r, seen |-> st.seen]
      BY <1>3 DEF Applied
    <2> HIDE DEF r
    <2> QED
      BY <1>1, <2>2, <2>3 DEF Known
  <1>4. CASE m.kind = "cxlrej"
    <2> DEFINE r == CancelRejected(st.views, m)
    <2>1. m.wire \in Wire /\ m.orig \in Wire /\ m.state \in OrderState
      BY <1>4, ReplyFields, ClientAssumption, WireAssumption DEF Shown
    <2>2. r \in Table
      BY <1>1, <2>1, CancelRejectedTable, Zenon DEF r
    <2>3. Applied(st, m) = [views |-> r, seen |-> st.seen]
      BY <1>4 DEF Applied
    <2> HIDE DEF r
    <2> QED
      BY <1>1, <2>2, <2>3 DEF Known
  <1>5. CASE m.kind \notin {"exec", "reject", "cxlrej"}
    BY <1>5 DEF Applied
  <1> QED
    BY <1>2, <1>3, <1>4, <1>5

\* st beside a new view.
PutKnown(st, x, v) == [views |-> Put(st.views, x, v), seen |-> st.seen]

LEMMA AppliedPut ==
  ASSUME NEW st \in Known, NEW n \in 0..MaxOrderId, NEW m \in Reply(n),
         NEW x \in Wire, n < x, NEW v
  PROVE  Applied(PutKnown(st, x, v), m) = PutKnown(Applied(st, m), x, v)
  <1>1. st.views \in Table /\ n \in Nat /\ x \in Nat \ {0} /\ NoWire = 0
    BY ClientAssumption DEF Known
  <1>2. CASE m.kind = "exec"
    <2>1. NameOf(m) # x /\ OrigOf(m) # x
      BY <1>1, <1>2, ReplyFields DEF NameOf, OrigOf
    <2>2. Reported(Put(st.views, x, v), m, NameOf(m), OrigOf(m))
            = Put(Reported(st.views, m, NameOf(m), OrigOf(m)), x, v)
      BY <1>1, <2>1, ReportedPut
    <2> QED
      BY <1>2, <2>2 DEF Applied, PutKnown
  <1>3. CASE m.kind = "reject"
    <2>1. m.wire \in 1..n
      BY <1>3, ReplyFields
    <2>2. m.wire # x /\ m.wire \in Wire
      BY <1>1, <2>1, ClientAssumption, WireAssumption
    <2>3. Updated(Put(st.views, x, v), m.wire, "Rejected", 0, m.qty)
            = Put(Updated(st.views, m.wire, "Rejected", 0, m.qty), x, v)
      BY <1>1, <2>2 DEF Updated, Put, Table
    <2> QED
      BY <1>3, <2>3 DEF Applied, PutKnown
  <1>4. CASE m.kind = "cxlrej"
    <2> DEFINE u == Unreplaced(st.views, m.wire)
    <2>1. m.wire # x /\ m.wire \in Wire /\ m.orig # x /\ m.orig \in Wire
      <3>1. m.wire \in 1..n /\ m.orig \in 1..n
        BY <1>4, ReplyFields
      <3> QED
        BY <1>1, <3>1, ClientAssumption, WireAssumption
    <2>2. Unreplaced(Put(st.views, x, v), m.wire) = Put(u, x, v) /\ DOMAIN u = Wire
      BY <1>1, <2>1 DEF Unreplaced, Put, Table
    <2> HIDE DEF u
    <2>3. (IF Put(u, x, v)[m.orig] = None THEN Put(u, x, v)
           ELSE [Put(u, x, v) EXCEPT ![m.orig].state = m.state])
            = Put(IF u[m.orig] = None THEN u ELSE [u EXCEPT ![m.orig].state = m.state], x, v)
      BY <2>1, <2>2 DEF Put
    <2>4. CancelRejected(Put(st.views, x, v), m) = Put(CancelRejected(st.views, m), x, v)
      BY <2>2, <2>3 DEF CancelRejected, u
    <2> QED
      BY <1>4, <2>4 DEF Applied, PutKnown
  <1>5. CASE m.kind \notin {"exec", "reject", "cxlrej"}
    BY <1>5 DEF Applied, PutKnown
  <1> QED
    BY <1>2, <1>3, <1>4, <1>5

\* Having read s, a client that knew st knows u.
Leads(st, s, u) ==
    \E F \in [0..Len(s) -> Known] :
        /\ F[0] = st /\ F[Len(s)] = u
        /\ \A k \in 1..Len(s) : F[k] = Applied(F[k - 1], s[k])

LEMMA LeadsNowhere ==
  ASSUME NEW st, NEW u, Leads(st, <<>>, u)
  PROVE  u = st
  <1>1. Len(<<>>) = 0
    OBVIOUS
  <1> QED
    BY <1>1 DEF Leads

LEMMA LeadsHere ==
  ASSUME NEW st \in Known
  PROVE  Leads(st, <<>>, st)
  <1> DEFINE F == [k \in 0..0 |-> st]
  <1>1. /\ F \in [0..Len(<<>>) -> Known]
        /\ F[0] = st /\ F[Len(<<>>)] = st /\ 1..Len(<<>>) = {}
    OBVIOUS
  <1> HIDE DEF F
  <1> QED
    BY <1>1 DEF Leads

LEMMA LeadsToKnown ==
  ASSUME NEW S, NEW s \in Seq(S), NEW st, NEW u, Leads(st, s, u)
  PROVE  st \in Known /\ u \in Known
  <1>1. Len(s) \in 0..Len(s) /\ 0 \in 0..Len(s)
    OBVIOUS
  <1> QED
    BY <1>1 DEF Leads

LEMMA LeadsOn ==
  ASSUME NEW S, NEW s \in Seq(S), NEW m, NEW st, NEW u, Leads(st, s, u),
         Applied(u, m) \in Known
  PROVE  Leads(st, Append(s, m), Applied(u, m))
  <1> DEFINE n == Len(s)
             G(F) == [k \in 0..(n + 1) |-> IF k = n + 1 THEN Applied(u, m) ELSE F[k]]
  <1>1. PICK F \in [0..n -> Known] :
          F[0] = st /\ F[n] = u /\ \A k \in 1..n : F[k] = Applied(F[k - 1], s[k])
    BY DEF Leads
  <1>2. n \in Nat /\ Len(Append(s, m)) = n + 1
        /\ \A k \in 1..(n + 1) : Append(s, m)[k] = IF k = n + 1 THEN m ELSE s[k]
    OBVIOUS
  <1> HIDE DEF n
  <1>3. /\ G(F) \in [0..(n + 1) -> Known]
        /\ G(F)[0] = st /\ G(F)[n + 1] = Applied(u, m) /\ \A k \in 0..n : G(F)[k] = F[k]
    BY <1>1, <1>2
  <1> DEFINE H == G(F)
  <1> HIDE DEF H, G
  <1>4. ASSUME NEW k \in 1..(n + 1)
        PROVE  H[k] = Applied(H[k - 1], Append(s, m)[k])
    <2>1. CASE k = n + 1
      <3>1. k - 1 = n /\ n \in 0..n
        BY <1>2, <2>1
      <3> QED
        BY <1>1, <1>2, <1>3, <2>1, <3>1 DEF H
    <2>2. CASE k # n + 1
      <3>1. k \in 1..n /\ k \in 0..n /\ k - 1 \in 0..n
        BY <1>2, <2>2
      <3> QED
        BY <1>1, <1>2, <1>3, <2>2, <3>1 DEF H
    <2> QED
      BY <2>1, <2>2
  <1> QED
    BY <1>2, <1>3, <1>4 DEF Leads, H

LEMMA LeadsFrom ==
  ASSUME NEW S, NEW s \in Seq(S), s # <<>>, NEW st, NEW u, Leads(st, s, u)
  PROVE  Leads(Applied(st, Head(s)), Tail(s), u)
  <1> DEFINE n == Len(s)
             G(F) == [k \in 0..(n - 1) |-> F[k + 1]]
  <1>1. PICK F \in [0..n -> Known] :
          F[0] = st /\ F[n] = u /\ \A k \in 1..n : F[k] = Applied(F[k - 1], s[k])
    BY DEF Leads
  <1>2. n \in Nat \ {0} /\ Len(Tail(s)) = n - 1 /\ Head(s) = s[1]
        /\ \A k \in 1..(n - 1) : Tail(s)[k] = s[k + 1]
    OBVIOUS
  <1> HIDE DEF n
  <1>3. F[1] = Applied(F[0], s[1])
    <2>1. 1 \in 1..n /\ 1 - 1 = 0
      BY <1>2
    <2> QED
      BY <1>1, <2>1
  <1>4. G(F) \in [0..(n - 1) -> Known] /\ \A k \in 0..(n - 1) : G(F)[k] = F[k + 1]
    BY <1>2
  <1> DEFINE H == G(F)
  <1> HIDE DEF H, G
  <1>5. H[0] = Applied(st, Head(s)) /\ H[n - 1] = u
    BY <1>1, <1>2, <1>3, <1>4 DEF H
  <1>6. ASSUME NEW k \in 1..(n - 1)
        PROVE  H[k] = Applied(H[k - 1], Tail(s)[k])
    <2>1. /\ k + 1 \in 1..n /\ (k + 1) - 1 = k /\ k \in 0..(n - 1)
          /\ k - 1 \in 0..(n - 1) /\ (k - 1) + 1 = k
      BY <1>2
    <2> QED
      BY <1>1, <1>2, <1>4, <2>1 DEF H
  <1> QED
    BY <1>2, <1>4, <1>5, <1>6 DEF Leads, H

LEMMA LeadsThrough ==
  ASSUME NEW S, NEW s \in Seq(S), NEW T, NEW r \in Seq(T),
         NEW st, NEW u, Leads(st, s, u), NEW v, Leads(u, r, v)
  PROVE  Leads(st, s \o r, v)
  <1> DEFINE n == Len(s)
             l == Len(r)
             J(F, G) == [k \in 0..(n + l) |-> IF k <= n THEN F[k] ELSE G[k - n]]
  <1>1. PICK F \in [0..n -> Known] :
          F[0] = st /\ F[n] = u /\ \A k \in 1..n : F[k] = Applied(F[k - 1], s[k])
    BY DEF Leads
  <1>2. PICK G \in [0..l -> Known] :
          G[0] = u /\ G[l] = v /\ \A k \in 1..l : G[k] = Applied(G[k - 1], r[k])
    BY DEF Leads
  <1>3. n \in Nat /\ l \in Nat /\ Len(s \o r) = n + l
        /\ \A k \in 1..(n + l) : (s \o r)[k] = IF k <= n THEN s[k] ELSE r[k - n]
    OBVIOUS
  <1> HIDE DEF n, l
  <1>4. /\ J(F, G) \in [0..(n + l) -> Known]
        /\ \A k \in 0..n : J(F, G)[k] = F[k]
        /\ \A k \in 0..l : J(F, G)[n + k] = G[k]
    <2>1. ASSUME NEW k \in 0..(n + l)
          PROVE  (IF k <= n THEN F[k] ELSE G[k - n]) \in Known
      <3>1. CASE k <= n
        <4>1. k \in 0..n
          BY <1>3, <3>1
        <4> QED
          BY <1>1, <3>1, <4>1
      <3>2. CASE ~(k <= n)
        <4>1. k - n \in 0..l
          BY <1>3, <3>2
        <4> QED
          BY <1>2, <3>2, <4>1
      <3> QED
        BY <3>1, <3>2
    <2>2. ASSUME NEW k \in 0..l
          PROVE  J(F, G)[n + k] = G[k]
      <3>1. n + k \in 0..(n + l) /\ (n + k) - n = k /\ (n + k <= n <=> k = 0)
        BY <1>3
      <3>2. F[n] = G[0] /\ (k = 0 => n + k = n)
        BY <1>1, <1>2, <1>3
      <3> QED
        BY <3>1, <3>2
    <2>3. J(F, G) \in [0..(n + l) -> Known]
      BY <2>1
    <2>4. \A k \in 0..n : J(F, G)[k] = F[k]
      BY <1>3
    <2> QED
      BY <2>2, <2>3, <2>4
  <1> DEFINE H == J(F, G)
  <1> HIDE DEF H, J
  <1>5. H[0] = st /\ H[n + l] = v
    BY <1>1, <1>2, <1>3, <1>4 DEF H
  <1>6. ASSUME NEW k \in 1..(n + l)
        PROVE  H[k] = Applied(H[k - 1], (s \o r)[k])
    <2>1. CASE k <= n
      <3>1. k \in 1..n /\ k \in 0..n /\ k - 1 \in 0..n
        BY <1>3, <2>1
      <3> QED
        BY <1>1, <1>3, <1>4, <2>1, <3>1 DEF H
    <2>2. CASE ~(k <= n)
      <3> DEFINE i == k - n
      <3>1. i \in 1..l /\ i \in 0..l /\ i - 1 \in 0..l /\ n + i = k /\ n + (i - 1) = k - 1
        BY <1>3, <2>2
      <3>2. (s \o r)[k] = r[i]
        BY <1>3, <2>2
      <3> HIDE DEF i
      <3>3. H[k] = G[i] /\ H[k - 1] = G[i - 1]
        BY <1>4, <3>1 DEF H
      <3> QED
        BY <1>2, <3>1, <3>2, <3>3
    <2> QED
      BY <2>1, <2>2
  <1> QED
    BY <1>3, <1>4, <1>5, <1>6 DEF Leads, H

LEMMA LeadsBeside ==
  ASSUME NEW n \in 0..MaxOrderId, NEW s \in Seq(Reply(n)), NEW st, NEW u, Leads(st, s, u),
         NEW x \in Wire, n < x, NEW v \in View
  PROVE  Leads(PutKnown(st, x, v), s, PutKnown(u, x, v))
  <1> DEFINE l == Len(s)
             G(F) == [k \in 0..l |-> PutKnown(F[k], x, v)]
  <1>1. PICK F \in [0..l -> Known] :
          F[0] = st /\ F[l] = u /\ \A k \in 1..l : F[k] = Applied(F[k - 1], s[k])
    BY DEF Leads
  <1>2. l \in Nat /\ \A k \in 1..l : s[k] \in Reply(n)
    OBVIOUS
  <1>3. \A t \in Known : PutKnown(t, x, v) \in Known
    BY DEF PutKnown, Known, Put, Table
  <1> HIDE DEF l
  <1>4. G(F) \in [0..l -> Known] /\ \A k \in 0..l : G(F)[k] = PutKnown(F[k], x, v)
    BY <1>3
  <1> DEFINE H == G(F)
  <1> HIDE DEF H, G
  <1>5. H[0] = PutKnown(st, x, v) /\ H[l] = PutKnown(u, x, v)
    BY <1>1, <1>2, <1>4 DEF H
  <1>6. ASSUME NEW k \in 1..l
        PROVE  H[k] = Applied(H[k - 1], s[k])
    <2>1. k \in 0..l /\ k - 1 \in 0..l
      BY <1>2
    <2>2. Applied(PutKnown(F[k - 1], x, v), s[k]) = PutKnown(Applied(F[k - 1], s[k]), x, v)
      BY <1>1, <1>2, <2>1, AppliedPut
    <2> QED
      BY <1>1, <1>4, <2>1, <2>2 DEF H
  <1> QED
    BY <1>4, <1>5, <1>6 DEF Leads, H, l

-----------------------------------------------------------------------------
(* Types, and the numbers of the requests *)

Calling ==
    {Idle}
    \cup [step : {"register"}, orig : Wire, contract : Contract,
          request : [kind : {"cancel"}] \cup [kind : {"replace"}, qty : Quantity]]
    \cup [step : {"send"}, msg : Asking]

\* An order in the books has something open.
Sound(o) == o \in Order /\ o.cum <= o.qty /\ (IsActive(o.state) => o.cum < o.qty)

ClientType ==
    /\ next_order \in Nat /\ quoted \in Nat /\ next_order + quoted <= MaxRequests
    /\ call \in [Thread -> Calling]
    /\ inbox \in Seq(Asking \cup Plain)
    /\ out \in Seq(Reply(next_order))
    /\ views \in Table
    /\ \A n \in InternalId : orders[n] # None => Sound(orders[n])
    /\ quote \in Nat /\ executed \in Nat /\ seen \in Nat

\* A client that used the ClOrdIDs up to n made the request, and an exchange with
\* the map known has not seen it.
Unseen(m, n, known) ==
    /\ m.wire <= n /\ known[m.wire] = 0
    /\ m.kind # "new" => m.orig < m.wire

\* The client counts its ClOrdIDs, and the exchange keeps them as order ids.
Numbers ==
    /\ \A w \in Wire : views[w] # None => w <= next_order
    /\ \A w \in Wire : ids.to_internal[w] # 0 => ids.to_internal[w] = w /\ w <= next_order
    /\ \A t \in Thread : call[t].step = "register" => call[t].orig <= next_order
    /\ \A t \in Thread : call[t].step = "send" => Unseen(call[t].msg, next_order, ids.to_internal)
    /\ \A k \in DOMAIN inbox : inbox[k] \in Asking => Unseen(inbox[k], next_order, ids.to_internal)

\* No two requests under way have the same ClOrdID.
Distinct ==
    /\ \A t, u \in Thread :
         call[t].step = "send" /\ call[u].step = "send"
         /\ call[t].msg.wire = call[u].msg.wire => t = u
    /\ \A t \in Thread, k \in DOMAIN inbox :
         call[t].step = "send" /\ inbox[k] \in Asking => inbox[k].wire # call[t].msg.wire
    /\ \A j, k \in DOMAIN inbox :
         inbox[j] \in Asking /\ inbox[k] \in Asking /\ inbox[j].wire = inbox[k].wire => j = k

Base == GatewayInv /\ ClientType /\ Numbers /\ Distinct

LEMMA WireIsNumber == Wire = InternalId /\ Wire \subseteq Nat \ {0} /\ NoWire = 0
  BY ClientAssumption, WireAssumption DEF InternalId

\* Sequences, place by place.
LEMMA TailAt ==
  ASSUME NEW S, NEW s \in Seq(S), s # <<>>
  PROVE  /\ Tail(s) \in Seq(S) /\ Head(s) = s[1] /\ Head(s) \in S
         /\ 1 \in DOMAIN s
         /\ \A k \in DOMAIN Tail(s) :
              k \in Nat /\ k # 0 /\ k + 1 \in DOMAIN s /\ Tail(s)[k] = s[k + 1]
  OBVIOUS

LEMMA AppendAt ==
  ASSUME NEW S, NEW s \in Seq(S), NEW m \in S
  PROVE  /\ Append(s, m) \in Seq(S)
         /\ \A k \in DOMAIN Append(s, m) :
              \/ k \in DOMAIN s /\ Append(s, m)[k] = s[k]
              \/ k = Len(s) + 1 /\ Append(s, m)[k] = m
         /\ \A k \in DOMAIN s : k \in DOMAIN Append(s, m) /\ Append(s, m)[k] = s[k]
         /\ Len(s) + 1 \in DOMAIN Append(s, m) /\ Append(s, m)[Len(s) + 1] = m
  OBVIOUS

\* A call in its last step has a request, before that an order in mind.
LEMMA CallFields ==
  ASSUME ClientType, NEW t \in Thread
  PROVE  /\ call[t].step \in {"idle", "register", "send"}
         /\ call[t].step = "send" => call[t].msg \in Asking
         /\ call[t].step = "register" =>
              /\ call[t].orig \in Wire /\ call[t].contract \in Contract
              /\ call[t].request.kind = "replace" => call[t].request.qty \in Quantity
         /\ call[t] = Idle <=> call[t].step = "idle"
  <1>1. call[t] \in Calling
    BY DEF ClientType
  <1>2. CASE call[t] = Idle
    BY <1>2 DEF Idle
  <1>3. CASE call[t] \in [step : {"register"}, orig : Wire, contract : Contract,
          request : [kind : {"cancel"}] \cup [kind : {"replace"}, qty : Quantity]]
    BY <1>3 DEF Idle
  <1>4. CASE call[t] \in [step : {"send"}, msg : Asking]
    BY <1>4 DEF Idle
  <1> QED
    BY <1>1, <1>2, <1>3, <1>4 DEF Calling

LEMMA PlainIsNotAsking ==
  ASSUME NEW m \in Plain
  PROVE  m \notin Asking /\ Wired(m)
  BY AskingFields, PlainFields DEF Wired

-----------------------------------------------------------------------------
(* Steps that leave the requests as they are *)

\* The sockets, the signals, quotes and the reader thread.
LEMMA BesideRequests ==
  ASSUME Base, UNCHANGED <<ids, orders, quote, accepted, executed, call, next_order>>,
         quoted' \in Nat, next_order + quoted' <= MaxRequests, seen' \in Nat,
         inbox' = inbox \/ \E m \in Plain : inbox' = Append(inbox, m),
         out' = out \/ (out # <<>> /\ out' = Tail(out)),
         views' \in Table, \A w \in Wire : views'[w] # None => w <= next_order
  PROVE  Base'
  <1>1. /\ next_order \in Nat /\ inbox \in Seq(Asking \cup Plain)
        /\ out \in Seq(Reply(next_order))
    BY DEF Base, ClientType
  <1>2. /\ inbox' \in Seq(Asking \cup Plain) /\ AllWired(inbox')
        /\ \A k \in DOMAIN inbox' :
              inbox'[k] \in Asking => k \in DOMAIN inbox /\ inbox'[k] = inbox[k]
    <2>1. CASE inbox' = inbox
      BY <1>1, <2>1 DEF Base, GatewayInv
    <2>2. CASE \E m \in Plain : inbox' = Append(inbox, m)
      <3>1. PICK m \in Plain : inbox' = Append(inbox, m)
        BY <2>2
      <3>2. m \notin Asking /\ Wired(m)
        BY PlainIsNotAsking
      <3>3. PICK S : inbox \in Seq(S) /\ \A r \in S : Wired(r)
        BY DEF Base, GatewayInv, AllWired
      <3>4. inbox' \in Seq(S \cup {m}) /\ \A r \in S \cup {m} : Wired(r)
        BY <3>1, <3>2, <3>3
      <3>5. AllWired(inbox')
        BY <3>4 DEF AllWired
      <3>6. m \in Asking \cup Plain
        OBVIOUS
      <3> QED
        BY <1>1, <3>1, <3>2, <3>5, <3>6, AppendAt
    <2> QED
      BY <2>1, <2>2
  <1>3. out' \in Seq(Reply(next_order)) /\ AllNamed(ids, out')
    <2>1. CASE out' = out
      BY <1>1, <2>1 DEF Base, GatewayInv
    <2>2. CASE out # <<>> /\ out' = Tail(out)
      BY <1>1, <2>2, TailAt, TailNamed DEF Base, GatewayInv
    <2> QED
      BY <2>1, <2>2
  <1>4. GatewayInv'
    BY <1>2, <1>3, SameIds DEF Base, GatewayInv
  <1>5. ClientType'
    BY <1>2, <1>3 DEF Base, ClientType
  <1>6. Numbers'
    <2>1. \A m : Unseen(m, next_order', ids'.to_internal) <=> Unseen(m, next_order, ids.to_internal)
      BY DEF Unseen
    <2> QED
      BY <1>2, <2>1 DEF Base, Numbers
  <1>7. Distinct'
    BY <1>2 DEF Base, Distinct
  <1> QED
    BY <1>4, <1>5, <1>6, <1>7 DEF Base

-----------------------------------------------------------------------------
(* Calls of the application *)

\* The next ClOrdID is good, and new to everyone.
LEMMA NextIsNew ==
  ASSUME Base, Room
  PROVE  /\ next_order + 1 \in Wire /\ next_order \in Nat
         /\ ids.to_internal[next_order + 1] = 0
  <1>1. /\ next_order \in Nat /\ quoted \in Nat /\ MaxRequests \in 0..MaxOrderId
        /\ Wire = 1..MaxOrderId /\ MaxOrderId \in Nat
    BY ClientAssumption, WireAssumption DEF Base, ClientType
  <1>2. next_order + 1 \in Wire
    BY <1>1 DEF Room
  <1> QED
    BY <1>1, <1>2 DEF Base, Numbers

\* A request takes the next ClOrdID, and a view if it is to have one.
LEMMA RequestKeeps ==
  ASSUME Base, Room, NEW t \in Thread, NEW m \in Asking,
         m.wire = next_order + 1, m.kind # "new" => m.orig <= next_order,
         next_order' = next_order + 1,
         call' = [call EXCEPT ![t] = [step |-> "send", msg |-> m]],
         views' = views \/ \E v \in View : views' = [views EXCEPT ![m.wire] = v],
         UNCHANGED <<ids, orders, quote, accepted, executed, inbox, out, seen, quoted>>
  PROVE  Base'
  <1> DEFINE w == next_order + 1
             c == [step |-> "send", msg |-> m]
  <1>1. w \in Wire /\ next_order \in Nat /\ ids.to_internal[w] = 0
    BY NextIsNew
  <1>2. GatewayInv'
    BY SameIds DEF Base, GatewayInv
  <1>3. /\ call \in [Thread -> Calling] /\ c \in Calling
        /\ call'[t] = c /\ \A u \in Thread : u # t => call'[u] = call[u]
        /\ call' \in [Thread -> Calling]
    BY DEF Base, ClientType, Calling
  <1>4. views' \in Table /\ \A v \in Wire : views'[v] # None => v <= w
    <2>1. views \in Table /\ \A v \in Wire : views[v] # None => v <= next_order
      BY DEF Base, ClientType, Numbers
    <2>2. views' \in Table /\ \A v \in Wire : v # w => views'[v] = views[v]
      BY <2>1 DEF Table
    <2>3. \A v \in Wire : v <= next_order => v <= w
      BY <1>1, WireIsNumber
    <2> QED
      BY <1>1, <2>1, <2>2, <2>3, WireIsNumber
  <1>5. ClientType'
    <2>1. out' \in Seq(Reply(w))
      <3> HIDE DEF w
      <3>1. Reply(next_order) \subseteq Reply(w)
        BY <1>1, MoreReplies DEF w
      <3>2. out \in Seq(Reply(next_order)) /\ out' = out
        BY DEF Base, ClientType
      <3> QED
        BY <3>1, <3>2
    <2>2. next_order' \in Nat /\ quoted' \in Nat /\ next_order' + quoted' <= MaxRequests
      BY <1>1, ClientAssumption DEF Base, ClientType, Room
    <2> HIDE DEF w
    <2> QED
      BY <1>3, <1>4, <2>1, <2>2 DEF Base, ClientType, w
  <1>6. next_order' = w /\ ids'.to_internal = ids.to_internal
    OBVIOUS
  <1> HIDE DEF w
  <1>7. w = next_order + 1
    BY DEF w
  <1>8. \A r \in Asking : Unseen(r, next_order, ids.to_internal) =>
          Unseen(r, w, ids.to_internal) /\ r.wire # w
    <2> TAKE r \in Asking
    <2>1. r.wire \in Nat
      BY AskingFields, WireIsNumber
    <2>2. r.wire <= next_order => r.wire <= w /\ r.wire # w
      BY <1>1, <1>7, <2>1
    <2> QED
      BY <2>2 DEF Unseen
  <1>9. /\ \A u \in Thread : call[u].step = "send" =>
              call[u].msg \in Asking /\ Unseen(call[u].msg, next_order, ids.to_internal)
        /\ \A k \in DOMAIN inbox :
              inbox[k] \in Asking => Unseen(inbox[k], next_order, ids.to_internal)
    BY CallFields DEF Base, Numbers
  <1>10. Unseen(m, w, ids.to_internal)
    <2>1. m.wire = w /\ w <= w
      BY <1>1, <1>7
    <2>2. m.kind # "new" => m.orig \in Nat
      BY AskingFields, WireIsNumber
    <2>3. m.kind # "new" => m.orig < w
      BY <1>1, <1>7, <2>2
    <2> QED
      BY <1>1, <2>1, <2>3 DEF Unseen
  <1>11. Numbers'
    <2>1. \A u \in Thread : call'[u].step = "register" => call'[u].orig <= w
      <3> TAKE u \in Thread
      <3>1. CASE u = t
        BY <1>3, <3>1
      <3>2. CASE u # t
        <4>1. call'[u] = call[u]
          BY <1>3, <3>2
        <4>2. call[u].step = "register" => call[u].orig \in Nat /\ call[u].orig <= next_order
          BY CallFields, WireIsNumber DEF Base, Numbers
        <4> QED
          BY <1>1, <1>7, <4>1, <4>2
      <3> QED
        BY <3>1, <3>2
    <2>2. \A v \in Wire : ids.to_internal[v] # 0 => ids.to_internal[v] = v /\ v <= w
      <3>1. \A v \in Wire : v \in Nat /\ (v <= next_order => v <= w)
        BY <1>1, <1>7, WireIsNumber
      <3> QED
        BY <3>1 DEF Base, Numbers
    <2>3. \A u \in Thread : call'[u].step = "send" => Unseen(call'[u].msg, w, ids.to_internal)
      BY <1>3, <1>8, <1>9, <1>10
    <2>4. \A k \in DOMAIN inbox : inbox[k] \in Asking => Unseen(inbox[k], w, ids.to_internal)
      BY <1>8, <1>9
    <2> QED
      BY <1>4, <1>6, <2>1, <2>2, <2>3, <2>4 DEF Numbers
  <1>12. Distinct'
    <2>1. \A u \in Thread : u # t /\ call[u].step = "send" => call[u].msg.wire # w
      BY <1>8, <1>9
    <2>2. \A k \in DOMAIN inbox : inbox[k] \in Asking => inbox[k].wire # w
      BY <1>8, <1>9
    <2> QED
      BY <1>3, <1>7, <2>1, <2>2 DEF Base, Distinct
  <1> QED
    BY <1>2, <1>5, <1>11, <1>12 DEF Base

LEMMA CreateKeeps ==
  ASSUME Base, NEW t \in Thread, NEW c \in Contract, NEW type \in OrderType,
         NEW qty \in Quantity, CreateOrder(t, c, type, qty)
  PROVE  Base'
  <1> DEFINE m == [kind |-> "new", wire |-> next_order + 1, contract |-> c,
                   type |-> type, qty |-> qty]
  <1>1. Room /\ next_order + 1 \in Wire
    BY NextIsNew DEF CreateOrder, MayCall
  <1>2. m \in Asking /\ m.wire = next_order + 1 /\ m.kind = "new"
    BY <1>1 DEF Asking
  <1>3. NewView(c, qty) \in View
    BY GatewayAssumption DEF NewView, View, OrderState
  <1>4. /\ next_order' = next_order + 1
        /\ call' = [call EXCEPT ![t] = [step |-> "send", msg |-> m]]
        /\ views' = [views EXCEPT ![m.wire] = NewView(c, qty)]
        /\ UNCHANGED <<ids, orders, quote, accepted, executed, inbox, out, seen, quoted>>
    BY DEF CreateOrder, gateway
  <1> HIDE DEF m
  <1> QED
    BY <1>1, <1>2, <1>3, <1>4, RequestKeeps

LEMMA LookUpKeeps ==
  ASSUME Base, NEW t \in Thread, NEW w \in Wire,
         NEW r \in [kind : {"cancel"}] \cup [kind : {"replace"}, qty : Quantity],
         LookUp(t, w, r)
  PROVE  Base'
  <1> DEFINE c == [step |-> "register", orig |-> w, contract |-> views[w].contract,
                   request |-> r]
  <1>1. /\ views[w] # None /\ call' = [call EXCEPT ![t] = c]
        /\ UNCHANGED <<ids, orders, quote, accepted, executed, inbox, out, seen, quoted>>
        /\ UNCHANGED <<next_order, views>>
    BY DEF LookUp, gateway
  <1>2. views[w] \in View /\ w <= next_order
    BY <1>1 DEF Base, ClientType, Numbers, Table
  <1>3. c \in Calling
    BY <1>2 DEF Calling, View
  <1>4. c.step = "register" /\ c.orig = w
    OBVIOUS
  <1> HIDE DEF c
  <1>5. /\ call'[t] = c /\ \A u \in Thread : u # t => call'[u] = call[u]
        /\ call' \in [Thread -> Calling]
    BY <1>1, <1>3 DEF Base, ClientType
  <1>6. GatewayInv'
    BY <1>1, SameIds DEF Base, GatewayInv
  <1>7. ClientType'
    BY <1>1, <1>5 DEF Base, ClientType
  <1>8. Numbers'
    <2>1. \A m : Unseen(m, next_order', ids'.to_internal) <=> Unseen(m, next_order, ids.to_internal)
      BY <1>1 DEF Unseen
    <2> QED
      BY <1>1, <1>2, <1>4, <1>5, <2>1 DEF Base, Numbers
  <1>9. Distinct'
    BY <1>1, <1>4, <1>5 DEF Base, Distinct
  <1> QED
    BY <1>6, <1>7, <1>8, <1>9 DEF Base

LEMMA RegisterKeeps ==
  ASSUME Base, NEW t \in Thread, Register(t)
  PROVE  Base'
  <1> DEFINE r == call[t]
             w == next_order + 1
  <1>1. /\ r.step = "register" /\ Room /\ w \in Wire
        /\ r.orig \in Wire /\ r.contract \in Contract /\ r.orig <= next_order
    BY NextIsNew, CallFields DEF Register, Base, Numbers
  <1>2. CASE r.request.kind = "replace"
    <2> DEFINE m == [kind |-> "replace", wire |-> w, orig |-> r.orig,
                     contract |-> r.contract, type |-> "Limit", qty |-> r.request.qty]
               v == NewView(r.contract, r.request.qty)
    <2>1. r.request.qty \in Quantity /\ r.request.kind # "cancel"
      BY <1>1, <1>2, CallFields DEF Base
    <2>2. m \in Asking /\ m.wire = w /\ m.orig <= next_order
      BY <1>1, <2>1 DEF Asking
    <2>3. v \in View
      BY <1>1, <2>1, GatewayAssumption DEF NewView, View, OrderState
    <2>4. /\ next_order' = w
          /\ call' = [call EXCEPT ![t] = [step |-> "send", msg |-> m]]
          /\ views' = [views EXCEPT ![w] = v]
          /\ UNCHANGED <<ids, orders, quote, accepted, executed, inbox, out, seen, quoted>>
      BY <2>1 DEF Register, gateway, Registered
    <2> HIDE DEF m, v
    <2> QED
      BY <1>1, <2>2, <2>3, <2>4, RequestKeeps
  <1>3. CASE r.request.kind # "replace"
    <2> DEFINE m == [kind |-> "cancel", wire |-> w, orig |-> r.orig,
                     contract |-> r.contract]
    <2>1. m \in Asking /\ m.wire = w /\ m.orig <= next_order
      BY <1>1 DEF Asking
    <2>2. /\ next_order' = w
          /\ call' = [call EXCEPT ![t] = [step |-> "send", msg |-> m]]
          /\ views' = views
          /\ UNCHANGED <<ids, orders, quote, accepted, executed, inbox, out, seen, quoted>>
      BY <1>3 DEF Register, gateway
    <2> HIDE DEF m
    <2> QED
      BY <1>1, <2>1, <2>2, RequestKeeps
  <1> QED
    BY <1>2, <1>3

LEMMA SendKeeps ==
  ASSUME Base, NEW t \in Thread, SendRequest(t)
  PROVE  Base'
  <1> DEFINE m == call[t].msg
  <1>1. /\ call[t].step = "send" /\ m \in Asking /\ Unseen(m, next_order, ids.to_internal)
        /\ call' = [call EXCEPT ![t] = Idle]
        /\ inbox' = inbox \/ inbox' = Append(inbox, m)
        /\ UNCHANGED <<ids, orders, quote, accepted, executed, out, seen, quoted>>
        /\ UNCHANGED <<next_order, views>>
    BY CallFields DEF SendRequest, Queue, Base, Numbers
  <1>2. /\ call'[t] = Idle /\ Idle.step = "idle"
        /\ \A u \in Thread : u # t => call'[u] = call[u]
        /\ call' \in [Thread -> Calling]
    BY <1>1 DEF Base, ClientType, Calling, Idle
  <1>3. inbox \in Seq(Asking \cup Plain)
    BY DEF Base, ClientType
  <1>4. /\ inbox' \in Seq(Asking \cup Plain) /\ AllWired(inbox')
        /\ \A k \in DOMAIN inbox' :
              \/ k \in DOMAIN inbox /\ inbox'[k] = inbox[k]
              \/ k = Len(inbox) + 1 /\ inbox'[k] = m
    <2>1. CASE inbox' = inbox
      BY <1>3, <2>1 DEF Base, GatewayInv
    <2>2. CASE inbox' = Append(inbox, m)
      <3>1. Wired(m)
        BY <1>1, AskingFields DEF Wired
      <3>2. PICK S : inbox \in Seq(S) /\ \A r \in S : Wired(r)
        BY DEF Base, GatewayInv, AllWired
      <3>3. inbox' \in Seq(S \cup {m}) /\ \A r \in S \cup {m} : Wired(r)
        BY <2>2, <3>1, <3>2
      <3>4. AllWired(inbox')
        BY <3>3 DEF AllWired
      <3>5. m \in Asking \cup Plain
        BY <1>1
      <3> HIDE DEF m
      <3> QED
        BY <1>3, <2>2, <3>4, <3>5, AppendAt
    <2> QED
      BY <1>1, <2>1, <2>2
  <1>5. GatewayInv'
    BY <1>1, <1>4, SameIds DEF Base, GatewayInv
  <1>6. ClientType'
    BY <1>1, <1>2, <1>4 DEF Base, ClientType
  <1>7. Numbers'
    <2>1. \A r : Unseen(r, next_order', ids'.to_internal) <=> Unseen(r, next_order, ids.to_internal)
      BY <1>1 DEF Unseen
    <2>2. /\ \A u \in Thread : call'[u].step # "idle" => call'[u] = call[u]
          /\ \A k \in DOMAIN inbox' :
                inbox'[k] \in Asking => Unseen(inbox'[k], next_order, ids.to_internal)
      BY <1>1, <1>2, <1>4 DEF Base, Numbers
    <2>3. \A u \in Thread : call'[u].step = "register" => call'[u].orig <= next_order
      BY <2>2 DEF Base, Numbers
    <2>4. \A u \in Thread :
            call'[u].step = "send" => Unseen(call'[u].msg, next_order, ids.to_internal)
      BY <2>2 DEF Base, Numbers
    <2> QED
      BY <1>1, <2>1, <2>2, <2>3, <2>4 DEF Base, Numbers
  <1>8. Distinct'
    <2>1. \A u \in Thread : call'[u].step = "send" => u # t /\ call'[u] = call[u]
      BY <1>2
    <2> HIDE DEF m
    <2>2. \A u \in Thread : call'[u].step = "send" => call'[u].msg.wire # m.wire
      BY <1>1, <2>1 DEF Base, Distinct, m
    <2>3. \A k \in DOMAIN inbox : inbox[k] \in Asking => inbox[k].wire # m.wire
      BY <1>1 DEF Base, Distinct, m
    <2> QED
      BY <1>4, <2>1, <2>2, <2>3 DEF Base, Distinct
  <1> QED
    BY <1>5, <1>6, <1>7, <1>8 DEF Base

-----------------------------------------------------------------------------
(* What the exchange knows *)

\* A record is kept under the client's own number for it.
LEMMA OrdersStraight ==
  ASSUME Base, NEW w \in Wire, orders[w] # None
  PROVE  /\ Sound(orders[w]) /\ orders[w].name = w
         /\ ids.to_internal[w] = w /\ w <= next_order
  <1>1. w \in InternalId /\ w # 0 /\ NoWire \notin Wire
    BY WireIsNumber, WireAssumption
  <1>2. Knows(ids, w, orders[w].name)
    BY <1>1 DEF Base, GatewayInv, OrdersNamed
  <1>3. ids.to_internal[orders[w].name] = w /\ orders[w].name \in Wire
    BY <1>1, <1>2 DEF Base, GatewayInv, Inverses, Knows
  <1>4. orders[w].name = w /\ w <= next_order
    BY <1>1, <1>3 DEF Base, Numbers
  <1> QED
    BY <1>1, <1>3, <1>4 DEF Base, ClientType

LEMMA RecordStraight ==
  ASSUME Base, NEW w \in Wire
  PROVE  (IF ids.to_internal[w] = 0 THEN None ELSE orders[ids.to_internal[w]]) = orders[w]
  <1>1. CASE ids.to_internal[w] = 0
    BY <1>1, OrdersStraight, WireIsNumber
  <1>2. CASE ids.to_internal[w] # 0
    BY <1>2 DEF Base, Numbers
  <1> QED
    BY <1>1, <1>2

\* fresh_id takes what the client numbered, under the same number.
LEMMA UsedStraight ==
  ASSUME Base, NEW m \in Asking, Unseen(m, next_order, ids.to_internal)
  PROVE  /\ m.wire \in Wire /\ m.wire <= next_order
         /\ IsFresh(ids, m.wire) /\ InternedId(ids, m.wire) = m.wire
         /\ Used(m) = Intern(ids, m.wire)
         /\ Used(m).to_internal = [ids.to_internal EXCEPT ![m.wire] = m.wire]
         /\ orders[m.wire] = None
  <1> DEFINE w == m.wire
  <1>1. /\ w \in Wire /\ w \in InternalId /\ w # 0 /\ NoWire \notin Wire /\ Numeral[w] = w
        /\ ids.to_internal[w] = 0 /\ w <= next_order
    BY AskingFields, WireIsNumber, WireAssumption, ClientAssumption DEF Unseen
  <1> HIDE DEF w
  <1>2. ids \in WireIdMap /\ Inverses(ids)
    BY DEF Base, GatewayInv
  <1>3. ids.to_wire[w] = NoWire
    <2> SUFFICES ASSUME ids.to_wire[w] # NoWire PROVE FALSE
      OBVIOUS
    <2>1. ids.to_internal[ids.to_wire[w]] = w /\ ids.to_wire[w] \in Wire
      BY <1>1, <1>2 DEF Inverses, WireIdMap
    <2>2. ids.to_wire[w] = w
      BY <1>1, <2>1 DEF Base, Numbers
    <2> QED
      BY <1>1, <2>1, <2>2
  <1>4. Prefers(ids, w)
    BY <1>1, <1>3 DEF Prefers, Free
  <1>5. IsFresh(ids, w) /\ InternedId(ids, w) = w
    BY <1>1, <1>4 DEF IsFresh, CanIntern, InternedId
  <1>6. Intern(ids, w).to_internal = [ids.to_internal EXCEPT ![w] = w]
    <2>1. Intern(ids, w).to_internal = [ids.to_internal EXCEPT ![w] = InternedId(ids, w)]
      BY <1>1, <1>2, <1>5, InternFresh
    <2> QED
      BY <1>5, <2>1
  <1>7. Used(m) = Intern(ids, w)
    BY <1>5 DEF Used, w
  <1>8. orders[w] = None
    BY <1>1, OrdersStraight
  <1> QED
    BY <1>1, <1>5, <1>6, <1>7, <1>8 DEF w

\* A step of the exchange: it may take in the next request, and answer.
LEMMA ExchangeKeeps ==
  ASSUME Base, GatewayInv', UNCHANGED <<call, next_order, views, seen, quoted>>,
         \/ UNCHANGED <<inbox, ids>>
         \/ /\ inbox # <<>> /\ inbox' = Tail(inbox)
            /\ \/ ids' = ids
               \/ Head(inbox) \in Asking /\ ids' = Used(Head(inbox)),
         out' \in Seq(Reply(next_order)),
         \A n \in InternalId : orders'[n] # None => Sound(orders'[n]),
         quote' \in Nat, executed' \in Nat
  PROVE  Base'
  <1> DEFINE m == Head(inbox)
             known == ids'.to_internal
  <1>1. inbox \in Seq(Asking \cup Plain)
    BY DEF Base, ClientType
  <1>2. CASE UNCHANGED <<inbox, ids>>
    <2>1. Numbers'
      <3>1. \A r : Unseen(r, next_order', known) <=> Unseen(r, next_order, ids.to_internal)
        BY <1>2 DEF Unseen
      <3> QED
        BY <1>2, <3>1 DEF Base, Numbers
    <2>2. Distinct' /\ ClientType'
      BY <1>2 DEF Base, Distinct, ClientType
    <2> QED
      BY <2>1, <2>2 DEF Base
  <1>3. CASE inbox # <<>> /\ inbox' = Tail(inbox)
    <2>1. /\ inbox' \in Seq(Asking \cup Plain) /\ m = inbox[1] /\ 1 \in DOMAIN inbox
          /\ \A k \in DOMAIN inbox' :
               /\ k \in Nat /\ k # 0 /\ k + 1 \in DOMAIN inbox /\ inbox'[k] = inbox[k + 1]
      BY <1>1, <1>3, TailAt
    <2>2. /\ \A k \in DOMAIN inbox' : k + 1 # 1
          /\ \A j, k \in DOMAIN inbox' : j + 1 = k + 1 => j = k
      <3>1. \A k \in DOMAIN inbox' : k \in Nat /\ k # 0
        BY <2>1
      <3>2. \A k \in Nat : k # 0 => k + 1 # 1
        OBVIOUS
      <3>3. \A j, k \in Nat : j + 1 = k + 1 => j = k
        OBVIOUS
      <3> QED
        BY <3>1, <3>2, <3>3, Zenon
    <2>3. Distinct'
      <3> DEFINE n(k) == k + 1
      <3>1. \A k \in DOMAIN inbox' : n(k) \in DOMAIN inbox /\ inbox'[k] = inbox[n(k)]
        BY <2>1
      <3>2. \A j, k \in DOMAIN inbox' : n(j) = n(k) => j = k
        BY <2>2
      <3>3. Distinct /\ call' = call
        BY DEF Base
      <3> HIDE DEF n
      <3>4. \A u \in Thread, k \in DOMAIN inbox' :
              call[u].step = "send" /\ inbox'[k] \in Asking => inbox'[k].wire # call[u].msg.wire
        BY <3>1, <3>3 DEF Distinct
      <3>5. \A j, k \in DOMAIN inbox' :
              inbox'[j] \in Asking /\ inbox'[k] \in Asking /\ inbox'[j].wire = inbox'[k].wire
              => j = k
        BY <3>1, <3>2, <3>3 DEF Distinct
      <3> QED
        BY <3>3, <3>4, <3>5 DEF Distinct
    <2>4. ClientType'
      BY <2>1 DEF Base, ClientType
    <2>5. \/ ids' = ids
          \/ /\ m \in Asking /\ m.wire \in Wire /\ m.wire <= next_order
             /\ known = [ids.to_internal EXCEPT ![m.wire] = m.wire]
      <3>1. CASE m \in Asking /\ ids' = Used(m)
        <4>1. Unseen(m, next_order, ids.to_internal)
          BY <2>1, <3>1 DEF Base, Numbers
        <4> QED
          BY <3>1, <4>1, UsedStraight
      <3> QED
        BY <1>2, <3>1
    <2>6. /\ \A w \in Wire : known[w] # 0 => known[w] = w /\ w <= next_order
          /\ \A w \in Wire : known[w] # ids.to_internal[w] => m \in Asking /\ w = m.wire
      <3>1. DOMAIN ids.to_internal = Wire
        BY DEF Base, GatewayInv, WireIdMap
      <3> QED
        BY <2>5, <3>1 DEF Base, Numbers
    <2>7. ASSUME NEW r \in Asking, Unseen(r, next_order, ids.to_internal),
                 m \in Asking => r.wire # m.wire
          PROVE  Unseen(r, next_order', known)
      <3>1. r.wire \in Wire /\ known[r.wire] = ids.to_internal[r.wire]
        BY <2>6, <2>7, AskingFields
      <3> HIDE DEF known
      <3> QED
        BY <2>7, <3>1 DEF Unseen
    <2> HIDE DEF known, m
    <2>8. \A t \in Thread : call'[t].step = "send" => Unseen(call'[t].msg, next_order', known)
      <3> TAKE t \in Thread
      <3> HAVE call'[t].step = "send"
      <3>1. call[t].step = "send" /\ call'[t] = call[t] /\ call[t].msg \in Asking
        BY CallFields DEF Base
      <3>2. Unseen(call[t].msg, next_order, ids.to_internal)
        BY <3>1 DEF Base, Numbers
      <3>3. m \in Asking => call[t].msg.wire # m.wire
        BY <2>1, <3>1 DEF Base, Distinct
      <3> QED
        BY <2>7, <3>1, <3>2, <3>3
    <2>9. \A k \in DOMAIN inbox' : inbox'[k] \in Asking => Unseen(inbox'[k], next_order', known)
      <3> TAKE k \in DOMAIN inbox'
      <3> HAVE inbox'[k] \in Asking
      <3> DEFINE j == k + 1
      <3>1. j \in DOMAIN inbox /\ inbox'[k] = inbox[j] /\ j # 1
        BY <2>1, <2>2
      <3> HIDE DEF j
      <3>2. Unseen(inbox[j], next_order, ids.to_internal) /\ inbox[j] \in Asking
        BY <3>1 DEF Base, Numbers
      <3>3. m \in Asking => inbox[j].wire # m.wire
        BY <2>1, <3>1, <3>2 DEF Base, Distinct
      <3> QED
        BY <2>7, <3>1, <3>2, <3>3
    <2>10. Numbers'
      BY <2>6, <2>8, <2>9 DEF Base, Numbers, known
    <2> QED
      BY <2>3, <2>4, <2>10 DEF Base
  <1> QED
    BY <1>2, <1>3

-----------------------------------------------------------------------------
(* Reports *)

\* What an execution report says is open.
OpenOf(o) == IF IsActive(o.state) THEN o.qty - o.cum ELSE 0

\* The view v tells what the record o is.
Tells(v, o) == Shows(v, OnTheWire(o.state), OpenOf(o), o.qty)

\* The report about o that answers the request w, which was about orig, if any.
Answer(w, orig, o, last) == Report(w, orig, o, last, [wire |-> w, orig |-> orig])

LEMMA AnswerIsReply ==
  ASSUME NEW n \in Nat, NEW w \in 1..n, NEW orig \in 0..n, NEW o, Sound(o), NEW last \in Nat
  PROVE  LET r == Answer(w, orig, o, last)
         IN  /\ r \in Reply(n) /\ r.kind = "exec" /\ r.last = last
             /\ NameOf(r) = w /\ OrigOf(r) = orig
             /\ r.state = OnTheWire(o.state) /\ r.leaves = OpenOf(o) /\ r.qty = o.qty
  <1> DEFINE r == Answer(w, orig, o, last)
             state == OnTheWire(o.state)
             names == [wire |-> w, orig |-> orig]
  <1>1. /\ o.qty \in Nat /\ o.cum \in Nat /\ o.cum <= o.qty /\ o.state \in OrderState
    BY DEF Sound, Order
  <1>2. state \in Shown /\ OpenOf(o) \in Nat
    BY <1>1 DEF OnTheWire, Shown, OrderState, OpenOf
  <1>3. names \in [wire : 0..n, orig : 0..n]
    OBVIOUS
  <1>4. r = [kind |-> "exec", id |-> w, orig |-> orig, state |-> state,
             leaves |-> OpenOf(o), qty |-> o.qty, last |-> last, names |-> names]
    BY DEF Answer, Report, OpenOf
  <1>5. names.wire = w /\ names.orig = orig /\ w \in Nat \ {0} /\ orig \in Nat
    OBVIOUS
  <1> HIDE DEF r, state, names
  <1>6. r \in Reply(n)
    BY <1>1, <1>2, <1>3, <1>4, <1>5 DEF Reply
  <1>7. /\ r.kind = "exec" /\ r.last = last /\ r.id = w /\ r.orig = orig /\ r.names = names
        /\ r.state = state /\ r.leaves = OpenOf(o) /\ r.qty = o.qty
    BY <1>4
  <1>8. NameOf(r) = w /\ OrigOf(r) = orig
    BY <1>5, <1>7, WireIsNumber DEF NameOf, OrigOf
  <1> QED
    BY <1>6, <1>7, <1>8 DEF r, state

\* A client that reads it knows what has become of the order.
LEMMA AnswerApplied ==
  ASSUME NEW st \in Known, NEW n \in 0..MaxOrderId, NEW w \in 1..n, NEW orig \in 0..n,
         orig # w, NEW o, Sound(o), NEW last \in Nat
  PROVE  LET r == Answer(w, orig, o, last)
             u == Applied(st, r)
         IN  /\ u \in Known /\ u.seen = st.seen + last
             /\ \A v \in Wire : v # w /\ v # orig => u.views[v] = st.views[v]
             /\ orig \in Wire => u.views[orig] = None
             /\ st.views[w] # None => u.views[w] # None
             /\ u.views[w] # None => Tells(u.views[w], o)
  <1> DEFINE r == Answer(w, orig, o, last)
             t == Reported(st.views, r, w, orig)
             u == Applied(st, r)
  <1>1. n \in Nat /\ w \in Wire /\ orig \in Wire \cup {NoWire} /\ st.views \in Table
    BY WireIsNumber, WireAssumption DEF InternalId, Known
  <1>2. /\ r \in Reply(n) /\ r.kind = "exec" /\ r.last = last
        /\ NameOf(r) = w /\ OrigOf(r) = orig
        /\ r.state = OnTheWire(o.state) /\ r.leaves = OpenOf(o) /\ r.qty = o.qty
    BY <1>1, AnswerIsReply
  <1> HIDE DEF r
  <1>3. u = [views |-> t, seen |-> st.seen + last]
    BY <1>2 DEF Applied
  <1>4. u \in Known
    BY <1>2, AppliedKnown
  <1>5. /\ \A v \in Wire : v # w /\ v # orig => t[v] = st.views[v]
        /\ orig \in Wire \ {w} => t[orig] = None
        /\ st.views[w] # None => t[w] # None
        /\ t[w] # None => Shows(t[w], r.state, r.leaves, r.qty)
    BY <1>1, <1>2, ReportedTable
  <1> HIDE DEF t, u
  <1>6. u.views = t /\ u.seen = st.seen + last
    BY <1>3
  <1> QED
    BY <1>2, <1>4, <1>5, <1>6 DEF r, u, Tells

\* An answer without a trade, to request w about the order named orig.
Learns(st, u, w, orig, o) ==
    /\ u \in Known /\ u.seen = st.seen
    /\ \A v \in Wire : v # w /\ v # orig => u.views[v] = st.views[v]
    /\ u.views[orig] = None
    /\ st.views[w] # None => u.views[w] # None
    /\ u.views[w] # None => Tells(u.views[w], o)

LEMMA AnswerLearnt ==
  ASSUME NEW st \in Known, NEW n \in 0..MaxOrderId, NEW w \in 1..n, NEW orig \in 1..n,
         orig # w, NEW o, Sound(o)
  PROVE  Learns(st, Applied(st, Answer(w, orig, o, 0)), w, orig, o)
  <1> DEFINE u == Applied(st, Answer(w, orig, o, 0))
  <1>1. 0 \in Nat /\ orig \in 0..n /\ orig \in Wire /\ st.seen \in Nat
    BY WireIsNumber, WireAssumption DEF InternalId, Known
  <1>2. /\ u \in Known /\ u.seen = st.seen + 0
        /\ \A v \in Wire : v # w /\ v # orig => u.views[v] = st.views[v]
        /\ orig \in Wire => u.views[orig] = None
        /\ st.views[w] # None => u.views[w] # None
        /\ u.views[w] # None => Tells(u.views[w], o)
    BY <1>1, AnswerApplied
  <1> HIDE DEF u
  <1>3. u.seen = st.seen
    BY <1>1, <1>2
  <1> QED
    BY <1>1, <1>2, <1>3 DEF Learns, u

LEMMA LeadsOne ==
  ASSUME NEW st \in Known, NEW n \in 0..MaxOrderId, NEW m \in Reply(n)
  PROVE  Leads(st, <<m>>, Applied(st, m))
  <1>1. Applied(st, m) \in Known
    BY AppliedKnown
  <1>2. <<>> \in Seq(Reply(n)) /\ Append(<<>>, m) = <<m>>
    OBVIOUS
  <1>3. Leads(st, <<>>, st)
    BY LeadsHere
  <1>4. Leads(st, Append(<<>>, m), Applied(st, m))
    BY <1>1, <1>2, <1>3, LeadsOn
  <1> QED
    BY <1>2, <1>4

-----------------------------------------------------------------------------
(* Trades *)

\* Rising totals that stay within n.
Rising(fills, n) ==
    /\ fills \in Seq(1..n)
    /\ \A k \in 2..Len(fills) : fills[k - 1] < fills[k]

LEMMA FillsRise ==
  ASSUME NEW n, NEW fills \in Fills(n)
  PROVE  Rising(fills, n)
  BY TradesAreSeqs DEF Rising, Fills

LEMMA RisingFacts ==
  ASSUME NEW n \in Nat, NEW fills, Rising(fills, n)
  PROVE  /\ Len(fills) \in Nat /\ Total(fills) \in 0..n
         /\ \A k \in 1..Len(fills) : fills[k] \in 1..n
         /\ \A k \in 2..Len(fills) : fills[k - 1] < fills[k] /\ fills[k - 1] \in 1..n
         /\ fills # <<>> => Len(fills) \in 1..Len(fills) /\ Total(fills) = fills[Len(fills)]
         /\ fills = <<>> => Len(fills) = 0 /\ Total(fills) = 0
  BY DEF Rising, Total

LEMMA TradedSound ==
  ASSUME NEW o \in Order, NEW k \in Nat, o.cum + k <= o.qty
  PROVE  LET x == Traded(o, k)
         IN  /\ Sound(x) /\ x.qty = o.qty /\ x.cum = o.cum + k /\ x.name = o.name
             /\ x.state \in {"Booked", "PartialFill", "Filled"}
             /\ x.state = "Filled" <=> o.cum + k = o.qty
  <1> DEFINE c == o.cum + k
             s == IF c = o.qty THEN "Filled" ELSE IF c > 0 THEN "PartialFill" ELSE "Booked"
             x == Traded(o, k)
  <1>1. /\ o.qty \in Nat /\ o.cum \in Nat /\ c \in Nat /\ c <= o.qty
        /\ s \in OrderState /\ s \in {"Booked", "PartialFill", "Filled"}
        /\ s = "Filled" <=> c = o.qty
    BY DEF Order, OrderState
  <1>2. x = [o EXCEPT !.cum = c, !.state = s]
    BY DEF Traded
  <1> HIDE DEF c, s
  <1>3. /\ x \in Order /\ x.qty = o.qty /\ x.cum = c /\ x.name = o.name /\ x.state = s
    BY <1>1, <1>2 DEF Order
  <1> HIDE DEF x
  <1>4. IsActive(s) => c < o.qty
    BY <1>1 DEF IsActive
  <1> QED
    BY <1>1, <1>3, <1>4 DEF Sound, x, c

LEMMA UpdatedTwice ==
  ASSUME NEW t \in Table, NEW w \in Wire, NEW a \in OrderState, NEW b \in Nat, NEW c \in Nat,
         NEW d, NEW e, NEW f
  PROVE  Updated(Updated(t, w, a, b, c), w, d, e, f) = Updated(t, w, d, e, f)
  <1>1. CASE t[w] = None
    BY <1>1 DEF Updated
  <1>2. CASE t[w] # None
    <2> DEFINE y == [t[w] EXCEPT !.state = a, !.remaining = b, !.qty = c]
               x == [t[w] EXCEPT !.state = d, !.remaining = e, !.qty = f]
    <2>1. t[w] \in View
      BY <1>2 DEF Table
    <2>2. [y EXCEPT !.state = d, !.remaining = e, !.qty = f] = x
      BY <2>1 DEF View
    <2>3. /\ Updated(t, w, a, b, c) = [t EXCEPT ![w] = y]
          /\ Updated(t, w, d, e, f) = [t EXCEPT ![w] = x]
      BY <1>2 DEF Updated
    <2>4. y # None
      <3>1. y \in View
        BY <2>1 DEF View
      <3> QED
        BY <3>1, ViewAssumption
    <2>5. Updated([t EXCEPT ![w] = y], w, d, e, f)
            = [t EXCEPT ![w] = [y EXCEPT !.state = d, !.remaining = e, !.qty = f]]
      <3> HIDE DEF y
      <3> QED
        BY <2>4 DEF Updated, Table
    <2> HIDE DEF x, y
    <2> QED
      BY <2>2, <2>3, <2>5
  <1> QED
    BY <1>1, <1>2

\* What the client knows after the k-th of the fill reports of the order o.
AfterFill(u, w, o, fills, k) ==
    LET x == Traded(o, fills[k])
    IN  IF k = 0 THEN u
        ELSE [views |-> Updated(u.views, w, OnTheWire(x.state), OpenOf(x), x.qty),
              seen |-> u.seen + fills[k]]

LEMMA FillsLead ==
  ASSUME NEW u \in Known, NEW n \in 0..MaxOrderId, NEW w \in 1..n,
         NEW o \in Order, o.cum <= o.qty, o.name = w,
         NEW fills, Rising(fills, o.qty - o.cum)
  PROVE  /\ FillReports(w, o, fills) \in Seq(Reply(n))
         /\ Len(FillReports(w, o, fills)) = Len(fills)
         /\ \A k \in 1..Len(fills) :
              FillReports(w, o, fills)[k].kind = "exec" /\ NameOf(FillReports(w, o, fills)[k]) = w
         /\ LET u2 == AfterFill(u, w, o, fills, Len(fills))
            IN  Leads(u, FillReports(w, o, fills), u2)
  <1> DEFINE b == o.qty - o.cum
             l == Len(fills)
             s == FillReports(w, o, fills)
             x(k) == Traded(o, fills[k])
             before(k) == IF k = 1 THEN 0 ELSE fills[k - 1]
             F == [k \in 0..l |-> AfterFill(u, w, o, fills, k)]
  <1>1. b \in Nat /\ o.qty \in Nat /\ o.cum \in Nat /\ o.cum + b = o.qty
    BY DEF Order
  <1>2. /\ l \in Nat /\ \A k \in 1..l : fills[k] \in 1..b
        /\ \A k \in 2..l : fills[k - 1] < fills[k] /\ fills[k - 1] \in 1..b
    BY <1>1, RisingFacts
  <1>3. n \in Nat /\ w \in Wire /\ u.views \in Table /\ u.seen \in Nat /\ 0 \in 0..n
    <2>1. n \in Nat /\ w \in InternalId /\ 0 \in 0..n
      BY WireAssumption DEF InternalId
    <2> QED
      BY <2>1, WireIsNumber DEF Known
  <1>4. ASSUME NEW k \in 1..l
        PROVE  fills[k] \in Nat /\ before(k) \in Nat /\ fills[k] - before(k) \in Nat
    BY <1>2
  <1> HIDE DEF before, b, l
  <1>5. ASSUME NEW k \in 1..l
        PROVE  Sound(x(k)) /\ x(k).qty = o.qty /\ x(k).name = w
    <2>1. fills[k] \in Nat /\ o.cum + fills[k] <= o.qty
      BY <1>1, <1>2
    <2> QED
      BY <2>1, TradedSound
  <1> HIDE DEF x
  <1>6. /\ DOMAIN s = 1..l
        /\ \A k \in 1..l : s[k] = Answer(w, 0, x(k), fills[k] - before(k))
    BY WireIsNumber DEF FillReports, Answer, x, before, l
  <1> HIDE DEF s
  <1>7. ASSUME NEW k \in 1..l
        PROVE  /\ s[k] \in Reply(n) /\ s[k].kind = "exec" /\ s[k].last = fills[k] - before(k)
               /\ NameOf(s[k]) = w /\ OrigOf(s[k]) = NoWire
               /\ s[k].state = OnTheWire(x(k).state) /\ s[k].leaves = OpenOf(x(k))
               /\ s[k].qty = x(k).qty
    <2>1. Sound(x(k)) /\ fills[k] - before(k) \in Nat
      BY <1>4, <1>5
    <2> QED
      BY <1>3, <1>6, <2>1, AnswerIsReply, WireIsNumber
  <1>8. ASSUME NEW k \in 1..l
        PROVE  /\ OnTheWire(x(k).state) \in OrderState /\ OpenOf(x(k)) \in Nat /\ x(k).qty \in Nat
    BY <1>3, <1>7, ReplyFields DEF Shown
  <1>9. /\ F[0] = u
        /\ \A k \in 1..l :
             F[k] = [views |-> Updated(u.views, w, OnTheWire(x(k).state), OpenOf(x(k)), x(k).qty),
                     seen |-> u.seen + fills[k]]
        /\ F[l] = AfterFill(u, w, o, fills, l)
    BY <1>2 DEF AfterFill, x
  <1>10. F = [k \in 0..l |-> F[k]]
    OBVIOUS
  <1> HIDE DEF F
  <1>11. F \in [0..l -> Known]
    <2>1. ASSUME NEW k \in 1..l
          PROVE  F[k] \in Known
      <3>1. Updated(u.views, w, OnTheWire(x(k).state), OpenOf(x(k)), x(k).qty) \in Table
        BY <1>3, <1>8, UpdatedTable, Zenon
      <3>2. u.seen + fills[k] \in Nat
        BY <1>3, <1>4
      <3>3. [views |-> Updated(u.views, w, OnTheWire(x(k).state), OpenOf(x(k)), x(k).qty),
             seen |-> u.seen + fills[k]] \in Known
        BY <3>1, <3>2 DEF Known
      <3> QED
        BY <1>9, <3>3
    <2>2. \A k \in 0..l : k = 0 \/ k \in 1..l
      BY <1>2
    <2>3. \A k \in 0..l : F[k] \in Known
      BY <1>9, <2>1, <2>2
    <2> QED
      BY <1>10, <2>3
  <1>12. ASSUME NEW k \in 1..l
         PROVE  F[k] = Applied(F[k - 1], s[k])
    <2> DEFINE v == F[k - 1].views
    <2>1. Applied(F[k - 1], s[k])
            = [views |-> Updated(v, w, s[k].state, s[k].leaves, s[k].qty),
               seen |-> F[k - 1].seen + s[k].last]
      <3>1. Reported(v, s[k], w, NoWire) = Updated(v, w, s[k].state, s[k].leaves, s[k].qty)
        BY <1>3, WireIsNumber DEF Reported, Adopted, WithoutOriginal
      <3> QED
        BY <1>7, <3>1 DEF Applied
    <2>2. CASE k = 1
      <3>1. F[k - 1] = u /\ before(k) = 0 /\ fills[k] - 0 = fills[k]
        BY <1>4, <1>9, <2>2 DEF before
      <3> QED
        BY <1>7, <1>9, <2>1, <3>1
    <2>3. CASE k # 1
      <3> DEFINE j == k - 1
      <3>1. j \in 1..l /\ before(k) = fills[j]
        BY <1>2, <2>3 DEF before
      <3> HIDE DEF j
      <3>2. F[j].views = Updated(u.views, w, OnTheWire(x(j).state), OpenOf(x(j)), x(j).qty)
            /\ F[j].seen = u.seen + fills[j]
        <4>1. F[j] = [views |-> Updated(u.views, w, OnTheWire(x(j).state), OpenOf(x(j)), x(j).qty),
                      seen |-> u.seen + fills[j]]
          BY <1>9, <3>1
        <4> QED
          BY <4>1
      <3>3. Updated(F[j].views, w, s[k].state, s[k].leaves, s[k].qty)
              = Updated(u.views, w, s[k].state, s[k].leaves, s[k].qty)
        BY <1>3, <1>8, <3>1, <3>2, UpdatedTwice
      <3>4. F[j].seen + s[k].last = u.seen + fills[k]
        <4>1. fills[j] \in Nat /\ fills[k] \in Nat /\ s[k].last = fills[k] - fills[j]
          BY <1>4, <1>7, <3>1
        <4> QED
          BY <1>3, <3>2, <4>1
      <3> QED
        BY <1>7, <1>9, <2>1, <3>3, <3>4 DEF j
    <2> QED
      BY <2>2, <2>3
  <1>13. s \in Seq(Reply(n)) /\ Len(s) = l
    <2>1. s = [k \in 1..l |-> s[k]]
      BY DEF s, l, FillReports
    <2>2. s \in [1..l -> Reply(n)]
      BY <1>6, <1>7, <2>1
    <2> QED
      BY <1>2, <2>2
  <1>14. Leads(u, s, F[l])
    BY <1>9, <1>11, <1>12, <1>13 DEF Leads
  <1> QED
    BY <1>7, <1>9, <1>13, <1>14 DEF s, l

\* Afterwards it knows the total, and the order as it is then.
LEMMA AfterFills ==
  ASSUME NEW u \in Known, NEW w \in Wire, NEW o \in Order, o.cum <= o.qty,
         NEW fills, Rising(fills, o.qty - o.cum)
  PROVE  LET x == Traded(o, Total(fills))
             u2 == AfterFill(u, w, o, fills, Len(fills))
         IN  /\ Total(fills) \in Nat /\ Sound(x) /\ x.qty = o.qty /\ x.name = o.name
             /\ x.cum = o.cum + Total(fills)
             /\ x.state \in {"Booked", "PartialFill", "Filled"}
             /\ u2 \in Known /\ u2.seen = u.seen + Total(fills)
             /\ \A v \in Wire : v # w => u2.views[v] = u.views[v]
             /\ u2.views[w] = None <=> u.views[w] = None
             /\ fills # <<>> /\ u2.views[w] # None => Tells(u2.views[w], x)
             /\ fills = <<>> => u2 = u
  <1> DEFINE x == Traded(o, Total(fills))
             u2 == AfterFill(u, w, o, fills, Len(fills))
             b == o.qty - o.cum
             state == OnTheWire(x.state)
             open == OpenOf(x)
             qty == x.qty
             t == Updated(u.views, w, state, open, qty)
  <1>1. b \in Nat /\ o.qty \in Nat /\ o.cum \in Nat /\ o.cum + b = o.qty
    BY DEF Order
  <1>2. /\ Total(fills) \in 0..b
        /\ fills # <<>> => Len(fills) # 0 /\ Total(fills) = fills[Len(fills)]
        /\ fills = <<>> => Len(fills) = 0 /\ Total(fills) = 0
    BY <1>1, RisingFacts
  <1>3. Total(fills) \in Nat /\ o.cum + Total(fills) <= o.qty
    BY <1>1, <1>2
  <1>4. /\ Sound(x) /\ x.qty = o.qty /\ x.name = o.name /\ x.cum = o.cum + Total(fills)
        /\ x.state \in {"Booked", "PartialFill", "Filled"}
    BY <1>3, TradedSound
  <1>5. u.views \in Table /\ u.seen \in Nat
    BY DEF Known
  <1>6. CASE fills = <<>>
    <2>1. u2 = u /\ u.seen + Total(fills) = u.seen
      BY <1>2, <1>5, <1>6 DEF AfterFill
    <2> QED
      BY <1>3, <1>4, <1>6, <2>1
  <1>7. CASE fills # <<>>
    <2>1. u2 = [views |-> t, seen |-> u.seen + Total(fills)]
      BY <1>2, <1>7 DEF AfterFill
    <2>2. state \in OrderState /\ open \in Nat /\ qty \in Nat
      <3> HIDE DEF x
      <3> QED
        BY <1>1, <1>4 DEF OnTheWire, OrderState, OpenOf, Sound, Order
    <2> HIDE DEF x, state, open, qty
    <2>3. /\ t \in Table /\ \A v \in Wire : v # w => t[v] = u.views[v]
          /\ t[w] = None <=> u.views[w] = None
          /\ t[w] # None => Shows(t[w], state, open, qty)
      <3>1. t = Updated(u.views, w, state, open, qty)
        OBVIOUS
      <3> HIDE DEF t
      <3>2. t \in Table /\ \A v \in Wire : v # w => t[v] = u.views[v]
        <4>1. t \in Table
          BY <1>5, <2>2, <3>1, UpdatedTable
        <4>2. \A v \in Wire : v # w => t[v] = u.views[v]
          BY <1>5, <3>1 DEF Updated, Table
        <4> QED
          BY <4>1, <4>2
      <3>3. t[w] = None <=> u.views[w] = None
        BY <1>5, <2>2, <3>1, UpdatedTable
      <3>4. t[w] # None => Shows(t[w], state, open, qty)
        BY <1>5, <2>2, <3>1, UpdatedTable
      <3> QED
        BY <3>2, <3>3, <3>4
    <2> HIDE DEF t, u2
    <2>4. u2 \in Known /\ u2.views = t /\ u2.seen = u.seen + Total(fills)
      BY <1>3, <1>5, <2>1, <2>3 DEF Known
    <2> QED
      BY <1>3, <1>4, <1>7, <2>3, <2>4 DEF u2, x, state, open, qty, Tells
  <1> QED
    BY <1>6, <1>7

LEMMA FillsTell ==
  ASSUME NEW u \in Known, NEW n \in 0..MaxOrderId, NEW w \in 1..n,
         NEW o \in Order, o.cum <= o.qty, o.name = w,
         NEW fills, Rising(fills, o.qty - o.cum)
  PROVE  \E u2 \in Known :
           /\ Leads(u, FillReports(w, o, fills), u2) /\ u2.seen = u.seen + Total(fills)
           /\ \A v \in Wire : v # w => u2.views[v] = u.views[v]
           /\ u2.views[w] = None <=> u.views[w] = None
           /\ fills # <<>> /\ u2.views[w] # None => Tells(u2.views[w], Traded(o, Total(fills)))
           /\ fills = <<>> => u2 = u
  <1> DEFINE u2 == AfterFill(u, w, o, fills, Len(fills))
  <1>1. w \in Wire
    <2>1. w \in InternalId
      BY WireAssumption DEF InternalId
    <2> QED
      BY <2>1, WireIsNumber
  <1>2. Leads(u, FillReports(w, o, fills), u2)
    BY FillsLead
  <1>3. /\ u2 \in Known /\ u2.seen = u.seen + Total(fills)
        /\ \A v \in Wire : v # w => u2.views[v] = u.views[v]
        /\ u2.views[w] = None <=> u.views[w] = None
        /\ fills # <<>> /\ u2.views[w] # None => Tells(u2.views[w], Traded(o, Total(fills)))
        /\ fills = <<>> => u2 = u
    BY <1>1, AfterFills
  <1> QED
    BY <1>2, <1>3

\* What add_to_book leaves.
LEMMA MatchedSound ==
  ASSUME NEW o \in Order, o.cum <= o.qty, NEW type,
         NEW fills, Rising(fills, o.qty - o.cum)
  PROVE  LET x == Matched(o, type, fills)
         IN  /\ Sound(x) /\ x.name = o.name
             /\ x.state # "Cancelled" \/ type # "Market" => x = Traded(o, Total(fills))
  <1> DEFINE y == Traded(o, Total(fills))
             c == [y EXCEPT !.state = "Cancelled"]
             x == Matched(o, type, fills)
             b == o.qty - o.cum
  <1>1. /\ o.qty \in Nat /\ o.cum \in Nat /\ b \in Nat /\ o.cum + b = o.qty
    BY DEF Order
  <1>2. Total(fills) \in Nat /\ o.cum + Total(fills) <= o.qty
    <2>1. Total(fills) \in 0..b
      BY <1>1, RisingFacts
    <2> HIDE DEF b
    <2> QED
      BY <1>1, <2>1
  <1>3. Sound(y) /\ y.name = o.name
    BY <1>2, TradedSound
  <1>4. x = IF type = "Market" /\ IsActive(y.state) THEN c ELSE y
    BY DEF Matched
  <1> HIDE DEF y
  <1>5. Sound(c) /\ c.name = o.name /\ c.state = "Cancelled"
    BY <1>3 DEF Sound, Order, OrderState, IsActive
  <1> HIDE DEF c, x
  <1> QED
    BY <1>3, <1>4, <1>5 DEF x, y

-----------------------------------------------------------------------------
(* Agreement *)

\* The ClOrdIDs of orders that are asked for, with the requests under way.
Asked(calls, box) ==
    {w \in Wire :
        \/ \E t \in Thread : calls[t].step = "send" /\ Asks(calls[t].msg, w)
        \/ \E k \in DOMAIN box : Asks(box[k], w)}

Working(o) == o # None /\ IsActive(o.state)

\* The view under w is right for the record there is, and no view is missing.
AgreeOn(w, t, os, bad, asked) ==
    /\ Working(os[w]) => t[w] # None /\ Tells(t[w], os[w])
    /\ t[w] # None /\ IsActive(t[w].state) => Working(os[w]) \/ w \in bad \/ w \in asked
    /\ w \in asked => t[w] # None

Agree(t, os, bad, asked) == \A w \in Wire : AgreeOn(w, t, os, bad, asked)

LEMMA ToldAgrees ==
  ASSUME NEW w, NEW t, NEW os, NEW bad, NEW asked,
         Sound(os[w]), t[w] # None, Tells(t[w], os[w])
  PROVE  AgreeOn(w, t, os, bad, asked)
  <1>1. os[w] # None
    BY OrderAssumption DEF Sound
  <1>2. IsActive(t[w].state) => IsActive(os[w].state)
    BY DEF Tells, Shows, OnTheWire, IsActive
  <1> QED
    BY <1>1, <1>2 DEF AgreeOn, Working

LEMMA GoneAgrees ==
  ASSUME NEW w, NEW t, NEW os, NEW bad, NEW asked,
         ~Working(os[w]), t[w] # None => ~IsActive(t[w].state),
         w \in asked => t[w] # None
  PROVE  AgreeOn(w, t, os, bad, asked)
  BY DEF AgreeOn

\* A request that is read is asked for no longer.
LEMMA AskedAfter ==
  ASSUME Base, inbox # <<>>, inbox' = Tail(inbox), call' = call
  PROVE  LET m == Head(inbox)
         IN  /\ m \in Asking => Asked(call', inbox') = Asked(call, inbox) \ {m.wire}
             /\ m \in Asking /\ m.kind # "cancel" => m.wire \in Asked(call, inbox)
             /\ m \in Plain => Asked(call', inbox') = Asked(call, inbox)
  <1> DEFINE m == Head(inbox)
             n(k) == k + 1
  <1>1. inbox \in Seq(Asking \cup Plain)
    BY DEF Base, ClientType
  <1>2. /\ m = inbox[1] /\ 1 \in DOMAIN inbox
        /\ \A k \in DOMAIN inbox' :
             n(k) \in DOMAIN inbox /\ inbox'[k] = inbox[n(k)] /\ n(k) # 1
        /\ \A k \in DOMAIN inbox : k # 1 => \E j \in DOMAIN inbox' : inbox'[j] = inbox[k]
    <2>1. /\ m = inbox[1] /\ 1 \in DOMAIN inbox
          /\ \A k \in DOMAIN inbox' :
               k \in Nat /\ k # 0 /\ k + 1 \in DOMAIN inbox /\ inbox'[k] = inbox[k + 1]
      BY <1>1, TailAt
    <2>2. \A k \in Nat : k # 0 => k + 1 # 1
      OBVIOUS
    <2>3. ASSUME NEW k \in DOMAIN inbox, k # 1
          PROVE  \E j \in DOMAIN inbox' : inbox'[j] = inbox[k]
      <3>1. k - 1 \in DOMAIN inbox' /\ inbox'[k - 1] = inbox[k]
        BY <1>1, <2>3
      <3> QED
        BY <3>1
    <2> QED
      BY <2>1, <2>2, <2>3
  <1> HIDE DEF n, m
  <1>3. ASSUME NEW w \in Asked(call', inbox')
        PROVE  w \in Asked(call, inbox)
    BY <1>2 DEF Asked
  <1>4. ASSUME NEW w \in Asked(call, inbox), ~Asks(m, w)
        PROVE  w \in Asked(call', inbox')
    BY <1>2, <1>4 DEF Asked
  <1>5. \A t \in Thread : call[t].step = "send" => call[t].msg \in Asking
    BY CallFields DEF Base
  <1>6. ASSUME m \in Asking
        PROVE  m.wire \notin Asked(call', inbox')
    <2>1. \A t \in Thread : call[t].step = "send" => call[t].msg.wire # m.wire
      BY <1>2, <1>6 DEF Base, Distinct
    <2>2. \A k \in DOMAIN inbox' : inbox'[k] \in Asking => inbox'[k].wire # m.wire
      BY <1>2, <1>6 DEF Base, Distinct
    <2>3. \A k \in DOMAIN inbox' : inbox'[k] \in Asking \cup Plain
      BY <1>1, <1>2
    <2>4. \A k \in DOMAIN inbox' : Asks(inbox'[k], m.wire) => inbox'[k] \in Asking
      BY <2>3, PlainFields DEF Asks
    <2> QED
      BY <2>1, <2>2, <2>4 DEF Asked, Asks
  <1>7. m \in Asking /\ m.kind # "cancel" => m.wire \in Asked(call, inbox)
    BY <1>2, AskingFields DEF Asked, Asks
  <1>8. m \in Plain => \A w : ~Asks(m, w)
    BY PlainFields DEF Asks
  <1>9. \A w : Asks(m, w) => w = m.wire
    BY DEF Asks
  <1> QED
    BY <1>3, <1>4, <1>6, <1>7, <1>8, <1>9 DEF m

-----------------------------------------------------------------------------
(* What a step of the exchange tells the client *)

AnswersTo(m, w) ==
    \/ m.kind \in {"reject", "cxlrej"} /\ m.wire = w
    \/ m.kind = "exec" /\ NameOf(m) = w

\* The step sends reps, answers what it reads, and keeps the client right.
Effect(reps) ==
    /\ reps \in Seq(Reply(next_order)) /\ out' = out \o reps
    /\ \A k \in DOMAIN reps : reps[k].kind = "logout" => k = Len(reps) /\ gw' = "closed"
    /\ \A n \in InternalId : orders'[n] # None => Sound(orders'[n])
    /\ quote' \in Nat /\ executed' \in Nat /\ refused \subseteq refused'
    /\ \A w \in Asked(call, inbox) :
         \/ w \in Asked(call', inbox') \/ w \in refused'
         \/ \E k \in DOMAIN reps : AnswersTo(reps[k], w)
    /\ \A u \in Known : \E u2 :
         /\ Leads(u, reps, u2)
         /\ u.seen = executed => u2.seen = executed'
         /\ gw' # "closed" /\ Agree(u.views, orders, refused, Asked(call, inbox))
              => Agree(u2.views, orders', refused', Asked(call', inbox'))

LEMMA CountInRange ==
  ASSUME Base
  PROVE  /\ next_order \in 0..MaxOrderId /\ next_order \in Nat
         /\ \A w \in Wire : w <= next_order => w \in 1..next_order
         /\ \A w \in Wire : w \in Nat /\ w # NoWire
  <1>1. /\ next_order \in Nat /\ quoted \in Nat /\ next_order + quoted <= MaxRequests
        /\ MaxRequests \in 0..MaxOrderId /\ MaxOrderId \in Nat
    BY ClientAssumption, WireAssumption DEF Base, ClientType
  <1>2. next_order <= MaxOrderId
    BY <1>1
  <1>3. Wire \subseteq Nat \ {0} /\ NoWire = 0
    BY WireIsNumber
  <1>4. \A w \in Nat \ {0} : w <= next_order => w \in 1..next_order
    BY <1>1
  <1> QED
    BY <1>1, <1>2, <1>3, <1>4

LEMMA OneReply ==
  ASSUME NEW S, NEW r \in S, NEW T, NEW s \in Seq(T)
  PROVE  /\ <<r>> \in Seq(S) /\ Len(<<r>>) = 1 /\ DOMAIN <<r>> = {1} /\ <<r>>[1] = r
         /\ Append(s, r) = s \o <<r>>
  OBVIOUS

\* A step that answers with one message.
LEMMA OneEffect ==
  ASSUME Base, NEW r \in Reply(next_order), out' = Append(out, r),
         r.kind = "logout" => gw' = "closed",
         \A n \in InternalId : orders'[n] # None => Sound(orders'[n]),
         quote' \in Nat, executed' \in Nat, refused \subseteq refused',
         \A w \in Asked(call, inbox) :
           w \in Asked(call', inbox') \/ w \in refused' \/ AnswersTo(r, w),
         \A u \in Known :
           /\ u.seen = executed => Applied(u, r).seen = executed'
           /\ gw' # "closed" /\ Agree(u.views, orders, refused, Asked(call, inbox))
                => Agree(Applied(u, r).views, orders', refused', Asked(call', inbox'))
  PROVE  \E reps : Effect(reps)
  <1> DEFINE reps == <<r>>
  <1>1. out \in Seq(Reply(next_order))
    BY DEF Base, ClientType
  <1>2. /\ reps \in Seq(Reply(next_order)) /\ Len(reps) = 1 /\ DOMAIN reps = {1} /\ reps[1] = r
        /\ out' = out \o reps
    BY <1>1, OneReply
  <1>3. \A u \in Known : Leads(u, reps, Applied(u, r))
    BY CountInRange, LeadsOne
  <1> HIDE DEF reps
  <1>4. Effect(reps)
    BY <1>2, <1>3 DEF Effect
  <1> QED
    BY <1>4

\* The request at the head of the stream is one the client made.
LEMMA ReadsAsking ==
  ASSUME Base, NEW kind \in {"new", "cancel", "replace"}, Reads(kind)
  PROVE  LET m == Head(inbox)
         IN  /\ m \in Asking /\ m.kind = kind /\ Unseen(m, next_order, ids.to_internal)
             /\ inbox # <<>> /\ inbox' = Tail(inbox) /\ gw = "open"
             /\ m.wire \in 1..next_order /\ m.wire \in Wire /\ m.wire \in Nat
             /\ orders[m.wire] = None
             /\ kind # "new" => m.orig \in 1..next_order /\ m.orig \in Wire /\ m.orig # m.wire
  <1> DEFINE m == Head(inbox)
  <1>1. inbox \in Seq(Asking \cup Plain) /\ inbox # <<>> /\ inbox' = Tail(inbox)
        /\ m.kind = kind /\ gw = "open"
    BY DEF Base, ClientType, Reads
  <1>2. m = inbox[1] /\ m \in Asking \cup Plain /\ 1 \in DOMAIN inbox
    BY <1>1, TailAt
  <1> HIDE DEF m
  <1>3. m \in Asking
    BY <1>1, <1>2, PlainFields
  <1>4. Unseen(m, next_order, ids.to_internal)
    BY <1>2, <1>3 DEF Base, Numbers
  <1>5. m.wire \in Wire /\ m.wire <= next_order /\ orders[m.wire] = None
    BY <1>3, <1>4, UsedStraight
  <1>6. m.wire \in 1..next_order /\ m.wire \in Nat /\ next_order \in Nat
    BY <1>5, CountInRange
  <1>7. ASSUME kind # "new"
        PROVE  m.orig \in 1..next_order /\ m.orig \in Wire /\ m.orig # m.wire
    <2>1. m.orig \in Wire /\ m.orig \in Nat /\ m.orig < m.wire
      BY <1>1, <1>3, <1>4, <1>7, AskingFields, CountInRange DEF Unseen
    <2>2. m.orig <= next_order /\ m.orig # m.wire
      BY <1>5, <1>6, <2>1
    <2> QED
      BY <2>1, <2>2, CountInRange
  <1> QED
    BY <1>1, <1>3, <1>4, <1>5, <1>6, <1>7 DEF m

-----------------------------------------------------------------------------
(* Refusals *)

LEMMA RefuseEffect ==
  ASSUME Base, RefuseRequest, UNCHANGED Others
  PROVE  \E reps : Effect(reps)
  <1> DEFINE m == Head(inbox)
             a == Asked(call, inbox)
             a2 == Asked(call', inbox')
  <1>1. PICK kind \in {"new", "replace"} :
          /\ Reads(kind) /\ out' = Append(out, SessionReject)
          /\ refused' = refused \cup {m.wire}
          /\ UNCHANGED <<ids, orders, quote, gw, accepted, executed>>
    BY DEF RefuseRequest
  <1>2. m \in Asking /\ inbox # <<>> /\ inbox' = Tail(inbox) /\ gw = "open" /\ call' = call
    BY <1>1, ReadsAsking DEF Others, initiator
  <1>3. a2 = a \ {m.wire}
    BY <1>2, AskedAfter
  <1>4. SessionReject \in Reply(next_order) /\ SessionReject.kind = "sessionreject"
    BY DEF Reply, SessionReject
  <1>5. \A u : Applied(u, SessionReject) = u
    BY <1>4 DEF Applied
  <1> HIDE DEF a, a2, m
  <1>6. \A u \in Known : Agree(u.views, orders, refused, a) => Agree(u.views, orders', refused', a2)
    BY <1>1, <1>3 DEF Agree, AgreeOn
  <1>7. /\ \A n \in InternalId : orders'[n] # None => Sound(orders'[n])
        /\ quote' \in Nat /\ executed' \in Nat
    BY <1>1 DEF Base, ClientType
  <1> QED
    BY <1>1, <1>3, <1>4, <1>5, <1>6, <1>7, OneEffect DEF a, a2

\* NewOrderSingle when the engine refuses it.
LEMMA RejectEffect ==
  ASSUME Base, Reads("new"), UNCHANGED Others,
         UNCHANGED <<orders, quote, gw, executed, refused>>,
         out' = Append(out, RejectedExec(Head(inbox)))
  PROVE  \E reps : Effect(reps)
  <1> DEFINE m == Head(inbox)
             w == m.wire
             r == RejectedExec(m)
             a == Asked(call, inbox)
             a2 == Asked(call', inbox')
  <1>1. /\ m \in Asking /\ m.kind = "new" /\ inbox # <<>> /\ inbox' = Tail(inbox)
        /\ w \in 1..next_order /\ w \in Wire /\ orders[w] = None /\ call' = call
    BY ReadsAsking DEF Others, initiator
  <1>2. a2 = a \ {w} /\ m.qty \in Nat
    BY <1>1, AskedAfter, AskingFields
  <1>3. r = [kind |-> "reject", wire |-> w, qty |-> m.qty]
    BY DEF RejectedExec
  <1> HIDE DEF a, a2, w, r
  <1>4. r \in Reply(next_order) /\ r.kind = "reject" /\ r.wire = w
    BY <1>1, <1>2, <1>3 DEF Reply
  <1>5. ASSUME NEW u \in Known
        PROVE  /\ Applied(u, r).seen = u.seen
               /\ Agree(u.views, orders, refused, a)
                    => Agree(Applied(u, r).views, orders', refused', a2)
    <2> DEFINE t == Updated(u.views, w, "Rejected", 0, r.qty)
    <2>1. Applied(u, r) = [views |-> t, seen |-> u.seen]
      BY <1>4 DEF Applied
    <2>2. "Rejected" \in OrderState /\ 0 \in Nat /\ r.qty \in Nat /\ u.views \in Table
      BY <1>2, <1>3 DEF OrderState, Known
    <2>3. /\ \A v \in Wire : v # w => t[v] = u.views[v]
          /\ t[w] # None => t[w].state = "Rejected"
      <3>1. \A v \in Wire : v # w => t[v] = u.views[v]
        BY <1>1, <2>2 DEF Updated, Table
      <3>2. t[w] # None => Shows(t[w], "Rejected", 0, r.qty)
        BY <1>1, <2>2, UpdatedTable
      <3> QED
        BY <3>1, <3>2 DEF Shows
    <2> HIDE DEF t
    <2>4. AgreeOn(w, t, orders', refused', a2)
      BY <1>1, <1>2, <2>3, GoneAgrees DEF Working, IsActive
    <2>5. Agree(u.views, orders, refused, a) =>
            \A v \in Wire : v # w => AgreeOn(v, t, orders', refused', a2)
      BY <1>2, <2>3 DEF Agree, AgreeOn
    <2> QED
      BY <2>1, <2>4, <2>5 DEF Agree
  <1>6. /\ \A n \in InternalId : orders'[n] # None => Sound(orders'[n])
        /\ quote' \in Nat /\ executed' \in Nat
    BY DEF Base, ClientType
  <1>7. \A v \in a : v \in a2 \/ AnswersTo(r, v)
    BY <1>2, <1>4 DEF AnswersTo
  <1> QED
    BY <1>4, <1>5, <1>6, <1>7, OneEffect DEF a, a2, r

LEMMA CancelRejectEffect ==
  ASSUME Base, NEW kind \in {"cancel", "replace"}, Reads(kind), UNCHANGED Others,
         RejectCancel(Head(inbox)), UNCHANGED <<quote, gw, refused>>
  PROVE  \E reps : Effect(reps)
  <1> DEFINE m == Head(inbox)
             w == m.wire
             x == m.orig
             o == orders[x]
             state == OnTheWire(IF o = None THEN "Rejected" ELSE o.state)
             r == [kind |-> "cxlrej", wire |-> w, orig |-> x, state |-> state]
             a == Asked(call, inbox)
             a2 == Asked(call', inbox')
  <1>1. /\ m \in Asking /\ inbox # <<>> /\ inbox' = Tail(inbox)
        /\ w \in 1..next_order /\ w \in Wire /\ orders[w] = None /\ call' = call
        /\ x \in 1..next_order /\ x \in Wire /\ x # w
        /\ Unseen(m, next_order, ids.to_internal)
    BY ReadsAsking DEF Others, initiator
  <1>2. a2 = a \ {w}
    BY <1>1, AskedAfter
  <1>3. Original(Used(m), m) = o
    <2>1. Used(m).to_internal[x] = ids.to_internal[x]
      <3>1. Used(m).to_internal = [ids.to_internal EXCEPT ![w] = w]
        BY <1>1, UsedStraight
      <3>2. ids.to_internal \in [Wire -> 0..MaxOrderId]
        BY DEF Base, GatewayInv, WireIdMap
      <3> HIDE DEF w, x
      <3> QED
        BY <1>1, <3>1, <3>2
    <2> QED
      BY <1>1, <2>1, RecordStraight DEF Original
  <1>4. out' = Append(out, r) /\ UNCHANGED <<orders, executed>>
    BY <1>3 DEF RejectCancel, CancelReject
  <1> HIDE DEF a, a2, w, x, m
  <1>5. state \in Shown
    <2>1. o # None => o.state \in OrderState
      BY <1>1, OrdersStraight DEF Sound, Order
    <2> QED
      BY <2>1 DEF OnTheWire, Shown, OrderState
  <1>6. r.kind = "cxlrej" /\ r.wire = w /\ r.orig = x /\ r.state = state
    OBVIOUS
  <1>7. IsActive(state) => Working(o) /\ state = OnTheWire(o.state)
    BY DEF Working, IsActive, OnTheWire
  <1>8. o # None => state = OnTheWire(o.state)
    OBVIOUS
  <1> HIDE DEF state
  <1>9. r \in Reply(next_order)
    BY <1>1, <1>5 DEF Reply
  <1> HIDE DEF r, o
  <1>10. ASSUME NEW u \in Known
         PROVE  /\ Applied(u, r).seen = u.seen
                /\ Agree(u.views, orders, refused, a)
                     => Agree(Applied(u, r).views, orders', refused', a2)
    <2> DEFINE t == CancelRejected(u.views, r)
    <2>1. Applied(u, r) = [views |-> t, seen |-> u.seen]
      BY <1>6 DEF Applied
    <2>2. u.views \in Table /\ r.wire \in Wire /\ r.orig \in Wire /\ r.state \in OrderState
      BY <1>1, <1>5, <1>6 DEF Known, Shown
    <2>3. /\ t[w] = None
          /\ \A v \in Wire : v # w /\ v # x => t[v] = u.views[v]
          /\ t[x] = None <=> u.views[x] = None
          /\ t[x] # None => Shows(t[x], state, u.views[x].remaining, u.views[x].qty)
      BY <1>1, <1>6, <2>2, CancelRejectedTable
    <2> HIDE DEF t
    <2>4. AgreeOn(w, t, orders', refused', a2)
      BY <1>1, <1>2, <1>4, <2>3, GoneAgrees DEF Working
    <2>5. Agree(u.views, orders, refused, a) =>
            \A v \in Wire : v # w /\ v # x => AgreeOn(v, t, orders', refused', a2)
      BY <1>2, <1>4, <2>3 DEF Agree, AgreeOn
    <2>6. Agree(u.views, orders, refused, a) => AgreeOn(x, t, orders', refused', a2)
      <3> HAVE Agree(u.views, orders, refused, a)
      <3>1. AgreeOn(x, u.views, orders, refused, a) /\ orders'[x] = o
        BY <1>1, <1>4 DEF Agree, o
      <3>2. Working(o) => t[x] # None /\ Tells(t[x], o)
        BY <1>8, <2>3, <3>1 DEF AgreeOn, Tells, Shows, Working, o
      <3>3. t[x] # None /\ IsActive(t[x].state) => Working(o)
        BY <1>7, <2>3 DEF Shows
      <3>4. x \in a2 => t[x] # None
        BY <1>2, <2>3, <3>1 DEF AgreeOn
      <3> QED
        BY <3>1, <3>2, <3>3, <3>4 DEF AgreeOn
    <2> QED
      BY <2>1, <2>4, <2>5, <2>6 DEF Agree
  <1>11. /\ \A n \in InternalId : orders'[n] # None => Sound(orders'[n])
         /\ quote' \in Nat /\ executed' \in Nat
    BY <1>4 DEF Base, ClientType
  <1>12. \A v \in a : v \in a2 \/ AnswersTo(r, v)
    BY <1>2, <1>6 DEF AnswersTo
  <1> QED
    BY <1>4, <1>6, <1>9, <1>10, <1>11, <1>12, OneEffect DEF a, a2

-----------------------------------------------------------------------------
(* Reports *)

\* Execution reports that go to w.
ReportTo(n, w) == {m \in Reply(n) : m.kind = "exec" /\ NameOf(m) = w}

LEMMA ReportsEffect ==
  ASSUME Base, NEW w, NEW reps \in Seq(ReportTo(next_order, w)), out' = out \o reps,
         \A n \in InternalId : orders'[n] # None => Sound(orders'[n]),
         quote' \in Nat, executed' \in Nat, refused' = refused,
         \A v \in Asked(call, inbox) : v \in Asked(call', inbox') \/ (v = w /\ reps # <<>>),
         \A u \in Known : \E u2 :
           /\ Leads(u, reps, u2)
           /\ u.seen = executed => u2.seen = executed'
           /\ gw' # "closed" /\ Agree(u.views, orders, refused, Asked(call, inbox))
                => Agree(u2.views, orders', refused', Asked(call', inbox'))
  PROVE  Effect(reps)
  <1>1. /\ reps \in Seq(Reply(next_order))
        /\ \A k \in DOMAIN reps : reps[k].kind = "exec" /\ NameOf(reps[k]) = w
        /\ reps # <<>> => 1 \in DOMAIN reps
    <2>1. ReportTo(next_order, w) \subseteq Reply(next_order)
      BY DEF ReportTo
    <2>2. \A k \in DOMAIN reps : reps[k] \in ReportTo(next_order, w)
      OBVIOUS
    <2>3. reps # <<>> => 1 \in DOMAIN reps
      OBVIOUS
    <2> QED
      BY <2>1, <2>2, <2>3 DEF ReportTo
  <1>2. \A v \in Asked(call, inbox) :
           \/ v \in Asked(call', inbox')
           \/ \E k \in DOMAIN reps : AnswersTo(reps[k], v)
    BY <1>1 DEF AnswersTo
  <1> QED
    BY <1>1, <1>2 DEF Effect

LEMMA FillsGoTo ==
  ASSUME NEW n \in 0..MaxOrderId, NEW w \in 1..n, NEW o \in Order, o.cum <= o.qty,
         o.name = w, NEW fills, Rising(fills, o.qty - o.cum)
  PROVE  /\ FillReports(w, o, fills) \in Seq(ReportTo(n, w))
         /\ fills # <<>> => FillReports(w, o, fills) # <<>>
  <1> DEFINE s == FillReports(w, o, fills)
             u == [views |-> [v \in Wire |-> None], seen |-> 0]
  <1>1. u \in Known
    BY DEF Known, Table
  <1> HIDE DEF u
  <1>2. /\ s \in Seq(Reply(n)) /\ Len(s) = Len(fills)
        /\ \A k \in 1..Len(fills) : s[k].kind = "exec" /\ NameOf(s[k]) = w
    <2>1. s \in Seq(Reply(n))
      BY <1>1, FillsLead
    <2>2. Len(s) = Len(fills)
      BY <1>1, FillsLead
    <2>3. \A k \in 1..Len(fills) : s[k].kind = "exec" /\ NameOf(s[k]) = w
      BY <1>1, FillsLead
    <2> QED
      BY <2>1, <2>2, <2>3
  <1>3. fills \in Seq(1..(o.qty - o.cum))
    BY DEF Rising
  <1> HIDE DEF s
  <1>4. \A k \in 1..Len(s) : s[k] \in ReportTo(n, w)
    BY <1>2 DEF ReportTo
  <1>5. s \in Seq(ReportTo(n, w))
    BY <1>2, <1>4
  <1>6. fills # <<>> => s # <<>>
    BY <1>2, <1>3
  <1> QED
    BY <1>5, <1>6 DEF s

\* The order that a request names, as fresh_id leaves the map.
LEMMA OriginalStraight ==
  ASSUME Base, NEW m \in Asking, Unseen(m, next_order, ids.to_internal),
         m.orig \in Wire, m.orig # m.wire
  PROVE  /\ Original(Used(m), m) = orders[m.orig]
         /\ Original(Intern(ids, m.wire), m) = orders[m.orig]
         /\ orders[m.orig] # None => ids.to_internal[m.orig] = m.orig
  <1> DEFINE w == m.wire
             x == m.orig
  <1>1. /\ w \in Wire /\ Used(m) = Intern(ids, w)
        /\ Used(m).to_internal = [ids.to_internal EXCEPT ![w] = w]
    BY UsedStraight
  <1>2. ids.to_internal \in [Wire -> 0..MaxOrderId]
    BY DEF Base, GatewayInv, WireIdMap
  <1>3. Used(m).to_internal[x] = ids.to_internal[x]
    <2> HIDE DEF w, x
    <2>1. x # w
      BY DEF w, x
    <2> QED
      BY <1>1, <1>2, <2>1
  <1>4. Original(Used(m), m) = orders[x]
    BY <1>3, RecordStraight DEF Original
  <1> QED
    BY <1>1, <1>4, OrdersStraight

\* Nobody asks for an order there is already.
LEMMA RecordNotAsked ==
  ASSUME Base, NEW w \in Wire, orders[w] # None
  PROVE  w \notin Asked(call, inbox)
  <1>1. ids.to_internal[w] # 0
    BY OrdersStraight, WireIsNumber
  <1>2. \A t \in Thread : call[t].step = "send" => call[t].msg.wire # w
    BY <1>1 DEF Base, Numbers, Unseen
  <1>3. \A k \in DOMAIN inbox : Asks(inbox[k], w) => inbox[k] \in Asking
    <2>1. \A k \in DOMAIN inbox : inbox[k] \in Asking \cup Plain
      BY DEF Base, ClientType
    <2> QED
      BY <2>1, PlainFields DEF Asks
  <1>4. \A k \in DOMAIN inbox : ~Asks(inbox[k], w)
    BY <1>1, <1>3 DEF Base, Numbers, Unseen, Asks
  <1> QED
    BY <1>2, <1>4 DEF Asked, Asks

\* CancelRequest when the engine accepts it.
LEMMA CancelEffect ==
  ASSUME Base, CancelRequest, MayCancel(Head(inbox)), UNCHANGED Others
  PROVE  \E reps : Effect(reps)
  <1> DEFINE m == Head(inbox)
             w == m.wire
             x == m.orig
             o == [orders[x] EXCEPT !.state = "Cancelled"]
             r == Answer(w, x, o, 0)
             a == Asked(call, inbox)
             a2 == Asked(call', inbox')
  <1>1. /\ m \in Asking /\ inbox # <<>> /\ inbox' = Tail(inbox)
        /\ w \in 1..next_order /\ w \in Wire /\ orders[w] = None /\ call' = call
        /\ x \in 1..next_order /\ x \in Wire /\ x # w
        /\ Unseen(m, next_order, ids.to_internal)
    BY ReadsAsking DEF CancelRequest, Others, initiator
  <1>2. a2 = a \ {w}
    BY <1>1, AskedAfter
  <1>3. /\ orders[x] # None /\ IsActive(orders[x].state) /\ InternedId(ids, w) = w
        /\ ids.to_internal[x] = x
    BY <1>1, OriginalStraight, UsedStraight DEF MayCancel
  <1>4. /\ orders' = [orders EXCEPT ![x] = o] /\ out' = Append(out, r)
        /\ UNCHANGED <<quote, gw, executed, refused>>
    BY <1>3 DEF CancelRequest, Answer
  <1>5. x \notin a
    BY <1>1, <1>3, RecordNotAsked
  <1>6. Sound(orders[x]) /\ DOMAIN orders = Wire /\ Wire = InternalId
    BY <1>1, <1>3, OrdersStraight, WireIsNumber DEF Base, GatewayInv, OrdersNamed
  <1>7. Sound(o) /\ o.state = "Cancelled"
    BY <1>6 DEF Sound, Order, OrderState, IsActive
  <1> HIDE DEF a, a2, w, x, m, o
  <1>8. next_order \in Nat /\ next_order \in 0..MaxOrderId /\ x \in 0..next_order
    BY <1>1, CountInRange
  <1>9. r \in Reply(next_order) /\ r.kind = "exec" /\ NameOf(r) = w
    <2>1. 0 \in Nat
      OBVIOUS
    <2>2. r \in Reply(next_order)
      BY <1>1, <1>7, <1>8, <2>1, AnswerIsReply
    <2>3. r.kind = "exec"
      BY <1>1, <1>7, <1>8, <2>1, AnswerIsReply
    <2>4. NameOf(r) = w
      BY <1>1, <1>7, <1>8, <2>1, AnswerIsReply
    <2> QED
      BY <2>2, <2>3, <2>4
  <1>10. ASSUME NEW u \in Known
         PROVE  /\ Applied(u, r).seen = u.seen
                /\ Agree(u.views, orders, refused, a)
                     => Agree(Applied(u, r).views, orders', refused', a2)
    <2> DEFINE u2 == Applied(u, r)
    <2>1. Learns(u, u2, w, x, o)
      <3>1. x \in 1..next_order /\ w \in 1..next_order /\ x # w
        BY <1>1
      <3> QED
        BY <3>1, <1>7, <1>8, AnswerLearnt
    <2>2. /\ u2.seen = u.seen
          /\ \A v \in Wire : v # w /\ v # x => u2.views[v] = u.views[v]
          /\ u2.views[x] = None
          /\ u2.views[w] # None => Tells(u2.views[w], o)
      BY <2>1 DEF Learns
    <2> HIDE DEF u2, r
    <2>3. /\ orders'[x] = o /\ orders'[w] = None
          /\ \A v \in Wire : v # x => orders'[v] = orders[v]
      BY <1>1, <1>4, <1>6
    <2>4. AgreeOn(w, u2.views, orders', refused', a2)
      BY <1>2, <1>7, <2>2, <2>3, GoneAgrees DEF Working, Tells, Shows, OnTheWire, IsActive
    <2>5. AgreeOn(x, u2.views, orders', refused', a2)
      BY <1>2, <1>5, <1>7, <2>2, <2>3, GoneAgrees DEF Working, IsActive
    <2>6. Agree(u.views, orders, refused, a) =>
            \A v \in Wire : v # w /\ v # x => AgreeOn(v, u2.views, orders', refused', a2)
      BY <1>2, <1>4, <2>2, <2>3 DEF Agree, AgreeOn
    <2> QED
      BY <2>2, <2>4, <2>5, <2>6 DEF Agree, u2
  <1>11. /\ \A n \in InternalId : orders'[n] # None => Sound(orders'[n])
         /\ quote' \in Nat /\ executed' \in Nat
    BY <1>4, <1>6, <1>7 DEF Base, ClientType
  <1>12. \A v \in a : v \in a2 \/ AnswersTo(r, v)
    BY <1>2, <1>9 DEF AnswersTo
  <1> QED
    BY <1>4, <1>9, <1>10, <1>11, <1>12, OneEffect DEF a, a2

LEMMA Concats ==
  ASSUME NEW S, NEW s \in Seq(S), NEW T, NEW r \in Seq(T), NEW q \in Seq(T)
  PROVE  /\ (s \o r) \o q = s \o (r \o q) /\ r \o q \in Seq(T)
         /\ r # <<>> \/ q # <<>> => r \o q # <<>>
  OBVIOUS

\* NewOrderSingle when the engine accepts it.
LEMMA NewEffect ==
  ASSUME Base, NewOrderSingle, MayCreate(Head(inbox)), UNCHANGED Others
  PROVE  \E reps : Effect(reps)
  <1> DEFINE m == Head(inbox)
             w == m.wire
             o == [contract |-> m.contract, qty |-> m.qty, cum |-> 0,
                   state |-> "New", name |-> w]
             a == Asked(call, inbox)
             a2 == Asked(call', inbox')
  <1>1. /\ m \in Asking /\ m.kind = "new" /\ inbox # <<>> /\ inbox' = Tail(inbox)
        /\ w \in 1..next_order /\ w \in Wire /\ orders[w] = None /\ call' = call
        /\ Unseen(m, next_order, ids.to_internal)
    BY ReadsAsking DEF NewOrderSingle, Others, initiator
  <1>2. a2 = a \ {w} /\ w \in a /\ InternedId(ids, w) = w
    BY <1>1, AskedAfter, UsedStraight
  <1>3. /\ o \in Order /\ o.cum = 0 /\ o.cum <= o.qty /\ o.name = w /\ o.qty = m.qty
        /\ o.qty - o.cum = m.qty
    BY <1>1, AskingFields DEF Order, OrderState
  <1>4. PICK fills \in Fills(m.qty) :
          LET final == Matched(o, m.type, fills)
              status == fills = <<>> \/ final.state = "Cancelled"
          IN  /\ orders' = [orders EXCEPT ![w] = final]
              /\ executed' = executed + Total(fills)
              /\ out' = out \o FillReports(w, o, fills)
                         \o IF status THEN <<Answer(w, NoWire, final, 0)>> ELSE <<>>
    BY <1>2, WireIsNumber DEF NewOrderSingle, Answer
  <1> DEFINE final == Matched(o, m.type, fills)
             status == fills = <<>> \/ final.state = "Cancelled"
             ans == Answer(w, NoWire, final, 0)
             s == FillReports(w, o, fills)
             q == IF status THEN <<ans>> ELSE <<>>
             S == ReportTo(next_order, w)
  <1>5. UNCHANGED <<quote, gw, refused>>
    BY DEF NewOrderSingle
  <1>6. Rising(fills, o.qty - o.cum)
    BY <1>3, FillsRise
  <1> HIDE DEF a, a2, w, m, o
  <1>7. /\ next_order \in Nat /\ next_order \in 0..MaxOrderId /\ NoWire \in 0..next_order
        /\ NoWire # w /\ NoWire \notin Wire /\ DOMAIN orders = Wire
    BY <1>1, CountInRange, WireIsNumber, WireAssumption DEF Base, GatewayInv, OrdersNamed
  <1>8. /\ Sound(final) /\ final.name = w
        /\ final.state # "Cancelled" => final = Traded(o, Total(fills))
    BY <1>3, <1>6, MatchedSound
  <1>9. Total(fills) \in Nat
    <2> DEFINE u == [views |-> [v \in Wire |-> None], seen |-> 0]
    <2>1. u \in Known
      BY DEF Known, Table
    <2> HIDE DEF u
    <2> QED
      BY <1>1, <1>3, <1>6, <2>1, AfterFills
  <1>10. s \in Seq(S) /\ (fills # <<>> => s # <<>>)
    BY <1>1, <1>3, <1>6, <1>7, FillsGoTo
  <1> HIDE DEF final
  <1>11. ans \in S
    <2>1. 0 \in Nat
      OBVIOUS
    <2>2. ans \in Reply(next_order)
      BY <1>1, <1>7, <1>8, <2>1, AnswerIsReply
    <2>3. ans.kind = "exec"
      BY <1>1, <1>7, <1>8, <2>1, AnswerIsReply
    <2>4. NameOf(ans) = w
      BY <1>1, <1>7, <1>8, <2>1, AnswerIsReply
    <2> QED
      BY <2>2, <2>3, <2>4 DEF ReportTo
  <1> HIDE DEF s, ans, S
  <1>12. q \in Seq(S) /\ (status => q # <<>>)
    BY <1>11
  <1>13. \A u1 \in Known : \E u2 \in Known :
           /\ Leads(u1, q, u2) /\ u2.seen = u1.seen
           /\ \A v \in Wire : v # w => u2.views[v] = u1.views[v]
           /\ status /\ u1.views[w] # None => u2.views[w] # None /\ Tells(u2.views[w], final)
           /\ ~status => u2 = u1
    <2> TAKE u1 \in Known
    <2>1. CASE status
      <3> DEFINE u2 == Applied(u1, ans)
      <3>1. /\ u2 \in Known /\ u2.seen = u1.seen + 0
            /\ \A v \in Wire : v # w /\ v # NoWire => u2.views[v] = u1.views[v]
            /\ u1.views[w] # None => u2.views[w] # None
            /\ u2.views[w] # None => Tells(u2.views[w], final)
        <4>1. 0 \in Nat /\ ans = Answer(w, NoWire, final, 0)
          BY DEF ans
        <4>2. u2 \in Known
          BY <1>1, <1>7, <1>8, <4>1, AnswerApplied
        <4>3. u2.seen = u1.seen + 0
          BY <1>1, <1>7, <1>8, <4>1, AnswerApplied
        <4>4. \A v \in Wire : v # w /\ v # NoWire => u2.views[v] = u1.views[v]
          BY <1>1, <1>7, <1>8, <4>1, AnswerApplied
        <4>5. /\ u1.views[w] # None => u2.views[w] # None
              /\ u2.views[w] # None => Tells(u2.views[w], final)
          BY <1>1, <1>7, <1>8, <4>1, AnswerApplied
        <4> QED
          BY <4>2, <4>3, <4>4, <4>5
      <3>2. Leads(u1, <<ans>>, u2)
        BY <1>7, <1>11, LeadsOne DEF S, ReportTo
      <3>3. u2.seen = u1.seen
        BY <3>1 DEF Known
      <3> HIDE DEF u2
      <3> QED
        BY <1>7, <2>1, <3>1, <3>2, <3>3
    <2>2. CASE ~status
      BY <2>2, LeadsHere
    <2> QED
      BY <2>1, <2>2
  <1>14. /\ orders' = [orders EXCEPT ![w] = final]
         /\ executed' = executed + Total(fills) /\ out' = (out \o s) \o q
    BY <1>4 DEF final, s, ans
  <1>15. ~status => fills # <<>> /\ final.state # "Cancelled"
    OBVIOUS
  <1> HIDE DEF q, status
  <1> DEFINE reps == s \o q
  <1>16. reps \in Seq(S) /\ reps # <<>> /\ out' = out \o reps
    <2>1. out \in Seq(Reply(next_order))
      BY DEF Base, ClientType
    <2> QED
      BY <1>10, <1>12, <1>14, <1>15, <2>1, Concats
  <1>17. ASSUME NEW u \in Known
         PROVE  \E u2 :
                  /\ Leads(u, reps, u2)
                  /\ u.seen = executed => u2.seen = executed'
                  /\ Agree(u.views, orders, refused, a)
                       => Agree(u2.views, orders', refused', a2)
    <2>1. PICK u1 \in Known :
            /\ Leads(u, s, u1) /\ u1.seen = u.seen + Total(fills)
            /\ \A v \in Wire : v # w => u1.views[v] = u.views[v]
            /\ u1.views[w] = None <=> u.views[w] = None
            /\ fills # <<>> /\ u1.views[w] # None => Tells(u1.views[w], Traded(o, Total(fills)))
      BY <1>1, <1>3, <1>6, <1>7, FillsTell DEF s
    <2>2. PICK u2 \in Known :
            /\ Leads(u1, q, u2) /\ u2.seen = u1.seen
            /\ \A v \in Wire : v # w => u2.views[v] = u1.views[v]
            /\ status /\ u1.views[w] # None => u2.views[w] # None /\ Tells(u2.views[w], final)
            /\ ~status => u2 = u1
      BY <1>13
    <2>3. Leads(u, reps, u2)
      BY <1>10, <1>12, <2>1, <2>2, LeadsThrough
    <2>4. u.seen = executed => u2.seen = executed'
      BY <1>14, <2>1, <2>2
    <2>5. ASSUME Agree(u.views, orders, refused, a)
          PROVE  Agree(u2.views, orders', refused', a2)
      <3>1. u.views[w] # None
        BY <1>1, <1>2, <2>5 DEF Agree, AgreeOn
      <3>2. u2.views[w] # None /\ Tells(u2.views[w], final)
        BY <1>8, <1>15, <2>1, <2>2, <3>1
      <3>3. orders'[w] = final /\ \A v \in Wire : v # w => orders'[v] = orders[v]
        BY <1>1, <1>7, <1>14
      <3>4. AgreeOn(w, u2.views, orders', refused', a2)
        BY <1>8, <3>2, <3>3, ToldAgrees
      <3>5. \A v \in Wire : v # w => u2.views[v] = u.views[v]
        BY <2>1, <2>2
      <3>6. \A v \in Wire : v # w => AgreeOn(v, u2.views, orders', refused', a2)
        BY <1>2, <1>5, <2>5, <3>3, <3>5 DEF Agree, AgreeOn
      <3> QED
        BY <3>4, <3>6 DEF Agree
    <2> QED
      BY <2>3, <2>4, <2>5
  <1>18. /\ \A n \in InternalId : orders'[n] # None => Sound(orders'[n])
         /\ quote' \in Nat /\ executed' \in Nat
    <2>1. executed \in Nat /\ quote \in Nat /\ Wire = InternalId
      BY WireIsNumber DEF Base, ClientType
    <2>2. executed' \in Nat /\ quote' \in Nat
      BY <1>5, <1>9, <1>14, <2>1
    <2>3. \A n \in InternalId : orders'[n] # None => Sound(orders'[n])
      BY <1>1, <1>7, <1>8, <1>14, <2>1 DEF Base, ClientType
    <2> QED
      BY <2>2, <2>3
  <1> HIDE DEF reps
  <1>19. \A v \in a : v \in a2 \/ (v = w /\ reps # <<>>)
    BY <1>2, <1>16
  <1>20. \A v \in Asked(call, inbox) : v \in Asked(call', inbox') \/ (v = w /\ reps # <<>>)
    BY <1>19 DEF a, a2
  <1>21. \A u \in Known : \E u2 :
           /\ Leads(u, reps, u2)
           /\ u.seen = executed => u2.seen = executed'
           /\ gw' # "closed" /\ Agree(u.views, orders, refused, Asked(call, inbox))
                => Agree(u2.views, orders', refused', Asked(call', inbox'))
    BY <1>17 DEF a, a2
  <1>22. reps \in Seq(ReportTo(next_order, w))
    BY <1>16 DEF S
  <1>23. Effect(reps)
    BY <1>5, <1>16, <1>18, <1>20, <1>21, <1>22, ReportsEffect
  <1> QED
    BY <1>23

LEMMA TradedNothing ==
  ASSUME NEW b \in Order
  PROVE  Traded(Traded(b, 0), 0) = Traded(b, 0)
  <1> DEFINE c == b.cum + 0
             s == IF c = b.qty THEN "Filled" ELSE IF c > 0 THEN "PartialFill" ELSE "Booked"
             x == [b EXCEPT !.cum = c, !.state = s]
  <1>1. Traded(b, 0) = x
    BY DEF Traded
  <1>2. c = b.cum /\ c + 0 = c
    BY DEF Order
  <1> HIDE DEF c
  <1>3. x.cum = c /\ x.qty = b.qty /\ [x EXCEPT !.cum = c, !.state = s] = x
    BY DEF Order
  <1>4. Traded(x, 0) = [x EXCEPT !.cum = c, !.state = s]
    <2>1. x.cum + 0 = c
      BY <1>2, <1>3
    <2> QED
      BY <1>3, <2>1 DEF Traded
  <1> QED
    BY <1>1, <1>3, <1>4

\* The record a replacement starts from.
LEMMA ReplacedSound ==
  ASSUME NEW p \in Order, NEW qty \in Nat, p.cum <= qty, NEW w \in Wire
  PROVE  LET o == Traded([p EXCEPT !.qty = qty, !.name = w], 0)
         IN  /\ o \in Order /\ Sound(o) /\ o.name = w /\ o.cum <= o.qty
             /\ Traded(o, 0) = o
             /\ o.state = "Filled" => o.qty - o.cum = 0
  <1> DEFINE b == [p EXCEPT !.qty = qty, !.name = w]
  <1>1. /\ b \in Order /\ b.qty = qty /\ b.cum = p.cum /\ b.name = w
        /\ p.cum \in Nat /\ b.cum + 0 = b.cum
    <2>1. p.cum \in Nat /\ b \in Order
      BY DEF Order
    <2>2. b.qty = qty /\ b.cum = p.cum /\ b.name = w
      BY DEF Order
    <2> HIDE DEF b
    <2> QED
      BY <2>1, <2>2
  <1> HIDE DEF b
  <1>2. 0 \in Nat /\ b.cum + 0 <= b.qty
    BY <1>1
  <1> DEFINE o == Traded(b, 0)
  <1>3. /\ Sound(o) /\ o.qty = qty /\ o.cum = p.cum /\ o.name = w
        /\ o.state = "Filled" <=> p.cum = qty
    <2>1. /\ Sound(o) /\ o.qty = b.qty /\ o.cum = b.cum + 0 /\ o.name = b.name
          /\ o.state = "Filled" <=> b.cum + 0 = b.qty
      BY <1>1, <1>2, TradedSound
    <2> QED
      BY <1>1, <2>1
  <1>4. Traded(o, 0) = o
    BY <1>1, TradedNothing
  <1> HIDE DEF o
  <1>5. o \in Order /\ o.cum <= o.qty /\ (o.state = "Filled" => o.qty - o.cum = 0)
    BY <1>1, <1>3 DEF Sound
  <1> QED
    BY <1>3, <1>4, <1>5 DEF o, b

\* CancelReplace when the engine accepts it.
LEMMA ReplaceEffect ==
  ASSUME Base, CancelReplace, MayReplace(Head(inbox)), UNCHANGED Others
  PROVE  \E reps : Effect(reps)
  <1> DEFINE m == Head(inbox)
             w == m.wire
             x == m.orig
             o == Traded([orders[x] EXCEPT !.qty = m.qty, !.name = w], 0)
             a == Asked(call, inbox)
             a2 == Asked(call', inbox')
  <1>1. /\ m \in Asking /\ m.kind = "replace" /\ inbox # <<>> /\ inbox' = Tail(inbox)
        /\ w \in 1..next_order /\ w \in Wire /\ orders[w] = None /\ call' = call
        /\ x \in 1..next_order /\ x \in Wire /\ x # w
        /\ Unseen(m, next_order, ids.to_internal)
    BY ReadsAsking DEF CancelReplace, Others, initiator
  <1>2. a2 = a \ {w} /\ w \in a /\ InternedId(ids, w) = w /\ m.qty \in Nat /\ m.type = "Limit"
    BY <1>1, AskedAfter, UsedStraight, AskingFields
  <1>3. /\ orders[x] # None /\ ids.to_internal[x] = x /\ m.qty >= orders[x].cum
    BY <1>1, OriginalStraight DEF MayReplace, MayCancel
  <1>4. PICK fills \in Fills(o.qty - o.cum) :
          LET final == IF o.state = "Filled" THEN o ELSE Matched(o, m.type, fills)
          IN  /\ orders' = [orders EXCEPT ![x] = None, ![w] = final]
              /\ executed' = executed + Total(fills)
              /\ out' = Append(out, Answer(w, x, o, 0)) \o FillReports(w, o, fills)
    BY <1>2, <1>3 DEF CancelReplace, Answer
  <1>5. UNCHANGED <<quote, gw, refused>>
    BY DEF CancelReplace
  <1>6. x \notin a
    BY <1>1, <1>3, RecordNotAsked
  <1>7. Sound(orders[x]) /\ DOMAIN orders = Wire /\ Wire = InternalId
    BY <1>1, <1>3, OrdersStraight, WireIsNumber DEF Base, GatewayInv, OrdersNamed
  <1>8. /\ o \in Order /\ Sound(o) /\ o.name = w /\ o.cum <= o.qty
        /\ Traded(o, 0) = o
        /\ o.state = "Filled" => o.qty - o.cum = 0
    <2>1. orders[x] \in Order /\ orders[x].cum <= m.qty
      BY <1>2, <1>3, <1>7 DEF Sound, Order
    <2> QED
      BY <1>1, <1>2, <2>1, ReplacedSound
  <1> DEFINE final == IF o.state = "Filled" THEN o ELSE Matched(o, m.type, fills)
             ans == Answer(w, x, o, 0)
             s == FillReports(w, o, fills)
             S == ReportTo(next_order, w)
  <1> HIDE DEF a, a2, w, x, m, o
  <1>9. Rising(fills, o.qty - o.cum)
    BY FillsRise
  <1>10. /\ next_order \in Nat /\ next_order \in 0..MaxOrderId /\ x \in 0..next_order
    BY <1>1, CountInRange
  <1>11. /\ Sound(final)
         /\ fills # <<>> => final = Traded(o, Total(fills))
         /\ fills = <<>> => final = o
    <2>1. CASE o.state = "Filled"
      <3>1. fills = <<>>
        <4>1. Rising(fills, 0) /\ 0 \in Nat
          BY <1>8, <1>9, <2>1
        <4>2. /\ \A k \in 1..Len(fills) : fills[k] \in 1..0
              /\ fills # <<>> => Len(fills) \in 1..Len(fills)
          BY <4>1, RisingFacts
        <4> QED
          BY <4>2
      <3> QED
        BY <1>8, <2>1, <3>1
    <2>2. CASE o.state # "Filled"
      <3>1. Sound(final) /\ final = Traded(o, Total(fills))
        BY <1>2, <1>8, <1>9, <2>2, MatchedSound
      <3>2. fills = <<>> => Total(fills) = 0
        BY DEF Total
      <3> HIDE DEF final
      <3> QED
        BY <1>8, <3>1, <3>2
    <2> QED
      BY <2>1, <2>2
  <1>12. Total(fills) \in Nat
    <2> DEFINE u == [views |-> [v \in Wire |-> None], seen |-> 0]
    <2>1. u \in Known
      BY DEF Known, Table
    <2> HIDE DEF u
    <2> QED
      BY <1>1, <1>8, <1>9, <2>1, AfterFills
  <1>13. s \in Seq(S)
    BY <1>1, <1>8, <1>9, <1>10, FillsGoTo
  <1> HIDE DEF final
  <1>14. ans \in S
    <2>1. 0 \in Nat
      OBVIOUS
    <2>2. ans \in Reply(next_order)
      BY <1>1, <1>8, <1>10, <2>1, AnswerIsReply
    <2>3. ans.kind = "exec"
      BY <1>1, <1>8, <1>10, <2>1, AnswerIsReply
    <2>4. NameOf(ans) = w
      BY <1>1, <1>8, <1>10, <2>1, AnswerIsReply
    <2> QED
      BY <2>2, <2>3, <2>4 DEF ReportTo
  <1>15. /\ orders' = [orders EXCEPT ![x] = None, ![w] = final]
         /\ executed' = executed + Total(fills) /\ out' = Append(out, ans) \o s
    BY <1>4 DEF final
  <1> HIDE DEF s, ans, S
  <1> DEFINE reps == <<ans>> \o s
  <1>16. reps \in Seq(S) /\ reps # <<>> /\ out' = out \o reps /\ <<ans>> \in Seq(S)
    <2>1. out \in Seq(Reply(next_order))
      BY DEF Base, ClientType
    <2>2. <<ans>> \in Seq(S) /\ <<ans>> # <<>> /\ Append(out, ans) = out \o <<ans>>
      BY <1>14, <2>1
    <2> QED
      BY <1>13, <1>15, <2>1, <2>2, Concats
  <1>17. ASSUME NEW u \in Known
         PROVE  \E u2 :
                  /\ Leads(u, reps, u2)
                  /\ u.seen = executed => u2.seen = executed'
                  /\ Agree(u.views, orders, refused, a)
                       => Agree(u2.views, orders', refused', a2)
    <2> DEFINE u1 == Applied(u, ans)
    <2>1. Leads(u, <<ans>>, u1)
      BY <1>10, <1>14, LeadsOne DEF S, ReportTo
    <2>2. /\ u1 \in Known /\ u1.seen = u.seen
          /\ \A v \in Wire : v # w /\ v # x => u1.views[v] = u.views[v]
          /\ u1.views[x] = None
          /\ u.views[w] # None => u1.views[w] # None
          /\ u1.views[w] # None => Tells(u1.views[w], o)
      <3>1. w \in 1..next_order /\ x \in 1..next_order /\ x # w
        BY <1>1
      <3>2. Learns(u, Applied(u, Answer(w, x, o, 0)), w, x, o)
        BY <3>1, <1>8, <1>10, AnswerLearnt
      <3> QED
        BY <3>2 DEF Learns, ans
    <2> HIDE DEF u1
    <2>3. PICK u2 \in Known :
            /\ Leads(u1, s, u2) /\ u2.seen = u1.seen + Total(fills)
            /\ \A v \in Wire : v # w => u2.views[v] = u1.views[v]
            /\ u2.views[w] = None <=> u1.views[w] = None
            /\ fills # <<>> /\ u2.views[w] # None => Tells(u2.views[w], Traded(o, Total(fills)))
            /\ fills = <<>> => u2 = u1
      BY <1>1, <1>8, <1>9, <1>10, <2>2, FillsTell DEF s
    <2>4. Leads(u, reps, u2)
      BY <1>13, <1>16, <2>1, <2>3, LeadsThrough
    <2>5. u.seen = executed => u2.seen = executed'
      BY <1>15, <2>2, <2>3
    <2>6. ASSUME Agree(u.views, orders, refused, a)
          PROVE  Agree(u2.views, orders', refused', a2)
      <3>1. u.views[w] # None
        BY <1>1, <1>2, <2>6 DEF Agree, AgreeOn
      <3>2. u2.views[w] # None /\ Tells(u2.views[w], final)
        BY <1>11, <2>2, <2>3, <3>1
      <3>3. /\ orders'[w] = final /\ orders'[x] = None
            /\ \A v \in Wire : v # w /\ v # x => orders'[v] = orders[v]
        BY <1>1, <1>7, <1>15
      <3>4. AgreeOn(w, u2.views, orders', refused', a2)
        BY <1>11, <3>2, <3>3, ToldAgrees
      <3>5. /\ u2.views[x] = None
            /\ \A v \in Wire : v # w /\ v # x => u2.views[v] = u.views[v]
        BY <1>1, <2>2, <2>3
      <3>6. AgreeOn(x, u2.views, orders', refused', a2)
        BY <1>2, <1>6, <3>3, <3>5, GoneAgrees DEF Working
      <3>7. \A v \in Wire : v # w /\ v # x => AgreeOn(v, u2.views, orders', refused', a2)
        BY <1>2, <1>5, <2>6, <3>3, <3>5 DEF Agree, AgreeOn
      <3> QED
        BY <3>4, <3>6, <3>7 DEF Agree
    <2> QED
      BY <2>4, <2>5, <2>6
  <1>18. /\ \A n \in InternalId : orders'[n] # None => Sound(orders'[n])
         /\ quote' \in Nat /\ executed' \in Nat
    <2>1. executed \in Nat /\ quote \in Nat
      BY DEF Base, ClientType
    <2>2. executed' \in Nat /\ quote' \in Nat
      BY <1>5, <1>12, <1>15, <2>1
    <2>3. \A n \in InternalId : orders'[n] # None => Sound(orders'[n])
      BY <1>1, <1>7, <1>11, <1>15 DEF Base, ClientType
    <2> QED
      BY <2>2, <2>3
  <1> HIDE DEF reps
  <1>19. \A v \in Asked(call, inbox) : v \in Asked(call', inbox') \/ (v = w /\ reps # <<>>)
    BY <1>2, <1>16 DEF a, a2
  <1>20. \A u \in Known : \E u2 :
           /\ Leads(u, reps, u2)
           /\ u.seen = executed => u2.seen = executed'
           /\ gw' # "closed" /\ Agree(u.views, orders, refused, Asked(call, inbox))
                => Agree(u2.views, orders', refused', Asked(call', inbox'))
    BY <1>17 DEF a, a2
  <1>21. reps \in Seq(ReportTo(next_order, w))
    BY <1>16 DEF S
  <1>22. out' = out \o reps
    BY <1>16
  <1>23. Effect(reps)
    BY <1>5, <1>18, <1>19, <1>20, <1>21, <1>22, ReportsEffect
  <1> QED
    BY <1>23

\* send_fill, for an order of this session that is resting.
LEMMA FillEffect ==
  ASSUME Base, NEW n \in InternalId, Fill(n), UNCHANGED Others
  PROVE  \E reps : Effect(reps)
  <1> DEFINE o == orders[n]
             y == Traded(o, 1)
             s == FillReports(n, o, <<1>>)
             a == Asked(call, inbox)
  <1>1. /\ o # None /\ IsActive(o.state) /\ gw = "open"
        /\ orders' = [orders EXCEPT ![n] = y] /\ out' = out \o s
        /\ executed' = executed + 1
        /\ UNCHANGED <<quote, gw, refused, inbox, call>>
    BY DEF Fill, Others, initiator
  <1>2. n \in Wire /\ Wire = InternalId /\ DOMAIN orders = Wire
    BY WireIsNumber DEF Base, GatewayInv, OrdersNamed
  <1>3. Sound(o) /\ o.name = n /\ n \in 1..next_order
    BY <1>1, <1>2, OrdersStraight, CountInRange
  <1>4. next_order \in 0..MaxOrderId
    BY CountInRange
  <1> HIDE DEF o
  <1>5. o \in Order /\ o.qty \in Nat /\ o.cum \in Nat /\ o.cum <= o.qty /\ o.cum < o.qty
    BY <1>1, <1>3 DEF Sound, Order
  <1>6. 1 \in 1..(o.qty - o.cum)
    BY <1>5
  <1>7. Rising(<<1>>, o.qty - o.cum) /\ Total(<<1>>) = 1 /\ <<1>> # <<>>
    BY <1>6 DEF Rising, Total
  <1>8. s \in Seq(ReportTo(next_order, n)) /\ Sound(y)
    <2>1. s \in Seq(ReportTo(next_order, n))
      BY <1>3, <1>4, <1>5, <1>7, FillsGoTo
    <2>2. 1 \in Nat /\ o.cum + 1 <= o.qty
      BY <1>5
    <2>3. Sound(y)
      BY <1>5, <2>2, TradedSound
    <2> QED
      BY <2>1, <2>3
  <1> HIDE DEF s, y
  <1>9. ASSUME NEW u \in Known
        PROVE  \E u2 :
                 /\ Leads(u, s, u2)
                 /\ u.seen = executed => u2.seen = executed'
                 /\ Agree(u.views, orders, refused, a) => Agree(u2.views, orders', refused', a)
    <2>1. PICK u2 \in Known :
            /\ Leads(u, s, u2) /\ u2.seen = u.seen + 1
            /\ \A v \in Wire : v # n => u2.views[v] = u.views[v]
            /\ u2.views[n] = None <=> u.views[n] = None
            /\ u2.views[n] # None => Tells(u2.views[n], y)
      <3> DEFINE fills == <<1>>
      <3>1. s = FillReports(n, o, fills) /\ y = Traded(o, Total(fills))
        BY <1>7 DEF s, y
      <3>2. Rising(fills, o.qty - o.cum) /\ Total(fills) = 1 /\ fills # <<>>
        BY <1>7
      <3> HIDE DEF fills
      <3>3. PICK u2 \in Known :
              /\ Leads(u, FillReports(n, o, fills), u2) /\ u2.seen = u.seen + Total(fills)
              /\ \A v \in Wire : v # n => u2.views[v] = u.views[v]
              /\ u2.views[n] = None <=> u.views[n] = None
              /\ fills # <<>> /\ u2.views[n] # None
                   => Tells(u2.views[n], Traded(o, Total(fills)))
        BY <1>3, <1>4, <1>5, <3>2, FillsTell
      <3> QED
        BY <3>1, <3>2, <3>3
    <2>2. ASSUME Agree(u.views, orders, refused, a)
          PROVE  Agree(u2.views, orders', refused', a)
      <3>1. u.views[n] # None
        BY <1>1, <1>2, <2>2 DEF Agree, AgreeOn, Working, o
      <3>2. orders'[n] = y /\ \A v \in Wire : v # n => orders'[v] = orders[v]
        BY <1>1, <1>2
      <3>3. AgreeOn(n, u2.views, orders', refused', a)
        BY <1>8, <2>1, <3>1, <3>2, ToldAgrees
      <3>4. \A v \in Wire : v # n => AgreeOn(v, u2.views, orders', refused', a)
        BY <1>1, <2>1, <2>2, <3>2 DEF Agree, AgreeOn
      <3> QED
        BY <3>3, <3>4 DEF Agree
    <2> QED
      BY <1>1, <2>1, <2>2
  <1>10. /\ \A k \in InternalId : orders'[k] # None => Sound(orders'[k])
         /\ quote' \in Nat /\ executed' \in Nat
    <2>1. executed \in Nat /\ quote \in Nat
      BY DEF Base, ClientType
    <2>2. executed' \in Nat /\ quote' \in Nat
      BY <1>1, <2>1
    <2>3. \A k \in InternalId : orders'[k] # None => Sound(orders'[k])
      BY <1>1, <1>2, <1>8 DEF Base, ClientType
    <2> QED
      BY <2>2, <2>3
  <1>11. a = Asked(call', inbox')
    BY <1>1
  <1>12. \A u \in Known : \E u2 :
           /\ Leads(u, s, u2)
           /\ u.seen = executed => u2.seen = executed'
           /\ gw' # "closed" /\ Agree(u.views, orders, refused, Asked(call, inbox))
                => Agree(u2.views, orders', refused', Asked(call', inbox'))
    BY <1>9, <1>11
  <1> HIDE DEF a
  <1>13. \A v \in Asked(call, inbox) : v \in Asked(call', inbox') \/ (v = n /\ s # <<>>)
    BY <1>11 DEF a
  <1>14. out' = out \o s
    BY <1>1
  <1>15. refused' = refused
    BY <1>1
  <1>16. s \in Seq(ReportTo(next_order, n))
    BY <1>8
  <1>17. Effect(s)
    BY <1>10, <1>12, <1>13, <1>14, <1>15, <1>16, ReportsEffect
  <1> QED
    BY <1>17

\* expire_day_orders, for one.
LEMMA ExpireEffect ==
  ASSUME Base, NEW n \in InternalId, Expire(n), UNCHANGED Others
  PROVE  \E reps : Effect(reps)
  <1> DEFINE o == [orders[n] EXCEPT !.state = "Expired"]
             r == Answer(n, NoWire, o, 0)
             a == Asked(call, inbox)
             a2 == Asked(call', inbox')
  <1>1. n \in Wire /\ Wire = InternalId /\ DOMAIN orders = Wire /\ NoWire = 0
    BY WireIsNumber DEF Base, GatewayInv, OrdersNamed
  <1>2. Sound(orders[n]) /\ orders[n].name = n /\ n \in 1..next_order
    BY <1>1, OrdersStraight, CountInRange DEF Expire
  <1>3. Sound(o) /\ o.state = "Expired" /\ o.name = n
    BY <1>2 DEF Sound, Order, OrderState, IsActive
  <1>4. /\ orders' = [orders EXCEPT ![n] = o] /\ out' = Append(out, r)
        /\ UNCHANGED <<quote, gw, refused, executed, inbox, call>>
    BY <1>1, <1>3 DEF Expire, Others, initiator, Answer
  <1>5. a2 = a
    BY <1>4
  <1> HIDE DEF a, a2, o
  <1>6. /\ next_order \in Nat /\ next_order \in 0..MaxOrderId
        /\ NoWire \in 0..next_order /\ NoWire # n /\ NoWire \notin Wire
    BY <1>1, <1>2, CountInRange, WireAssumption
  <1>7. r \in Reply(next_order) /\ r.kind = "exec"
    <2>1. 0 \in Nat
      OBVIOUS
    <2>2. r \in Reply(next_order)
      BY <1>2, <1>3, <1>6, <2>1, AnswerIsReply
    <2>3. r.kind = "exec"
      BY <1>2, <1>3, <1>6, <2>1, AnswerIsReply
    <2> QED
      BY <2>2, <2>3
  <1>8. ASSUME NEW u \in Known
        PROVE  /\ Applied(u, r).seen = u.seen
               /\ Agree(u.views, orders, refused, a)
                    => Agree(Applied(u, r).views, orders', refused', a2)
    <2> DEFINE u2 == Applied(u, r)
    <2>1. 0 \in Nat
      OBVIOUS
    <2>2. u2.seen = u.seen
      <3>1. u2.seen = u.seen + 0
        BY <1>2, <1>3, <1>6, <2>1, AnswerApplied
      <3> QED
        BY <3>1 DEF Known
    <2>3. \A v \in Wire : v # n => u2.views[v] = u.views[v]
      <3>1. \A v \in Wire : v # n /\ v # NoWire => u2.views[v] = u.views[v]
        BY <1>2, <1>3, <1>6, <2>1, AnswerApplied
      <3> QED
        BY <1>6, <3>1
    <2>4. /\ u.views[n] # None => u2.views[n] # None
          /\ u2.views[n] # None => Tells(u2.views[n], o)
      BY <1>2, <1>3, <1>6, <2>1, AnswerApplied
    <2> HIDE DEF u2, r
    <2>5. orders'[n] = o /\ \A v \in Wire : v # n => orders'[v] = orders[v]
      BY <1>1, <1>4
    <2>6. Agree(u.views, orders, refused, a) => AgreeOn(n, u2.views, orders', refused', a2)
      <3>1. ~Working(orders'[n]) /\ (u2.views[n] # None => ~IsActive(u2.views[n].state))
        BY <1>3, <2>4, <2>5 DEF Working, Tells, Shows, OnTheWire, IsActive
      <3> QED
        BY <1>1, <1>5, <2>4, <3>1, GoneAgrees DEF Agree, AgreeOn
    <2>7. Agree(u.views, orders, refused, a) =>
            \A v \in Wire : v # n => AgreeOn(v, u2.views, orders', refused', a2)
      BY <1>4, <1>5, <2>3, <2>5 DEF Agree, AgreeOn
    <2> QED
      BY <2>2, <2>6, <2>7 DEF Agree, u2
  <1>9. /\ \A k \in InternalId : orders'[k] # None => Sound(orders'[k])
        /\ quote' \in Nat /\ executed' \in Nat
    BY <1>1, <1>3, <1>4 DEF Base, ClientType
  <1>10. \A v \in a : v \in a2
    BY <1>5
  <1> QED
    BY <1>4, <1>7, <1>8, <1>9, <1>10, OneEffect DEF a, a2

-----------------------------------------------------------------------------
(* Quotes, and the two ends of the session *)

\* A quote fill adds to what the client traded, and touches no view.
LEMMA QuoteFillReply ==
  ASSUME NEW n \in Nat, NEW f \in Nat
  PROVE  /\ QuoteFill(f) \in Reply(n) /\ QuoteFill(f).kind = "exec"
         /\ \A u : Applied(u, QuoteFill(f)) = [views |-> u.views, seen |-> u.seen + f]
  <1> DEFINE r == QuoteFill(f)
             names == [wire |-> NoWire, orig |-> NoWire]
  <1>1. names \in [wire : 0..n, orig : 0..n]
    BY WireIsNumber
  <1>2. r = [kind |-> "exec", id |-> 0, orig |-> 0, state |-> "PartialFill",
             leaves |-> 0, qty |-> f, last |-> f, names |-> names]
    BY DEF QuoteFill
  <1>3. "PartialFill" \in Shown /\ 0 \in Nat
    BY DEF Shown, OrderState
  <1> HIDE DEF names, r
  <1>4. r \in Reply(n)
    BY <1>1, <1>2, <1>3 DEF Reply
  <1>5. r.kind = "exec" /\ r.id = 0 /\ r.last = f
    BY <1>2
  <1>6. \A u : Applied(u, r) = [views |-> u.views, seen |-> u.seen + f]
    BY <1>5 DEF Applied, NameOf, Reported
  <1> QED
    BY <1>4, <1>5, <1>6 DEF r

\* What is not about orders.
LEMMA SideEffect ==
  ASSUME Base, NEW f \in Nat,
         UNCHANGED <<orders, refused, call>>, Asked(call', inbox') = Asked(call, inbox),
         quote' \in Nat, executed' = executed + f, out' = Append(out, QuoteFill(f))
  PROVE  \E reps : Effect(reps)
  <1> DEFINE r == QuoteFill(f)
             a == Asked(call, inbox)
             a2 == Asked(call', inbox')
  <1>1. next_order \in Nat /\ executed \in Nat
    BY CountInRange DEF Base, ClientType
  <1>2. /\ r \in Reply(next_order) /\ r.kind = "exec"
        /\ \A u : Applied(u, r) = [views |-> u.views, seen |-> u.seen + f]
    BY <1>1, QuoteFillReply
  <1> HIDE DEF r
  <1>3. \A u \in Known :
          /\ u.seen = executed => Applied(u, r).seen = executed'
          /\ Applied(u, r).views = u.views
    BY <1>2
  <1>4. /\ \A k \in InternalId : orders'[k] # None => Sound(orders'[k])
        /\ executed' \in Nat
    BY <1>1 DEF Base, ClientType
  <1>5. a2 = a
    OBVIOUS
  <1> HIDE DEF a, a2
  <1>6. \A u \in Known :
          /\ u.seen = executed => Applied(u, r).seen = executed'
          /\ gw' # "closed" /\ Agree(u.views, orders, refused, a)
               => Agree(Applied(u, r).views, orders', refused', a2)
    BY <1>3, <1>5
  <1> QED
    BY <1>2, <1>4, <1>5, <1>6, OneEffect DEF a, a2, r

\* Nothing is sent, and nothing changes that a view is about.
LEMMA SilentEffect ==
  ASSUME Base, out' = out, refused' = refused, executed' = executed, quote' \in Nat,
         Asked(call', inbox') = Asked(call, inbox),
         orders' = orders \/ gw' = "closed",
         \A n \in InternalId : orders'[n] # None => Sound(orders'[n])
  PROVE  \E reps : Effect(reps)
  <1>1. <<>> \in Seq(Reply(next_order)) /\ DOMAIN <<>> = {} /\ out' = out \o <<>>
    BY DEF Base, ClientType
  <1>2. executed' \in Nat
    BY DEF Base, ClientType
  <1>3. \A u \in Known : Leads(u, <<>>, u)
    BY LeadsHere
  <1>4. Effect(<<>>)
    BY <1>1, <1>2, <1>3 DEF Effect
  <1> QED
    BY <1>4

LEMMA ReadsPlain ==
  ASSUME Base, NEW kind \in {"quote", "logon", "logout"},
         inbox # <<>>, Head(inbox).kind = kind, inbox' = Tail(inbox), call' = call
  PROVE  Head(inbox) \in Plain /\ Asked(call', inbox') = Asked(call, inbox)
  <1> DEFINE m == Head(inbox)
  <1>1. m \in Asking \cup Plain
    BY TailAt DEF Base, ClientType
  <1> HIDE DEF m
  <1>2. m \in Plain
    BY <1>1, AskingFields DEF m
  <1> QED
    BY <1>2, AskedAfter DEF m

LEMMA QuoteEffect ==
  ASSUME Base, MassQuote, UNCHANGED Others
  PROVE  \E reps : Effect(reps)
  <1> DEFINE m == Head(inbox)
             ok == m.contract \in Listed /\ m.qty > 0
  <1>1. /\ inbox # <<>> /\ m.kind = "quote" /\ inbox' = Tail(inbox) /\ call' = call
    BY DEF MassQuote, Reads, Others, initiator
  <1>2. m \in Plain /\ Asked(call', inbox') = Asked(call, inbox)
    BY <1>1, ReadsPlain
  <1>3. m.level = 0 /\ m.qty \in Nat
    BY <1>1, <1>2, PlainFields
  <1>4. UNCHANGED <<ids, orders, gw, accepted, refused>>
    BY DEF MassQuote
  <1>5. PICK f \in IF ok THEN 0..m.qty ELSE {0} :
          /\ quote' = IF ok THEN m.qty - f ELSE quote
          /\ executed' = executed + f
          /\ out' = out \o (IF f > 0 THEN <<QuoteFill(f)>> ELSE <<>>)
                        \o (IF m.level = 2 \/ (m.level = 1 /\ ~ok)
                            THEN <<[kind |-> "ack", ok |-> ok]>> ELSE <<>>)
    BY DEF MassQuote
  <1> HIDE DEF m
  <1>6. f \in Nat /\ quote' \in Nat /\ executed \in Nat
    BY <1>3, <1>5 DEF Base, ClientType
  <1>7. out \in Seq(Reply(next_order))
    BY DEF Base, ClientType
  <1>8. CASE f > 0
    <2> DEFINE r == QuoteFill(f)
    <2>1. out' = out \o <<r>> \o <<>>
      BY <1>3, <1>5, <1>8
    <2> HIDE DEF r
    <2>2. out' = Append(out, r)
      BY <1>7, <2>1
    <2> QED
      BY <1>1, <1>2, <1>4, <1>5, <1>6, <2>2, SideEffect DEF r
  <1>9. CASE ~(f > 0)
    <2>1. out' = out \o <<>> \o <<>> /\ f = 0
      BY <1>3, <1>5, <1>6, <1>9
    <2>2. out' = out /\ executed' = executed
      BY <1>5, <1>6, <1>7, <2>1
    <2>3. \A n \in InternalId : orders'[n] # None => Sound(orders'[n])
      BY <1>4 DEF Base, ClientType
    <2> QED
      BY <1>2, <1>4, <1>6, <2>2, <2>3, SilentEffect
  <1> QED
    BY <1>8, <1>9

LEMMA FillQuoteEffect ==
  ASSUME Base, FillQuote, UNCHANGED Others
  PROVE  \E reps : Effect(reps)
  <1>1. quote \in Nat /\ quote > 0 /\ quote' = quote - 1
    BY DEF FillQuote, Base, ClientType
  <1>2. quote' \in Nat /\ 1 \in Nat
    BY <1>1
  <1>3. /\ executed' = executed + 1 /\ out' = Append(out, QuoteFill(1))
        /\ UNCHANGED <<orders, refused, call>> /\ Asked(call', inbox') = Asked(call, inbox)
    BY DEF FillQuote, Others, initiator
  <1> QED
    BY <1>2, <1>3, SideEffect

\* A Logon or a Logout shows the client nothing; a Logout is the last frame.
LEMMA WordEffect ==
  ASSUME Base, NEW r \in {[kind |-> "logon"], LogoutMsg}, out' = Append(out, r),
         refused' = refused, executed' = executed, quote' \in Nat,
         Asked(call', inbox') = Asked(call, inbox),
         orders' = orders \/ gw' = "closed",
         \A n \in InternalId : orders'[n] # None => Sound(orders'[n]),
         r.kind = "logout" => gw' = "closed"
  PROVE  \E reps : Effect(reps)
  <1>1. r \in Reply(next_order) /\ r.kind \in {"logon", "logout"}
    BY DEF Reply, LogoutMsg
  <1>2. \A u : Applied(u, r) = u
    BY <1>1 DEF Applied
  <1>3. executed' \in Nat
    BY DEF Base, ClientType
  <1> QED
    BY <1>1, <1>2, <1>3, OneEffect

-----------------------------------------------------------------------------
(* Every step of the exchange *)

ExchangeSteps ==
    \/ ReadLogonRequest \/ GatewayStep \/ GatewayEof \/ GatewayTimeout
    \/ EngineStep /\ UNCHANGED Others

\* EndSession withdraws everything.
LEMMA EndSessionFacts ==
  ASSUME NEW last, EndSession(last)
  PROVE  /\ gw' = "closed" /\ out' = out \o last
         /\ UNCHANGED <<ids, accepted, refused, executed>>
         /\ orders' = [n \in InternalId |-> None]
         /\ \A n \in InternalId : orders'[n] # None => Sound(orders'[n])
         /\ quote' = 0 /\ quote' \in Nat
  BY DEF EndSession

LEMMA LastWord ==
  ASSUME Base, EndSession(<<LogoutMsg>>)
  PROVE  out' = Append(out, LogoutMsg)
  <1> DEFINE s == <<LogoutMsg>>
  <1>1. out' = out \o s
    BY EndSessionFacts
  <1>2. out \in Seq(Reply(next_order)) /\ LogoutMsg \in {LogoutMsg}
    BY DEF Base, ClientType
  <1>3. Append(out, LogoutMsg) = out \o s
    BY <1>2, OneReply
  <1> QED
    BY <1>1, <1>3

LEMMA LogoutEffect ==
  ASSUME Base, Logout, UNCHANGED Others
  PROVE  \E reps : Effect(reps)
  <1>1. /\ inbox # <<>> /\ Head(inbox).kind = "logout" /\ inbox' = Tail(inbox)
        /\ EndSession(<<LogoutMsg>>) /\ call' = call
    BY DEF Logout, Reads, Others, initiator
  <1>2. Asked(call', inbox') = Asked(call, inbox)
    BY <1>1, ReadsPlain
  <1>3. out' = Append(out, LogoutMsg)
    BY <1>1, LastWord
  <1> QED
    BY <1>1, <1>2, <1>3, EndSessionFacts, WordEffect

LEMMA NewOrderEffect ==
  ASSUME Base, NewOrderSingle, UNCHANGED Others
  PROVE  \E reps : Effect(reps)
  <1>1. CASE MayCreate(Head(inbox))
    BY <1>1, NewEffect
  <1>2. CASE ~MayCreate(Head(inbox))
    BY <1>2, RejectEffect DEF NewOrderSingle
  <1> QED
    BY <1>1, <1>2

LEMMA CancelRequestEffect ==
  ASSUME Base, CancelRequest, UNCHANGED Others
  PROVE  \E reps : Effect(reps)
  <1>1. CASE MayCancel(Head(inbox))
    BY <1>1, CancelEffect
  <1>2. CASE ~MayCancel(Head(inbox))
    BY <1>2, CancelRejectEffect DEF CancelRequest
  <1> QED
    BY <1>1, <1>2

LEMMA CancelReplaceEffect ==
  ASSUME Base, CancelReplace, UNCHANGED Others
  PROVE  \E reps : Effect(reps)
  <1>1. CASE MayReplace(Head(inbox))
    BY <1>1, ReplaceEffect
  <1>2. CASE ~MayReplace(Head(inbox))
    BY <1>2, CancelRejectEffect DEF CancelReplace
  <1> QED
    BY <1>1, <1>2

LEMMA LogonEffect ==
  ASSUME Base, ReadLogonRequest
  PROVE  \E reps : Effect(reps)
  <1>1. /\ inbox # <<>> /\ Head(inbox).kind = "logon" /\ inbox' = Tail(inbox)
        /\ UNCHANGED <<orders, quote, refused, executed, call>>
    BY DEF ReadLogonRequest, Others, initiator
  <1>2. Asked(call', inbox') = Asked(call, inbox)
    BY <1>1, ReadsPlain
  <1>3. quote' \in Nat /\ \A n \in InternalId : orders'[n] # None => Sound(orders'[n])
    BY <1>1 DEF Base, ClientType
  <1>4. PICK r \in {[kind |-> "logon"], LogoutMsg} :
          out' = Append(out, r) /\ (r.kind = "logout" => gw' = "closed")
    BY DEF ReadLogonRequest, LogoutMsg
  <1> QED
    BY <1>1, <1>2, <1>3, <1>4, WordEffect

LEMMA EofEffect ==
  ASSUME Base, GatewayEof
  PROVE  \E reps : Effect(reps)
  <1>1. EndSession(<<>>) /\ UNCHANGED <<inbox, call>>
    BY DEF GatewayEof, Others, initiator
  <1>2. out' = out
    BY <1>1, EndSessionFacts DEF Base, ClientType
  <1> QED
    BY <1>1, <1>2, EndSessionFacts, SilentEffect

LEMMA TimeoutEffect ==
  ASSUME Base, GatewayTimeout
  PROVE  \E reps : Effect(reps)
  <1>1. EndSession(<<LogoutMsg>>) /\ UNCHANGED <<inbox, call>>
    BY DEF GatewayTimeout, Others, initiator
  <1>2. out' = Append(out, LogoutMsg)
    BY <1>1, LastWord
  <1> QED
    BY <1>1, <1>2, EndSessionFacts, WordEffect

LEMMA ExchangeEffect ==
  ASSUME Base, ExchangeSteps
  PROVE  \E reps : Effect(reps)
  <1>1. CASE GatewayStep
    BY <1>1, RefuseEffect, NewOrderEffect, CancelRequestEffect, CancelReplaceEffect,
       QuoteEffect, LogoutEffect DEF GatewayStep, ReadRequest
  <1>2. CASE EngineStep /\ UNCHANGED Others
    BY <1>2, FillEffect, ExpireEffect, FillQuoteEffect DEF EngineStep
  <1> QED
    BY <1>1, <1>2, LogonEffect, EofEffect, TimeoutEffect DEF ExchangeSteps

\* What a step of the exchange does to the two streams, and when it may happen.
LEMMA ExchangeStreams ==
  ASSUME Base, ExchangeSteps
  PROVE  /\ gw # "closed" /\ UNCHANGED Others
         /\ \/ UNCHANGED <<inbox, ids>>
            \/ /\ inbox # <<>> /\ inbox' = Tail(inbox)
               /\ \/ ids' = ids
                  \/ Head(inbox) \in Asking /\ ids' = Used(Head(inbox))
               /\ Head(inbox).kind = "logout" => out' = Append(out, LogoutMsg)
  <1>1. CASE ReadLogonRequest
    BY <1>1 DEF ReadLogonRequest
  <1>2. CASE GatewayEof \/ GatewayTimeout
    BY <1>2 DEF GatewayEof, GatewayTimeout, EndSession
  <1>3. CASE EngineStep /\ UNCHANGED Others
    BY <1>3 DEF EngineStep, Fill, Expire, FillQuote
  <1>4. CASE GatewayStep
    <2>1. UNCHANGED Others
      BY <1>4 DEF GatewayStep
    <2>2. CASE RefuseRequest \/ MassQuote
      BY <2>1, <2>2 DEF RefuseRequest, MassQuote, Reads
    <2>3. CASE Logout
      <3>1. EndSession(<<LogoutMsg>>) /\ Reads("logout")
        BY <2>3 DEF Logout
      <3>2. out' = Append(out, LogoutMsg) /\ ids' = ids
        BY <3>1, EndSessionFacts, LastWord
      <3> QED
        BY <2>1, <3>1, <3>2 DEF Reads
    <2>4. CASE NewOrderSingle \/ CancelRequest \/ CancelReplace
      <3>1. PICK kind \in {"new", "cancel", "replace"} :
              Reads(kind) /\ ids' = Used(Head(inbox))
        BY <2>4 DEF NewOrderSingle, CancelRequest, CancelReplace
      <3> QED
        BY <2>1, <3>1, ReadsAsking DEF Reads
    <2> QED
      BY <1>4, <2>2, <2>3, <2>4 DEF GatewayStep, ReadRequest
  <1> QED
    BY <1>1, <1>2, <1>3, <1>4 DEF ExchangeSteps

LEMMA ExchangeNamed ==
  ASSUME Base, ExchangeSteps
  PROVE  GatewayInv'
  <1>1. CASE GatewayStep
    BY <1>1, RefuseKeeps, NewKeeps, CancelKeeps, ReplaceKeeps, QuoteKeeps, EndKeeps
       DEF GatewayStep, ReadRequest, Base
  <1>2. CASE EngineStep /\ UNCHANGED Others
    BY <1>2, EngineKeeps DEF Base
  <1>3. CASE ReadLogonRequest
    <2>1. PICK r \in {[kind |-> "logon"], LogoutMsg} : out' = Append(out, r)
      BY <1>3 DEF ReadLogonRequest
    <2>2. Named(ids, r)
      BY DEF Named, LogoutMsg
    <2>3. AllNamed(ids, out')
      BY <2>1, <2>2, AppendNamed DEF Base, GatewayInv
    <2>4. AllWired(inbox')
      <3>1. PICK S : inbox \in Seq(S) /\ \A m \in S : Wired(m)
        BY DEF Base, GatewayInv, AllWired
      <3>2. inbox' \in Seq(S)
        BY <1>3, <3>1 DEF ReadLogonRequest
      <3> QED
        BY <3>1, <3>2 DEF AllWired
    <2> QED
      BY <1>3, <2>3, <2>4, SameIds DEF ReadLogonRequest, Base, GatewayInv
  <1>4. CASE GatewayEof \/ GatewayTimeout
    <2>1. PICK last \in {<<>>, <<LogoutMsg>>} : EndSession(last)
      BY <1>4 DEF GatewayEof, GatewayTimeout
    <2>2. Named(ids, LogoutMsg)
      BY DEF Named, LogoutMsg
    <2>3. AllNamed(ids, last)
      BY <2>2, OneNamed, EmptyNamed
    <2>4. AllNamed(ids, out') /\ OrdersNamed(ids, orders') /\ ids' = ids /\ accepted' = accepted
      BY <2>1, <2>3, EndSessionFacts, ConcatNamed, NoOrders DEF Base, GatewayInv
    <2>5. AllWired(inbox')
      BY <1>4 DEF GatewayEof, GatewayTimeout, Base, GatewayInv
    <2> QED
      BY <2>4, <2>5, SameIds DEF Base
  <1> QED
    BY <1>1, <1>2, <1>3, <1>4 DEF ExchangeSteps

LEMMA ExchangeBase ==
  ASSUME Base, ExchangeSteps
  PROVE  Base'
  <1>1. PICK reps : Effect(reps)
    BY ExchangeEffect
  <1>2. UNCHANGED <<call, next_order, views, seen, quoted>>
    BY ExchangeStreams DEF Others, initiator
  <1>3. out' \in Seq(Reply(next_order))
    BY <1>1 DEF Effect, Base, ClientType
  <1>4. /\ \A n \in InternalId : orders'[n] # None => Sound(orders'[n])
        /\ quote' \in Nat /\ executed' \in Nat
    BY <1>1 DEF Effect
  <1>5. \/ UNCHANGED <<inbox, ids>>
        \/ /\ inbox # <<>> /\ inbox' = Tail(inbox)
           /\ \/ ids' = ids
              \/ Head(inbox) \in Asking /\ ids' = Used(Head(inbox))
    BY ExchangeStreams
  <1> QED
    BY <1>2, <1>3, <1>4, <1>5, ExchangeNamed, ExchangeKeeps

-----------------------------------------------------------------------------
(* The reader thread *)

\* A view that a reply leaves is as it was, or it is New no longer.
LEMMA AppliedView ==
  ASSUME NEW st \in Known, NEW n \in 0..MaxOrderId, NEW m \in Reply(n), NEW w \in Wire
  PROVE  LET v == Applied(st, m).views[w]
         IN  /\ n < w => v = st.views[w]
             /\ v # None => v.state \in Shown \/ (v = st.views[w] /\ ~AnswersTo(m, w))
  <1> DEFINE v == Applied(st, m).views[w]
  <1> SUFFICES /\ n < w => v = st.views[w]
               /\ v # None => v.state \in Shown \/ (v = st.views[w] /\ ~AnswersTo(m, w))
    OBVIOUS
  <1> HIDE DEF v
  <1>1. /\ st.views \in Table /\ n \in Nat /\ w \in Nat /\ w # NoWire
        /\ \A x \in 1..n : x \in Wire /\ (n < w => x # w)
    BY ClientAssumption, WireAssumption, WireIsNumber DEF Known
  <1>2. CASE m.kind = "exec"
    <2> DEFINE x == NameOf(m)
               orig == OrigOf(m)
    <2>1. /\ x \in 1..n \cup {NoWire} /\ orig \in 1..n \cup {NoWire}
          /\ m.state \in Shown
      BY <1>2, ReplyFields, WireIsNumber DEF NameOf, OrigOf
    <2>2. v = Reported(st.views, m, x, orig)[w] /\ (AnswersTo(m, w) => w = x)
      BY <1>2 DEF Applied, AnswersTo, v
    <2> HIDE DEF x, orig
    <2>3. CASE x = NoWire
      BY <1>1, <2>2, <2>3 DEF Reported
    <2>4. CASE x # NoWire
      <3>1. x \in Wire /\ orig \in Wire \cup {NoWire}
        BY <1>1, <2>1, <2>4
      <3>2. w # x /\ w # orig => v = st.views[w]
        BY <1>1, <1>2, <2>2, <3>1, ReportedTable
      <3>3. orig \in Wire \ {x} => Reported(st.views, m, x, orig)[orig] = None
        BY <1>1, <1>2, <3>1, ReportedTable
      <3>4. Reported(st.views, m, x, orig)[x] # None =>
              Shows(Reported(st.views, m, x, orig)[x], m.state, m.leaves, m.qty)
        BY <1>1, <1>2, <3>1, ReportedTable
      <3> QED
        BY <1>1, <2>1, <2>2, <3>1, <3>2, <3>3, <3>4 DEF Shows
    <2> QED
      BY <2>3, <2>4
  <1>3. CASE m.kind = "reject"
    <2> DEFINE t == st.views
               r == Updated(t, m.wire, "Rejected", 0, m.qty)
    <2>1. m.wire \in 1..n /\ m.wire \in Wire /\ m.qty \in Nat /\ 0 \in Nat
          /\ "Rejected" \in OrderState /\ "Rejected" \in Shown
      BY <1>1, <1>3, ReplyFields DEF OrderState, Shown
    <2>2. v = r[w] /\ t \in Table
      BY <1>1, <1>3 DEF Applied, v
    <2> HIDE DEF t
    <2>3. \A y \in Wire : y # m.wire => r[y] = t[y]
      BY <2>1, <2>2 DEF r, Updated, Table
    <2>4. r[m.wire] # None => Shows(r[m.wire], "Rejected", 0, m.qty)
      BY <2>1, <2>2, UpdatedTable, Zenon DEF r
    <2>5. AnswersTo(m, w) => m.wire = w
      BY <1>3 DEF AnswersTo
    <2> HIDE DEF r
    <2> QED
      BY <1>1, <2>1, <2>2, <2>3, <2>4, <2>5 DEF Shows, t
  <1>4. CASE m.kind = "cxlrej"
    <2> DEFINE t == st.views
               r == CancelRejected(t, m)
    <2>1. /\ m.wire \in 1..n /\ m.wire \in Wire /\ m.orig \in 1..n /\ m.orig \in Wire
          /\ m.state \in Shown /\ m.state \in OrderState
      BY <1>1, <1>4, ReplyFields DEF Shown
    <2>2. v = r[w] /\ t \in Table
      BY <1>1, <1>4 DEF Applied, v
    <2> HIDE DEF t
    <2>3. \A y \in Wire : y # m.wire /\ y # m.orig => r[y] = t[y]
      BY <2>1, <2>2, CancelRejectedTable, Zenon DEF r
    <2>4. r[m.wire] = None
      BY <2>1, <2>2, CancelRejectedTable, Zenon DEF r
    <2>5. m.orig # m.wire /\ r[m.orig] # None =>
            Shows(r[m.orig], m.state, t[m.orig].remaining, t[m.orig].qty)
      BY <2>1, <2>2, CancelRejectedTable, Zenon DEF r
    <2>6. AnswersTo(m, w) => m.wire = w
      BY <1>4 DEF AnswersTo
    <2> HIDE DEF r
    <2> QED
      BY <1>1, <2>1, <2>2, <2>3, <2>4, <2>5, <2>6 DEF Shows, t
  <1>5. CASE m.kind \notin {"exec", "reject", "cxlrej"}
    BY <1>5 DEF Applied, AnswersTo, v
  <1> QED
    BY <1>2, <1>3, <1>4, <1>5

Receiving ==
    ReadLogon \/ ReadLogout \/ ReadReport \/ ReadRejected \/ ReadCancelReject \/ ReadLogged

\* What the client has learnt so far.
Told == [views |-> views, seen |-> seen]

\* The reader applies the next reply, under the names the exchange meant.
LEMMA ReceiveApplies ==
  ASSUME Base, Receiving
  PROVE  LET m == Head(out)
         IN  /\ reader = "running" /\ out # <<>> /\ out' = Tail(out)
             /\ m \in Reply(next_order)
             /\ [views |-> views', seen |-> seen'] = Applied(Told, m)
             /\ UNCHANGED <<ids, orders, quote, gw, accepted, refused, executed, initiator>>
                  \/ UNCHANGED <<ids, orders, quote, gw, accepted, refused, executed, app,
                                 call, next_order, quoted>>
             /\ m.kind = "logout" => reader' = "logout"
             /\ m.kind # "logout" => UNCHANGED <<inbox, reader, link>>
             /\ inbox' = inbox \/ \E r \in Plain : inbox' = Append(inbox, r)
             /\ link' \in {link, "down"}
  <1> DEFINE m == Head(out)
  <1>1. /\ reader = "running" /\ out # <<>> /\ out' = Tail(out)
        /\ m.kind \in {"logon", "logout", "exec", "reject", "cxlrej", "sessionreject"}
    BY DEF Receiving, ReadLogon, ReadLogout, ReadReport, ReadRejected, ReadCancelReject,
           ReadLogged, Receives
  <1>2. out \in Seq(Reply(next_order)) /\ m = out[1] /\ 1 \in DOMAIN out
        /\ m \in Reply(next_order)
    BY <1>1, TailAt DEF Base, ClientType
  <1>3. CASE ReadReport
    <2>1. m.kind = "exec"
      BY <1>3 DEF ReadReport, Receives
    <2>2. \/ WireName(m.id) = NameOf(m) /\ WireName(m.orig) = OrigOf(m)
          \/ m.id = 0
      <3>1. PICK S : out \in Seq(S) /\ \A r \in S : Named(ids, r)
        BY DEF Base, GatewayInv, AllNamed
      <3>2. Named(ids, m)
        BY <1>2, <3>1
      <3> HIDE DEF m
      <3> QED
        BY <2>1, <3>2 DEF Named, Knows, WireName, NameOf, OrigOf
    <2>3. /\ views' = Reported(views, m, WireName(m.id), WireName(m.orig))
          /\ seen' = seen + m.last
      BY <1>3 DEF ReadReport
    <2> HIDE DEF m
    <2>4. views' = Reported(views, m, NameOf(m), OrigOf(m))
      BY <2>2, <2>3 DEF Reported, WireName, NameOf
    <2>5. [views |-> views', seen |-> seen'] = Applied(Told, m)
      BY <2>1, <2>3, <2>4 DEF Applied, Told
    <2> QED
      BY <1>1, <1>2, <1>3, <2>1, <2>5 DEF ReadReport, m
  <1>4. CASE ReadRejected
    BY <1>1, <1>2, <1>4 DEF ReadRejected, Receives, Applied, Told
  <1>5. CASE ReadCancelReject
    BY <1>1, <1>2, <1>5 DEF ReadCancelReject, Receives, Applied, Told
  <1>6. CASE ReadLogged \/ ReadLogon
    BY <1>1, <1>2, <1>6 DEF ReadLogged, ReadLogon, Receives, Applied, Told, initiator
  <1>7. CASE ReadLogout
    <2>1. LogoutMsg \in Plain
      BY DEF Plain
    <2>2. inbox' = inbox \/ inbox' = Append(inbox, LogoutMsg)
      BY <1>7 DEF ReadLogout, Queue
    <2> QED
      BY <1>1, <1>2, <1>7, <2>1, <2>2
         DEF ReadLogout, Receives, ReaderEnds, Applied, Told, initiator
  <1> QED
    BY <1>3, <1>4, <1>5, <1>6, <1>7 DEF Receiving

LEMMA ReceiveKeeps ==
  ASSUME Base, Receiving
  PROVE  Base'
  <1> DEFINE m == Head(out)
             st == Applied(Told, m)
  <1>1. /\ next_order \in 0..MaxOrderId /\ Told \in Known /\ m \in Reply(next_order)
        /\ [views |-> views', seen |-> seen'] = st
    BY CountInRange, ReceiveApplies DEF Told, Known, Base, ClientType
  <1>2. st \in Known /\ \A w \in Wire : next_order < w => st.views[w] = views[w]
    <2> HIDE DEF m
    <2>1. st \in Known
      BY <1>1, AppliedKnown
    <2>2. ASSUME NEW w \in Wire, next_order < w
          PROVE  st.views[w] = Told.views[w]
      BY <1>1, <2>2, AppliedView
    <2> QED
      BY <2>1, <2>2 DEF Told
  <1> HIDE DEF st
  <1>3. views' = st.views /\ seen' = st.seen
    BY <1>1
  <1>4. views' \in Table /\ seen' \in Nat
    BY <1>2, <1>3 DEF Known
  <1>5. \A w \in Wire : views'[w] # None => w <= next_order
    <2> TAKE w \in Wire
    <2>1. next_order < w \/ w <= next_order
      BY CountInRange
    <2>2. views[w] # None => w <= next_order
      BY DEF Base, Numbers
    <2> QED
      BY <1>2, <1>3, <2>1, <2>2
  <1>6. /\ UNCHANGED <<ids, orders, quote, accepted, executed, call, next_order>>
        /\ quoted' = quoted
        /\ inbox' = inbox \/ \E r \in Plain : inbox' = Append(inbox, r)
        /\ out # <<>> /\ out' = Tail(out)
    BY ReceiveApplies DEF initiator
  <1>7. quoted' \in Nat /\ next_order + quoted' <= MaxRequests
    BY <1>6 DEF Base, ClientType
  <1> QED
    BY <1>4, <1>5, <1>6, <1>7, BesideRequests

-----------------------------------------------------------------------------
(* The other steps of the client *)

BesideSteps ==
    \/ \E t \in Thread, c \in Contract : Quote(t, c, 1)
    \/ ConnectTimeout \/ Disconnect \/ DropInitiator \/ LogoutTimeout
    \/ Stopping \/ ReadEof \/ ReaderTimeout \/ Cut

LEMMA BesideFacts ==
  ASSUME Base, BesideSteps
  PROVE  /\ UNCHANGED <<ids, orders, quote, gw, out, accepted, refused, executed>>
         /\ UNCHANGED <<call, next_order, views, seen>>
         /\ quoted' = quoted \/ (Room /\ quoted' = quoted + 1)
         /\ inbox' = inbox \/ \E m \in Plain : inbox' = Append(inbox, m)
         /\ reader' \in {reader, "eof", "timeout"} /\ link' \in {link, "down"}
         /\ app' = "leaving" /\ link = "up" =>
              app = "leaving" \/ inbox' = Append(inbox, LogoutMsg)
  <1>1. LogoutMsg \in Plain
    BY DEF Plain
  <1>2. ASSUME NEW t \in Thread, NEW c \in Contract, Quote(t, c, 1)
        PROVE  /\ UNCHANGED <<ids, orders, quote, gw, out, accepted, refused, executed>>
               /\ UNCHANGED <<call, next_order, views, seen, app, reader, link>>
               /\ Room /\ quoted' = quoted + 1
               /\ inbox' = inbox \/ \E m \in Plain : inbox' = Append(inbox, m)
    <2> DEFINE m == [kind |-> "quote", level |-> 0, contract |-> c, qty |-> 1]
    <2>1. inbox' = inbox \/ inbox' = Append(inbox, m)
      BY <1>2 DEF Quote, Queue
    <2>2. m \in Plain
      BY DEF Plain
    <2> HIDE DEF m
    <2> QED
      BY <1>2, <2>1, <2>2 DEF Quote, MayCall
  <1>3. CASE ConnectTimeout \/ DropInitiator \/ LogoutAnswered \/ LogoutTimeout
    BY <1>3 DEF ConnectTimeout, DropInitiator, LogoutAnswered, LogoutTimeout,
                StopThreads, gateway
  <1>4. CASE Disconnect
    BY <1>1, <1>4 DEF Disconnect, StopThreads, Queue, gateway
  <1>5. CASE ConnectReturns \/ Joined
    BY <1>5 DEF ConnectReturns, Joined, gateway
  <1>6. CASE ReadEof
    BY <1>6 DEF ReadEof, ReaderEnds, gateway, initiator
  <1>7. CASE ReaderTimeout
    BY <1>1, <1>7 DEF ReaderTimeout, ReaderEnds, Queue, initiator
  <1>8. CASE Cut
    BY <1>8 DEF Cut, gateway, initiator
  <1> QED
    BY <1>2, <1>3, <1>4, <1>5, <1>6, <1>7, <1>8 DEF BesideSteps, Stopping

LEMMA BesideKeeps ==
  ASSUME Base, BesideSteps
  PROVE  Base'
  <1>1. quoted' \in Nat /\ next_order + quoted' <= MaxRequests
    <2>1. /\ next_order \in Nat /\ quoted \in Nat /\ MaxRequests \in Nat
          /\ next_order + quoted <= MaxRequests
      BY ClientAssumption DEF Base, ClientType
    <2>2. quoted' = quoted \/ (next_order + quoted < MaxRequests /\ quoted' = quoted + 1)
      BY BesideFacts DEF Room
    <2> QED
      BY <2>1, <2>2
  <1>2. /\ views' \in Table /\ seen' \in Nat
        /\ \A w \in Wire : views'[w] # None => w <= next_order
    BY BesideFacts DEF Base, ClientType, Numbers
  <1> QED
    BY <1>1, <1>2, BesideFacts, BesideRequests

-----------------------------------------------------------------------------
(* What is asked for, through the calls of the application *)

\* What a request asks for.
By(m) == {w \in Wire : Asks(m, w)}

\* r is s with m behind it.
Longer(s, m, r) ==
    /\ \A k \in DOMAIN r : (k \in DOMAIN s /\ r[k] = s[k]) \/ r[k] = m
    /\ \A k \in DOMAIN s : k \in DOMAIN r /\ r[k] = s[k]
    /\ \E k \in DOMAIN r : r[k] = m

LEMMA AskedQueued ==
  ASSUME NEW calls, NEW s, NEW r, NEW m, Longer(s, m, r)
  PROVE  Asked(calls, r) = Asked(calls, s) \cup By(m)
  BY DEF Asked, By, Longer

LEMMA AppendLonger ==
  ASSUME NEW S, NEW s \in Seq(S), NEW m \in S
  PROVE  Longer(s, m, Append(s, m))
  BY AppendAt DEF Longer

LEMMA AskedCall ==
  ASSUME NEW calls, NEW calls2, NEW t \in Thread, calls[t].step # "send",
         NEW c, calls2[t] = c, \A u \in Thread : u # t => calls2[u] = calls[u], NEW s
  PROVE  /\ c.step = "send" => Asked(calls2, s) = Asked(calls, s) \cup By(c.msg)
         /\ c.step # "send" => Asked(calls2, s) = Asked(calls, s)
  BY DEF Asked, By

LEMMA AskedPlain ==
  ASSUME Base, call' = call, inbox' = inbox \/ \E m \in Plain : inbox' = Append(inbox, m)
  PROVE  Asked(call', inbox') = Asked(call, inbox)
  <1>1. CASE inbox' = inbox
    BY <1>1
  <1>2. CASE \E m \in Plain : inbox' = Append(inbox, m)
    <2>1. PICK m \in Plain : inbox' = Append(inbox, m)
      BY <1>2
    <2>2. inbox \in Seq(Asking \cup Plain) /\ m \in Asking \cup Plain
      BY DEF Base, ClientType
    <2>3. By(m) = {}
      BY PlainFields DEF Asks, By
    <2> DEFINE S == Asking \cup Plain
    <2> HIDE DEF S
    <2>4. inbox \in Seq(S) /\ m \in S
      BY <2>2 DEF S
    <2>5. Longer(inbox, m, inbox')
      BY <2>1, <2>4, AppendLonger
    <2> QED
      BY <2>1, <2>3, <2>5, AskedQueued
  <1> QED
    BY <1>1, <1>2

\* A request that is queued is still asked for.
LEMMA AskedSend ==
  ASSUME Base, NEW t \in Thread, SendRequest(t), link = "up"
  PROVE  Asked(call', inbox') = Asked(call, inbox)
  <1> DEFINE m == call[t].msg
  <1>1. call[t].step = "send" /\ call' = [call EXCEPT ![t] = Idle]
        /\ inbox' = Append(inbox, m) /\ m \in Asking \cup Plain
    BY CallFields DEF SendRequest, Queue, Base
  <1>2. /\ call \in [Thread -> Calling] /\ inbox \in Seq(Asking \cup Plain)
    BY DEF Base, ClientType
  <1>3. /\ call'[t].step # "send"
        /\ \A u \in Thread : u # t => call[u] = call'[u]
    BY <1>1, <1>2 DEF Idle
  <1>4. Asked(call, inbox) = Asked(call', inbox) \cup By(m)
    <2> DEFINE c == call[t]
    <2>1. call[t] = c /\ c.step = "send" /\ c.msg = m
      BY <1>1
    <2> HIDE DEF c, m
    <2>2. Asked(call, inbox) = Asked(call', inbox) \cup By(c.msg)
      BY <1>3, <2>1, AskedCall
    <2> QED
      BY <2>1, <2>2
  <1> HIDE DEF m
  <1>5. Asked(call', inbox') = Asked(call', inbox) \cup By(m)
    <2> DEFINE S == Asking \cup Plain
    <2> HIDE DEF S
    <2>1. inbox \in Seq(S) /\ m \in S
      BY <1>1, <1>2 DEF S
    <2>2. Longer(inbox, m, inbox')
      BY <1>1, <2>1, AppendLonger
    <2> QED
      BY <2>2, AskedQueued
  <1> QED
    BY <1>4, <1>5

-----------------------------------------------------------------------------
(* The invariant of the connection *)

\* What is still to be read brings a client that goes on reading up to date.
Story ==
    reader = "running" =>
        \E u :
            /\ Leads(Told, out, u) /\ u.seen = executed
            /\ gw # "closed" /\ link = "up" =>
                 Agree(u.views, orders, refused, Asked(call, inbox))

\* A Logout is the last frame, and who read it knows all there is to know.
LastWords ==
    /\ \A k \in DOMAIN out : out[k].kind = "logout" => k = Len(out) /\ gw = "closed"
    /\ reader = "logout" => gw = "closed" /\ seen = executed

\* NewIsUnderWay, also while the Logon is.
Waits ==
    link = "up" /\ gw # "closed" /\ reader = "running" =>
        \A w \in Wire \ refused :
            views[w] # None /\ views[w].state = "New" =>
                \/ w \in Asked(call, inbox)
                \/ \E k \in DOMAIN out : AnswersTo(out[k], w)

ClientInv == Base /\ Story /\ LastWords /\ Waits /\ LogoutUnderWay

\* Sequences again.
LEMMA ConcatAt ==
  ASSUME NEW S, NEW s \in Seq(S), NEW r \in Seq(S)
  PROVE  /\ s \o r \in Seq(S)
         /\ \A k \in DOMAIN (s \o r) :
              \/ k \in DOMAIN s /\ (s \o r)[k] = s[k]
              \/ \E j \in DOMAIN r :
                   (s \o r)[k] = r[j] /\ (j = Len(r) => k = Len(s \o r))
         /\ \A k \in DOMAIN s : k \in DOMAIN (s \o r) /\ (s \o r)[k] = s[k]
         /\ \A j \in DOMAIN r : \E k \in DOMAIN (s \o r) : (s \o r)[k] = r[j]
  <1> DEFINE n == Len(s)
             l == Len(r)
  <1>1. /\ n \in Nat /\ l \in Nat /\ s \o r \in Seq(S) /\ Len(s \o r) = n + l
        /\ DOMAIN s = 1..n /\ DOMAIN r = 1..l /\ DOMAIN (s \o r) = 1..(n + l)
        /\ \A k \in 1..(n + l) : (s \o r)[k] = IF k <= n THEN s[k] ELSE r[k - n]
    OBVIOUS
  <1> HIDE DEF n, l
  <1>2. ASSUME NEW k \in 1..(n + l), ~(k <= n)
        PROVE  \E j \in 1..l : (s \o r)[k] = r[j] /\ (j = l => k = n + l)
    <2>1. k - n \in 1..l /\ (k - n = l => k = n + l) /\ (s \o r)[k] = r[k - n]
      BY <1>1, <1>2
    <2> QED
      BY <2>1
  <1>3. ASSUME NEW k \in 1..n
        PROVE  k \in 1..(n + l) /\ (s \o r)[k] = s[k]
    BY <1>1
  <1>4. ASSUME NEW j \in 1..l
        PROVE  \E k \in 1..(n + l) : (s \o r)[k] = r[j]
    <2>1. /\ n + j \in 1..(n + l) /\ ~(n + j <= n) /\ (n + j) - n = j
      BY <1>1
    <2> QED
      BY <1>1, <2>1
  <1>5. \A k \in 1..(n + l) : k <= n => k \in 1..n
    BY <1>1
  <1> DEFINE c == s \o r
  <1> HIDE DEF c
  <1>6. \A k \in DOMAIN c :
              \/ k \in DOMAIN s /\ c[k] = s[k]
              \/ \E j \in DOMAIN r : c[k] = r[j] /\ (j = Len(r) => k = Len(c))
    <2>1. ASSUME NEW k \in 1..(n + l)
          PROVE  \/ k \in 1..n /\ c[k] = s[k]
                 \/ \E j \in 1..l : c[k] = r[j] /\ (j = l => k = n + l)
      <3>1. CASE k <= n
        BY <3>1, <1>3, <1>5 DEF c
      <3>2. CASE ~(k <= n)
        BY <3>2, <1>2 DEF c
      <3> QED
        BY <3>1, <3>2
    <2>2. /\ DOMAIN c = 1..(n + l) /\ Len(c) = n + l
          /\ DOMAIN s = 1..n /\ DOMAIN r = 1..l
      BY <1>1 DEF c
    <2>3. Len(r) = l
      BY DEF l
    <2> HIDE DEF c
    <2> SUFFICES ASSUME NEW k \in DOMAIN c, ~(k \in DOMAIN s /\ c[k] = s[k])
                 PROVE  \E j \in DOMAIN r : c[k] = r[j] /\ (j = Len(r) => k = Len(c))
      OBVIOUS
    <2>4. PICK j \in 1..l : c[k] = r[j] /\ (j = l => k = n + l)
      BY <2>1, <2>2
    <2> QED
      BY <2>2, <2>3, <2>4
  <1>7. /\ \A k \in DOMAIN s : k \in DOMAIN c /\ c[k] = s[k]
        /\ \A j \in DOMAIN r : \E k \in DOMAIN c : c[k] = r[j]
    BY <1>1, <1>3, <1>4 DEF c
  <1>8. c \in Seq(S)
    BY <1>1 DEF c
  <1> QED
    BY <1>6, <1>7, <1>8 DEF c

LEMMA TailPlaces ==
  ASSUME NEW S, NEW s \in Seq(S), s # <<>>
  PROVE  /\ s \in Seq(S) /\ Head(s) = s[1] /\ 1 \in DOMAIN s
         /\ Tail(s) \in Seq(S) /\ Len(Tail(s)) = Len(s) - 1
         /\ \A k \in DOMAIN Tail(s) :
              k \in Nat /\ k # 0 /\ k + 1 \in DOMAIN s /\ Tail(s)[k] = s[k + 1]
         /\ \A k \in DOMAIN s : k # 1 => \E j \in DOMAIN Tail(s) : Tail(s)[j] = s[k]
  <1>1. ASSUME NEW k \in DOMAIN s, k # 1
        PROVE  \E j \in DOMAIN Tail(s) : Tail(s)[j] = s[k]
    <2>1. k - 1 \in DOMAIN Tail(s) /\ Tail(s)[k - 1] = s[k]
      BY <1>1
    <2> QED
      BY <2>1
  <1>2. Len(Tail(s)) = Len(s) - 1
    OBVIOUS
  <1> QED
    BY <1>1, <1>2, TailAt

\* Steps that change no view, no order and no reply.
LEMMA AsideKeeps ==
  ASSUME ClientInv, UNCHANGED <<views, seen, out, orders, refused, executed, gw>>,
         reader' \in {reader, "eof", "timeout"},
         link' = "up" => link = "up" /\ Asked(call', inbox') = Asked(call, inbox)
  PROVE  Story' /\ LastWords' /\ Waits'
  <1>1. /\ reader' = "running" => reader = "running"
        /\ reader' = "logout" => reader = "logout"
    OBVIOUS
  <1>2. [views |-> views', seen |-> seen'] = Told
    BY DEF Told
  <1>3. Story'
    <2> SUFFICES ASSUME reader' = "running"
                 PROVE  \E u :
                   /\ Leads([views |-> views', seen |-> seen'], out', u)
                   /\ u.seen = executed'
                   /\ gw' # "closed" /\ link' = "up" =>
                        Agree(u.views, orders', refused', Asked(call', inbox'))
      BY DEF Story, Told
    <2>1. PICK u : /\ Leads(Told, out, u) /\ u.seen = executed
                   /\ gw # "closed" /\ link = "up" =>
                        Agree(u.views, orders, refused, Asked(call, inbox))
      BY <1>1 DEF ClientInv, Story
    <2>2. Leads([views |-> views', seen |-> seen'], out', u)
      BY <1>2, <2>1
    <2> QED
      BY <2>1, <2>2
  <1>4. LastWords'
    BY <1>1 DEF ClientInv, LastWords
  <1>5. Waits'
    BY <1>1 DEF ClientInv, Waits
  <1> QED
    BY <1>3, <1>4, <1>5

\* A new view, with its request.
LEMMA NewViewKeeps ==
  ASSUME ClientInv, Room, NEW v \in View, v.state = "New",
         views' = [views EXCEPT ![next_order + 1] = v],
         Asked(call', inbox') = Asked(call, inbox) \cup {next_order + 1},
         UNCHANGED <<seen, out, orders, refused, executed, gw, reader, link>>
  PROVE  Story' /\ LastWords' /\ Waits'
  <1> DEFINE w == next_order + 1
             a == Asked(call, inbox)
             a2 == Asked(call', inbox')
  <1>1. /\ w \in Wire /\ next_order \in Nat /\ next_order \in 0..MaxOrderId
        /\ next_order < w /\ ~(w <= next_order)
    BY NextIsNew, CountInRange DEF ClientInv
  <1>2. /\ views \in Table /\ out \in Seq(Reply(next_order))
        /\ v # None /\ IsActive(v.state)
    BY ViewAssumption DEF ClientInv, Base, ClientType, IsActive
  <1>3. orders[w] = None
    BY <1>1, OrdersStraight DEF ClientInv
  <1>4. a2 = a \cup {w} /\ views' = Put(views, w, v)
    BY DEF Put
  <1> HIDE DEF w, a, a2
  <1>5. Story'
    <2> SUFFICES ASSUME reader' = "running"
                 PROVE  \E u :
                   /\ Leads([views |-> views', seen |-> seen'], out', u)
                   /\ u.seen = executed'
                   /\ gw' # "closed" /\ link' = "up" =>
                        Agree(u.views, orders', refused', a2)
      BY DEF Story, Told, a2
    <2>1. PICK u : /\ Leads(Told, out, u) /\ u.seen = executed
                   /\ gw # "closed" /\ link = "up" => Agree(u.views, orders, refused, a)
      BY DEF ClientInv, Story, a
    <2> DEFINE u2 == PutKnown(u, w, v)
    <2>2. Leads(PutKnown(Told, w, v), out, u2) /\ u \in Known
      BY <1>1, <1>2, <2>1, LeadsBeside, LeadsToKnown
    <2>3. PutKnown(Told, w, v) = [views |-> views', seen |-> seen']
      BY <1>4 DEF PutKnown, Told
    <2>4. u2.seen = executed' /\ u2.views = Put(u.views, w, v) /\ u.views \in Table
      BY <2>1, <2>2 DEF PutKnown, Known
    <2> HIDE DEF u2
    <2>5. u2.views[w] = v /\ \A x \in Wire : x # w => u2.views[x] = u.views[x]
      BY <1>1, <2>4 DEF Put, Table
    <2>6. ASSUME Agree(u.views, orders, refused, a)
          PROVE  Agree(u2.views, orders', refused', a2)
      <3> SUFFICES ASSUME NEW x \in Wire
                   PROVE  AgreeOn(x, u2.views, orders', refused', a2)
        BY DEF Agree
      <3>1. CASE x = w
        BY <1>2, <1>3, <1>4, <2>5, <3>1 DEF AgreeOn, Working
      <3>2. CASE x # w
        BY <1>4, <2>5, <2>6, <3>2 DEF Agree, AgreeOn
      <3> QED
        BY <3>1, <3>2
    <2> QED
      BY <2>1, <2>2, <2>3, <2>4, <2>6
  <1>6. LastWords'
    BY DEF ClientInv, LastWords
  <1>7. Waits'
    <2>1. \A x \in Wire : x # w => views'[x] = views[x]
      BY <1>2, <1>4 DEF Put, Table
    <2> QED
      BY <1>4, <2>1 DEF ClientInv, Waits, a, a2
  <1> QED
    BY <1>5, <1>6, <1>7

\* A step of the exchange.
LEMMA ExchangeTells ==
  ASSUME ClientInv, ExchangeSteps
  PROVE  Story' /\ LastWords' /\ Waits'
  <1> DEFINE a == Asked(call, inbox)
             a2 == Asked(call', inbox')
  <1>1. PICK reps : Effect(reps)
    BY ExchangeEffect DEF ClientInv
  <1>2. gw # "closed" /\ UNCHANGED <<views, seen, reader, link>>
    BY ExchangeStreams DEF ClientInv, Others, initiator
  <1>3. /\ out \in Seq(Reply(next_order)) /\ reps \in Seq(Reply(next_order))
        /\ out' = out \o reps
    BY <1>1 DEF Effect, ClientInv, Base, ClientType
  <1>4. /\ \A k \in DOMAIN out' :
             \/ k \in DOMAIN out /\ out'[k] = out[k]
             \/ \E j \in DOMAIN reps :
                  out'[k] = reps[j] /\ (j = Len(reps) => k = Len(out'))
        /\ \A k \in DOMAIN out : k \in DOMAIN out' /\ out'[k] = out[k]
        /\ \A j \in DOMAIN reps : \E k \in DOMAIN out' : out'[k] = reps[j]
    BY <1>3, ConcatAt
  <1> HIDE DEF a, a2
  <1>5. Story'
    <2> SUFFICES ASSUME reader' = "running"
                 PROVE  \E u :
                   /\ Leads([views |-> views', seen |-> seen'], out', u)
                   /\ u.seen = executed'
                   /\ gw' # "closed" /\ link' = "up" =>
                        Agree(u.views, orders', refused', a2)
      BY DEF Story, Told, a2
    <2>1. PICK u : /\ Leads(Told, out, u) /\ u.seen = executed
                   /\ link = "up" => Agree(u.views, orders, refused, a)
      BY <1>2 DEF ClientInv, Story, a
    <2>2. u \in Known
      BY <1>3, <2>1, LeadsToKnown
    <2>3. PICK u2 :
            /\ Leads(u, reps, u2) /\ u2.seen = executed'
            /\ gw' # "closed" /\ Agree(u.views, orders, refused, a)
                 => Agree(u2.views, orders', refused', a2)
      BY <1>1, <2>1, <2>2 DEF Effect, a, a2
    <2>4. Leads(Told, out', u2)
      BY <1>3, <2>1, <2>3, LeadsThrough
    <2>5. [views |-> views', seen |-> seen'] = Told
      BY <1>2 DEF Told
    <2> QED
      BY <1>2, <2>1, <2>3, <2>4, <2>5
  <1>6. LastWords'
    <2>1. \A k \in DOMAIN out : out[k].kind # "logout"
      BY <1>2 DEF ClientInv, LastWords
    <2>2. \A j \in DOMAIN reps : reps[j].kind = "logout" => j = Len(reps) /\ gw' = "closed"
      BY <1>1 DEF Effect
    <2>3. reader' # "logout"
      BY <1>2 DEF ClientInv, LastWords
    <2> QED
      BY <1>4, <2>1, <2>2, <2>3 DEF LastWords
  <1>7. Waits'
    <2>1. /\ refused \subseteq refused'
          /\ \A w \in a : w \in a2 \/ w \in refused' \/ \E k \in DOMAIN reps : AnswersTo(reps[k], w)
      BY <1>1 DEF Effect, a, a2
    <2> SUFFICES ASSUME link' = "up", reader' = "running", NEW w \in Wire \ refused',
                        views'[w] # None, views'[w].state = "New"
                 PROVE  w \in a2 \/ \E k \in DOMAIN out' : AnswersTo(out'[k], w)
      BY DEF Waits, a2
    <2>2. w \in a \/ \E k \in DOMAIN out : AnswersTo(out[k], w)
      BY <1>2, <2>1 DEF ClientInv, Waits, a
    <2> QED
      BY <1>4, <2>1, <2>2
  <1> QED
    BY <1>5, <1>6, <1>7

\* The reader thread applies a reply.
LEMMA ReceiveTells ==
  ASSUME ClientInv, Receiving
  PROVE  Story' /\ LastWords' /\ Waits'
  <1> DEFINE m == Head(out)
             a == Asked(call, inbox)
             a2 == Asked(call', inbox')
  <1>1. /\ reader = "running" /\ out # <<>> /\ out' = Tail(out) /\ m \in Reply(next_order)
        /\ [views |-> views', seen |-> seen'] = Applied(Told, m)
        /\ UNCHANGED <<orders, gw, refused, executed, call>>
        /\ m.kind = "logout" => reader' = "logout"
        /\ m.kind # "logout" => UNCHANGED <<inbox, reader, link>>
    BY ReceiveApplies DEF ClientInv, initiator
  <1>2. /\ out \in Seq(Reply(next_order)) /\ m = out[1] /\ 1 \in DOMAIN out
        /\ out' \in Seq(Reply(next_order)) /\ Len(out') = Len(out) - 1
        /\ \A k \in DOMAIN out' : k \in Nat /\ k # 0 /\ k + 1 \in DOMAIN out /\ out'[k] = out[k + 1]
        /\ \A k \in DOMAIN out : k # 1 => \E j \in DOMAIN out' : out'[j] = out[k]
    BY <1>1, TailPlaces DEF ClientInv, Base, ClientType
  <1>3. PICK u : /\ Leads(Told, out, u) /\ u.seen = executed
                 /\ gw # "closed" /\ link = "up" => Agree(u.views, orders, refused, a)
    BY <1>1 DEF ClientInv, Story
  <1>4. Leads([views |-> views', seen |-> seen'], out', u)
    BY <1>1, <1>2, <1>3, LeadsFrom
  <1> HIDE DEF m, a, a2
  <1>5. Story'
    <2> SUFFICES ASSUME reader' = "running"
                 PROVE  gw' # "closed" /\ link' = "up" =>
                          Agree(u.views, orders', refused', a2)
      BY <1>1, <1>3, <1>4 DEF Story, Told, a2
    <2>1. UNCHANGED <<inbox, link, call>>
      BY <1>1
    <2> QED
      BY <1>1, <1>3, <2>1 DEF a, a2
  <1>6. LastWords'
    <2>1. \A k \in DOMAIN out' : out'[k].kind = "logout" => k = Len(out') /\ gw' = "closed"
      BY <1>1, <1>2 DEF ClientInv, LastWords
    <2>2. ASSUME m.kind = "logout"
          PROVE  gw' = "closed" /\ seen' = executed'
      <3>1. 1 = Len(out) /\ gw = "closed"
        BY <1>2, <2>2 DEF ClientInv, LastWords
      <3>2. out' = <<>>
        BY <1>2, <3>1
      <3>3. u = [views |-> views', seen |-> seen']
        BY <1>4, <3>2, LeadsNowhere
      <3> QED
        BY <1>1, <1>3, <3>1, <3>3
    <2>3. m.kind # "logout" => reader' # "logout"
      BY <1>1
    <2> QED
      BY <2>1, <2>2, <2>3 DEF LastWords
  <1>7. Waits'
    <2> SUFFICES ASSUME link' = "up", gw' # "closed", reader' = "running",
                        NEW w \in Wire \ refused', views'[w] # None, views'[w].state = "New"
                 PROVE  w \in a2 \/ \E k \in DOMAIN out' : AnswersTo(out'[k], w)
      BY DEF Waits, a2
    <2>1. m.kind # "logout" /\ UNCHANGED <<inbox, link, call>>
      BY <1>1
    <2>2. Told \in Known /\ next_order \in 0..MaxOrderId
      BY CountInRange DEF ClientInv, Base, ClientType, Told, Known
    <2>3. views' = Applied(Told, m).views
      <3>1. [views |-> views', seen |-> seen'].views = views'
        OBVIOUS
      <3> QED
        BY <1>1, <3>1
    <2>4. views'[w] = Told.views[w] /\ ~AnswersTo(m, w)
      <3>1. "New" \notin Shown
        BY DEF Shown
      <3> QED
        BY <1>1, <2>2, <2>3, <3>1, AppliedView
    <2>5. w \in a \/ \E k \in DOMAIN out : AnswersTo(out[k], w)
      BY <1>1, <2>1, <2>4 DEF ClientInv, Waits, a, Told
    <2> QED
      BY <1>2, <2>1, <2>4, <2>5 DEF a, a2
  <1> QED
    BY <1>5, <1>6, <1>7

-----------------------------------------------------------------------------
(* The Logout disconnect() waits for *)

\* Steps of the application: what is queued stays queued.
LEMMA QueuedStays ==
  ASSUME ClientInv, out' = out, reader' \in {reader, "eof", "timeout"},
         link' \in {link, "down"},
         inbox' = inbox \/ \E m \in Asking \cup Plain : inbox' = Append(inbox, m),
         app' = "leaving" /\ link = "up" =>
           app = "leaving" \/ inbox' = Append(inbox, LogoutMsg)
  PROVE  LogoutUnderWay'
  <1> SUFFICES ASSUME app' = "leaving", link' = "up", reader' = "running"
               PROVE  LogoutMsg \in Range(inbox') \cup Range(out')
    BY DEF LogoutUnderWay
  <1>1. link = "up" /\ reader = "running"
    OBVIOUS
  <1>2. inbox \in Seq(Asking \cup Plain) /\ LogoutMsg \in Asking \cup Plain
    BY DEF ClientInv, Base, ClientType, Plain
  <1>3. Range(inbox) \subseteq Range(inbox')
    <2>1. \A k \in DOMAIN inbox : k \in DOMAIN inbox' /\ inbox'[k] = inbox[k]
      BY <1>2, AppendAt
    <2> QED
      BY <2>1 DEF Range
  <1>4. inbox' = Append(inbox, LogoutMsg) => LogoutMsg \in Range(inbox')
    BY <1>2, AppendAt DEF Range
  <1> QED
    BY <1>1, <1>3, <1>4 DEF ClientInv, LogoutUnderWay

\* The exchange answers a Logout in the step that reads it.
LEMMA LogoutAnsweredHere ==
  ASSUME ClientInv, ExchangeSteps
  PROVE  LogoutUnderWay'
  <1>1. UNCHANGED <<app, link, reader>>
    BY ExchangeStreams DEF ClientInv, Others, initiator
  <1>2. PICK reps : Effect(reps)
    BY ExchangeEffect DEF ClientInv
  <1>3. /\ out \in Seq(Reply(next_order)) /\ reps \in Seq(Reply(next_order))
        /\ out' = out \o reps /\ inbox \in Seq(Asking \cup Plain)
        /\ LogoutMsg \in Reply(next_order)
    BY <1>2 DEF Effect, ClientInv, Base, ClientType, Reply
  <1>4. Range(out) \subseteq Range(out')
    BY <1>3, ConcatAt DEF Range
  <1>5. LogoutMsg \in Range(inbox) => LogoutMsg \in Range(inbox') \cup Range(out')
    <2>1. CASE UNCHANGED inbox
      BY <2>1
    <2>2. CASE /\ inbox # <<>> /\ inbox' = Tail(inbox)
               /\ Head(inbox).kind = "logout" => out' = Append(out, LogoutMsg)
      <3>1. CASE Head(inbox) = LogoutMsg
        <4>1. out' = Append(out, LogoutMsg)
          BY <2>2, <3>1 DEF LogoutMsg
        <4> QED
          BY <1>3, <4>1, AppendAt DEF Range
      <3>2. CASE Head(inbox) # LogoutMsg
        <4>1. /\ Head(inbox) = inbox[1]
              /\ \A k \in DOMAIN inbox : k # 1 => \E j \in DOMAIN inbox' : inbox'[j] = inbox[k]
          BY <1>3, <2>2, TailPlaces
        <4> QED
          BY <3>2, <4>1 DEF Range
      <3> QED
        BY <3>1, <3>2
    <2> QED
      BY <2>1, <2>2, ExchangeStreams DEF ClientInv
  <1> QED
    BY <1>1, <1>4, <1>5 DEF ClientInv, LogoutUnderWay

\* Reading a Logout ends the reader thread.
LEMMA LogoutRead ==
  ASSUME ClientInv, Receiving
  PROVE  LogoutUnderWay'
  <1> DEFINE m == Head(out)
  <1>1. /\ reader = "running" /\ out # <<>> /\ out' = Tail(out) /\ app' = app
        /\ m.kind = "logout" => reader' = "logout"
        /\ m.kind # "logout" => UNCHANGED <<inbox, reader, link>>
    BY ReceiveApplies DEF ClientInv, initiator
  <1>2. /\ out \in Seq(Reply(next_order)) /\ m = out[1]
        /\ \A k \in DOMAIN out : k # 1 => \E j \in DOMAIN out' : out'[j] = out[k]
    BY <1>1, TailPlaces DEF ClientInv, Base, ClientType
  <1> HIDE DEF m
  <1> SUFFICES ASSUME app' = "leaving", link' = "up", reader' = "running"
               PROVE  LogoutMsg \in Range(inbox') \cup Range(out')
    BY DEF LogoutUnderWay
  <1>3. m # LogoutMsg /\ UNCHANGED <<inbox, link>>
    BY <1>1 DEF LogoutMsg
  <1>4. LogoutMsg \in Range(inbox) \cup Range(out)
    BY <1>1, <1>3 DEF ClientInv, LogoutUnderWay
  <1>5. LogoutMsg \in Range(out) => LogoutMsg \in Range(out')
    BY <1>2, <1>3 DEF Range
  <1> QED
    BY <1>3, <1>4, <1>5

-----------------------------------------------------------------------------
(* The invariant holds *)

LEMMA ClientStarts ==
  ASSUME Init
  PROVE  ClientInv
  <1> DEFINE hello == [kind |-> "logon"]
  <1>1. /\ GatewayInit("logon", <<hello>>) /\ inbox = <<hello>> /\ out = <<>>
        /\ ids = NoIds /\ orders = [n \in InternalId |-> None] /\ quote = 0
        /\ refused = {} /\ executed = 0 /\ seen = 0 /\ quoted = 0 /\ next_order = 0
        /\ call = [t \in Thread |-> Idle] /\ views = [w \in Wire |-> None]
        /\ reader = "running" /\ app = "connecting"
    BY DEF Init, GatewayInit
  <1>2. hello \in Plain /\ hello.kind = "logon"
    BY DEF Plain
  <1> HIDE DEF hello
  <1>3. Wired(hello) /\ hello \notin Asking /\ \A w : ~Asks(hello, w)
    BY <1>2, PlainIsNotAsking DEF Asks
  <1>4. inbox \in Seq(Asking \cup Plain) /\ DOMAIN inbox = {1} /\ inbox[1] = hello
    BY <1>1, <1>2
  <1>5. GatewayInv
    <2> DEFINE S == {hello}
               s == <<hello>>
    <2>1. s \in Seq(S) /\ \A r \in S : Wired(r)
      BY <1>3
    <2> HIDE DEF S, s
    <2>2. AllWired(s)
      BY <2>1 DEF AllWired
    <2> QED
      BY <1>1, <2>2, StartsNamed DEF s
  <1>6. /\ \A t \in Thread : call[t] = Idle /\ call[t].step = "idle"
        /\ call \in [Thread -> Calling]
    BY <1>1 DEF Idle, Calling
  <1>7. views \in Table /\ \A w \in Wire : views[w] = None
    BY <1>1 DEF Table
  <1>8. \A n \in InternalId : orders[n] = None
    BY <1>1
  <1>9. ClientType
    <2>1. 0 + 0 <= MaxRequests
      BY ClientAssumption
    <2>2. out \in Seq(Reply(next_order))
      BY <1>1
    <2> QED
      BY <1>1, <1>4, <1>6, <1>7, <1>8, <2>1, <2>2 DEF ClientType
  <1>10. Numbers
    <2>1. \A w \in Wire : ids.to_internal[w] = 0
      BY <1>1 DEF NoIds
    <2> QED
      BY <1>3, <1>4, <1>6, <1>7, <2>1 DEF Numbers
  <1>11. Distinct
    BY <1>3, <1>4, <1>6 DEF Distinct
  <1>12. Asked(call, inbox) = {}
    BY <1>3, <1>4, <1>6 DEF Asked
  <1>13. Story
    <2>1. Told \in Known /\ Told.seen = executed /\ Told.views = views
      BY <1>1, <1>7 DEF Told, Known
    <2>2. Leads(Told, out, Told)
      BY <1>1, <2>1, LeadsHere
    <2>3. Agree(Told.views, orders, refused, Asked(call, inbox))
      BY <1>7, <1>8, <1>12, <2>1, WireIsNumber DEF Agree, AgreeOn, Working
    <2> QED
      BY <2>1, <2>2, <2>3 DEF Story
  <1>14. LastWords
    BY <1>1 DEF LastWords
  <1>15. Waits
    BY <1>7 DEF Waits
  <1>16. LogoutUnderWay
    BY <1>1 DEF LogoutUnderWay
  <1> QED
    BY <1>5, <1>9, <1>10, <1>11, <1>13, <1>14, <1>15, <1>16 DEF ClientInv, Base

LEMMA CreateTells ==
  ASSUME ClientInv, NEW t \in Thread, NEW c \in Contract, NEW type \in OrderType,
         NEW qty \in Quantity, CreateOrder(t, c, type, qty)
  PROVE  ClientInv'
  <1> DEFINE w == next_order + 1
             v == NewView(c, qty)
             m == [kind |-> "new", wire |-> w, contract |-> c, type |-> type, qty |-> qty]
             d == [step |-> "send", msg |-> m]
  <1>1. Room /\ call[t] = Idle /\ w \in Wire
    BY NextIsNew DEF CreateOrder, MayCall, ClientInv
  <1>2. /\ call' = [call EXCEPT ![t] = d] /\ views' = [views EXCEPT ![next_order + 1] = v]
        /\ UNCHANGED <<seen, out, orders, refused, executed, gw, reader, link, inbox, app>>
    BY DEF CreateOrder, gateway
  <1>3. v \in View /\ v.state = "New"
    BY GatewayAssumption DEF NewView, View, OrderState
  <1>4. d.step = "send" /\ By(d.msg) = {w}
    BY <1>1 DEF By, Asks
  <1> HIDE DEF d, v, m, w
  <1>5. Asked(call', inbox') = Asked(call, inbox) \cup {next_order + 1}
    <2>1. DOMAIN call = Thread /\ call[t].step # "send"
      BY <1>1 DEF ClientInv, Base, ClientType, Idle
    <2>2. call'[t] = d /\ \A u \in Thread : u # t => call'[u] = call[u]
      BY <1>2, <2>1
    <2>3. Asked(call', inbox) = Asked(call, inbox) \cup By(d.msg)
      BY <1>4, <2>1, <2>2, AskedCall
    <2> QED
      BY <1>2, <1>4, <2>3 DEF w
  <1>6. Story' /\ LastWords' /\ Waits'
    BY <1>1, <1>2, <1>3, <1>5, NewViewKeeps
  <1>7. LogoutUnderWay'
    BY <1>2, QueuedStays
  <1>8. Base'
    BY CreateKeeps DEF ClientInv
  <1> QED
    BY <1>6, <1>7, <1>8 DEF ClientInv

LEMMA LookUpTells ==
  ASSUME ClientInv, NEW t \in Thread, NEW w \in Wire,
         NEW r \in [kind : {"cancel"}] \cup [kind : {"replace"}, qty : Quantity],
         LookUp(t, w, r)
  PROVE  ClientInv'
  <1> DEFINE d == [step |-> "register", orig |-> w, contract |-> views[w].contract,
                   request |-> r]
  <1>1. /\ call[t] = Idle /\ call' = [call EXCEPT ![t] = d]
        /\ UNCHANGED <<views, seen, out, orders, refused, executed, gw, reader, link,
                       inbox, app>>
    BY DEF LookUp, MayCall, gateway
  <1>2. d.step # "send"
    OBVIOUS
  <1> HIDE DEF d
  <1>3. Asked(call', inbox') = Asked(call, inbox)
    <2>1. DOMAIN call = Thread /\ call[t].step # "send"
      BY <1>1 DEF ClientInv, Base, ClientType, Idle
    <2>2. call'[t] = d /\ \A u \in Thread : u # t => call'[u] = call[u]
      BY <1>1, <2>1
    <2>3. Asked(call', inbox) = Asked(call, inbox)
      BY <1>2, <2>1, <2>2, AskedCall
    <2> QED
      BY <1>1, <2>3
  <1>4. Story' /\ LastWords' /\ Waits'
    BY <1>1, <1>3, AsideKeeps
  <1>5. LogoutUnderWay'
    BY <1>1, QueuedStays
  <1>6. Base'
    BY LookUpKeeps DEF ClientInv
  <1> QED
    BY <1>4, <1>5, <1>6 DEF ClientInv

LEMMA RegisterTells ==
  ASSUME ClientInv, NEW t \in Thread, Register(t)
  PROVE  ClientInv'
  <1> DEFINE r == call[t]
             w == next_order + 1
  <1>1. /\ r.step = "register" /\ Room /\ w \in Wire
        /\ r.contract \in Contract /\ DOMAIN call = Thread
    BY NextIsNew, CallFields DEF Register, ClientInv, Base, ClientType
  <1>2. UNCHANGED <<seen, out, orders, refused, executed, gw, reader, link, inbox, app>>
    BY DEF Register, gateway
  <1>3. Base'
    BY RegisterKeeps DEF ClientInv
  <1>4. LogoutUnderWay'
    BY <1>2, QueuedStays
  <1>5. CASE r.request.kind = "replace"
    <2> DEFINE m == [kind |-> "replace", wire |-> w, orig |-> r.orig,
                     contract |-> r.contract, type |-> "Limit", qty |-> r.request.qty]
               d == [step |-> "send", msg |-> m]
               v == NewView(r.contract, r.request.qty)
    <2>1. r.request.qty \in Quantity /\ r.request.kind # "cancel"
      BY <1>1, <1>5, CallFields DEF ClientInv, Base
    <2>2. v \in View /\ v.state = "New"
      BY <1>1, <2>1, GatewayAssumption DEF NewView, View, OrderState
    <2>3. d.step = "send" /\ By(d.msg) = {w}
      BY <1>1 DEF By, Asks
    <2>4. /\ call' = [call EXCEPT ![t] = d]
          /\ views' = [views EXCEPT ![next_order + 1] = v]
      BY <2>1 DEF Register, Registered
    <2> HIDE DEF m, d, v
    <2>5. Asked(call', inbox) = Asked(call, inbox) \cup By(d.msg)
      <3>1. call'[t] = d /\ \A u \in Thread : u # t => call'[u] = call[u]
        BY <1>1, <2>4
      <3> QED
        BY <1>1, <2>3, <3>1, AskedCall
    <2>6. Asked(call', inbox') = Asked(call, inbox) \cup {next_order + 1}
      BY <1>2, <2>3, <2>4, <2>5
    <2> HIDE DEF r, w
    <2>7. Story' /\ LastWords' /\ Waits'
      BY <1>1, <1>2, <2>2, <2>4, <2>6, NewViewKeeps
    <2> QED
      BY <1>3, <1>4, <2>7 DEF ClientInv
  <1>6. CASE r.request.kind # "replace"
    <2> DEFINE m == [kind |-> "cancel", wire |-> w, orig |-> r.orig, contract |-> r.contract]
               d == [step |-> "send", msg |-> m]
    <2>1. call' = [call EXCEPT ![t] = d] /\ views' = views
      BY <1>6 DEF Register
    <2>2. By(d.msg) = {}
      BY DEF By, Asks
    <2>3. d.step = "send"
      OBVIOUS
    <2> HIDE DEF m, d
    <2>4. Asked(call', inbox) = Asked(call, inbox) \cup By(d.msg)
      <3>1. call'[t] = d /\ \A u \in Thread : u # t => call'[u] = call[u]
        BY <1>1, <2>1
      <3>2. call[t].step # "send"
        BY <1>1
      <3> QED
        BY <2>3, <3>1, <3>2, AskedCall
    <2>5. Asked(call', inbox') = Asked(call, inbox)
      BY <1>2, <2>1, <2>2, <2>4
    <2>6. Story' /\ LastWords' /\ Waits'
      BY <1>2, <2>1, <2>5, AsideKeeps
    <2> QED
      BY <1>3, <1>4, <2>6 DEF ClientInv
  <1> QED
    BY <1>5, <1>6

LEMMA SendTells ==
  ASSUME ClientInv, NEW t \in Thread, SendRequest(t)
  PROVE  ClientInv'
  <1>1. /\ UNCHANGED <<views, seen, out, orders, refused, executed, gw, reader, link, app>>
        /\ inbox' = inbox \/ inbox' = Append(inbox, call[t].msg)
        /\ call[t].msg \in Asking
    BY CallFields DEF SendRequest, Queue, ClientInv, Base
  <1>2. link = "up" => Asked(call', inbox') = Asked(call, inbox)
    BY AskedSend DEF ClientInv
  <1>3. Story' /\ LastWords' /\ Waits'
    BY <1>1, <1>2, AsideKeeps
  <1>4. LogoutUnderWay'
    BY <1>1, QueuedStays
  <1>5. Base'
    BY SendKeeps DEF ClientInv
  <1> QED
    BY <1>3, <1>4, <1>5 DEF ClientInv

LEMMA BesideTells ==
  ASSUME ClientInv, BesideSteps
  PROVE  ClientInv'
  <1>1. Base
    BY DEF ClientInv
  <1>2. Asked(call', inbox') = Asked(call, inbox)
    BY <1>1, BesideFacts, AskedPlain
  <1>3. Story' /\ LastWords' /\ Waits'
    BY <1>1, <1>2, BesideFacts, AsideKeeps
  <1>4. LogoutUnderWay'
    BY <1>1, BesideFacts, QueuedStays
  <1> QED
    BY <1>1, <1>3, <1>4, BesideKeeps DEF ClientInv

LEMMA ClientStep ==
  ASSUME ClientInv, [Next]_vars
  PROVE  ClientInv'
  <1>1. ASSUME NEW t \in Thread, Calls(t)
        PROVE  ClientInv'
    <2>1. \A qty \in Quantity : [kind |-> "replace", qty |-> qty] \in
              [kind : {"cancel"}] \cup [kind : {"replace"}, qty : Quantity]
      OBVIOUS
    <2>2. [kind |-> "cancel"] \in
              [kind : {"cancel"}] \cup [kind : {"replace"}, qty : Quantity]
      OBVIOUS
    <2>3. CASE \E c \in Contract : Quote(t, c, 1)
      BY <2>3, BesideTells DEF BesideSteps
    <2>4. CASE \E c \in Contract, type \in OrderType, qty \in Quantity :
                 CreateOrder(t, c, type, qty)
      BY <2>4, CreateTells
    <2>5. CASE \E w \in Wire :
                 \/ LookUp(t, w, [kind |-> "cancel"])
                 \/ \E qty \in Quantity : LookUp(t, w, [kind |-> "replace", qty |-> qty])
      BY <2>1, <2>2, <2>5, LookUpTells
    <2> QED
      BY <1>1, <2>3, <2>4, <2>5 DEF Calls
  <1>2. CASE \E t \in Thread : Register(t) \/ SendRequest(t)
    BY <1>2, RegisterTells, SendTells
  <1>3. CASE BesideSteps
    BY <1>3, BesideTells
  <1>4. CASE Receiving
    BY <1>4, ReceiveKeeps, ReceiveTells, LogoutRead DEF ClientInv
  <1>5. CASE ExchangeSteps
    BY <1>5, ExchangeBase, ExchangeTells, LogoutAnsweredHere DEF ClientInv
  <1>6. CASE UNCHANGED vars
    <2>1. UNCHANGED <<ids, orders, quote, gw, inbox, out, accepted, refused, executed>>
      BY <1>6 DEF vars, gateway
    <2>2. UNCHANGED <<app, call, next_order, views, quoted, signals, reader, link, seen>>
      BY <1>6 DEF vars, initiator
    <2>3. Story' /\ LastWords' /\ Waits'
      BY <2>1, <2>2, AsideKeeps
    <2>4. LogoutUnderWay'
      BY <2>1, <2>2, QueuedStays
    <2>5. Base'
      <3>1. views \in Table /\ seen \in Nat /\ quoted \in Nat
            /\ next_order + quoted <= MaxRequests
            /\ \A w \in Wire : views[w] # None => w <= next_order
        BY DEF ClientInv, Base, ClientType, Numbers
      <3> QED
        BY <2>1, <2>2, <3>1, BesideRequests DEF ClientInv
    <2> QED
      BY <2>3, <2>4, <2>5 DEF ClientInv
  <1> QED
    BY <1>1, <1>2, <1>3, <1>4, <1>5, <1>6
       DEF Next, BesideSteps, Receiving, ExchangeSteps, Reader, Exchange

-----------------------------------------------------------------------------
(* Theorems *)

LEMMA InvariantHolds == Spec => []ClientInv
  <1>1. Init => ClientInv
    BY ClientStarts
  <1>2. ClientInv /\ [Next]_vars => ClientInv'
    BY ClientStep
  <1> QED
    BY <1>1, <1>2, PTL DEF Spec

LEMMA StoryEnds ==
  ASSUME ClientInv, Quiet
  PROVE  Agree(views, orders, refused, {})
  <1>1. /\ link = "up" /\ gw # "closed" /\ reader = "running"
        /\ inbox = <<>> /\ out = <<>> /\ \A t \in Thread : call[t].step = "idle"
    BY DEF Quiet, Idle
  <1>2. PICK u : Leads(Told, out, u) /\ Agree(u.views, orders, refused, Asked(call, inbox))
    BY <1>1 DEF ClientInv, Story
  <1>3. u = Told
    BY <1>1, <1>2, LeadsNowhere
  <1>4. Asked(call, inbox) = {}
    BY <1>1 DEF Asked
  <1> QED
    BY <1>2, <1>3, <1>4 DEF Told

\* Whatever calls, fills, expiries and rejects crossed on the way: when nothing
\* is under way on a connection that works, the client's open views are the
\* session's working orders, with the state and the quantities they have
\* (handle_execution_report and the CancelReject arm of initiator_reader).
THEOREM ViewsComeToAgree == Spec => []ViewsAgree
  <1>1. ClientInv => ViewsAgree
    <2> SUFFICES ASSUME ClientInv, Quiet, NEW w \in Wire
                 PROVE  LET o == RecordOf(w)
                            v == views[w]
                            working == o # None /\ IsActive(o.state)
                        IN  /\ working =>
                                /\ v # None
                                /\ v.state = OnTheWire(o.state)
                                /\ v.qty = o.qty /\ v.remaining = o.qty - o.cum
                            /\ v # None /\ IsActive(v.state) => working \/ w \in refused
      BY DEF ViewsAgree
    <2>1. AgreeOn(w, views, orders, refused, {})
      BY StoryEnds DEF Agree
    <2>2. RecordOf(w) = orders[w]
      BY RecordStraight DEF RecordOf, ClientInv
    <2> QED
      BY <2>1, <2>2 DEF AgreeOn, Working, Tells, Shows, OpenOf
  <1> QED
    BY <1>1, InvariantHolds, PTL

\* A client that read the exchange's Logout was told of every trade before it
\* (the tail of handle_connection, and writer_loop's order).
THEOREM LogoutComesLast == Spec => []LogoutTellsAll
  <1>1. ClientInv => LogoutTellsAll
    BY DEF ClientInv, LastWords, LogoutTellsAll
  <1> QED
    BY <1>1, InvariantHolds, PTL

\* disconnect() on a connection that works waits for a Logout that is under way
\* (the Logout arms of handle_connection and initiator_reader).
THEOREM LogoutIsUnderWay == Spec => []LogoutUnderWay
  <1>1. ClientInv => LogoutUnderWay
    BY DEF ClientInv
  <1> QED
    BY <1>1, InvariantHolds, PTL

\* A view that is New has its request or its answer under way, unless that
\* request did not decode: no answer is lost, or goes to another view
\* (create_order, modify_order, and the initiator's reader).
THEOREM NewIsAnswered == Spec => []NewIsUnderWay
  <1>1. ClientInv => NewIsUnderWay
    <2> SUFFICES ASSUME ClientInv, link = "up", gw = "open", reader = "running",
                        NEW w \in Wire \ refused,
                        views[w] # None, views[w].state = "New"
                 PROVE  \/ \E t \in Thread : call[t].step = "send" /\ Asks(call[t].msg, w)
                        \/ \E m \in Range(inbox) : Asks(m, w)
                        \/ \E m \in Range(out) : Answers(m, w)
      BY DEF NewIsUnderWay
    <2>1. w \in Asked(call, inbox) \/ \E k \in DOMAIN out : AnswersTo(out[k], w)
      BY DEF ClientInv, Waits
    <2>2. CASE w \in Asked(call, inbox)
      BY <2>2 DEF Asked, Range
    <2>3. ASSUME NEW k \in DOMAIN out, AnswersTo(out[k], w)
          PROVE  out[k] \in Range(out) /\ Answers(out[k], w)
      <3>1. PICK S : out \in Seq(S) /\ \A r \in S : Named(ids, r)
        BY DEF ClientInv, Base, GatewayInv, AllNamed
      <3>2. Named(ids, out[k])
        BY <3>1
      <3>3. w # NoWire
        BY WireAssumption
      <3> QED
        BY <2>3, <3>2, <3>3 DEF Range, AnswersTo, Answers, Named, Knows, NameOf, WireName
    <2> QED
      BY <2>1, <2>2, <2>3
  <1> QED
    BY <1>1, InvariantHolds, PTL

=============================================================================
