----------------------------- MODULE FillPolicy -----------------------------
(***************************************************************************)
(* The engine under either fill policy (core/exchange/mod.rs).  An engine  *)
(* instance keeps the policy it was created with.  Under FillPolicy::Real  *)
(* it is module Engine.  Under FillPolicy::Tiered an accepted order rests  *)
(* without matching and is then filled by a plan that depends only on its  *)
(* open quantity; cancel, expiry, disconnect and publication are shared.   *)
(*                                                                         *)
(* Quantities are in units that make the halves of the plan exact, and the *)
(* limits of the plan are constants.  A tiered market order carries the    *)
(* fixed price in its price field, which is its level key and fill price;  *)
(* its type is only echoed in reports, so it is a limit order at that      *)
(* price here.                                                             *)
(***************************************************************************)
EXTENDS EngineProps

CONSTANTS
    TierChunk,          \* TIER_CHUNK: no fill up to here, lot size above TierHalf
    TierOne,            \* 1000: one full fill up to here
    TierHalf,           \* 2000: one fill of a half up to here
    MaxTierFills,       \* MAX_TIER_FILLS
    TieredMarketPrice,  \* TIERED_MARKET_PRICE
    TieredQuantity      \* order quantities a client of a tiered engine may send

ASSUME TierAssumption ==
    /\ TierChunk \in Nat \ {0} /\ MaxTierFills \in Nat
    /\ TierOne \in Nat /\ TierHalf \in Nat
    /\ TierChunk < TierOne /\ TierOne < TierHalf
    /\ TierHalf < MaxTierFills * TierChunk
    /\ TieredMarketPrice \in Price
    \* every request halves what is open once at most
    /\ \A q \in TieredQuantity : q \in Nat \ {0} /\ q % (2 ^ MaxArrival) = 0

VARIABLES
    policy,     \* Engine.fill_policy
    plan,       \* the fills tiered_fill_existing has still to make
    faulted,    \* a method returned BookInvariantViolation
    granted     \* what the requests so far entitle each order to have executed

tiered == <<policy, plan, faulted, granted>>
policyVars == <<vars, tiered>>

-----------------------------------------------------------------------------
(* The plan *)

\* tier_fill_plan refuses more lots than one request may report.
PlanFits(r) == r <= MaxTierFills * TierChunk

\* The while loop of tier_fill_plan and the tail after it.
Lots(r) ==
    LET lots[rest \in 0..r] ==
            IF rest > TierChunk THEN <<TierChunk>> \o lots[rest - TierChunk]
            ELSE IF rest # 0 THEN <<rest>> ELSE <<>>
    IN  lots[r]

\* Mutant of TierPlan: the limits belong to the tier above them.
TierPlanOpen(r) ==
    IF r < TierChunk THEN <<>>
    ELSE IF r < TierOne THEN <<r>>
    ELSE IF r < TierHalf THEN <<r \div 2>>
    ELSE Lots(r)

\* tier_fill_plan: the tiers below the lots have one fill at most.
TierPlan(r) ==
    IF r <= TierChunk THEN <<>>
    ELSE IF r <= TierOne THEN <<r>>
    ELSE IF r <= TierHalf THEN <<r \div 2>>
    ELSE Lots(r)

-----------------------------------------------------------------------------
(* The book *)

\* insert_only returns no error.
Insertable(b, o) ==
    /\ o.remaining > 0
    /\ Located(b, o.session, o.id, o.side, o.price) = {}

\* insert_only: the state follows from what was executed before.
Rested(o) == [o EXCEPT !.state = IF o.cum = 0 THEN "Booked" ELSE "PartialFill"]

\* The entries execute() can fill by qty at the price of o.
Executable(b, o, qty) ==
    {e \in Located(b, o.session, o.id, o.side, o.price) :
        qty > 0 /\ o.price > 0 /\ IsActive(e.order.state) /\ qty <= e.order.remaining}

-----------------------------------------------------------------------------
(* Methods under FillPolicy::Tiered *)

\* Mutant of TieredOrder: a market order keeps the key of the matcher.
TieredOrderUnpriced(s, id, i, side, type, price, qty) ==
    NewOrder(s, id, i, side, type, price, qty, next_arrival + 1)

\* create_order: the order it builds.
TieredOrder(s, id, i, side, type, price, qty) ==
    NewOrder(s, id, i, side, "Limit",
             IF type = "Market" THEN TieredMarketPrice ELSE price, qty,
             next_arrival + 1)

\* The method goes on to fill o, or, after a book fault, only to publish.
Filling(method, o) ==
    [Idle EXCEPT !.phase = "fill", !.method = method, !.incoming = o]

\* create_order: the order rests, the mirror follows, New goes out, then fills.
TieredCreate(s, id, i, side, type, price, qty) ==
    LET o == TieredOrder(s, id, i, side, type, price, qty)
    IN  /\ op = Idle
        /\ s \in sessions
        /\ orders[s][id] = None
        /\ PlanFits(qty)
        /\ next_arrival < MaxArrival
        /\ next_arrival' = next_arrival + 1
        /\ dates' = [dates EXCEPT ![s][id] = today]
        /\ granted' = [granted EXCEPT ![s][id] = [executed |-> 0, open |-> qty]]
        /\ op' = Filling("create", Rested(o))
        /\ IF Insertable(books[i], o)
           THEN /\ books' = [books EXCEPT ![i] = Insert(@, Rested(o))]
                /\ orders' = [orders EXCEPT ![s][id] = Rested(o)]
                /\ told' = [told EXCEPT ![s][id] = ViewOf(Rested(o))]
                /\ plan' = TierPlan(qty)
                /\ UNCHANGED faulted
           ELSE /\ orders' = [orders EXCEPT ![s][id] = o]
                /\ plan' = <<>>
                /\ faulted' = TRUE
                /\ UNCHANGED <<books, told>>
        /\ UNCHANGED <<sessions, quotes, today, market_data, policy>>

\* modify_order_with_type: the original leaves the book, the replacement rests,
\* Replaced goes out, then fills; nothing rests or fills when nothing is open.
TieredModify(s, orig, id, type, price, qty) ==
    LET old  == orders[s][orig]
        o    == Replacement(old, id, "Limit",
                            IF type = "Market" THEN TieredMarketPrice ELSE price, qty)
        i    == old.inst
        gone == Remove(books[i], s, orig, old.side, old.price)
    IN  /\ op = Idle
        /\ s \in sessions
        /\ old # None
        /\ IsActive(old.state)
        /\ qty >= old.cum
        /\ FreshId(s, orig, id)
        /\ PlanFits(qty - old.cum)
        /\ Located(books[i], s, orig, old.side, old.price) # {}
        /\ next_arrival < MaxArrival
        /\ next_arrival' = next_arrival + 1
        /\ dates' = Redated(s, orig, id)
        /\ granted' = [granted EXCEPT ![s] = [@ EXCEPT ![orig] = None,
                          ![id] = [executed |-> old.cum, open |-> qty - old.cum]]]
        /\ RecordMarketData(i)
        /\ IF o.remaining = 0
           THEN /\ books' = [books EXCEPT ![i] = gone]
                /\ orders' = [orders EXCEPT ![s] = [@ EXCEPT ![orig] = None, ![id] = o]]
                /\ told' = [told EXCEPT ![s] =
                               [@ EXCEPT ![orig] = None, ![id] = ViewOf(o)]]
                /\ op' = Publishing("replace", None, FALSE)
                /\ UNCHANGED <<plan, faulted>>
           ELSE /\ op' = Filling("replace", Rested(o))
                /\ orders' = [orders EXCEPT ![s] =
                                 [@ EXCEPT ![orig] = None, ![id] = Rested(o)]]
                /\ IF Insertable(gone, o)
                   THEN /\ books' = [books EXCEPT ![i] = Insert(gone, Rested(o))]
                        /\ told' = [told EXCEPT ![s] =
                               [@ EXCEPT ![orig] = None, ![id] = ViewOf(o)]]
                        /\ plan' = TierPlan(qty - old.cum)
                        /\ UNCHANGED faulted
                   ELSE /\ books' = [books EXCEPT ![i] = gone]
                        /\ plan' = <<>>
                        /\ faulted' = TRUE
                        /\ UNCHANGED told
        /\ UNCHANGED <<sessions, quotes, today, stats, policy>>

\* One fill of tiered_fill_existing, found at the price of the order as it
\* rested, and reported at once; an error of execute ends the loop.
TieredFill ==
    LET o == op.incoming
        q == Head(plan)
        found == Executable(books[o.inst], o, q)
    IN  /\ op.phase = "fill"
        /\ plan # <<>>
        /\ IF found # {}
           THEN LET e == CHOOSE e \in found : TRUE
                    f == ApplyFill(e.order, q, o.price)
                IN  /\ books' = [books EXCEPT ![o.inst] = UpdateFill(@, e, f, q)]
                    /\ orders' = Mirrored(orders, f)
                    /\ told' = Told(told, f)
                    /\ plan' = Tail(plan)
                    /\ UNCHANGED faulted
           ELSE /\ plan' = <<>>
                /\ faulted' = TRUE
                /\ UNCHANGED <<books, orders, told>>
        /\ UNCHANGED <<sessions, quotes, dates, today, next_arrival, market_data,
                       op, policy, granted>>

\* Mutant of TieredFillDone: the version after the fills is not recorded.
TieredFillUnrecorded ==
    /\ op.phase = "fill"
    /\ plan = <<>>
    /\ op' = Publishing(op.method, None, FALSE)
    /\ UNCHANGED <<sessions, orders, quotes, books, dates, today, next_arrival,
                   market_data, told, tiered>>

\* After the fills, or the fault, the book is recorded and published.
TieredFillDone ==
    /\ op.phase = "fill"
    /\ plan = <<>>
    /\ RecordMarketData(op.incoming.inst)
    /\ op' = Publishing(op.method, None, FALSE)
    /\ UNCHANGED <<sessions, orders, quotes, books, dates, today, next_arrival,
                   stats, told, tiered>>

-----------------------------------------------------------------------------

PolicyInit ==
    /\ Init
    /\ policy \in {"Real", "Tiered"}
    /\ plan = <<>>
    /\ faulted = FALSE
    /\ granted = [s \in Session |-> [id \in OrderId |-> None]]

\* quote() is refused, and nothing ever matches.
TieredRequest(s) ==
    \/ \E id \in OrderId, i \in Instrument, side \in Side, type \in OrderType,
          price \in Price, qty \in TieredQuantity :
          TieredCreate(s, id, i, side, type, price, qty)
    \/ \E orig, id \in OrderId, type \in OrderType, price \in Price,
          qty \in TieredQuantity : TieredModify(s, orig, id, type, price, qty)
    \/ (\E orig \in OrderId : CancelOrder(s, orig)) /\ UNCHANGED tiered

\* Methods that do not look at the policy.
Shared ==
    \/ \E s \in Session : RegisterSession(s) \/ SessionDisconnect(s)
    \/ Tick \/ ExpireDayOrders \/ Continue

PolicyNext ==
    \/ Shared /\ UNCHANGED tiered
    \/ \E s \in Session : policy = "Real" /\ Request(s) /\ UNCHANGED tiered
    \/ \E s \in Session : policy = "Tiered" /\ TieredRequest(s)
    \/ TieredFill \/ TieredFillDone

\* As in EngineProps: a method runs on, and expiry is called again and again.
PolicySpec ==
    /\ PolicyInit
    /\ [][PolicyNext]_policyVars
    /\ WF_policyVars((Continue /\ UNCHANGED tiered) \/ TieredFill \/ TieredFillDone)
    /\ SF_policyVars(ExpireDayOrders /\ UNCHANGED tiered)

-----------------------------------------------------------------------------
(* Properties *)

\* The book paths of the tiered engine never fail: what a plan asks of the book
\* after the request was validated is there, at that price, in that quantity
\* (insert_only, execute; TieredBookError is an internal invariant).
NoBookFault == ~faulted

\* What holds of the matching engine holds of the tiered one: the totals of the
\* levels are exact, the sessions' records agree with the book, the client has
\* been told what they say, and readers see the book as it is.  Tiered fills,
\* cancels, replacements and expiries reach the book along paths of their own
\* (tiered_insert, tiered_fill_existing, execute).
PolicyKeepsBooks == LevelTotals /\ MirrorAgrees /\ ClientInformed /\ SnapshotCurrent

\* The table of docs/tiered-fill-plan.md: what an open quantity r has executed.
TierTotal(r) ==
    CASE r <= TierChunk -> 0
      [] r > TierChunk /\ r <= TierOne -> r
      [] r > TierOne /\ r <= TierHalf -> r \div 2
      [] OTHER -> r

\* Between methods every order has executed exactly what the table grants to
\* the request that made it, on top of what the order it replaced had executed:
\* a tier is never derived again from what is left; and no request has more
\* fills than the outbound queues are sized for (tier_fill_plan).
TierOutcome ==
    /\ Len(plan) <= MaxTierFills
    /\ op = Idle /\ policy = "Tiered" =>
          \A s \in sessions, id \in OrderId :
              orders[s][id] # None =>
                  orders[s][id].cum = granted[s][id].executed
                                          + TierTotal(granted[s][id].open)
=============================================================================
