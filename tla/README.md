# rust-trader in TLA+

rust-trader is a FIX 4.2 exchange simulator: a matching engine behind one mutex,
one reader and one writer thread per FIX connection, lock-free market data
snapshots, a REST server that reads them, and a client library. This directory
holds TLA+ models of the parts that carry its logic, TLC runs that check them on
small instances, and TLAPS proofs that every safety property TLC checks holds for
every instance: of the engine under both fill policies, of sequence numbers in both
directions, of the acceptor and its ClOrdID map, of the client's views, of the
framing and of the session log.

Contents: [inventory](#inventory) · [models and code](#models-and-code) ·
[properties](#properties) · [runs](#runs) · [fairness](#fairness) ·
[proofs](#proofs) · [findings](#findings) · [limits](#limits) · [plan](#plan).
Source paths are relative to `src/` (so `src/core/order.rs` is
`src/src/core/order.rs` seen from the parent of this directory).

## Inventory

| Component | Source | State | Operations | Correct when |
|---|---|---|---|---|
| Order | `src/core/order.rs` | one order: quantity, remaining, executed, average price, state | `limit`, `market`, `apply_fill`, `is_active` | executed + open = ordered, whatever happened to it |
| Price levels, book | `src/core/orderbook.rs` | per price a FIFO (BTreeMap by key), an index, a running total; two BTreeMaps of levels | `add` (insert, match, drop market remainder), `remove`, `quote` legs, `build_book`, and `insert_only`/`execute` of the tiered mode | price-time priority; totals equal to the orders; uncrossed after matching; trade prices inside both limits |
| Engine | `src/core/exchange/mod.rs` | sessions with a *mirror* of their orders and quotes, books, DAY dates, arrival counter, statistics, dirty set of market data | `register_session`, `session_disconnect`, `create_order`, `modify_order_with_type`, `cancel_order_with_id`, `quote`, `expire_day_orders` | mirror and book agree; nothing stays in a book that nobody can remove; clients are told what the engine knows; matching ends |
| Market data | `src/market_data.rs` | per instrument one atomically swapped snapshot | `register`, `publish`, `snapshot` | readers see only finished, uncrossed books, with growing versions, the last one current |
| Bounded queue | `src/queue.rs` | a bounded channel and a failed flag | `send` | an overflow closes the connection, never blocks the sender |
| Acceptor | `src/fix/session.rs` 98-321, 598-611, 802-1149 | reserved names, per connection: reader thread, writer thread, queue, stream | accept, reserve, bootstrap, register, loop, disconnect, join; writer loop | one connection per name; Logon first, Logout last; no report to the wrong stream; the lock and the name are always given back |
| Inbound sequence numbers | `src/fix/session.rs` 360-462, 1013-1099 | expected number, queue of early messages, start of the gap asked for | `classify`, `advance`, `take_ready` | each message once, in order, none left out; gaps close |
| Outbound numbers, keepalive | `src/fix/session.rs` 207-277, 350-355, 974-1022, 1713-1760 | next number of the writer; time of the last message, pending TestRequest and its deadline | `frame_gap_fill`, the writer's `ResendRequest` branch; probe, answer, close | an answer covers exactly the numbers asked for and sent; a peer that answers stays, a dead line is noticed |
| ClOrdID map, business messages | `src/fix/session.rs` 110-174, 1151-1349 | two maps between wire ids and internal ids | `intern`, `fresh_id`, `handle_business` | the two maps stay inverse; ids are not reused |
| Initiator | `src/fix/session.rs` 1351-1952 | views of orders, connection signals | `connect`, requests, `handle_execution_report`, `disconnect` | the views follow the reports |
| Framing | `src/fix/frame.rs` | `FrameReader`: bytes of the frame in progress, its length once known | `read_message`, `parse_wire`, `frame` | frames come out whole, once and in order, however the bytes arrive; only wrong ones are refused |
| Session logs | `src/fix/log.rs` | `DailyFiles` under a mutex: date, open files, retention | `incoming`, `outgoing`, `incoming_bytes`, `rotate`, `prune_session_logs` | a record is in the file of its day, and is deleted only when old enough |
| Codec | `src/fix/codec.rs` | none | decode, encode | – |
| Config, REST, runtime, programs, instruments | `src/fix/config.rs`, `src/rest.rs`, `src/runtime.rs`, `src/bin`, `src/core/instrument.rs` | none that other parts depend on | I/O at start or at the edge | – |

How they interact. A connection thread takes the engine mutex for each request,
for `expire_day_orders` once per turn of its loop, for registration and for
disconnect. The engine, inside the call, publishes snapshots and pushes reports
into the queues of *any* session; the receiving connection's own thread pushes
session messages (answers, rejects, the Logout) into the same queue, mostly
without the mutex. A writer thread per connection drains it. Snapshots are read
without any lock, also in the middle of an engine call.

What is hard here: the mirror, the book and the trades hold three copies of an
order that are updated at different times; orders leave a book by the side and
price the mirror remembers; keys restart when a level empties and arrivals
restart on a replace; reports are sent after market data; a report for a leaving
session races its disconnect; a full queue is detected in three separate steps;
messages below, inside and above a gap overlap with resent ones; a client's views
are changed by its calls and by reports that cross them; a TestRequest and its
answer travel through the same queues and gaps as the messages they watch; a
frame is interrupted by read timeouts at any byte; two threads bring dates to one
log in either order around midnight; the tiered policy fills orders along paths
that the matcher never takes. The `hazards` of `PROJECT.json` list these at their
lines, each with the properties that watch it.

## Models and code

### `OrderBook` and `Engine`

`OrderBook` holds orders, entries, levels and the book's operations as operators
on values; `Engine` has the state machine. Names follow the source.

| Variable of `Engine` | Code |
|---|---|
| `sessions`, `orders`, `quotes` | `Engine.sessions`, `Session.orders`, `Session.quotes` |
| `books` | `Engine.books`; a book is its entries (order, FIFO key) and per level the running total and next key |
| `dates`, `today` | `Engine.order_dates`, the calendar day |
| `next_arrival` | `Engine.next_arrival` |
| `sequence`, `pending`, `stats`, `published` | market data version counter, dirty map, statistics cache, the snapshot slots |
| `told` | what the reports sent so far say of an order (history of the client's side) |
| `op` | the local state of the method in progress |

A public method runs under the mutex, so methods do not interleave. But a lock-free
reader sees the states inside one, a loop inside one may fail to end, and a
method's later steps work on copies made by earlier ones. So each method is a first step
(`CreateOrder`, `ModifyOrder`, `CancelOrder`, `Quote`, `SessionDisconnect`,
`ExpireDayOrders`) and the steps of its loops: `Match` (one trade) and
`MatchDone`, `Publish` (one instrument) and `PublishDone`, `Report` (one trade's
two fills), `Finish`, `DropOrder`/`DropQuote`/`DropDone`,
`ExpireOrder`/`ExpireDone`. No method starts before `op = Idle`. Rejections
(unknown session, duplicate id, inactive order, quantity below what was executed)
change nothing and are guards.

Abstractions. Prices and quantities are natural numbers of ticks and lots instead
of `Decimal`. The average price is kept as the sum of price times quantity, which
determines it together with the executed quantity. Of the statistics, what trades
contribute is kept. `modify_order_with_type` has a branch for an active order that
is not in the book, which repeats the order's status and returns; `MirrorAgrees`
shows that no such order exists between methods, and the action's guard requires the entry. `create_order` records the trades'
statistics after matching; `Match` adds them trade by trade, which no reader can
tell since publication comes later. The mirror entry after a disconnect is
removed order by order, while the code owns the removed session struct; no other
method runs in between. Instruments are fixed: `create_instrument` and
`load_instruments` run at start. The fill policy of `Engine` is `Real`; the other
one is `FillPolicy`.

### `FillPolicy`

An engine keeps the `FillPolicy` it was created with: `policy` is chosen in
`PolicyInit`. Under `Real` the model is `Engine`. Under `Tiered` an accepted order rests
(`insert_only`) and is filled by a plan made from its open quantity
(`tier_fill_plan`), one `TieredFill` per entry; `TieredCreate` and `TieredModify` are the tiered
branches of `create_order` and `modify_order_with_type`; cancels, expiry,
disconnect and publication are the actions of `Engine`, and `quote` is refused.
`faulted` records that `insert_only` or `execute` returned an error, which the code
calls an invariant violation and survives by publishing what there is; `granted`
is a history of what each order is entitled to.

The limits 100, 1000, 2000 and 256 fills are the constants `TierChunk`,
`TierOne`, `TierHalf` and `MaxTierFills`. Quantities are multiples of a power of
two, so that the half of a tier is exact, as it is in `Decimal`. `TierAssumption` asks
that the limits are ascending naturals and the last plan fits `MaxTierFills`, as the
code's do (2000 < 256 * 100). A tiered market
order has the fixed price as its price and level key; only the echoed type tells
it from a limit order, and it is one here.

### `Sequencing`

`SequenceState` (`expected`, `queued`, `resend_from`) and the part of the
connection loop that drives it. `classify` is the disjunction of `Duplicate`,
`TooLow`, `Gap`, `TooMany` and the actions on a due message; `advance` is `Accept`,
`Jump`, `JumpBack`; a message that `decode` refuses is `Reject`. The counterparty
is the environment: it numbers messages (`Send`), uses numbers that do not arrive
(`Lose`), answers a `ResendRequest` by resending (`Resend`) or by one gap fill
(`Fill`), resets (`Send("reset")`), and, in one run, repeats a number without
`PossDupFlag` (`Repeat`), which FIX forbids. A message is its number, kind, `PossDupFlag` and `NewSeqNo`.

`Delivery` says what this is for, without queues, resends or duplicates: the
counterparty uses numbers and may give some up, the application gets the business
messages in the order of their numbers, each once, and no number is passed that
it should have had. `Sequencing` instantiates it (`next` is `expected`, `handed`
the numbers handed over, `over` a session that was logged out) and
`ImplementsDelivery` is the refinement. It holds for every counterparty of the
model except one that sends a reset which `decode` refuses; that is finding 2.

### `Link`

The other direction, with time. `mailbox`, `seq` and `WriterStep` are the queue,
`WriterState.seq` and one turn of `writer_loop`; `FillOf` is its answer to a
`ResendRequest`. `silent`, `probe` and the actions `Read`, `SendProbe`, `Close` are
`last_received`, `pending_test` and what the connection loop does with them, in
its order: the deadline first, then the stream, then the silence. Both ends run
this code, so either may be "ours". The peer is the environment: it may fail to
take in a frame, holds later ones, asks for the gap as an open or a closed range
(`PeerAsks`) or for any range at all (`PeerAsksAnything`), speaks when it likes
and answers a `TestRequest` when its turn comes. `Cut` kills the line without
telling either end. `Tick` is the passing of time: nothing of ours waits longer
than a tick (the socket poll is 500 ms, far below a heartbeat), a living
direction delivers within `Delay`.

The id of a probe holds the number expected next in the code; here probes are
counted. A second probe is due only after the answer to the first, which has
raised that number, so the ids differ in the code as well. Messages the peer
sends have no numbers in this module; those are `Sequencing`.

### `Acceptor`

Connections with their reader thread (`pc`, `todo`, `step`), writer thread
(`writer`, `writing`), bounded queue, failed flag and TCP stream, the set of
reserved names, the engine mutex and the engine's table of report destinations.
`Sender::send` is three steps (`SendLoad`, `SendTry`, `SendStore`) because the
code loads the flag, tries the channel and stores the flag separately. What a
request does to the books is module `Engine`; here an engine call is the lock, a
choice of reports to registered sessions (none, a status, both parties of a
trade, an acknowledgement) and the release. Heartbeats and session answers that
come before a Logout are not recorded in the output, since no property tells
them apart.

### `Framing`, `SessionLog` and `SessionIO`

`Framing` is `FrameReader`: `pending` and `total` are its fields, `Call` to
`TimeOut` the steps of `read_message`, `Examine` its decision after each read,
with `parse_wire` as the condition `Parses`. Reads return one byte at a time until
the length is known, then any number up to the rest of the frame. A byte is a
record, and a field of several bytes shrinks to one; `Frames` has two good frames, with
bodies of `MinBody` and `MinBody + 1` bytes, and a
frame for each ground of refusal (wrong first or second field, endless head,
length too great or too small, non-text body, wrong sum, length too short or too
long for the body). A read that is interrupted by a signal is retried in the code
and is left out. `frame`, which formats, is not modelled. The sizes are those of the
code up to `FramingAssumption`: a head fits `MaxPrefix` and the larger good frame
`MaxMessage` (in the code 5 bytes of body at least, and a mebibyte at most).

`SessionLog` is `DailyFiles` under its mutex. Because `incoming` and `outgoing` take
the time before the mutex, a record of yesterday may come after one of today and
turns the log back; opening, pruning and writing may each fail. The two files of
a day (messages, events) are opened and deleted together, so one set of records
stands for both. Retention 0 keeps everything.

`SessionIO` composes them: the reader logs each frame before it is handled, and
the bytes of a frame it must refuse, while the writer logs before it sends.

### `WireIds`, `Gateway` and `AnyClient`

`WireIds` holds `WireIdMap` as operators: `InternedId` and `Intern` are what
`intern` answers and leaves, `IsFresh` is `fresh_id`. `Gateway` is one logged-on
connection from the decoded request to the report that is written: an action per
arm of `handle_business` (`NewOrderSingle`, `CancelRequest`, `CancelReplace`,
`MassQuote`), each with all its rejects, `RefuseRequest` for a request that does
not decode, `Logout`, and `Fill`, `FillQuote`, `Expire` for what other
connections' threads do to this session's orders meanwhile. Since the thread
holds the engine mutex through `handle_business`, a request and its reports are
one step, and module `Engine` is reduced to the session's own order records: how
much an order trades, and when, is a free choice (`Fills`: what it has executed after
each trade of a matching run). A symbol and a side are one
`Contract`; prices are left out; quantity 0 stands for any value `decode`
refuses. Reports keep engine ids until they are read, as the writer translates
them late; `names` records which ClOrdIDs the client must then see. `AnyClient` drives `Gateway` with every request, one at a time.

### `Client`

The `Initiator` at the other end of a `Gateway`. `create_order` is `CreateOrder`
and `SendRequest`; `modify_order` and `cancel_order` are `LookUp`, `Register` and
`SendRequest`, because the code releases the table of views in between and the
reader thread (`ReadReport`, `ReadRejected`, `ReadCancelReject`, `ReadLogged`,
`ReadLogon`, `ReadLogout`, `ReadEof`, `ReaderTimeout`) changes it meanwhile.
`connect`, `disconnect`, `drop` and `stop_threads` move `app`. Each direction of
the stream, with the queue and the writer in front of it, is one FIFO; when the
link is down the reader at either end may see the end of the stream at any time,
so any suffix may be lost. Numbers, gaps and probes are modules `Sequencing` and
`Link`.

`MCEngine`, `MCAcceptor`, `MCAnyClient` and `MCClient` add symmetry sets, the
assignment of names, and the ClOrdIDs with the numbers they parse as.

## Properties

Books (`EngineProps`): `QuantityConserved`, `LevelTotals`, `FifoIsArrival`,
`PriceTimePriority`, `TradeWithinLimits`, `Uncrossed`, `MatchingEnds` (each trade
of a call fills one of its two orders for good). Mirror and clients:
`MirrorAgrees`, `NoGhosts`, `TerminalIsFinal`, `ClientInformed`.
Market data: `SnapshotCurrent` (a finished method leaves
nothing unpublished, and under the `Real` policy no fill is reported before the
snapshot that shows it). Progress: `DayOrdersExpire`.
`EngineInv` is the inductive invariant of the proofs, checked by TLC as well;
`PublishedUncrossed` (a lock-free reader never sees a crossed book) is a part of it and
is checked with it.

Of the loops that run under the engine mutex, `match_trades` is the only one without a
bound of its own: it goes on until the book is uncrossed. `MatchingEnds` says why it
stops: every trade moves a positive quantity and leaves one of its two orders with nothing
open, and that order is in no later trade, so there are fewer trades than orders in
the book. It is an invariant, so it needs no fairness, and it is proved for books of any
size. The other loops are a `for` over trades, orders, quotes, instruments or dates that the
call has taken; that no step of them can be stuck is TLC's deadlock check.

Fill policy: `NoBookFault` (what a plan asks of the book is there),
`TierOutcome` (an order has executed what the table of
`docs/tiered-fill-plan.md` grants, replaced or not, in no more fills than the
queues are sized for), `PolicyKeepsBooks` (totals, mirror, reports and snapshots
also agree along the tiered paths).

Sequencing: `ImplementsDelivery` (no loss, no replay, no reordering),
`ConformingPeerStays`, `GapsClose`; in the violating run `DuplicatesWereHanded` (what
is dropped as a duplicate was handed over before). `GapsClose` also covers sessions with
messages that `decode` refuses, up to one state, `RequestLeftOpen`: such a message has
passed the number the open request begins with, without clearing `resend_from`.

Link: `InStep` (no answer takes the peer beyond what was sent, or over what it
did not ask for), `Recovers` (a gap closes), `AnsweringPeerStays`,
`SilentPeerGoes` (a dead line is noticed although TCP says nothing).

Acceptor: `SinkIsLive`, `StreamShape` (Logon first, nothing after the Logout),
`OrderlyMeansComplete` (an orderly Logout means no report was dropped),
`ConnectionEnds` (a failed or finished connection closes and gives its name
back), `LockReleased`.

Reader, writer and log: `FramesInOrder`, `FramesDelivered`, `Logged` (what was
read is in the log, each record under its day, and leaves it only when old).

Gateway: `ReportsNamed` (a report is written under the ClOrdIDs of the request it
answers), `AcceptedOnce` (a ClOrdID takes effect at most once).

Client: `ViewsAgree` (when nothing is under way, the open views are the working
orders), `NewIsUnderWay` (a New view has its request or its answer on the way),
`LogoutTellsAll` (a client that read the Logout was told of every
fill), `LogoutUnderWay` (a waiting `disconnect` has a Logout on the way). The
first two make an exception for a request that does not decode: its session
reject names no ClOrdID, the client only logs it, and the view stays New. A view
in a final state may still change to another one: a cancel that names the ClOrdID
of an earlier cancel is rejected with OrdStatus Rejected, and the Cancelled view
then says so.

Each is stated in words above its definition. Each has a mutant in
`PROJECT.json`: a small change of a mapped definition, such as a plausible slip
would make (time priority reversed, a removal that misses one quote leg, a queue
that blocks, a flag that is not looked at), under which TLC finds the property
violated. The mutants stand beside the definitions they change.

## Runs

| Run | Instance | Question and answer |
|---|---|---|
| `engine_orders` | 2 sessions, 2 ids, 1 instrument, prices {1,2}, quantities {1,2}, 3 arrivals | Orders, replaces, cancels, fills, disconnects: quantities, totals, FIFO, priority, mirror and reports agree at every step, and no filled order trades again. Three arrivals give two makers and a taker, a partial fill followed by a replace, and a level that empties and fills again. |
| `engine_quotes` | 2 sessions, 1 id, 1 instrument, 3 arrivals, 2 days, quotes while at most 3 versions were used | Quotes that cross orders, each other and themselves, re-quotes, withdrawals, disconnects, orders that expire between them and stay as expiry left them; `EngineInv`. Three arrivals give a two-sided quote and an order that hits one leg. |
| `engine_policy` | either policy, 1 session, 2 ids, 2 instruments, 2 arrivals, 3 days, quantities on and beside each limit of the plan, fair | The tiered paths keep the book, execute what the table says and never fail; snapshots of both instruments follow an expiry or a disconnect; overdue orders expire under both policies. The limits are 8, 16, 32 and 40 (the code's ratios do not matter, only their order). |
| `engine_replace` | replacement to Market allowed | *Violation* of `ClientInformed` (finding 1). |
| `sequencing` | numbers 1-5, 2 lost, 1 repeated, queue of 2, all message kinds except invalid resets, fair | The session implements `Delivery`, logs no conforming peer out, closes every gap. Five numbers allow two disjoint gaps, a resend overlapping the queue, and a queue at its limit. |
| `sequencing_reset` | numbers 1-4, 1 lost, resets that `decode` refuses | *Violation* of `DuplicatesWereHanded` (finding 2). |
| `link` | 2 ordinary messages, 1 lost, 1 arbitrary range, 1 silence of a living peer, probe after 2 ticks, deadline 3 ticks after, delay 1, fair | Numbers stay in step, gaps close, the right peers are logged out. With three numbers (the third a `TestRequest`) a range may be below, across and beyond what was sent, and a probe may land behind a gap. |
| `acceptor_names` | one name, two connections, one instrument to announce, peers that vanish, queue of 1, fair | Reservation, destination and threads never mix; every connection ends and gives its name back. |
| `acceptor_reports` | two names, one instrument to announce, queue of 1, writers that may stop for ever | Frame order, no Logout after a loss, mutex always released. |
| `gateway` | ClOrdIDs "1", "01" and "a", internal ids 1-2, 3 requests of any kind, limit and market, a listed and an unlisted contract | Reports carry the right ClOrdIDs and none acts twice. Two spellings of one number and a word for two internal ids make collisions and exhaustion happen. |
| `client` | 3 requests (orders, replaces, cancels, quotes) with valid and invalid quantities, one application thread, breaks while at most one id is out | The views agree with the exchange, orderly logouts are complete. Three requests give an order with two requests in flight for it, and a replacement that is itself replaced or cancelled before its report. |
| `session_io` | 2 frames of 11 kinds, reads of 1 or 2 bytes, frames of at most 7 bytes, 3 days, retention 0 or 1, 1 failure, 1 outgoing frame, fair | Frames survive every split and timeout; records are filed right around midnight and around a failure. Two frames show that one does not eat into the next; the third day makes a file old enough to delete while a late record turns the log back. |

Two sessions suffice for the engine because no operation relates three; two
connections for the acceptor because a report involves the sending thread and the
stream it is for. A queue of one message makes overflow happen on the second
send, also between the Logon reply and the first definition; the model does not depend on the capacity otherwise. Arrivals are bounded by
`MaxArrival`, market data versions by `MaxSequence` (a guard of `Quote` alone, since
the other requests are bounded already), days by `MaxDay`,
numbers by `MaxSeq`, losses by `MaxLost`, engine calls and answers by `MaxWork`, requests by
`MaxRequests` (`client`) and `MaxSent` (`gateway`), trades of one matching run by `MaxTrades`, and the time at which the
client's connection may break by `MaxBreak`. In `link`, messages, losses, free
ranges and silences are bounded by `MaxSeq`, `MaxLost`, `MaxAsk` and `MaxProbes`; in
`session_io`, frames by `MaxFrames` and `MaxOut`, failures by `MaxFaults`.
`engine_orders` leaves out replacement to Market only because `ClientInformed`
fails there; the proofs below cover it for the other invariants.

Deadlock is checked in `engine_orders`, `engine_quotes` and `engine_policy`: the
engine can always take a step (sessions may register again). It is off where the
system really stops: a closed FIX session or connection does nothing more. (In
`session_io`, a reader that met a wrong frame or the end of the stream is done.)

## Fairness

- `EngineProps!FairSpec`: weak fairness of `Continue`, the inner steps of a method. The code
  inside a method waits for nothing: reports use `try_send`, snapshots are a
  pointer swap. Strong fairness of `ExpireDayOrders`: every connection thread
  calls it each turn of its loop (at least every 500 ms, the socket poll), so it
  cannot be passed over for ever although other methods also get the mutex.
- `FillPolicy!PolicySpec`: the same, with the fills of a plan among the inner steps.
- `Sequencing!FairSpec`: the connection loop reads on, and the counterparty
  answers a `ResendRequest`, as FIX obliges it to. Nothing makes it send more.
- `Link!Spec`: the writer and the connection loop are threads of their own and
  never wait for the peer (reads time out, writes have a timeout), the peer takes in
  what reaches it and asks for its gaps, and time passes. Nothing makes the peer
  speak, and nothing is fair once the line is cut except our own end and the clock.
- `SessionIO!Spec`: the reader calls again after a timeout and logs what it read
  (weak). Strong fairness of `Reading`: bytes that have arrived are returned by the
  next read, so timeouts cannot keep them away for ever although each call may time
  out first. The peer, the writer and the calendar are not fair.
- `Acceptor!ThreadSpec`: each connection thread is scheduled. Its reads time out
  after `SOCKET_POLL`, and no holder of the mutex blocks. Nothing is assumed of
  the writers. `LockReleased` needs no more. `FairSpec` adds the writers: a write ends
  within the stream's write timeout, a wait for a message within the heartbeat
  interval, so `Join` does not wait for ever.

`AnyClient` and `Client` state no fairness; that answers and the Logout do arrive is
stated there as what is under way (`NewIsUnderWay`, `LogoutUnderWay`).

## Proofs

Each theorem holds for all values of the constants.

| Module | Theorem | Says |
|---|---|---|
| `EngineProofs` | `TypeCorrect` | `Spec => []TypeOK`; in particular no open quantity becomes negative |
| | `EngineSafe` | `Spec => []EngineInv` |
| | `BooksUncrossed` | `Spec => []Uncrossed` |
| | `ReadersUncrossed` | `Spec => []PublishedUncrossed` |
| | `LimitsRespected` | `Spec => []TradeWithinLimits` |
| | `QuantityIsConserved` | `Spec => []QuantityConserved` |
| | `NothingLeftBehind` | `Spec => []NoGhosts` |
| `EngineViewProofs` | `KeysFollowArrival` | `Spec => []FifoIsArrival` |
| | `PriorityKept` | `Spec => PriceTimePriority`: each trade takes the two orders that nobody precedes |
| | `MatchingTerminates` | `Spec => []MatchingEnds`: a trade fills an order that no later one touches |
| | `SnapshotsAreCurrent` | `Spec => []SnapshotCurrent` |
| | `MirrorIsBook` | `Spec => []MirrorAgrees`: the mirror's active orders are the book's, field by field |
| | `TerminalStays` | `Spec => TerminalIsFinal` |
| | `TotalsAreExact` | `Spec => []LevelTotals`: a level's total is the sum of what its orders have open |
| | `ClientsAreInformed` | `Spec => []ClientInformed`, when `"Market"` is not among the types a replacement may ask for (finding 1) |
| `FillPolicyProofs` | `BooksNeverFault` | `PolicySpec => []NoBookFault`: no book operation of a tiered method fails |
| | `TiersAreExact` | `PolicySpec => []TierOutcome`: orders execute what the table grants them, in at most `MaxTierFills` fills |
| | `EitherPolicyKeepsBooks` | `PolicySpec => []PolicyKeepsBooks`, under the condition of `ClientsAreInformed` |
| `SequencingProofs` | `SequencingImplements` | `Spec => ImplementsDelivery`: the refinement, unless the counterparty sends a reset that `decode` refuses |
| | `ConformingPeersStay` | `Spec => []ConformingPeerStays`, under the same condition |
| `AcceptorProofs` | `SinksAreLive` | `Spec => []SinkIsLive` |
| | `StreamsAreShaped` | `Spec => []StreamShape` |
| | `LogoutsAreComplete` | `Spec => []OrderlyMeansComplete` |
| `LinkProofs` | `PeersKeepStep` | `Spec => []InStep` |
| | `AnsweringPeersStay` | `Spec => []AnsweringPeerStays` |
| `SessionIOProofs` | `NothingEscapesTheLog` | `Spec => []Logged` |
| | `FramesComeInOrder` | `Spec => []FramesInOrder` |
| `ClientProofs` | `ReportsAreNamed` | `AnySpec => []ReportsNamed` |
| | `AcceptedAtMostOnce` | `AnySpec => []AcceptedOnce` |
| | `ViewsComeToAgree` | `Spec => []ViewsAgree` |
| | `LogoutComesLast` | `Spec => []LogoutTellsAll` |
| | `LogoutIsUnderWay` | `Spec => []LogoutUnderWay` |
| | `NewIsAnswered` | `Spec => []NewIsUnderWay` |

### The engine

Assumptions, all named in the modules that declare the constants: prices are
positive naturals and so is the market sentinel; the quote id is no order id
(`QUOTE_ORDER_ID` is 0 and client ids are positive); `None` is neither an order
nor a quote pair; quantities are positive. Nothing is assumed about the relation
of the market sentinel to the prices: the theorems do not need it to be the largest.

None of the safety invariants is inductive alone. A trade is within
limits because the earlier arrival of the two tops is a limit order; that needs
that a market order in a book is the incoming one (`MarketIsIncoming`) and that
the incoming one arrived last (`ArrivalsUnique`). That no market order outlives
its method needs that the removal at the end of `add` hits it, which needs
`ArrivalsUnique` and that every entry is the order its session's mirror knows
(`EntriesOwned`). That is kept by cancels, replacements, expiry and disconnects
because a removal by the mirror's side and price hits exactly that entry
(`RemovalHits`, `QuoteRemovalHits`), which in turn needs that outside matching
there are no market orders. Quotes add `QuotesUnique` (one leg per side and
session) and, in `OpShape`, what is known of the ask leg while the bid leg is
being matched; reports add `CopiesKnown` (the copies in hand are of orders the
mirror knows, so copying them back changes only execution fields).

What is seen of a book agrees with it for five further reasons, each an invariant of
its own on top of `EngineInv`; a sixth says why matching ends.

- `QueueInv`: in each book the keys of a level follow arrival and are below the next
  one (`Ordered`). A level that empties starts again at 0, which is harmless since it
  has no orders, and what is inserted has the last arrival of all. So `Top`
  is what `Precedes` puts first.
- `LevelInv`: in each book every total is the sum of what the orders of that level
  have open (`Summed`), and a level without orders is gone. No method computes the sum; each
  adds or subtracts what it changes. The sum is the fold `MapThenSumSet`, a recursive
  function over the subsets of a set that takes an element the definition *chooses*;
  see below.
- `SnapshotInv`: an instrument whose snapshot is not its book is dirty, or is the
  one being matched, and once the reports begin none is.
- `MirrorInv`: while a method runs, an order may have a mirror, an entry, copies in
  several trades not yet reported, and a final state to be synced, all different. `Tracked` says how they
  hang together: the entry is the *latest* of them, without an entry the latest one
  is terminal, and all the earlier ones are active. So when all are reported the mirror is the
  entry, and a terminal mirror has no copy coming. It needs that an order has at most one
  entry (`OneEntry`) and at most one side of a trade (`OneCopy`).
- `ToldInv`: an order whose record is not what its client was last told has a report
  still to come (`ToldLater`): it is the incoming order of a create, or the order the call
  ends with, and a status of it or one of its trades is in hand. A final state without a status
  is no news after those trades (`NoNews`). Each trade of a call has the incoming
  order as a party (`IncomingTrades`), because the rest of the book is uncrossed
  (`Apart`); so no other order can change without a trade that tells it.
- `EndsInv`: every order of a book has something open (`Alive`), so the next trade moves
  something and fills one of its two; the arrivals that trades of this call have filled
  are not in the book any more, and what comes later, the ask leg of a quote, has a later
  arrival than all of them. It speaks of arrivals because ids come back: a replacement
  may keep its id, and all quote legs of a session share one.

Layout: `EngineProofs` (lemmas on `OrderBook`'s operators; types; `EngineInv` by groups of
actions; the theorems that follow from it), `EngineViewProofs` (the six invariants above). Lemmas carry the similar cases:
`ShrinkInv` (a step that only removes), `GrowInv` (a step that adds one last
arrival), `ReportingInv` (a step after matching); `QuietSnapshot`, `DirtySnapshot`
and `MatchingSnapshot`; `PlainStep` and `BookedStep` (steps between methods).

Recursive data. No induction theorem of the library can be instantiated here, but the
order of the naturals is well-founded, and that is stated without a parameter. So a set of naturals that
holds 0 and with `n` also `n + 1` holds all (`EveryNatural`, by the least number
it leaves out). With it a recursive definition is shown to have a solution
(`OpenSumsExist`), and any two to agree where both are defined (`OpenSumsAgree`);
then that the sum of a set with one element more is the sum plus
what that one has open, whichever element the fold took first (`OpenInTake`). The
same three steps give what `Lots` plans (`LotsExist`, `LotsPlanned`) and, in
`SessionIOProofs`, that a frame more goes to the end of the frames put end to end
(`FlattenAppend`).

### Fill policies

Assumed is `TierAssumption`: the limits ascend, and the plan of every quantity up to
`TierHalf` fits. `FillPolicyProofs` covers every table of that kind, and any
quantities, also those that the run does not reach. An engine
keeps its policy, so the invariant is one of two (`PolicyInv`).

- Under `Real` every step of `PolicySpec` is one of `Spec` (`RealSteps`), and what is
  inductive there carries over.
- Under `Tiered` the invariant is `TieredInv`. `NoBookFault` alone says nothing of the
  next fill: that it hits needs that the entry a plan is about is in its book at the mirror's
  side and price (`TieredMirror`, `TieredEntries`), is the only one
  (`OneEntryEach`), and has as much open as the rest of the plan still wants
  (`TieredPlan`). Entry and record are equal *between all steps*, which is
  simpler than under `Real`, where copies of an order are updated at different times.
- `TieredGrants`: what an order has executed and what is still planned for it
  (`Due`) is its grant. The plan of a request adds up to the table's
  entry and is no longer than `MaxTierFills` (`TierPlanExact`), which for the last tier
  is the sum of the loop's full chunks and its tail (`LotsPlanned`).
- `TieredTold` and `TieredShown` are what `ToldInv` and `SnapshotInv` are
  under `Real`: a fill is reported in its own step, so only a final state can be still to tell.

`ChangeCore` (a step that touches the entries and records of a few orders of one
session consistently), `PlacedCore` and `FilledCore` carry the cases. Before it was
proved, `TieredInv` was checked with TLC on the constants of `engine_policy`; it is not
a property of that run, since `NoBookFault`, `TierOutcome` and `PolicyKeepsBooks`
say what it is for.

### Sequencing

Assumed is what `SequencingAssumption` says of the bounds and, in the theorems
themselves, that `"badreset"` is not among the kinds of messages: with it the
refinement is false, which is finding 2. Any number of messages, losses, repeats
and places in the queue is covered.

The step that could go wrong is a message taken from the queue, or a gap fill that
moves `expected`, long after it was sent. So `SeqInv` says of every message, on
the wire or queued, that it is *genuine*: it still has the kind its number was
used for, and a gap fill covers only numbers that carry no business message or
were given up (`AllGenuine`). A reset needs that every number up to its own was
given up (`ResetsVoid`). Genuineness is stable, because numbers once used or given
up stay so (`GenuineStays`). Each step of `Sequencing` is then shown to be a step of
`Delivery` or a stutter. `ConformingPeersStay` adds `PeerInv`: as long as nothing
was repeated, a message without `PossDupFlag` is ahead of `expected` and of every
message queued or in front of it on the wire, so nothing in front of it can take
`expected` past it.

### Gateway

The first part of `ClientProofs`, since the client's proofs build on it. Assumed is what `WireAssumption` and `GatewayAssumption` say: a ClOrdID denotes at
most one number, within the range of order ids. `GatewayInv` says that the two maps
are inverse, that every order and every unwritten report is known to them under
the names of its request, and that what was accepted is used up. Nothing ever
leaves the maps, so the names stay; that `intern` picks an id with no name needs
the least member of a set of naturals (`MinIsLeast`). `ReportsNamed` alone is not
inductive: it does not say under which names a later fill of an order goes out.

### Acceptor

Assumed is `AcceptorAssumption`. The proofs cover any number of connections and
names, any capacity, writers that stop, and peers that vanish. They go in three layers.

- `BaseInv`: a name is reserved by one connection at a time and belongs to the
  engine's destination for it (`NamesInv`); the lock is held exactly by the thread
  inside an engine call (`LockInv`); what a thread has to send fits the place it
  is at, and reports go to sessions that are live (`TodoInv`). A session cannot
  leave while another thread has a report for it in hand, since leaving needs the lock.
- `ShapeInv`: the *flow* of a connection (`Flow`: written, in the writer's hand,
  queued) begins with the opening, and is not added to by others before the
  opening is whole (`OpeningInv`), also when a thread has found the flag clear and
  is about to queue; a writer that wrote a Logout is gone (`LogoutInv`).
- `StreamInv`: as long as nothing was dropped, the reports in the flow and those
  the holder of the lock has still to send are all that were addressed
  (`CompleteInv`); a Logout is queued with the lock held by its own thread, so
  nothing is owed then. What was dropped is remembered: the flag is set, or a
  thread is about to set it, or the writer is gone (`Lossy`). The thread that is
  about to set it holds the lock, so the Logout cannot slip in before.

`WriterSteps` (a writer changes the flow only by taking out a minor message) and
`QueuedFlow` (a send adds one message at its end) carry the cases. The counting lemmas
(`CountShift`, `CountAppend`, `CountCut`, `CountTail`) give the number of reports
in a sequence that grows or shrinks by one; none needs induction.

### Link

Assumed is `LinkAssumption`: in particular, that twice `Delay` is less than the
deadline of a probe. The proofs cover any number of messages, losses, requests, probes.

- `NumberInv`: a message on its way bears a number that no frame before it, no frame
  the peer holds and nothing it took in has reached (`NumbersAhead`), so it cannot be
  too low when it arrives, and none of these is beyond `seq + 1` (`NumbersUsed`).
  GapFills overtake nothing: the writer clamps their end. Every fill and
  every request for one tells a range the peer asked for (`FillsAsked`).
- `ProbeInv`: a probe that did not reach the peer behind a gap is with the writer, on
  the line or answered, and the time it has been under way is bounded by the lag of
  the directions it has passed (`ProbeOnItsWay`). It needs `NumbersAhead`:
  a TestRequest that met the peer as too low would be dropped unanswered.

### Client

Assumed is what `WireAssumption`, `GatewayAssumption` and `ClientAssumption` say, of
which the last is specific to this client: its ClOrdIDs are the numbers it counts,
each of which parses as itself. `None` is neither an order nor a view. The proofs cover
any number of threads, requests, quantities and trades, and a connection that breaks
at any time `MaxBreak` lets it.

`ViewsAgree` speaks of quiet states only, so the work is to say what holds while
requests, calls and reports cross. The invariant is `ClientInv`.

- `Base` adds to `GatewayInv` the types, that the exchange keeps a ClOrdID under
  its own number and has not seen those under way (`Numbers`), and that no two
  requests under way have the same one (`Distinct`).
- `Story` says what reading on will lead to. `Leads(st, s, u)` holds when a client that
  knows `st` (its views, and how much it was told of fills) knows `u` once it has read
  the replies `s`. What is in `out` leads the client to views that agree
  with the exchange's orders (`Agree`), except for ClOrdIDs that a request under
  way (`Asked`) or one that did not decode accounts for, and to the quantity executed.
  When nothing is under way there is nothing to read, and this is `ViewsAgree`.
- `Effect` is what a step of the exchange owes the client: its replies lead *any*
  knowledge that agreed before the step to one that agrees after it, and each request
  it takes in is answered by name. It is shown for each branch of `handle_business`,
  for fills, expiries and quotes, and for the ends of a session (`ExchangeEffect`
  collects them).
- A step of the client must not upset the story. The reader's step is its next chapter
  (`ReceiveApplies`). A view that is tracked while older replies are still unread
  commutes with them, because none is about a later ClOrdID (`LeadsBeside`,
  `NewViewKeeps`).
- `LastWords`: a Logout is the last frame on its way, so its reader knows all that the
  story had to tell. `Waits` is `NewIsUnderWay`, also before the Logon is read.

`Leads` asks for the whole course of what is known, as a function of the number of
replies read. A step at the head, more replies at the end (`LeadsFrom`,
`LeadsThrough`) and a view beside them each give another such function, so that
nothing needs induction over the replies.

### Framing and session log

Assumed: what the modules assume of their constants, in particular days up to the
second at least, on which the model starts. The frames may be any records.

- `LogDates`: the open files are those of the log's date, so a record goes into
  the file of its own day; that date may go back behind `newest`, which is why
  `Filed` says when a record may be gone in terms of `newest` and when an old file may
  be there in terms of the log's date.
- `Numbered`: the records of the reader bear the numbers up to `taken`, so that the
  next one is new, whatever the writer logs in between; one is missing only
  after a failure.
- `ReaderCounts`: what the reader delivered or refused is what it logged and the
  frame in hand, which it logs before it reads on.

`FramesInOrder` is about what was read; that the next read keeps it depends on what
is still on its way. `StreamInv` therefore speaks of the whole stream.

- `Continues`: what was delivered, what the reader holds, what is on its way and what
  is lost make up what the peer wrote, in this order; something is lost only
  when the peer broke off.
- `Layout`: behind its first `i` frames, what was written starts with the next one. After
  a wrong frame nothing follows, except after one that is a byte short, and there no
  trailer follows, so the reader cannot take the start of the next frame for it.
- `Decoding`: `total` is known exactly when the head is whole, and less than it is held.

So the reader is always in the first frame it has not delivered (`Position`), and
holds a beginning of it (`Opens`). What it makes of such a beginning (`Verdict`) does not
depend on how it was read: the head's length, once known, stays (`Growth`), a
good frame is never refused and complete exactly at its own end, and a wrong one is
never returned.
`FrameKinds` says this much of each of the eleven frames, for all sizes: good ones
end where they say, wrong ones have a wrong head or show a wrong byte where they
should end, and one wants a byte more than it has.

### Only model-checked

Liveness and `ENABLED` are out of the prover's reach: `DayOrdersExpire`, `GapsClose`, `Recovers`, `SilentPeerGoes`, `ConnectionEnds`,
`LockReleased` and `FramesDelivered` are checked by TLC alone. Every invariant and every
action property of a passing run, and the refinement, is a theorem.

## Findings

1. *A replacement by a market order ends without a report* (`engine_replace`,
   `src/core/exchange/mod.rs:663`). `create_order` sends a status when a market
   remainder is cancelled; `modify_order_with_type` only syncs the record. The
   client goes on believing the order open.
2. *An invalid SequenceReset consumes another message's number*
   (`sequencing_reset`, `src/fix/session.rs:1058`). `classify` lets every reset
   without `GapFillFlag=Y` through; when `decode` refuses it, `expected` is incremented
   although the message of that number is still missing. In the run, 2 is lost, 3 arrives
   and the range from 2 is asked for, an invalid reset numbered 4 consumes the number 2, 3 is
   handed over, and when 2 is resent it is below `expected` and dropped as a duplicate. The
   application never gets it.

Also met while modelling, and written down here rather than as a run:

- A refused message leaves a request open. Only `advance` clears `resend_from`, and a
  message that `decode` refuses does not go through it (`src/fix/session.rs:1058`). When 2
  and 3 are refused after the range from 2 was asked for and resent, `expected` is 4 and
  `resend_from` still 2. If then 4 is lost and 5 arrives, 5 waits, and no `ResendRequest`
  goes out, since one counts as open. This lasts until the counterparty sends 4 unasked
  or resets its numbers, or the queue is full. It is the exception
  `RequestLeftOpen` of `GapsClose`; the gap after it is what no property covers.
- `docs/adr/0005-fix-session-logs.md:19` and `docs/adr/0006-declared-session-admission.md:8`
  promise an event record "Failed handshake: ..." when the Logon of a declared client is
  refused. `src/fix/session.rs:854-887` answers with a Logout and returns before a session
  log is opened, so there is none. `Logged` speaks of connections from the accepted
  Logon on.
- Only the Heartbeat with its id ends a probe; other messages do not. A peer with
  a gap gets the `TestRequest` behind the gap, our GapFill may take it over that
  very number, and it is then logged out although it speaks all the time. It is
  the exception in `AnsweringPeerStays`.
- The comment on `peer_timeouts` (`src/fix/session.rs:350`) has a silent peer
  disconnected after 2.4 heartbeats; the deadline runs from the probe, which is
  sent after 1.2, so it is 3.6.
- Under the tiered policy a fill is reported before the snapshot that shows it.

## Limits

Not modelled, and why:

- `src/fix/config.rs`, `src/core/instrument.rs`: read once at start, before
  any thread; what they yield are the constants of the models.
- `src/fix/codec.rs`: field-by-field text handling. Which messages are refused, and
  what a report tells a client, is in `Sequencing`, `Gateway` and `Client`.
  `frame` of `src/fix/frame.rs` is formatting as well.
- `src/rest.rs`, `src/runtime.rs`, `src/bin`: request formatting, start-up,
  terminal programs and file replay, around calls that are modelled; they
  share no state but the snapshots.
- The event records of the session log (they take the path of the messages) and
  the names of its files.
- The memory ordering of the snapshot swap (the library's guarantee), and a
  poisoned mutex (a panic inside the engine).
- A queue of the client that is full: in `Client` it has no bound. In the code
  the refused send ends the connection, and `ViewsAgree` and `NewIsUnderWay` speak of a
  working one.
- `engine_quotes` checks `SnapshotCurrent` with one instrument. That a method publishes
  several before it reports is in `engine_policy` (`PolicyKeepsBooks`, two
  instruments) and, for any number, in `SnapshotsAreCurrent`.
- Time as a quantity outside `Link`: elsewhere a deadline may pass at any read.

## Plan

Done: `OrderBook`, `Engine` and `FillPolicy` with their properties, runs and proofs;
`Sequencing` and the abstract `Delivery`, with the proof of the refinement; `Link`,
`Acceptor`, `WireIds`, `Gateway`, `Client`, `Framing`, `SessionLog` and `SessionIO` with
their runs and proofs. Of the properties, those of liveness stay with TLC. Of the
code, what [Limits](#limits) lists is left out for the reasons given there.
