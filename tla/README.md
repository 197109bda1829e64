# A TLA+ model of cmarket

cmarket is a C++20 trading engine for one market: an aggregated order book, an
order manager, a matching engine with rollback, a queue that puts the engine
behind one worker thread, and around it positions, risk limits, analytics and a
WebSocket feed. This directory holds TLA+ specifications of these parts, TLC
configurations that check them on small instances, and TLAPS proofs. Every
definition is translated from the code; `PROJECT.json` maps each one to its
lines. Source paths below are relative to `src/`.

## Inventory

| Part | State | Operations | Hard behaviours | Status |
|---|---|---|---|---|
| `OrderManager` | order vector, id index, two priority sets | add, cancel, cancel with removal record, restore, resequence | removal moves the last order into the gap and restoring reverses it; half-done `add_order` | modelled |
| `OrderBook` | sorted bid and ask vectors under a shared mutex | update, adjust, replace snapshot, queries | sortedness, duplicates, limits of `int64`, rounding | modelled |
| `TradeStore` | trades, two counters | record, checkpoint, rollback, clear | numbering across rollbacks and clears | modelled |
| `OrderIdGenerator` | counter | next | its limit; backup and restore | modelled |
| `MatchingEngine` | the four above, sequence counter | market, limit, cancel, modify, clear history | failure at any allocation; readers between steps | modelled |
| `BlockingQueue` | queue, closed flag, waiters | push, pop, try_pop, close | notification after unlock, spurious wakeup, close | modelled |
| `ConcurrentMatchingEngine` | command queue, promises, worker | nine submissions, worker loop, shutdown | submission against shutdown, exceptions, draining | modelled |
| `Position*`, `Risk*` | positions, limits | check, execute, apply | position update after the engine committed; truncation; passing through zero | modelled |
| `RollingVWAP`, `TradeStatistics` | window with totals, running statistics | add trade | an execution that is applied half-way | modelled |
| `OrderFlowImbalance`, observable book | previous snapshot, window, total | update, clear, capture | window at its limit; a capture that throws after the change | modelled |
| OFI adapters | mutex, health flag | the engine's operations, each with a capture | captures during commands of other threads; operations that throw | modelled |
| `AnalyticsEngine`, `MarketImpact*` and their adapters | depth, impact, order flow | execute, book update | every part fails by itself around a committed execution | modelled |
| `DepthWeightedPricing`, `LiquidityConcentration` | none | analyze | division, empty sides | modelled |
| fixed-point text | none | parse, format | limits of `int64`, digits lost | modelled |
| WebSocket market state | a book per token | snapshot, price change, payload | reconnection, messages refused in part | modelled |
| WebSocket session | connection, heartbeat, backoff, signal handlers | connect, read, ping, timeout, stop, close, wait | timeout against late pong, slow writes, signals | modelled |
| JSON text, HTTP client, `main.cpp` | none | parse, build, request, argument parsing | none | not modelled |

They interact as follows. Producers submit commands through
`ConcurrentMatchingEngine`; its worker pops them and calls `MatchingEngine`,
which writes `OrderManager` and `TradeStore`, its own, and `OrderBook`, which
other threads read. A feed writes the book through `replace_snapshot`. Risk,
positions and analytics wrap the engine's calls. The WebSocket client has books
of its own, one per token, and does not touch the engine.

## Modules

- `MarketTypes`: sides, prices and quantities, and which price is better.
- `OrderManager`: a manager is a value (`orders`, `order_indices`,
  `priority_index`), a method is an operator from managers to managers. Vector
  positions count from 1; 0 means that an id is not indexed.
- `OrderManagerTxn`: the manager as a state machine under the journal that the
  engine keeps (`OrderMutation`, `Removal`, `incoming_order_added`). The history
  variable `saved` is what the code does not have: copies to compare with.
- `PriceLevels`: a book as quantities per price. `LevelBook` is the abstract
  specification of the class on top of it. `OrderBook` is the class itself, on
  sorted vectors, and is shown to implement `LevelBook`. `BookAverages`: its
  VWAPs and its microprice, in floating point with a mantissa of `MantissaBits`
  bits, since the code computes them in `long double` and casts the result.
- `TradeStore`: the trade history as a value.
- `MatchingEngine`: the operations, one step per access to the shared book.
  `pc` is the place in the code, `op` holds arguments, backups and the incoming
  order, `mutations` is the journal. `MCMatchingEngine` supplies snapshots.
- `PriceTimeMarket`: what the engine promises. What a quantity takes from an
  order is given by the orders ahead of it; there are no loops, no journal and
  no indexes, and an operation happens as a whole, or throws and leaves no
  trace. `MatchingRefinement` maps the engine to it: a caller knows the state
  before the operation until it returns.
- `BlockingQueue`: the methods of the class for any threads; a critical section
  is a step and a notification is another. `QueueClients` lets producers,
  consumers and closers call them in every order.
- `ConcurrentMatchingEngine`: an instance of `BlockingQueue` with one consumer
  (the worker) and one closer (the owner), with promises and the engine reduced
  to which commands its orders and trades contain. An operation is atomic there;
  `MatchingRefinement` is the reason why it may be, as long as no failure of the
  two kinds under "Disagreements" occurs.
- `Position`: `apply_trade` and the risk check as operators on a position.
  `TradeAnalytics`: window and statistics. `RiskManagedExecution` puts one call
  after the other through check, engine, one `apply_trade` per trade and the
  analytics. How much the engine executes is decided when it commits, and how
  that is divided into trades as they are applied. `exposure`, `cash`, `entries`
  and the like are history: what the trades amount to, to compare positions
  with.
- `OrderFlowImbalance`: snapshots, events, window and total for one symbol.
  `MarketImpact`: quotes, depth and impact as functions of books and trades.
- `BookObserver`: what those who observe a book have in common, on top of
  `MatchingEngine`: the order flow, its capture, the health flag, and which
  observer is deployed. There are three modules of observers:
  `OFIObservableOrderBook` captures after each change of a book. `OFIAdapter`
  runs every step of the engine under an adapter, next to callers that
  submit directly: it is both `OFIMatchingEngineAdapter`, and
  `OFIConcurrentMatchingAdapter` with the engine's real steps in between.
  `AnalyticsAdapter` runs the steps of the engine between two quotes and then
  `AnalyticsEngine`; deployed as `impact` it is `MarketImpactExecutionAdapter`.
  `MCBookObservers` starts in any deployment and stays in it.
- `DepthStatistics`: weighted prices and concentration of a book, as exact
  fractions. `FixedPoint`: decimal text to ticks and back, with the number of
  decimal places and the largest integer as constants. These and `BookAverages`
  are functions, and `MCOrderBook` checks them on every book, text and quote.
- `MarketFeed`: the client's side of the market channel, message by message,
  over connections that break. The server and the channel are external.
- `HeartbeatState`: heartbeat and backoff as values, with time points as
  distances from now. `WebSocketSession`: `stream_market`, one action per
  handler of the connection and per stage of the loop around it. What messages
  say is `MarketFeed`, when they are read is `WebSocketSession`; they share no
  state.
- Theorems: `EngineState_proofs` (lemmas on the values that the engine works on:
  manager, book, trade store, journal entries); on top of it
  `MatchingEngineCalls_proofs` and `MatchingEngine_proofs`,
  `MatchingEngineRollbackCalls_proofs` and `MatchingEngineRollback_proofs`, and
  `JournalAndQueue_proofs` (`OrderManagerTxn` and, on its own, `QueueClients`);
  `WorkerAndSession_proofs` (`ConcurrentMatchingEngine` and `WebSocketSession`)
  and `RiskManagedExecution_proofs`. In a pair, the `Calls` module defines the
  invariant and has the steps outside the engine's two loops; the other has the
  loops and the theorems.

Definitions named `..._keeps_zero`, `..._late` and the like, marked "Mutant",
are plausible bugs that nothing uses. Each checked property is violated once
the definition that follows some mutant is replaced by it.

## Modelling decisions

- *Failures.* `std::bad_alloc` may leave any allocating call. The constant
  `Failures` says where; one operation fails once, so the catch blocks run
  without a further exception of that kind (`order_book_ = backup` allocates and
  could throw as well). A book overflow in a catch block is modelled. A request
  that is rejected before anything changed is no step.
- *Steps.* One access to the book per step, with the engine's own work up to
  the next access. Consecutive accesses of which the first only reads, such as
  the crossing test and the backup copy, are one step: no other thread writes.
- *Other writers of the book.* A feed replaces the book only between operations
  and only while no local order rests. Branches that need another writer during
  an operation are left out: the catch block of `cancel_order`, and the
  `std::logic_error` branches for orders that disappear. Their conditions are
  guards (`can_adjust`, `restorable`) that would block the model if they could
  fail, and TLC checks that it never deadlocks.
- *Data.* Ids, prices and quantities are small integers with the limits of
  their C++ types as constants. Average prices in `ExecutionResult` and the
  quotients that queries of the statistics return are left out. The running
  totals of the analytics are `double`s in the code and integers here, which
  agree up to 2^53.
- *Floating point.* VWAP and microprice become integers again, so their
  rounding shows. `BookAverages` rounds every product, sum and quotient to the
  nearest number of the mantissa, ties to even, and `AveragesStayInside` states
  what is left: while the sum of price times quantity fits the mantissa the
  average lies among the prices. Beyond it the averages do leave the book, by at
  most a tick per level for a VWAP and two for a microprice. With 64 bits, one
  level of 35184439200003 at price 524287 has the VWAP 524286. The model has 5
  bits and integers of 4. As in the x86-64 builds, a `long double` then holds
  every `int64_t`; where it is a 53-bit `double`, this covers prices and
  quantities up to 2^53 only. Weighted prices and concentration stay `long
  double`s in the code; they are exact fractions here, and what is checked of
  them is what holds before rounding.
- *Profit.* Realized profit is a two's complement integer of bounded width, like
  the `int64_t` of the code: what a trade earns is narrowed to it and added, and
  neither is tested. The sum wraps around in the builds, though the language
  leaves it undefined. `overflowed` is history: the symbols for which this has
  happened, of which `PnlMatchesCash` says nothing.
- *What a failed analysis leaves.* If the position cannot be recorded, the
  exception passes through the adapters: the depth stays as it was and
  `analytics_healthy` stays true. A first `on_order_book_update` that fails
  leaves an empty summary; one whose last copy fails leaves the order flow ahead
  of the depth, and `analytics_healthy` says so. `DepthGoesWithOFI` and
  `DepthIsCurrent` state exactly this.
- *Time.* A second is a step while a connection is running, and handlers run
  between two of them, so `SilenceIsNoticed`, `NoHastyTimeout` and
  `ShutdownIsPrompt` count whole seconds. On a real clock the timer's period is
  not aligned with the heartbeat, and each check that `SilenceIsNoticed` adds up
  (the ping that is due, the timeout) may come up to a second later. The timer's
  handler runs at most `MaxLate` seconds late; reads and writes take as long as
  the network likes. `quiet`, `stalled`, `since_shutdown` and `retries` are
  history.
- *A stalled ping.* While a ping is being written no other is sent. If that
  takes a whole interval, a pong that comes later may answer the old ping while
  the next one is still due, and silence lasts longer than the bound; `stalled`
  excludes this from `SilenceIsNoticed`.
- *Subscription refused.* An exception of `build_subscription_message` leaves
  `stream_market` with the client's signal handlers installed, in the model as
  in the code. `ShutdownEnds` is about signals that find the stream running.
- *Dead code.* `process_limit_match` and `match_limit_order` have no caller.
- *Queue.* The destructor only calls `close`; destroying a queue that someone
  waits on is outside the contract of the class.

## Runs

| Run | Properties | Shows | Distinct states |
|---|---|---|---|
| `order_manager_rollback` | `ManagerConsistent`, `RestoreNeverRefused`, `UndoIsExact` | the containers of the manager stay consistent and every rollback is exact | 104,893 |
| `order_book` | `Normalized`, `ImplementsLevelBook`, `StatisticsInRange`, `ConversionsAreExact` | vectors stay sorted and implement quantities per price; averages stay among the prices, or as near as rounding allows, and concentration in range; a text is read exactly or refused, and a printed value is read back | 164,985 |
| `matching_engine` | `ManagerConsistent`, `BookMatchesOrders`, `NeverCrossed`, `FailureLeavesNoTrace`, `CallsReturn`, `ImplementsPriceTimeMarket` | book equals orders, ids and sequence numbers stay fresh, failures leave no trace, every call comes back, price-time priority or an exception and nothing | 1,354,293 |
| `blocking_queue` | `NoLostWakeup`, `EndIsFinal`, `ConsumersProgress` | no lost wakeup, end is final; the front is taken while consumers ask, and close releases them | 5,260 |
| `concurrent_engine` | `AnswersInQueueOrder`, `ShutdownDrains`, `AcceptedAreAnswered`, `ShutdownReturns` | answers in queue order, queries see what came before, shutdown drains and returns, every accepted command is answered | 91,011 |
| `risk_managed_execution` | `PositionWithinLimit`, `PositionsMatchTrades`, `AverageAmongEntries`, `PnlMatchesCash`, `AnalyticsAgree` | positions within the limit; quantity, average and, until it overflows, profit account for the trades; window and statistics agree with them while healthy | 2,021,849 |
| `book_observers` | `WindowFollowsSnapshots`, `OFIInStep`, `ImpactIsAdverse`, `DepthGoesWithOFI`, `DepthIsCurrent` | the window follows the accepted snapshots; order flow, depth and book agree as far as nothing failed; impact is adverse | 920,859 |
| `market_feed` | `CopyIsTheServersBook`, `NoPartialBook` | the client's books follow the server's over reconnections | 510,150 |
| `websocket_session` | `OneOperationEach`, `SilenceIsNoticed`, `ClosingIsDecided`, `ShutdownIsPrompt`, `BackoffDoubles`, `NoHastyTimeout`, `ShutdownEnds`, `LostConnectionIsReplaced` | one read and one write, silence noticed, closing decided, prompt shutdown, backoff; a signal ends the stream unless a call without a timeout never returns, a lost connection is replaced | 151,142 |
| `order_book_prices`, `market_order_failure`, `modify_failure` | `VisiblePricesPositive`; `FailureLeavesNoTrace` | the disagreements below | stop at the violation |

Type invariants are conjuncts of `ManagerConsistent`, `AnswersInQueueOrder`,
`AnalyticsAgree`, `OFIInStep` and `NoPartialBook`. All but the last two are
proved; those of `OrderManagerTxn`, `QueueClients` and `WebSocketSession` are
only proved.

### Bounds and why they are enough

- Manager: three orders, so that a removal hits the first, a middle and the
  last position, and three journalled steps. The proofs cover all values.
- Book: prices 0 to 2, quantities to 2, so that levels sit before, between and
  after others and sums pass the limit; arguments run over negative values and
  the smallest delta. `VIEW MCView` drops the last call, on which nothing
  depends; the action property is still checked on every transition. A book of
  three levels a side is what the statistics are computed from.
- Averages, in the same run while the book is empty: every bid and ask with
  prices from 0 and quantities from 1 to 15, each alone, as the two levels of a
  side in either order, and as the best levels. Products go to 225 and the
  mantissa to 31, so every kind of rounding happens: without any one of the
  exceptions of `AveragesStayInside`, TLC finds a quote that needs it.
- Text, in the same run while the book is empty: two decimal places, the largest
  integer 1097 and every text of up to six of the characters 0, 1, 9, point,
  plus, minus and one other. With 1097 the whole part can overflow by itself
  (11) and only with its fraction (10.98).
- Engine: four order ids, two prices, quantities to 2 and trades until the next
  trade id passes 2. An operation meets two resting orders at one price or at
  two, partial and complete fills, the limit of the id generator and a level at
  its limit.
- Queue: two producers, three consumers, one closer and four values, so that
  there are more values than consumers. The proofs cover all finite sets.
- Concurrent engine: three producers and three commands, so that all producers
  may be between a push and its notification, or still to be refused, when the
  owner shuts down, and a query may follow a change and a cleared history.
- Positions: prices to 3, so that averages are truncated, the limit 3 and four
  units traded, enough to open, add, reduce, close and turn around; a window of
  two for up to four trades. Profits from -4 to 3, which a few trades leave. The
  proofs cover all values.
- Observers: for the observable book a window of two and four captures, so that
  the window drops events, over five snapshots: a better bid, a better ask, both
  sides, a crossed book and a bid at price 0, which OFI refuses. Under the
  engine's steps a window of one is enough to drop, and no step or property
  looks at the values in it there, so `VIEW ObserversView` leaves them out. Two
  orders, two prices, quantities to 2; operations begin until there was a trade,
  around market orders until there were two. The depth that a market order meets
  has one bid and two asks, so that it takes one level or both and has an impact
  of 0 or more, or is crossed, with asks whose sum passes the largest integer
  and saturates.
- Feed: two tokens of which one is not subscribed, three changes, two payloads
  in flight of up to two messages: a change may come before, between or after
  snapshots, and on the wrong side of a broken connection.
- Session: interval, timeout and delays of 5, 10, and 1 to 10 seconds, which
  keep the proportions of the code's 10, 20, and 1 to 30; a timer up to a second
  late; five retries, past the point where the delay is capped. The proofs cover
  all values.

### Fairness

The engine needs none. `CallsReturn` says that each step of an operation comes
closer to its end, by the part of the operation or by what a loop has left;
deadlock is checked, so a step is always there.

The queue's threads have weak fairness on the rest of a call that has begun: the
mutex is held for a few instructions only, so we assume that a thread that wants
it gets it. The worker and the join have it too. Nobody has to begin a call, and
spurious wakeups are never fair, since they would hide a lost wakeup.

`WebSocketSession` has weak fairness on the steps of its thread and on the
clock, and on the read and the write that `stop_connection` cancelled: a
cancelled operation calls its handler. The calls that connect, and `ws.close()`,
block without a timeout in the code and have no fairness. `ShutdownEnds`
therefore has an exception: the stream ends, or the thread stays for ever in one
of these calls (`Blocked`). A peer need not send anything or take what is
written, and signals need not come.

## Disagreements with the documentation

1. `market_order_failure`: `execute_market_order` journals a fill before it
   records the trade and takes the quantity out of the book. If recording the
   trade throws in between, the rollback adds the quantity to the book all the
   same: the exception leaves a trace, and the book shows more than the orders
   hold.
2. `modify_failure`: the same in the price-changing path of `modify_order`.
   `place_limit_order` is not affected: it restores a copy of the book.
   `matching_engine` leaves out these two failure points, and only these.
   `book_observers` leaves them out as well: OFI is not told of the book that
   such a rollback leaves.
3. `order_book_prices`: a level at price 0 is accepted, though the documentation
   asks for positive prices. A market order that reaches it fails as a whole.

## Proofs

`EngineState_proofs` has lemmas on each operator of `OrderManager`: it keeps
types and consistency, its undo reverses it, and it changes the quantity resting
at a price (`RestingQuantity`, a sum over the vector) by exactly what the order
in question brings or takes. Every sum is proved by induction: a set of natural
numbers has a least member (`Least`, from the library's well-founded order), so
there is no first position at which two sums differ. Further lemmas say what an
adjustment does to a book, what a rollback does to the trade store, and that a
journal entry undoes the fill it was made for.

`JournalAndQueue_proofs` proves of `OrderManagerTxn`, for all limits on ids,
prices, quantities, sequence numbers and journal length (positive or natural
numbers, the module's assumptions), that the manager's containers stay
consistent (`ManagerConsistent`), that a rollback never meets a
`std::logic_error` (`RestoreNeverRefused`) and is exact (`UndoIsExact`). Undoing
the last step exactly is not inductive: after it, the step before must be undone
exactly too. The inductive invariant `JournalRecordsSteps` therefore says that
every saved manager is consistent and that every journal entry records a step
from its saved manager to the manager after it (the next saved one, or the
current one for the last entry).

`MatchingEngine_proofs`, with `MatchingEngineCalls_proofs`, proves for all
limits, snapshots and failure points that the containers of the engine stay
consistent through every step of every operation (`ManagerConsistent`) and that
each step brings a call closer to its end (`CallsReturn`, an action property).
The engine has no copy of the manager to go back to, so the inductive invariant
`Inv` has to say that the journal leads there: there is a path of managers, one
per journal entry, all consistent and with orders older than the operation, of
which each entry undoes one step (`Journal`). `Saved`, `Entering` and `Adjusted`
say what is known of backups, of the incoming order and of the level that a
catch block adjusts. There is one lemma per action.

`MatchingEngineRollback_proofs`, with `MatchingEngineRollbackCalls_proofs`,
proves that a failed operation leaves no trace (`FailureLeavesNoTrace`), that
the book shows exactly the resting orders, also between the trades of an
operation and between two steps of the rollback of a market order or of a
modification (`BookMatchesOrders`), and that it is not crossed while orders rest
(`NeverCrossed`). All three have the hypothesis `TradesAreCopied`: copying a
recorded trade does not fail in `execute_market_order` and in `modify_order`. It
cannot be dropped: these are the failures that `market_order_failure` and
`modify_failure` report, and the constants of `matching_engine` satisfy it. All
other failure points are arbitrary. The invariant `Clean` adds the book to
`Inv`: at each label it says what the book shows, and that the backups, or the
path of managers with the quantities that its steps took out of the book, lead
to exactly the state before the call.

`JournalAndQueue_proofs` proves of `QueueClients`, for all finite sets of
producers and consumers, that no wakeup is lost and that `nullopt` is final.
`NoLostWakeup` is nearly inductive; the proof counts how `Notifying` and
`Popping` change in each step, and types are needed to tell the roles of the
threads apart.

`WorkerAndSession_proofs` proves of `ConcurrentMatchingEngine`, for all sets of
producers and any number of commands, that answers come in queue order and
queries see exactly what was accepted before them (`AnswersInQueueOrder`), and
that shutdown returns with every accepted command answered (`ShutdownDrains`).
Its `WorkerInv` cuts the commands in three: those answered, the one that the
worker runs, and those in the queue, in order (`CommandsInLine`). The engine
lists what the answered ones changed (`EngineInLine`), so an answer copied from
it is right, and no later step touches an earlier future.

`RiskManagedExecution_proofs` proves, for every limit and set of symbols, and
every price, quantity and division into trades, `PositionWithinLimit`,
`PositionsMatchTrades`, `AverageAmongEntries`, `PnlMatchesCash` and
`AnalyticsAgree`. The limit is checked once, before the engine; the inductive
invariant therefore says that both the position and the position after all that
the call has still to apply are within the limit, so that every division into
trades stays in between. The average needs that a truncated weighted mean lies
between the bounds of its terms (`WeightedMean`), and the profit a bound on what
truncation adds in each step (`Truncation`), which only trades that enlarge the
position can use up. It holds for integers of any width, of each symbol until a
profit does not fit; that narrowing keeps what fits is the lemma `Narrowed`.
`AnalyticsAgree` speaks of the time between calls. `AnalyticsInv` adds that
during a call the trades already applied to the position, and only these, are
still to be fed to the analytics, and that a call with such trades has made the
position, so nothing can stop it before it feeds them. The lemmas under it are
about the loop of `apply_execution`, the totals of a window that drops its
oldest trade, and the running lowest and highest price.

`WorkerAndSession_proofs` proves of `WebSocketSession`, for every interval,
timeout, delay and lateness of the timer, `OneOperationEach`,
`SilenceIsNoticed`, `NoHastyTimeout`, `ClosingIsDecided` and `ShutdownIsPrompt`,
with type correctness. The invariant `Inv` ties the flags to the pending
operations (`PendingInv`), the time since the signal to the age of the timer
(`ShutdownInv`), and, for `SilenceIsNoticed`, the seconds without a pong to the
heartbeat (`SilenceInv`): before the first unanswered ping they are at most the
interval and the timer's delay; after it, they grow with the age of that ping
until the timeout, and the timer is late at most once more. A ping that is due
while one is being written means that the write took an interval. There is one
lemma per action or group of actions, with a step per conjunct.

The assumptions are those of the modules: the constants have the values that the
constructors accept (positive limits, windows and intervals, a first delay not
above the largest), sets of threads are disjoint (those of the queue also
finite), snapshots are books. `TradesAreCopied` is the only further hypothesis.

Only model-checked: liveness (TLAPS does not do `ENABLED`); the two refinements,
`ImplementsLevelBook` and `ImplementsPriceTimeMarket`, and `Normalized`, which
rest on sorting and on what a recursive definition takes from each order; the
observers on top of the engine, the OFI window, the feed, the statistics of a
book and the text conversions; and `BackoffDoubles`, which is about an exponent.

## Not modelled

- `http_client`: one blocking request, no state. `main.cpp`:
  arguments and output.
- `websocket_message_parser.hpp` and `websocket_subscription.hpp`: JSON text in
  and out, no state. Their outcomes are inputs of `MarketFeed` and
  `WebSocketSession`.
- Queries that return a quotient of state that is modelled: `imbalance`,
  `unrealized_pnl_ticks`, `average` and the like.
- A second writer of the book during an operation of the engine, and concurrent
  calls of `shutdown`: `docs/concurrency.md` promises nothing for either.
- `benchmarks` and `tests`.
