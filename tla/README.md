# A verification of TradeSim-Engine

TLA+ modules for the trading simulator in this repository (`src/`, `include/`,
`frontend/`), TLC configurations that check them on small instances, and
TLAPS proofs of the properties that matter most for all instances.

Paths below are relative to the repository; `src/` and `include/` are its directories
of sources and headers, and a bare file name is unique in it. `CONSTANTS`, variables and actions
keep the names of the code where TLA+ allows it.

## 1. The system

One process, seven threads and the HTTP server's workers:

```
 data ──market_queue_strategy──▶ fan-out ──market_queue_display──▶ strategy
                                   │ update_mark                      │ approve
                                   ▼                                  ▼ order_queue ◀── POST /api/order
        PositionManager ◀─┐                                        engine ──▶ fill callback
        RiskManager     ◀─┼── PnL ◀──────────trade_queue──────────────┴──────────┘
        DisplayManager  ◀─┘
             ▲ reads:  UI thread, GET handlers of ApiServer ◀── frontend/app.js (polls)
 every thread ──Logger::queue_──▶ logger worker
```

| component | state | operations | interacts through |
|---|---|---|---|
| `ThreadSafeQueue` | `queue_`, `shutdown_`, `mutex_`, `cv_` | push, pop with timeout, try_pop, shutdown, reset | every thread boundary |
| `OrderBook` | two priority queues | add_order, best_bid/ask, update_top_bid/ask | called by the engine; read unlocked by UI and API |
| `OrderMatchingEngine` | `books_`, `order_counter_`, `shutdown_` | run, stop, process_order, match_buy, match_sell | pops orders, pushes trades, calls the fill callback |
| PnL thread (`main.cpp`) | `buy_turn` | pop, then the three calls of a trade | pops trades |
| `PositionManager` | `positions_`, `cash_`, `realized_pnl_` under a mutex | record_trade, update_mark, readers | PnL, fan-out, UI, API |
| `RiskManager` | `exposure_`, no lock | approve, record_fill | strategy reads, PnL writes |
| `DisplayManager` | `recent_trades_`, `latest_ticks_` | on_trade, on_tick (called by nobody), render | PnL writes, UI and API read |
| `TradingStrategy` | `last_order_side_`, `last_prices_` | on_tick | pops ticks, pushes orders |
| `IndicatorEngine` | per symbol: window, EMA, RSI averages | update, snapshot | strategy writes, UI and API read |
| `MarketDataFetcher` | `prices_` | run_simulation, run_live, retry_with_backoff | pushes ticks |
| `Logger` | `queue_`, `worker_`, `initialized_` | init, log, flush_loop, shutdown | every thread |
| `ApiServer` | none but the socket | GET handlers, POST /api/order, stop | reads everything, pushes orders |
| main | `g_running`, the threads | start, signal handler, joins and shutdowns | all |
| `frontend/app.js` | last seen trade ids, price history | poll, announce, draw | HTTP |
| `Config` | parsed JSON | load | read once before threads start |

### What is hard here

* **The queue** notifies after it has released the mutex, and consumers wait
  with a timeout that would mask a lost wakeup for 100 ms at a time.
* **Matching** sweeps a book with copies of its orders: `best_ask()` copies the
  top, `update_top_ask()` pops it and pushes the copy.
* **Time priority** rests on stamps taken before the push, in two kinds of
  thread, so that stamps and arrival order may disagree.
* **Settlement** takes the side of a trade from the parity of the trades popped.
  That this works at all is a protocol between `match_buy`/`match_sell`, the fill
  callback, which pushes each trade again, and the PnL thread.
* **Shutdown** joins threads one after the other, closing queues in between.
* **Unlocked sharing**: `exposure_`, the books, the indicator states and the
  map of books are read by threads that do not own them. What is locked is locked
  per getter: `total_pnl()` is two reads.
* **Retries** of the data thread do not look at the flag that ends it.
* **The page** polls every 500 ms with a timeout of 800 ms, so that replies overlap,
  and gives posts up that are served all the same; the server answers "accepted"
  also when the queue of orders has been shut down and drops the order.

`PROJECT.json` lists every hazard at its line with the properties that cover it
or a note why none does yet.

### What makes each component correct

* Queue: FIFO, exactly once, no accepted item lost, no waiter forgotten.
* Engine: the book is never crossed; no trade beyond a limit; price-time
  priority; shares are conserved; accepted orders get matched.
* Settlement: cash, positions and PnL balance; exposure agrees with positions;
  every trade is booked once and on its proper side.
* Risk and strategy: what is approved stays within the limits; a signal is not
  repeated, and not lost.
* Indicators: incremental values equal their definitions.
* Logger, shutdown: every entry is written, every join returns.

## 2. The modules

| module | models | extends / instantiates |
|---|---|---|
| `FifoQueue` | what a queue promises: `sent`, `received`, `closed` | |
| `ThreadSafeQueue` | `include/common/ThreadSafeQueue.hpp`, one step per critical section and notification | implements `FifoQueue` |
| `OrderBook` | comparators and heap operations of `OrderBook.{hpp,cpp}` as operators on sets of orders | |
| `OrderMatchingEngine` | `OrderMatchingEngine.cpp` with order producers and the shutdown | extends `OrderBook` |
| `Settlement` | engine's pushes, fill callback, PnL thread, `PositionManager`, `RiskManager::record_fill`, `DisplayManager::on_trade`, marks, shutdown | |
| `PortfolioView` | `total_pnl()` as the HTTP handler and the UI thread call it | extends `Settlement` |
| `WeightedSums` | the sums and powers that the indicators' definitions are made of | |
| `IndicatorEngine` | `IndicatorEngine.cpp`: SMA, EMA and RSI per symbol, in exact fractions | extends `WeightedSums` |
| `TradingStrategy` | `TradingStrategy.cpp`, `RiskManager.cpp` (`approve`, `record_fill`), the PnL thread's calls | extends `IndicatorEngine` |
| `MarketDataFetcher` | `MarketDataFetcher.cpp`: both modes, the retries, the flag | |
| `Pipeline` | the threads and queues of `main.cpp` between a tick and its trade, with a client and the shutdown | instantiates `MarketDataFetcher`, `OrderMatchingEngine` and `TradingStrategy`; implements the last |
| `Logger` | `Logger.cpp`: callers, the worker, `init` and `shutdown` | instantiates `FifoQueue` |
| `Lifecycle` | `main()`'s starts, joins and shutdowns, the signal handler, `ApiServer::run`, the socket of `httplib::Server` | |
| `Dashboard` | `frontend/app.js`: `tryConnect`, `poll`, `pollTrades`, `placeOrder`, with the handlers they call | |
| `Sums` | lemmas: induction on finite sets and numbers, what sums and powers do | extends `WeightedSums` |
| `*Proofs` (seven) | theorems about `ThreadSafeQueue`, `OrderMatchingEngine`, `Settlement` with `PortfolioView`, `TradingStrategy` with `IndicatorEngine`, `Logger`, `Pipeline` with `MarketDataFetcher`, and, in `UserProofs`, what the user meets: `Lifecycle` and `Dashboard` | extend those |
| `MC*` | constants and symmetry for TLC | |

Some modules hold definitions marked *Mutant*: variants of the definition that
follows each of them with a plausible bug. No specification uses them;
`PROJECT.json` says which property finds which.

### ThreadSafeQueue

`pc[t]` says where a thread is: `idle` outside the queue, `notify`/`notifyAll`
between the critical section of `push`/`shutdown` and the notification,
`waiting` in the wait set, `woken`/`expired` on its way back to the mutex. A
critical section is one action because nothing reads `queue_` or `shutdown_`
outside `mutex_`. `NotifyOne` wakes any waiter, `Expire` is the timeout,
`WakeSpuriously` what the standard allows, `Resume` re-evaluates the predicate.
`push` on a closed queue and `try_pop` on an empty one change nothing and are
stuttering steps. `received` is a history variable; it makes the refinement
mapping `sent <- received \o queue`.

### OrderMatchingEngine

A side of a book is a set of orders and `top()` any order that no other
outranks. That is exactly what a heap with these comparators guarantees: equal
keys come out in any order. A producer stamps an order (`MakeOrder`) and pushes
it later (`PushOrder`); in between the clock may advance and other producers may
push. `TakeOrder` is `pop()` with the start of `process_order`, `Fill` one
iteration of `match_buy` or `match_sell`, `Finish` what follows the loop. The
two matching functions are mirror images and one definition, parameterised by
the side. Between two steps of the engine thread every other thread may run,
which includes the main thread's `order_queue.shutdown()` and `engine.stop()`.
Each fill appends its trade to `trade_queue` twice: once itself and once by the
fill callback (`main.cpp:97`). `arrived` is a history variable.

Numbers are integers: prices in ticks, quantities in lots, and the comparison
with `1e-9` a comparison with 0. Rounding of doubles is not modelled. Quantity
and price are any integers, as `POST /api/order` checks neither.

### Settlement

`trade_queue` is a queue at the level of `FifoQueue`, which the proofs justify.
`MakeFill` and `FillCallback` are the two pushes of one fill, with room between
them for the PnL thread to pop the first. `PopTrade`, `RecordTrade`,
`RecordFill` and `OnTrade` are the steps of one iteration of the PnL loop,
because each takes and releases its own lock (`record_fill` takes none). Marks
come in between. `Held(s)` is a position or, where `positions_` has no entry, the
value-initialised one that `operator[]` would create. `avg_cost` is a division;
it is exact in every reachable state, since `RoundTrips` shows that a position is
flat before each purchase. After a signal the fan-out thread marks at most one
tick more; the model lets it mark until the engine is stopped.

### IndicatorEngine

`Update(s, price)` is one call of `update()`; only the strategy thread makes it.
`SymbolState` is the struct of the same name with the snapshot's fields, and
`ComputeSma`, `ComputeEma` and `ComputeRsi` are its three helpers, in the order
of the calls: the EMA's seed reads the window that the SMA has just moved. A
double is a fraction (a numerator and a denominator that is not 0), so that an
equality with the definition is exact; prices are natural numbers, and
`avg_loss < 1e-10` is a comparison with 0. `fed` is a history variable: the
prices of each symbol, from which the properties compute the indicators anew,
as sums over the whole history where the code keeps running values.

### TradingStrategy

One iteration of the strategy thread is `CheckRunning`, then `PopNothing` or
`TakeTick` (which updates the indicators and decides), then the steps of
`approve()`: `CheckSymbol` reads the symbol's exposure, `ReadExposure(s)` adds one
symbol to `total_exposure()`, `CheckTotal` decides and `PushOrder` pushes. Each
read is a step of its own because nothing locks `exposure_`. On the other side,
`record_fill()` is two steps, `AddNotional` and `Clamp`, since it stores a negative
value before it clamps it; a trade comes twice, as a BUY and then as a SELL
(`Settlement`). An access to one entry is taken as atomic, and the order in which
the symbols are read is arbitrary. A rehash of the map during a read is undefined
behaviour beyond this model. `low` is a history variable: the least exposure
since the tick was taken, from which the limits are counted. Several approved
orders may pass a limit together while their fills are outstanding: no document
of the repository excludes it, and the properties do not say it.

### PortfolioView

`ReadRealized` and `ReadUnrealized` are the two locked reads of `total_pnl()`;
`Watched` is any step of `Settlement` in between. `totals` is a history variable:
what the total was at each moment since the first read. A torn total would be a
figure that never was; that there is none hangs on `RoundTrips`.

### MarketDataFetcher

`CheckRunning` and `NextSymbol` read the flag where the code does; `Generate` is
a tick of the simulation; `Try`, `FetchSucceeds`, `FetchFails` and `Backoff` are
`retry_with_backoff()` around `fetch_tick_curl()`. A generated price is any at or
above the floor of 1, a fetched one is any, and why a fetch failed makes no
difference. Delays are steps: how long they last is not modelled. `late` is a history
variable: fetches begun after the signal.

### Pipeline

Each thread's steps are those of its own module, with the variables renamed, and
the modules' environments are replaced by each other: the fetcher pushes what
the fan-out pops, the fan-out pushes what the strategy takes, the strategy and
clients push what the engine matches, and the PnL thread pops what the engine
and the fill callback pushed. `ImplementsStrategy` is the refinement: `Fill` maps
the PnL thread's place in the trade queue to the call of `record_fill()` that
`TradingStrategy` has for its environment. The PnL thread is modelled as far as
`RiskManager` sees it; its other calls are `Settlement`'s. A producer's stamp is
`OrderMatchingEngine`'s matter: here orders appear when they are pushed, stamped 0.
`ShutdownOrders` and `StopEngine` are `main()` between its joins;
`trade_queue.shutdown()` comes after its only producer has ended.

### Logger

`Log(t, level)` is the entry of `log()` with its tests, `Push` the push of the
entry made there; in between other threads push and the queue may be closed.
`PopEntry` and `PopNothing` are `pop()`, `TestShutdown` the question
`is_shutdown()` after a timeout, `WriteEntry` the formatted output to the file, if
`init()` could open it (`is_open`; nobody is told if not). The console gets every
entry that is popped and is left out.
`seen` is a history variable: what had been accepted when the worker last found
the queue empty.

### Lifecycle

`Script` lists what `main()` does after its initialisation, one operation per
`MainStep`. A thread's loop is one action, `Round`, because all its calls return;
the components' own modules say what it does. What may fail to return is
modelled: `join()`, `listen()`, and the mutex of the logger's queue (`Lock`,
`Unlock`), for the threads in `Logging`. `Deliver(t)` is a signal on thread `t`,
which executes nothing of its own until the handler has returned. `Bind`,
`Listen` and `Serve` stand for `httplib::Server::listen()`: `stop()` closes the
socket only of a server that has set `is_running_`. Polling the flag is a
stuttering step. The server's own threads are not modelled: `listen()` waits for
the requests they have begun, which end.

### Dashboard

`trades[k]` is the `/trades` request of poll `k`: sent, answered by `AnswerTrades`
with the display's list of that moment, received or lost to the timeout. What
follows an `await` is one step, as a page has one thread. A fill is `[id, n]`: the
page sees the buy order's id only, and `n` tells apart what it cannot. `BookFill` and
`BookAgain` are the two `on_trade()` of one fill. `Filtered` is the `filter()` of a reply by the ids
already shown. `FeedWithinBooked` compares, fill by fill, how often a list has it with how
often it was booked, which for a fill that has not been made is never. `PlaceOrder` to `LosePost` are
`placeOrder()` with its disabled button; `adrift` counts requests that the page
gave up and that the server may still get. `ServeOrder` is the handler of either kind: it
answers "accepted" and pushes, which queues the order (`queued`) or, once `ShutdownQueue`
has happened, drops it (`dropped`). `ShutdownQueue` is `main.cpp:204`; `StopServing` is the
return of `listen()`, for which `main()` does not wait before its last join, so that the two
happen in either order and orders are served in between. The other polls overwrite what
they show.

## 3. The runs

| run | checks | shows |
|---|---|---|
| `queue` | `NoLostWakeup`, `ImplementsFifo`, `ShutdownReleases`, `WaitersGetItems` | while someone waits, every item has a thread on its way to it, and a closed queue has its `notify_all` to come; the queue is a FIFO; `shutdown()` frees all waiters and items reach waiters, with no help from timeouts |
| `engine` | `TypeOK`, `NoCrossedBook`, `BookHoldsArrivals`, `TradesWithinLimits`, `PricePriority`, `SharesConserved` | the book after every step of every sweep, also with a negative quantity; a resting order is never passed over for one it outranks; no share is created or lost |
| `portfolio` | `AccountsBalance`, `RoundTrips`, `ExposureIsCost`, `RecentTradesAreLast`, `TradesGetBooked`, `TotalPnlIsReal` | the books balance; every fill is bought and sold at one price; trades are booked while the program runs; whoever asks for the total PnL gets one that was |
| `indicators` | `WarmupExact`, `SmaIsMean`, `EmaIsWeighted`, `RsiIsWilder` | the running values equal the sums they stand for, after every sequence of prices, and become valid on the right tick of their own symbol |
| `indicator_rising` | `RisingMeansHigh` **violated** | four rising prices with RSI period 3: valid, and 50, where `test_indicators.cpp` asserts more than 90 |
| `strategy` | `SymbolLimitKept`, `PortfolioLimitKept`, `OrdersAlternate`, `OrdersAfterWarmup` | what is approved is within the limits of exposures the reads may have seen, whatever races with them; orders alternate and wait for the warm-up |
| `logger` | `WrittenInOrder`, `LossIsLate`, `EntriesGetWritten`, `ShutdownReturns` | the file is a prefix of what was accepted, in each thread's order; entries are written until the shutdown, which returns, if the file could be opened (else nothing is written, and the shutdown returns too) |
| `lifecycle_joins` | `QueuesOutliveProducers`, `NoThreadLeft`, `SafeSignalStops` | the order of joins and shutdowns is right, and `main()` ends unless one of the next two runs applies |
| `lifecycle_api` | `ApiReturns` **violated** | a signal before the server listens: `svr.stop()` does nothing, `listen()` never returns, and `main()` waits in its last join |
| `lifecycle_ctrlc` | `CtrlCStops` **violated** | a signal on the thread that holds the logger's mutex: the handler waits for it for ever |
| `pipeline` | `NoClientNoTrade`, `OnlyLateOrdersDropped`, `LateFetchesBounded`, `ImplementsStrategy`, `OrdersGetMatched`, `SignalEnds` | without clients nothing ever trades; only clients' orders are dropped, and only after `order_queue.shutdown()`; the strategy's environment is what `TradingStrategy` assumes; the engine catches up; a signal ends all five threads, whatever is in the queues and retries |
| `dashboard` | `FeedWithinBooked`, `OrdersAccountedFor`, `FillsGetShown` | overlapping polls list no fill more often than it was booked (one reply lists both bookings of a fill); every buy order in the recent trades reaches the feed while the server runs; no more orders reach `push()` than the page has reported or is about to, and an order reported as accepted is missing from the queue only when it was dropped after the shutdown |

`RoundTrips` is worth a remark: it *holds*, and says that the program cannot make
or lose money. The callback's comment (`main.cpp:92-97`) knows that sides are
not tracked; that the second push pairs every fill with its own reversal, under
every interleaving, is what the invariant adds.

### Bounds

* Queue: 2 producers, 2 consumers, 1 closer, 3 pushes of 2 items. Two threads of
  each kind is what a notification needs to reach the wrong one, and three pushes
  what a queue needs to hold one while two are on their way.
* Engine: 3 orders from 2 producers, and a clock that advances once. One resting
  order, one that improves on it and one that sweeps both, or one that rests and
  is filled twice; stamps that invert the arrival order. Prices 1..2, quantities 1
  and 2 (partial fills on either side) and -1, an order that asks for nothing. One
  symbol: books of two symbols share nothing but the counter.
* Portfolio: 3 fills are 6 trades, twice what the display holds (`MaxTrades` 3);
  2 symbols, a positive and a negative price; one request at a time is read, as
  readers change nothing.
* Indicators: up to 5 prices out of 1..3 for each of 2 symbols with periods 3, 2
  and 2: the window moves twice, the EMA and the RSI are smoothed twice after their
  warm-up. `indicator_rising` has the constants of the test.
* Strategy: 2 symbols (the portfolio's sum is torn between them), 5 ticks in all,
  enough for one symbol to warm up and to signal both ways, 2 trades with a
  positive or a negative notional, limits that one order reaches and two exceed.
* Logger: 2 threads, 3 calls. One entry before and one after the
  worker's timeout, and one to be overtaken.
* Lifecycle: all threads of the program, one signal (a second finds the flag
  already down). `main` and the logger's worker log: one that is waited for and
  one that is not.
* Pipeline: one symbol, 2 ticks, one client's order, 2 retries. With periods of 1
  the RSI turns valid at 50 on the second tick, and with an oversold level of 60 the
  strategy then places an order; it may meet the client's, so that each queue carries
  what the next thread needs. A second symbol multiplies the states beyond what a
  run can take; what is proved of the pipeline is proved for all symbols. `MaxQuantity` bounds
  what one client's order asks for, and so which notionals a fill can have;
  `MaxTicks + MaxClient <= MaxOrders` says that the engine is never kept from an order by
  its own bound.
* Dashboard: 2 overlapping polls, as the interval and the timeout allow; 2 fills,
  of one buy order or of two, booked twice each into a list of 3 and a feed of 3,
  so that both are cut; 2 posts, one to be given up and one to follow it, and a
  shutdown of the queue and an end of the server anywhere among them.
* `MaxItems`, `MaxOrders`, `MaxClock`, `MaxFills`, `MaxUpdates`, `MaxQueue`,
  `MaxCalls`, `MaxSignals`, `MaxTicks`, `MaxLag`, `MaxClient`, `MaxQuantity` and `MaxClicks` only
  bound the state space. They occur in guards, and the theorems hold for all their
  values.

Deadlock is checked in the runs `queue`, `engine`, `portfolio` and `strategy`:
what has been stopped there may still be signalled, shut down or read again. The
other runs do not check it: `update()` ends with its bound, the logger with its
shutdown, the pipeline with its last thread, the page with its fills and clicks; and
in `Lifecycle` the program ends, or really stands still as `lifecycle_ctrlc` shows.

### Fairness

`ThreadSafeQueue` assumes weak fairness of a thread that has entered a call
(`NotifyOne`, `Resume`, `NotifyAll`): the operating system runs runnable threads,
and the mutex is held for a few instructions. Callers need not call, and neither
the timeout nor spurious wakeups are fair, so that what is shown does not lean on
them. `PortfolioView` assumes weak fairness of the PnL thread's next step, and
`Pipeline` of each thread's and of `main()`'s: what they wait for has a timeout, and
that `pop` returns when there is something to return is what `queue` shows. `Logger`
does the same for its worker, with main's join. `Lifecycle`
assumes weak fairness of every thread's own next step and of the handler's, and
strong fairness of taking the logger's mutex: it is free again and again, and a
waiting thread gets it in the end. `Dashboard` assumes that the page connects and
polls, and strong fairness of a poll's being answered and of its reply's being received:
requests may be lost any number of times, but not every one. A server that never
answers within 800 ms is excluded, and once it has ended nothing is promised. Nothing obliges anyone to send a signal,
to place an order or to fill one.

## 4. The proofs

All theorems hold for every value of the constants under the named assumptions
(`QueueAssumption`, `EngineAssumption`, `SettlementAssumption`,
`IndicatorAssumption`, `StrategyAssumption`, `LoggerAssumption`,
`LifecycleAssumption`, `PipelineAssumption`, `PipelineThreadsAssumption`,
`DashboardAssumption`), which TLC evaluates in the runs of their modules.

* **`Sums`**. The library's induction theorems take an operator as a parameter, and the
  provers cannot instantiate it; but it also says that a well-founded order has a
  minimum in every set that is not empty. `FiniteSetInduction` and `NaturalInduction` are
  proved from that for sets in place of operators. With them the recursive function behind
  `SumFunctionOnSet` exists and is unique, so that a sum can be unfolded at any element
  (`SumTakeOut`, `SumPutIn`). The rest are consequences: sums of equal, larger, scaled or
  no terms, sums over an interval that grows or shrinks, powers and weighted sums.
* **`ThreadSafeQueueProofs`**. `TypeCorrect`. `NoWakeupLost`: `NoLostWakeup` is
  inductive with `TypeOK`; the proof counts threads: a `Push` adds an item and a
  notifier, a notification replaces a notifier by a woken consumer or finds no
  one waiting, a consumer that returns takes an item or leaves an empty queue.
  `Refinement`: every step is a step of `FifoQueue` or a stutter.
* **`OrderMatchingEngineProofs`**. One inductive invariant `Inv`, whose conjuncts
  are `TypeOK`, the four properties proved (`NoCrossedBook`, `BookHoldsArrivals`,
  `TradesWithinLimits`, `PricePriority`) and what links them: ids are given in
  order of arrival, books are finite, and the order at hand is the last arrival.
  `NoCrossedBook` survives `Finish` because the loop ended with nothing acceptable at the top (`NothingToMatch`), and the top
  exists since a strict order on a finite set has a maximal element
  (`TopExists`). `PricePriority` survives `Fill` because the maker was a top.
  `SharesAreConserved` is a second induction on top of it: `Shares` says of each order that
  the quantity its trades add up to is what it has filled while it is open (at hand or
  resting), that it is never more than it asked for, and just that once a LIMIT order is no
  longer open (`Ledger`); and no order is filled
  before the engine has it (`Unfilled`). A fill adds one trade to the sums of its two orders
  (`TradedGrows`) and to none besides, an order leaves the book only when it is full.
* **`SettlementProofs`**. `RoundTrips` is not inductive: it needs `Paired` (odd
  trades are followed by their copies, and a half pair means that the engine is
  in the callback), `InTurn` (`buy_turn` is the parity of what was received) and,
  for exposure, `ExposureOpen`. `ExposureAccurate` then says that exposure equals
  quantity times average cost whenever both were updated, while no price is
  negative. A BUY at a negative price is clamped to 0 and its SELL adds its notional,
  hence the condition. `AccountsAreBalanced` follows from the same invariant: at most one
  position is ever open, so that of the sums over `positions` at most one term is not
  0, and what it cost is what the cash is short of. `DisplayIsCurrent` needs the bounds of `Shown` and that
  `sent` only grows. `TotalIsNeverTorn` is about the steps of `PortfolioView`: as the
  realized PnL is 0 whatever happens (`RoundTrips`), the sum of the two reads is
  the total of the second, which is in `totals`.
* **`TradingStrategyProofs`**, the indicators: `Inv` is `TypeOK`, what links a
  state to its history (`Follows`: the window is the last prices, the RSI's counter and the
  previous price are those of `fed`) and what links its running values to it (`Averages`: the
  sum is the window's, the EMA's fraction and the two averages are those that the
  definitions give). `WarmupIsExact` needs the first, `SmaIsTheMean`, `EmaIsTheWeightedSum`
  and `RsiIsTheOneOfWilder` the second. The heart is that a definition over the whole history
  obeys the recurrence of the code when the history grows by one price (`EmaGrows`,
  `AverageGrows`); `Power` stands for `^`, of which 0^0 has no value. One lemma per helper
  says what it does to the state, and `Update` leaves every other symbol alone.
* **`TradingStrategyProofs`**, the strategy: `CooldownHolds` needs that
  `last_order_side` is the last element of `sent` and that an order at hand has the
  other side; `GateHolds` that `low` never exceeds `exposure` and that a BUY past
  `CheckSymbol` was compared with an exposure no lower than `low`. `PortfolioGateHolds`
  extends that to the sum: what `total` has added up so far is at least the sum of `low`
  over the symbols read, and lowering a `low` only lowers the sum (`LowSums`).
  `IndicatorsImplemented`: a step of this module is a step of `IndicatorEngine` or
  leaves its variables alone, so that what is proved of the indicators holds here;
  `WarmupRespected` rests on it.
* **`LoggerProofs`**. `LossOnlyLate` needs that, with an open file, what was received
  is what was written plus the entry at hand, and that a worker which has ended had emptied
  the queue up to `seen`. `FileInOrder` needs that each thread's numbers grow along
  `sent`, and that a number being pushed is newer than all of them.
* **`PipelineProofs`**. `FetcherImplemented`: no other thread touches the fetcher's
  variables, so that `LateFetchesAreBounded` can be proved of `MarketDataFetcher`'s steps:
  while the flag is up `late` is 0; once it is down `late` is at most the attempts of the
  symbol at hand, and the next symbol is not begun.
  `StrategyImplemented` is the refinement. `TradingStrategy` lets its environment feed any
  tick and book any fill while its bounds last; the proof shows that the real environment
  stays within that. One lemma (`Writers`) says which step writes what, and the invariant
  `Inv` is proved thread by thread from it: every tick pushed is with the fan-out, in the
  strategy's queue or fed (`TicksKept`), so that there are at most `MaxTicks`; there is
  at most one order per tick or client's request (`OrdersBounded`); each trade is followed by its copy (`TradesPaired`); and trades are bounded
  by orders (`TradesBounded`), as each uses up the order at hand or the one that rested.
  A pop at an even place of the trade queue is then `TradingStrategy`'s `BookTrade`
  (`PopBooks`), one at an odd place a stutter (`PopRepeats`), and the fan-out's push is
  its tick (`FanoutPushes`).
  `StrategyAloneNeverTrades`: the strategy's orders are MARKET orders, which never rest, so
  that without a client no book has anyone to trade with (`Quiet`). `NoEarlyOrderDropped`:
  the MARKET orders in the queue and behind it are as many as the strategy has sent, since
  `main()` joins it before it shuts the queue down (`Counted`).
  What is proved of a component is then carried over to the composed system. The refinement
  makes `TradingStrategy`'s theorems the pipeline's (`GateHoldsInPipeline`,
  `PortfolioGateHoldsInPipeline`, `CooldownHoldsInPipeline`, `WarmupRespectedInPipeline`).
  `OrderMatchingEngine` has producers that make an order and push it later, so that the
  pipeline does not refine it step by step; but its invariant is kept by each step of
  the engine or of `main()`, which are its own, and by whoever else puts an unfilled order on the
  queue (`EnqueueBooks`), and its theorems follow (`BooksHoldInPipeline`,
  `SharesHoldInPipeline`). Both go through a second instance of the component, that of
  its module of proofs; `SameStep` and `SameEngineStep` say that the two are one.
* **`UserProofs`**, the shutdown. The inductive invariant `IInv` says what `main()`'s place
  in its script implies: what is not started is new (`Started`), what is joined is
  done (`Joined`), what is closed is behind it (`Closed`). `Started` is what keeps
  a start from undoing the end of a thread, and `TypeOK` holds the mutual
  exclusion of the logger's lock. `QueuesClosedInOrder` and `MainLeavesLast`
  follow for any set of logging threads and any number of signals.
* **`UserProofs`**, the page. `FeedIsBooked` needs more than the feed: no list (the
  display's, the feed, a reply on its way or lost) has a fill more often than it was booked,
  entries of one fill have one order id, and the ids in the feed have been seen. A reply
  therefore adds all its entries of a fill or none: none if the feed has one already
  (`FilteredCopies`). `OrdersAreAccountedFor` rests on an equation (`FormInv`): the requests
  that were queued, dropped or are adrift are as many as the clicks accepted or called
  unreachable and the answer on its way. What was accepted, or is about to be, was queued or
  dropped, and nothing is dropped before the shutdown (`ServeOrderCounts`).

Proved are the type invariants (in `Pipeline` the conjuncts of `Inv` that say where each
thread is), the safety invariants and the action properties of all passing runs, and the
refinements `ImplementsFifo` and `ImplementsStrategy`. Only
model-checked is what needs fairness, which TLAPS does not prove here:
`ShutdownReleases`, `WaitersGetItems`, `OrdersGetMatched`, `SignalEnds`, `TradesGetBooked`,
`EntriesGetWritten`, `ShutdownReturns`, `SafeSignalStops` and `FillsGetShown`.

## 5. What the documentation says otherwise

Three disagreements have a run above (`indicator_rising`, `lifecycle_api`,
`lifecycle_ctrlc`). The following were met while modelling and follow from the
code alone; they have no run.

* `TradingStrategy.hpp:17-18` wants the EMA to trend up for a BUY and down for a
  SELL; `should_buy` and `should_sell` (`TradingStrategy.cpp:74,82`) look at the
  RSI only.
* `ApiServer.hpp:18` promises the last N fills; each fill is pushed by the engine and
  by the callback (`main.cpp:97`) and is listed twice, see `RoundTrips`.
* `RiskManager.hpp:24-25`: "called only from the strategy/process thread" and
  "record_fill() must be called on every trade". The PnL thread calls it
  (`main.cpp:165`), and leaves trades in the queue when it ends (`main.cpp:156`).
* `Logger.hpp:24`: the worker "drains" the queue. An entry pushed between its last
  timeout and its test of `is_shutdown()` is not written; `LossIsLate` says that
  no other is lost.
* `ApiServer.hpp:20`: `POST /api/order` answers "accepted" also when the queue is
  shut down and drops the order (`main.cpp:204`; the server runs on until the last
  join). `OrdersAccountedFor` and `OnlyLateOrdersDropped` say that `push()` drops no other
  accepted order. The `order_id` of the reply is overwritten by the
  engine's own counter, so that no trade ever carries it.
* `README.md:17` promises exposure caps. Each order of the strategy is approved within
  them, against the exposure of that moment (`SymbolLimitKept`, `PortfolioLimitKept`);
  several that are approved before the fills of the first are recorded may pass a cap
  together. They are MARKET orders and never trade among themselves
  (`NoClientNoTrade`); the orders of `POST /api/order` pass no check, and they are what trades. The
  "stop-loss guard" of the same line, `stop_loss_pct`, is used by nothing.
* `README.md:164,175` previews a PnL of +$1234 and a realized one of +$80.00. The
  program cannot realize any: every fill is bought and sold again at its own price
  (`RoundTrips`), and the realized PnL is always 0.
* `README.md:177` shows a panel of indicators; `DisplayManager::on_tick` is called by
  nobody, and the panel of the terminal is always empty.
* `PositionManager.hpp:15` speaks of a `shared_mutex`; the code has a `mutex`.
* `app.js:319-324` would show OFFLINE when a poll fails, but `Promise.allSettled`
  never rejects: after the first contact the page says LIVE for ever.
* The page's feed knows a fill by its buy order (`app.js:296`): when an order is filled
  again after its id was listed, the later fills are never shown. `FillsGetShown` is
  about orders and does not say otherwise.

## 6. Not modelled

Formatting and drawing (`render_*`, `style.css`, `index.html`, most of `app.js`), the
random price process, libcurl, JSON and `Config`, whose values are the modules'
CONSTANTS: nothing in them keeps state that the properties could tell apart.

`httplib.h` is a vendored HTTP library. It is nine tenths of the
repository's lines, and all but `listen()` and `stop()` serves this program as a
function from requests to handlers; a model of it would be a model of another
project. The share of the repository's lines that the map covers therefore
stays small, while nearly every function of the program's own that changes
state is an action of a module.

Data races are undefined behaviour. Where a racing read has a value that the
sources determine, it is a step of its own (`ReadExposure`, `total_pnl()`). Where
it traverses a container that another thread changes (`top_bids()` on a heap,
`snapshot()` on a map that rehashes), no set of outcomes follows from the sources, and
the hazards in `PROJECT.json` say so.

The signal handler (`main.cpp:28-31`) builds a message and so allocates memory, which may
hang on the allocator's lock if the signal interrupts an allocation. `Lifecycle` has the
mutex of the logger's queue only, which suffices to show that the handler may block.

Sizes of queues: they are unbounded in the code, and a bounded instance can only
say which bound it assumes.

What could follow: a run of the pipeline with two symbols under a reduction; a common specification of
`Settlement` and `Pipeline`, whose PnL threads model different calls of the same
loop.
