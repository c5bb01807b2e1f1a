------------------------------- MODULE Pipeline -------------------------------
(***************************************************************************)
(* The threads of main.cpp and the queues between them: the data thread    *)
(* (MarketDataFetcher), the fan-out thread, the strategy thread            *)
(* (TradingStrategy), the engine thread (OrderMatchingEngine), the PnL     *)
(* thread as far as RiskManager is concerned, and the joins of main().     *)
(* A client of POST /api/order sends LIMIT orders past the strategy.       *)
(*                                                                         *)
(* pushed and trade_queue hold all that was ever put on their queue;       *)
(* popped and received say how much of it was taken.  trade_queue is shut  *)
(* down only after its producer has ended and market_queue_strategy never  *)
(* is, so that neither drops anything.                                     *)
(***************************************************************************)
EXTENDS Integers, Sequences, FiniteSets, Functions

CONSTANTS symbols, Price, max_retries, MaxTicks,
          sma_period, ema_period, rsi_period, NoPrice,
          rsi_oversold, rsi_overbought, order_qty, enabled,
          max_position, max_total_exposure, max_trade, NoOrder, NoFill,
          ClientPrice, ClientQuantity,  \* LIMIT orders that clients send
          MaxQuantity,                  \* bound: what one of them asks for
          MaxClient,                    \* bound: how many of them
          MaxOrders,                    \* bound: orders popped by the engine
          MaxLag                        \* bound: ticks between fetcher and strategy

Symbol == {symbols[i] : i \in DOMAIN symbols}

ASSUME PipelineAssumption ==
    /\ symbols \in Seq(Symbol)
    /\ Price \subseteq Nat
    /\ max_retries \in Nat \ {0}
    /\ order_qty \in Nat
    /\ ClientPrice \subseteq Int
    /\ ClientQuantity \subseteq Int
    /\ MaxQuantity \in Nat
    /\ \A quantity \in ClientQuantity : quantity <= MaxQuantity
    /\ {MaxTicks, MaxClient, MaxOrders} \subseteq Nat
    /\ MaxTicks + MaxClient <= MaxOrders

\* What TradingStrategy and OrderMatchingEngine assume besides.
ASSUME PipelineThreadsAssumption ==
    /\ {sma_period, ema_period, rsi_period} \subseteq Nat \ {0}
    /\ {rsi_oversold, rsi_overbought, max_position, max_total_exposure, max_trade}
          \subseteq Int
    /\ enabled \in BOOLEAN
    /\ NoPrice \notin Nat
    /\ NoOrder \notin [symbol : Symbol, side : {"BUY", "SELL"}, notional : Int]
    /\ NoOrder \notin [id : Nat, symbol : Symbol, type : {"MARKET", "LIMIT"},
                       side : {"BUY", "SELL"}, price : Int, quantity : Int,
                       filled : Nat, timestamp : Nat]
    /\ NoFill \notin [symbol : Symbol, side : {"BUY", "SELL"}, notional : Int,
                      added : BOOLEAN]

VARIABLES mode, running, data_pc, at, attempt, pushed, late,      \* the fetcher
          fanout_pc, popped,        \* the fan-out: loop, pop, mark, push or done
          states, fed, market_queue_display, strategy_pc, order, unread, total,
          last_order_side, sent, low,                             \* the strategy
          order_queue, queue_down, shutdown, engine_pc, order_counter, cur, book,
          trade_queue, arrived,                                   \* the engine
          pnl_pc, received, exposure,   \* the PnL thread: loop, pop, add, clamp, stopped
          clients                       \* orders sent by clients so far

data == <<mode, data_pc, at, attempt, pushed, late>>
fanout == <<fanout_pc, popped>>
strategy == <<states, fed, strategy_pc, order, unread, total, last_order_side, sent>>
engine == <<engine_pc, order_counter, cur, book, trade_queue, arrived>>
pnl == <<pnl_pc, received, exposure, low>>
stops == <<queue_down, shutdown>>
vars == <<running, data, fanout, market_queue_display, strategy, order_queue, stops,
          engine, pnl, clients>>

Fetcher == INSTANCE MarketDataFetcher WITH pc <- data_pc

\* The engine sees the orders when they are pushed: what their producers stamp
\* them with is OrderMatchingEngine's business, and here always 0.
Engine == INSTANCE OrderMatchingEngine WITH
    pc <- engine_pc, Producer <- {}, Quantity <- ClientQuantity, MaxClock <- 0,
    clock <- 0, placing <- [p \in {} |-> NoOrder], accepted <- 0

\* The call of record_fill() that is under way, or due: each fill is in the trade
\* queue twice, and is booked as a BUY and then as a SELL.
Fill ==
    LET odd == received % 2 = 1
        busy == pnl_pc \in {"add", "clamp"}
        trade == trade_queue[received]
    IN IF ~odd /\ ~busy THEN NoFill
       ELSE [symbol |-> trade.symbol, side |-> IF odd /\ busy THEN "BUY" ELSE "SELL",
             notional |-> trade.price * trade.quantity, added |-> pnl_pc = "clamp"]

Strategy == INSTANCE TradingStrategy WITH
    pc <- strategy_pc, market_queue <- market_queue_display,
    fill <- Fill, fills <- (received + 1) \div 2,
    FillNotional <- {price * quantity : price \in ClientPrice,
                                        quantity \in 1..MaxQuantity},
    MaxUpdates <- MaxTicks, MaxQueue <- MaxTicks, MaxFills <- MaxOrders

Init ==
    /\ Fetcher!Init
    /\ fanout_pc = "loop" /\ popped = 0
    /\ Engine!Init
    /\ pnl_pc = "loop" /\ received = 0
    /\ market_queue_display = <<>>
    /\ Strategy!StrategyInit
    /\ clients = 0

-----------------------------------------------------------------------------
(* The data thread, and a signal *)

\* How far the strategy is behind is bounded, not the fetcher's doing.
DataStep ==
    /\ data_pc = "symbol" /\ running =>
          Len(pushed) - popped + Len(market_queue_display) < MaxLag
    /\ Fetcher!Step
    /\ UNCHANGED <<fanout, market_queue_display, strategy, order_queue, stops, engine,
                   pnl, clients>>

Signal ==
    /\ Fetcher!Signal
    /\ UNCHANGED <<fanout, market_queue_display, strategy, order_queue, stops, engine,
                   pnl, clients>>

-----------------------------------------------------------------------------
(* The fan-out thread *)

FanoutOnly ==
    UNCHANGED <<running, data, strategy, order_queue, stops, engine, pnl, clients>>

\* Mutant: while (true)
FanoutLoopForever ==
    /\ fanout_pc = "loop"
    /\ fanout_pc' = "pop"
    /\ UNCHANGED <<popped, market_queue_display>>
    /\ FanoutOnly

\* while (g_running)
FanoutLoop ==
    /\ fanout_pc = "loop"
    /\ fanout_pc' = IF running THEN "pop" ELSE "done"
    /\ UNCHANGED <<popped, market_queue_display>>
    /\ FanoutOnly

\* market_queue_strategy.pop() returns a tick, or times out.
FanoutPop ==
    /\ fanout_pc = "pop"
    /\ IF popped < Len(pushed)
       THEN fanout_pc' = "push" /\ popped' = popped + 1
       ELSE fanout_pc' = "loop" /\ UNCHANGED popped
    /\ UNCHANGED market_queue_display
    /\ FanoutOnly

\* The tick is marked (Settlement's UpdateMark) and passed on.
FanoutPush ==
    /\ fanout_pc = "push"
    /\ market_queue_display' = Append(market_queue_display, pushed[popped])
    /\ fanout_pc' = "loop"
    /\ UNCHANGED popped
    /\ FanoutOnly

FanoutStep == FanoutLoop \/ FanoutPop \/ FanoutPush

-----------------------------------------------------------------------------
(* Those who place orders *)

NewOrder(symbol, type, side, price, quantity) ==
    [id |-> 0, symbol |-> symbol, type |-> type, side |-> side, price |-> price,
     quantity |-> quantity, filled |-> 0, timestamp |-> 0]

Enqueue(o) ==
    order_queue' = IF queue_down THEN order_queue ELSE Append(order_queue, o)

\* The strategy's order is a MARKET order.
StrategyStep ==
    /\ UNCHANGED <<running, data, fanout, stops, engine, pnl_pc, received, exposure,
                   clients>>
    /\ Strategy!StrategyStep
    /\ IF strategy_pc = "push"
       THEN Enqueue(NewOrder(order.symbol, "MARKET", order.side, 0, order_qty))
       ELSE UNCHANGED order_queue

\* POST /api/order: no risk check, and no joins to wait for.
ClientOrder(symbol, side, price, quantity) ==
    /\ clients < MaxClient
    /\ clients' = clients + 1
    /\ Enqueue(NewOrder(symbol, "LIMIT", side, price, quantity))
    /\ UNCHANGED <<running, data, fanout, market_queue_display, strategy, stops, engine,
                   pnl>>

-----------------------------------------------------------------------------
(* The engine thread *)

EngineStep ==
    /\ Engine!EngineStep
    /\ UNCHANGED <<running, data, fanout, market_queue_display, strategy, queue_down,
                   shutdown, pnl, clients>>

-----------------------------------------------------------------------------
(* The PnL thread: a trade is popped and given to RiskManager *)

PnlOnly ==
    UNCHANGED <<running, data, fanout, market_queue_display, strategy, order_queue,
                stops, engine, clients>>

PnlLoop ==
    /\ pnl_pc = "loop"
    /\ pnl_pc' = IF running THEN "pop" ELSE "stopped"
    /\ UNCHANGED <<received, exposure, low>>
    /\ PnlOnly

PnlPop ==
    /\ pnl_pc = "pop"
    /\ IF received < Len(trade_queue)
       THEN received' = received + 1 /\ pnl_pc' = "add"
       ELSE UNCHANGED received /\ pnl_pc' = "loop"
    /\ UNCHANGED <<exposure, low>>
    /\ PnlOnly

\* Mutant: every trade is booked as a BUY.
PnlAddBuying ==
    /\ pnl_pc = "add"
    /\ pnl_pc' = "clamp"
    /\ UNCHANGED received
    /\ PnlOnly
    /\ Strategy!SetExposure(Fill.symbol, exposure[Fill.symbol] + Fill.notional)

\* record_fill() stores the sum, and then what it is clamped to.
PnlAdd ==
    /\ pnl_pc = "add"
    /\ pnl_pc' = "clamp"
    /\ UNCHANGED received
    /\ PnlOnly
    /\ Strategy!AddNotional

PnlClamp ==
    /\ pnl_pc = "clamp"
    /\ pnl_pc' = "loop"
    /\ UNCHANGED received
    /\ PnlOnly
    /\ Strategy!Clamp

PnlStep == PnlLoop \/ PnlPop \/ PnlAdd \/ PnlClamp

-----------------------------------------------------------------------------
(* main(), from its first join on *)

\* Mutant: the strategy thread is not waited for.
ShutdownOrdersEarly ==
    /\ data_pc = "done" /\ fanout_pc = "done"
    /\ ~queue_down
    /\ Engine!ShutdownQueue
    /\ UNCHANGED <<running, data, fanout, market_queue_display, strategy, pnl, clients>>

\* order_queue.shutdown(), when the data, fan-out and strategy threads are joined.
ShutdownOrders ==
    /\ data_pc = "done" /\ fanout_pc = "done" /\ strategy_pc = "done"
    /\ ~queue_down
    /\ Engine!ShutdownQueue
    /\ UNCHANGED <<running, data, fanout, market_queue_display, strategy, pnl, clients>>

\* engine.stop()
StopEngine ==
    /\ ~shutdown
    /\ Engine!Stop
    /\ UNCHANGED <<running, data, fanout, market_queue_display, strategy, pnl, clients>>

MainStep == ShutdownOrders \/ StopEngine

-----------------------------------------------------------------------------

Next ==
    \/ DataStep \/ Signal \/ FanoutStep \/ StrategyStep \/ EngineStep \/ PnlStep
    \/ \E s \in Symbol, side \in Engine!Side, price \in ClientPrice,
          quantity \in ClientQuantity : ClientOrder(s, side, price, quantity)
    \/ MainStep

Spec == Init /\ [][Next]_vars

\* Every thread that can go on does: what it waits for has a timeout.  Clients and
\* signals are not fair.
FairSpec ==
    /\ Spec
    /\ WF_vars(DataStep) /\ WF_vars(FanoutStep) /\ WF_vars(StrategyStep)
    /\ WF_vars(EngineStep) /\ WF_vars(PnlStep) /\ WF_vars(MainStep)

-----------------------------------------------------------------------------
(* Properties *)

\* The threads around the strategy do what TradingStrategy takes for granted of
\* them: ticks come as they were priced, exposure is written by one record_fill()
\* at a time, and each trade comes as a BUY and then as a SELL (main.cpp:97 and
\* main.cpp:155-162).  So what is proved there holds here.
ImplementsStrategy == Strategy!StrategySpec

\* The strategy on its own never trades: all its orders are MARKET orders, which
\* do not rest, so that without a client's LIMIT order there is nothing to match,
\* no exposure and no PnL.
NoClientNoTrade ==
    clients = 0 =>
        /\ trade_queue = <<>>
        /\ \A s \in Symbol : exposure[s] = 0 /\ \A side \in Engine!Side : book[s][side] = {}

\* How many orders of a type order_queue took, popped or not.
Taken(type) ==
    LET orders == arrived \o order_queue
    IN Cardinality({i \in DOMAIN orders : orders[i].type = type})

\* No order of the strategy is ever dropped, also when the signal comes while it
\* is being approved; an order that a client was told is accepted may be, but not
\* before main() has shut order_queue down (ApiServer.cpp:230, main.cpp:204).
OnlyLateOrdersDropped ==
    /\ Taken("MARKET") = SumFunction([s \in Symbol |-> Len(sent[s])])
    /\ ~queue_down => Taken("LIMIT") = clients

\* After a signal the data thread goes on with the retries of one symbol at most
\* (MarketDataFetcher.cpp:152-166).
LateFetchesBounded == Fetcher!LateFetchesBounded

\* Until it is stopped the engine catches up again and again: whatever enters
\* order_queue is matched, though the thread may have found the queue empty any
\* number of times before.
OrdersGetMatched == []<>((order_queue = <<>> /\ cur = NoOrder) \/ shutdown)

Ended ==
    /\ data_pc = "done" /\ fanout_pc = "done" /\ strategy_pc = "done"
    /\ engine_pc = "stopped" /\ pnl_pc = "stopped"

\* A signal ends every thread, though main() needs each to end before it stops
\* the next one, the data thread may be in the middle of its retries, and the
\* queues may hold ticks, orders and trades.
SignalEnds == ~running ~> Ended
=============================================================================
