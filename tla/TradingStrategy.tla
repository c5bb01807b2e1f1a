--------------------------- MODULE TradingStrategy ---------------------------
(***************************************************************************)
(* src/strategy/TradingStrategy.cpp with the gate of RiskManager.cpp: the  *)
(* strategy thread takes ticks from market_queue_display, feeds the        *)
(* indicators (IndicatorEngine), and turns an oversold or overbought RSI   *)
(* into a MARKET order if RiskManager::approve() lets it pass.             *)
(*                                                                         *)
(* approve() reads exposure_ without a lock, symbol by symbol, while the   *)
(* PnL thread writes it: every read is a step, and record_fill() is two,   *)
(* since it stores a negative exposure before it clamps it.  A trade comes *)
(* to record_fill() as a BUY and then as a SELL (Settlement).  order_queue *)
(* is shut down only after this thread is joined: no push is dropped.      *)
(***************************************************************************)
EXTENDS IndicatorEngine, FiniteSets

CONSTANTS rsi_oversold, rsi_overbought, order_qty, enabled,
          max_position, max_total_exposure, max_trade,
                                                \* max_trade is 20 times
                                                \* max_loss_per_trade_usd
          FillNotional,                         \* notionals of trades
          NoOrder, NoFill,                      \* no order, no trade at hand
          MaxQueue, MaxFills                    \* bounds

Side == {"BUY", "SELL"}

Tick == [symbol : Symbol, price : Price]

\* What approve() and push() need of an order; notional is its quantity times
\* the price of the tick.
Order == [symbol : Symbol, side : Side, notional : Int]

\* A call of record_fill() and how far it has come.
Fill == [symbol : Symbol, side : Side, notional : Int, added : BOOLEAN]

ASSUME StrategyAssumption ==
    /\ IsFiniteSet(Symbol)
    /\ FillNotional \subseteq Int
    /\ order_qty \in Nat /\ enabled \in BOOLEAN
    /\ {rsi_oversold, rsi_overbought, max_position, max_total_exposure, max_trade}
          \subseteq Int
    /\ NoOrder \notin Order /\ NoFill \notin Fill
    /\ MaxQueue \in Nat /\ MaxFills \in Nat

VARIABLES running,          \* g_running
          market_queue,     \* ticks on their way
          pc,               \* the thread: loop, pop, symbol, total, push, done
          order,            \* the order being approved
          unread, total,    \* total_exposure(): symbols to read, sum so far
          last_order_side,  \* last_order_side_; "none" is no entry
          sent,             \* history: sides of the orders pushed, per symbol
          exposure,         \* exposure_ of RiskManager; no entry counts as 0
          fill, fills,      \* the PnL thread's record_fill(); trades so far
          low               \* history: least exposure while an order is approved

indicators == vars
strategy == <<order, unread, total, last_order_side, sent>>
risk == <<exposure, fill, fills>>
strategyVars == <<indicators, running, market_queue, pc, strategy, risk, low>>

\* An order is at hand exactly while it is approved and pushed, and exposure is
\* negative only until it is clamped.
StrategyTypeOK ==
    /\ running \in BOOLEAN
    /\ market_queue \in Seq(Tick)
    /\ pc \in {"loop", "pop", "symbol", "total", "push", "done"}
    /\ order \in Order \cup {NoOrder}
    /\ order \in Order <=> pc \in {"symbol", "total", "push"}
    /\ unread \subseteq Symbol
    /\ total \in Int
    /\ last_order_side \in [Symbol -> Side \cup {"none"}]
    /\ sent \in [Symbol -> Seq(Side)]
    /\ exposure \in [Symbol -> Int]
    /\ low \in [Symbol -> Int]
    /\ fill \in Fill \cup {NoFill}
    /\ fills \in Nat
    /\ \A s \in Symbol : exposure[s] < 0 => fill \in Fill /\ fill.symbol = s /\ fill.added

StrategyInit ==
    /\ Init
    /\ running = TRUE
    /\ market_queue = <<>>
    /\ pc = "loop"
    /\ order = NoOrder
    /\ unread = {} /\ total = 0
    /\ last_order_side = [s \in Symbol |-> "none"]
    /\ sent = [s \in Symbol |-> <<>>]
    /\ exposure = [s \in Symbol |-> 0] /\ low = exposure
    /\ fill = NoFill /\ fills = 0

-----------------------------------------------------------------------------
(* The other threads *)

\* The fan-out thread pushes a tick.
PushTick(s, price) ==
    /\ Len(market_queue) < MaxQueue
    /\ SumFunction([t \in Symbol |-> Len(fed[t])]) + Len(market_queue) < MaxUpdates
    /\ market_queue' = Append(market_queue, [symbol |-> s, price |-> price])
    /\ UNCHANGED <<indicators, running, pc, strategy, risk, low>>

\* A signal: g_running = false.
Signal ==
    /\ running' = FALSE
    /\ UNCHANGED <<indicators, market_queue, pc, strategy, risk, low>>

Lesser(a, b) == IF a < b THEN a ELSE b

SetExposure(s, usd) ==
    /\ exposure' = [exposure EXCEPT ![s] = usd]
    /\ low' = [low EXCEPT ![s] = Lesser(@, usd)]

\* The PnL thread has a trade to book, as a BUY.
BookTrade(s, notional) ==
    /\ fill = NoFill
    /\ fills < MaxFills
    /\ fills' = fills + 1
    /\ fill' = [symbol |-> s, side |-> "BUY", notional |-> notional, added |-> FALSE]
    /\ UNCHANGED <<indicators, running, market_queue, pc, strategy, exposure, low>>

\* exposure_[trade.symbol] += notional, or -= for a SELL
AddNotional ==
    /\ fill # NoFill /\ ~fill.added
    /\ LET signed == IF fill.side = "BUY" THEN fill.notional ELSE -fill.notional
       IN SetExposure(fill.symbol, exposure[fill.symbol] + signed)
    /\ fill' = [fill EXCEPT !.added = TRUE]
    /\ UNCHANGED <<indicators, running, market_queue, pc, strategy, fills>>

\* The clamp to 0.  Then the same trade comes again, as a SELL.
Clamp ==
    /\ fill # NoFill /\ fill.added
    /\ LET usd == exposure[fill.symbol]
       IN SetExposure(fill.symbol, IF usd < 0 THEN 0 ELSE usd)
    /\ fill' = IF fill.side = "BUY"
               THEN [fill EXCEPT !.side = "SELL", !.added = FALSE] ELSE NoFill
    /\ UNCHANGED <<indicators, running, market_queue, pc, strategy, fills>>

-----------------------------------------------------------------------------
(* run() *)

CheckRunning ==
    /\ pc = "loop"
    /\ pc' = IF running THEN "pop" ELSE "done"
    /\ UNCHANGED <<indicators, running, market_queue, strategy, risk, low>>

PopNothing ==
    /\ pc = "pop"
    /\ market_queue = <<>>
    /\ pc' = "loop"
    /\ UNCHANGED <<indicators, running, market_queue, strategy, risk, low>>

-----------------------------------------------------------------------------
(* on_tick() *)

ShouldBuy(s, snap) ==
    last_order_side[s] # "BUY" /\ snap.rsi.num < rsi_oversold * snap.rsi.den

ShouldSell(s, snap) ==
    last_order_side[s] # "SELL" /\ snap.rsi.num > rsi_overbought * snap.rsi.den

\* Mutant: the warm-up is not waited for.
DecisionCold(s, snap) ==
    IF ~enabled THEN "none"
    ELSE IF ShouldBuy(s, snap) THEN "BUY"
    ELSE IF ShouldSell(s, snap) THEN "SELL"
    ELSE "none"

\* The side of the order that a tick calls for.
Decision(s, snap) ==
    IF ~enabled \/ ~snap.rsi_valid \/ ~snap.ema_valid THEN "none"
    ELSE IF ShouldBuy(s, snap) THEN "BUY"
    ELSE IF ShouldSell(s, snap) THEN "SELL"
    ELSE "none"

MakeMarketOrder(s, side, price) ==
    [symbol |-> s, side |-> side, notional |-> order_qty * price]

\* The tick updates the indicators and may call for an order.
TakeTick ==
    /\ pc = "pop" /\ market_queue # <<>>
    /\ LET tick == Head(market_queue)
           side == Decision(tick.symbol, states'[tick.symbol])
       IN /\ Update(tick.symbol, tick.price)
          /\ IF side = "none"
             THEN pc' = "loop" /\ UNCHANGED order
             ELSE /\ pc' = "symbol"
                  /\ order' = MakeMarketOrder(tick.symbol, side, tick.price)
    /\ market_queue' = Tail(market_queue)
    /\ low' = exposure
    /\ UNCHANGED <<running, unread, total, last_order_side, sent, risk>>

Reject ==
    /\ pc' = "loop"
    /\ order' = NoOrder

\* Mutant: a BUY is compared with the exposure it is added to.
CheckSymbolBefore ==
    /\ pc = "symbol"
    /\ IF \/ order.notional > max_trade
          \/ order.side = "BUY" /\ exposure[order.symbol] > max_position
       THEN Reject /\ UNCHANGED <<unread, total>>
       ELSE pc' = "total" /\ unread' = Symbol /\ total' = 0 /\ UNCHANGED order
    /\ UNCHANGED <<indicators, running, market_queue, last_order_side, sent, risk, low>>

\* Checks 1 and 2 of approve(): the trade's size, and for a BUY the exposure of
\* its symbol.
CheckSymbol ==
    /\ pc = "symbol"
    /\ IF \/ order.notional > max_trade
          \/ /\ order.side = "BUY"
             /\ exposure[order.symbol] + order.notional > max_position
       THEN Reject /\ UNCHANGED <<unread, total>>
       ELSE pc' = "total" /\ unread' = Symbol /\ total' = 0 /\ UNCHANGED order
    /\ UNCHANGED <<indicators, running, market_queue, last_order_side, sent, risk, low>>

\* total_exposure() reads the symbols one after the other.
ReadExposure(s) ==
    /\ pc = "total"
    /\ s \in unread
    /\ total' = total + exposure[s]
    /\ unread' = unread \ {s}
    /\ UNCHANGED <<indicators, running, market_queue, pc, order, last_order_side,
                   sent, risk, low>>

\* Mutant: the total is compared without the order's own notional.
CheckTotalBefore ==
    /\ pc = "total"
    /\ unread = {}
    /\ IF total > max_total_exposure THEN Reject ELSE pc' = "push" /\ UNCHANGED order
    /\ UNCHANGED <<indicators, running, market_queue, unread, total,
                   last_order_side, sent, risk, low>>

\* Check 3 of approve()
CheckTotal ==
    /\ pc = "total"
    /\ unread = {}
    /\ IF total + order.notional > max_total_exposure
       THEN Reject ELSE pc' = "push" /\ UNCHANGED order
    /\ UNCHANGED <<indicators, running, market_queue, unread, total,
                   last_order_side, sent, risk, low>>

\* Mutant: the side of the order is not kept.
PushOrderForgets ==
    /\ pc = "push"
    /\ sent' = [sent EXCEPT ![order.symbol] = Append(@, order.side)]
    /\ pc' = "loop"
    /\ order' = NoOrder
    /\ UNCHANGED <<indicators, running, market_queue, unread, total, last_order_side,
                   risk, low>>

PushOrder ==
    /\ pc = "push"
    /\ sent' = [sent EXCEPT ![order.symbol] = Append(@, order.side)]
    /\ last_order_side' = [last_order_side EXCEPT ![order.symbol] = order.side]
    /\ pc' = "loop"
    /\ order' = NoOrder
    /\ UNCHANGED <<indicators, running, market_queue, unread, total, risk, low>>

-----------------------------------------------------------------------------

StrategyStep ==
    \/ CheckRunning \/ PopNothing \/ TakeTick
    \/ CheckSymbol \/ (\E s \in Symbol : ReadExposure(s)) \/ CheckTotal \/ PushOrder

StrategyNext ==
    \/ StrategyStep
    \/ \E s \in Symbol, price \in Price : PushTick(s, price)
    \/ Signal
    \/ \E s \in Symbol, notional \in FillNotional : BookTrade(s, notional)
    \/ AddNotional
    \/ Clamp

StrategySpec == StrategyInit /\ [][StrategyNext]_strategyVars

-----------------------------------------------------------------------------
(* Properties *)

\* "Cooldown: don't flood orders": the orders pushed for a symbol alternate
\* between BUY and SELL, whatever approve() refused in between.
OrdersAlternate ==
    \A s \in Symbol : \A i \in 1..(Len(sent[s]) - 1) : sent[s][i] # sent[s][i + 1]

\* However the reads of approve() race with record_fill(), an order that is about
\* to be pushed keeps the per-trade and the symbol's limit, counted from the
\* least exposure the symbol had since the tick was taken.
SymbolLimitKept ==
    pc = "push" =>
        /\ order.notional <= max_trade
        /\ order.side = "BUY" => low[order.symbol] + order.notional <= max_position

\* And the portfolio's limit, counted from the least exposure of each symbol:
\* the sum may be torn, but is never below that.
PortfolioLimitKept ==
    pc = "push" =>
        SumFunction(low) + order.notional <= max_total_exposure

\* No order is pushed for a symbol before it was fed the prices that its
\* indicators need, however many ticks other symbols had.
OrdersAfterWarmup ==
    \A s \in Symbol : sent[s] # <<>> =>
        Len(fed[s]) >= sma_period /\ Len(fed[s]) > rsi_period
=============================================================================
