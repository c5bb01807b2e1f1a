----------------------------- MODULE Settlement -----------------------------
(***************************************************************************)
(* How a fill becomes money: the engine thread pushes each trade to        *)
(* trade_queue, the fill callback that main() registers pushes it again,   *)
(* and the PnL thread of main.cpp pops trades and books them with          *)
(* PositionManager, RiskManager and DisplayManager, calling the first it   *)
(* sees a BUY, the next a SELL and so on.  The fan-out thread marks the    *)
(* positions to market meanwhile.                                          *)
(*                                                                         *)
(* trade_queue is a queue at the level of FifoQueue: what was sent, and    *)
(* how much of it was received.  Each locked method of a manager is one    *)
(* step.  Money is an integer; avg_cost is a division that is exact        *)
(* whenever the position was flat, which is every time it is made.         *)
(***************************************************************************)
EXTENDS Integers, Sequences, FiniteSets, Functions

CONSTANTS Symbol, Price, Quantity,  \* what trades may be about
          InitialCash,              \* cfg.initial_cash()
          MaxTrades,                \* max_trades_ of the display
          MaxFills                  \* bound: fills over a behaviour

Trade == [symbol : Symbol, price : Int, quantity : Nat \ {0}, fill : Nat]

Position == [quantity : Int, avg_cost : Int, realized_pnl : Int, last_price : Int]

\* A value-initialised Position, what positions_[symbol] creates.
NewPosition == [quantity |-> 0, avg_cost |-> 0, realized_pnl |-> 0, last_price |-> 0]

ASSUME SettlementAssumption ==
    /\ Price \subseteq Int
    /\ Quantity \subseteq Nat \ {0}
    /\ InitialCash \in Int
    /\ MaxTrades \in Nat
    /\ MaxFills \in Nat

VARIABLES running,      \* g_running
          engine,       \* the engine thread: match, callback or stopped
          fills,        \* number of fills so far
          sent,         \* every trade pushed to trade_queue
          received,     \* how many of them the PnL thread has popped
          down,         \* trade_queue is shut down
          pnl,          \* the PnL thread: loop, pop, record, risk, display, stopped
          buy_turn,     \* its static variable
          positions, cash, realized_pnl,  \* PositionManager; a symbol without
                                          \* an entry is not in the domain
          exposure,     \* exposure_ of RiskManager; a missing entry counts as 0
          recent_trades \* of DisplayManager, newest first

market == <<running, engine, fills, sent, down>>
books == <<positions, cash, realized_pnl, exposure, recent_trades>>
vars == <<market, received, pnl, buy_turn, books>>

TypeOK ==
    /\ running \in BOOLEAN
    /\ engine \in {"match", "callback", "stopped"}
    /\ fills \in Nat
    /\ sent \in Seq(Trade)
    /\ received \in 0..Len(sent)
    /\ down \in BOOLEAN
    /\ pnl \in {"loop", "pop", "record", "risk", "display", "stopped"}
    /\ pnl \in {"record", "risk", "display"} => received > 0
    /\ buy_turn \in BOOLEAN
    /\ DOMAIN positions \subseteq Symbol
    /\ positions \in [DOMAIN positions -> Position]
    /\ cash \in Int /\ realized_pnl \in Int
    /\ exposure \in [Symbol -> Int]
    /\ recent_trades \in Seq(Trade)

Init ==
    /\ running = TRUE
    /\ engine = "match"
    /\ fills = 0
    /\ sent = <<>> /\ received = 0 /\ down = FALSE
    /\ pnl = "loop"
    /\ buy_turn = TRUE
    /\ positions = [s \in {} |-> NewPosition]
    /\ cash = InitialCash /\ realized_pnl = 0
    /\ exposure = [s \in Symbol |-> 0]
    /\ recent_trades = <<>>

-----------------------------------------------------------------------------
(* The engine thread: trade_queue_.push(t), then fill_cb_(t) *)

\* push() on trade_queue: it drops what comes after shutdown.
PushTrade(trade) == sent' = IF down THEN sent ELSE Append(sent, trade)

MakeFill(symbol, price, quantity) ==
    /\ engine = "match"
    /\ fills < MaxFills
    /\ fills' = fills + 1
    /\ PushTrade([symbol |-> symbol, price |-> price, quantity |-> quantity,
                  fill |-> fills'])
    /\ engine' = "callback"
    /\ UNCHANGED <<running, down, received, pnl, buy_turn, books>>

\* Mutant: the callback does what its comment says, and no longer pushes.
FillCallbackSilent ==
    /\ engine = "callback"
    /\ engine' = "match"
    /\ UNCHANGED <<running, fills, sent, down, received, pnl, buy_turn, books>>

\* The callback pushes the trade it is called with, the one just made.
FillCallback ==
    /\ engine = "callback"
    /\ PushTrade(sent[Len(sent)])
    /\ engine' = "match"
    /\ UNCHANGED <<running, fills, down, received, pnl, buy_turn, books>>

-----------------------------------------------------------------------------
(* Shutdown, as far as trades are concerned *)

\* A signal: g_running = false.
Signal ==
    /\ running' = FALSE
    /\ UNCHANGED <<engine, fills, sent, down, received, pnl, buy_turn, books>>

\* main() stops the engine, between two orders, once the threads that wait for
\* g_running have ended.
StopEngine ==
    /\ ~running
    /\ engine = "match"
    /\ engine' = "stopped"
    /\ UNCHANGED <<running, fills, sent, down, received, pnl, buy_turn, books>>

\* Having joined the engine thread it shuts trade_queue down.
ShutdownTrades ==
    /\ engine = "stopped"
    /\ down' = TRUE
    /\ UNCHANGED <<running, engine, fills, sent, received, pnl, buy_turn, books>>

-----------------------------------------------------------------------------
(* The PnL thread *)

\* The trade at hand, and the side it is booked with: buy_turn has been turned
\* since.
Current == sent[received]
Side == IF buy_turn THEN "SELL" ELSE "BUY"

\* while (g_running)
CheckRunning ==
    /\ pnl = "loop"
    /\ pnl' = IF running THEN "pop" ELSE "stopped"
    /\ UNCHANGED <<market, received, buy_turn, books>>

\* Mutant: a timeout ends the loop (break for continue).
PopNothingBreaks ==
    /\ pnl = "pop"
    /\ received = Len(sent)
    /\ pnl' = "stopped"
    /\ UNCHANGED <<market, received, buy_turn, books>>

\* pop() timed out, or was told of the shutdown: continue.
PopNothing ==
    /\ pnl = "pop"
    /\ received = Len(sent)
    /\ pnl' = "loop"
    /\ UNCHANGED <<market, received, buy_turn, books>>

PopTrade ==
    /\ pnl = "pop"
    /\ received < Len(sent)
    /\ received' = received + 1
    /\ buy_turn' = ~buy_turn
    /\ pnl' = "record"
    /\ UNCHANGED <<market, books>>

\* The position of the trade's symbol, created when there is none.
Held(s) == IF s \in DOMAIN positions THEN positions[s] ELSE NewPosition

Cost(t) == t.price * t.quantity

Booked(t, position) ==
    positions' = [s \in DOMAIN positions \cup {t.symbol} |->
                     IF s = t.symbol THEN position ELSE positions[s]]

\* record_trade(trade, BUY)
Buy(t) ==
    LET pos == Held(t.symbol)
        quantity == pos.quantity + t.quantity
    IN /\ Booked(t, [pos EXCEPT
              !.quantity = quantity,
              !.avg_cost = IF quantity > 0
                           THEN (pos.avg_cost * pos.quantity + Cost(t)) \div quantity
                           ELSE 0,
              !.last_price = t.price])
       /\ cash' = cash - Cost(t)
       /\ UNCHANGED realized_pnl

\* Mutant: the PnL is realized against the last mark.
SellAtMark(t) ==
    LET pos == Held(t.symbol)
        realized == (t.price - pos.last_price) * t.quantity
    IN /\ Booked(t, [NewPosition EXCEPT
                        !.realized_pnl = pos.realized_pnl + realized,
                        !.last_price = t.price])
       /\ realized_pnl' = realized_pnl + realized
       /\ cash' = cash + Cost(t)

\* record_trade(trade, SELL)
Sell(t) ==
    LET pos == Held(t.symbol)
        realized == (t.price - pos.avg_cost) * t.quantity
        quantity == pos.quantity - t.quantity
    IN /\ Booked(t, [quantity |-> IF quantity > 0 THEN quantity ELSE 0,
                     avg_cost |-> IF quantity > 0 THEN pos.avg_cost ELSE 0,
                     realized_pnl |-> pos.realized_pnl + realized,
                     last_price |-> t.price])
       /\ realized_pnl' = realized_pnl + realized
       /\ cash' = cash + Cost(t)

RecordTrade ==
    /\ pnl = "record"
    /\ IF Side = "BUY" THEN Buy(Current) ELSE Sell(Current)
    /\ pnl' = "risk"
    /\ UNCHANGED <<market, received, buy_turn, exposure, recent_trades>>

AtLeastZero(n) == IF n > 0 THEN n ELSE 0

\* Mutant: a SELL adds to the exposure, as approve() has it.
RecordFillAdding ==
    /\ pnl = "risk"
    /\ exposure' = [exposure EXCEPT ![Current.symbol] =
                       AtLeastZero(@ + Cost(Current))]
    /\ pnl' = "display"
    /\ UNCHANGED <<market, received, buy_turn, positions, cash, realized_pnl,
                   recent_trades>>

\* record_fill(): a BUY adds its notional, a SELL takes it off, and the result
\* is clamped to 0.
RecordFill ==
    /\ pnl = "risk"
    /\ exposure' = [exposure EXCEPT ![Current.symbol] =
                       AtLeastZero(IF Side = "BUY" THEN @ + Cost(Current)
                                                   ELSE @ - Cost(Current))]
    /\ pnl' = "display"
    /\ UNCHANGED <<market, received, buy_turn, positions, cash, realized_pnl,
                   recent_trades>>

\* Mutant: the newest trade is the one dropped when the deque is full.
OnTradeDropsNewest ==
    /\ pnl = "display"
    /\ recent_trades' = IF Len(recent_trades) < MaxTrades
                        THEN <<Current>> \o recent_trades ELSE recent_trades
    /\ pnl' = "loop"
    /\ UNCHANGED <<market, received, buy_turn, positions, cash, realized_pnl,
                   exposure>>

\* DisplayManager::on_trade(): the newest first, the oldest dropped.
OnTrade ==
    /\ pnl = "display"
    /\ LET all == <<Current>> \o recent_trades
       IN recent_trades' = IF Len(all) > MaxTrades
                           THEN SubSeq(all, 1, Len(all) - 1) ELSE all
    /\ pnl' = "loop"
    /\ UNCHANGED <<market, received, buy_turn, positions, cash, realized_pnl,
                   exposure>>

PnlStep ==
    CheckRunning \/ PopNothing \/ PopTrade \/ RecordTrade \/ RecordFill \/ OnTrade

-----------------------------------------------------------------------------
(* The fan-out thread *)

\* update_mark(): symbols without a position are ignored.  The thread ends
\* before main() stops the engine, and not before the tick it has in hand when
\* the signal comes is marked.
UpdateMark(s, price) ==
    /\ engine # "stopped"
    /\ s \in DOMAIN positions
    /\ positions' = [positions EXCEPT ![s].last_price = price]
    /\ UNCHANGED <<market, received, pnl, buy_turn, cash, realized_pnl, exposure,
                   recent_trades>>

-----------------------------------------------------------------------------
Next ==
    \/ \E s \in Symbol, price \in Price, quantity \in Quantity :
          MakeFill(s, price, quantity)
    \/ FillCallback
    \/ Signal \/ StopEngine \/ ShutdownTrades
    \/ PnlStep
    \/ \E s \in Symbol, price \in Price : UpdateMark(s, price)

Spec == Init /\ [][Next]_vars

-----------------------------------------------------------------------------
(* Properties *)

\* How many trades each manager has booked, or the display got.
Recorded == IF pnl = "record" THEN received - 1 ELSE received
Counted == IF pnl \in {"record", "risk"} THEN received - 1 ELSE received
Shown == IF pnl \in {"record", "risk", "display"} THEN received - 1 ELSE received

\* unrealized_pnl() and portfolio_value() of PositionManager
UnrealizedPnl ==
    SumFunction([s \in DOMAIN positions |->
            (positions[s].last_price - positions[s].avg_cost) * positions[s].quantity])
PortfolioValue ==
    cash + SumFunction([s \in DOMAIN positions |->
                   positions[s].quantity * positions[s].last_price])

\* The accounts balance under every interleaving of fills and marks: what the
\* portfolio is worth is the initial cash and the total PnL, and the realized
\* PnL is that of the positions together.
AccountsBalance ==
    /\ PortfolioValue = InitialCash + realized_pnl + UnrealizedPnl
    /\ realized_pnl = SumFunction([s \in DOMAIN positions |-> positions[s].realized_pnl])

\* Every fill is booked twice, first as a BUY and then as a SELL at the same
\* price (main.cpp:97 and main.cpp:155-162): between two fills the portfolio is
\* flat and holds the initial cash, halfway through one it holds that fill and
\* nothing else, and no PnL is ever realized, whatever was traded.
RoundTrips ==
    /\ realized_pnl = 0
    /\ \A s \in Symbol :
          LET halfway == Recorded % 2 = 1 /\ sent[Recorded].symbol = s
          IN /\ Held(s).realized_pnl = 0
             /\ Held(s).quantity = IF halfway THEN sent[Recorded].quantity ELSE 0
             /\ Held(s).avg_cost = IF halfway THEN sent[Recorded].price ELSE 0
    /\ cash = IF Recorded % 2 = 1 THEN InitialCash - Cost(sent[Recorded])
                                  ELSE InitialCash

\* While prices are not negative RiskManager agrees with PositionManager on what
\* is at stake, except between the two calls of one trade: each symbol is
\* exposed by what its position cost.
ExposureIsCost ==
    (Recorded = Counted /\ \A i \in DOMAIN sent : sent[i].price >= 0) =>
        \A s \in Symbol :
            exposure[s] = Held(s).quantity * Held(s).avg_cost

\* The display shows the trades booked last, newest first.
RecentTradesAreLast ==
    /\ Len(recent_trades) = IF Shown > MaxTrades THEN MaxTrades ELSE Shown
    /\ \A i \in DOMAIN recent_trades : recent_trades[i] = sent[Shown + 1 - i]

\* Every trade that is pushed is booked, unless the program is being stopped.
TradesGetBooked ==
    \A n \in 1..(2 * MaxFills) :
        Len(sent) >= n ~> (Recorded >= n /\ Counted >= n) \/ ~running
=============================================================================
