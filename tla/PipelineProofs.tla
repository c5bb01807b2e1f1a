---------------------------- MODULE PipelineProofs ----------------------------
(***************************************************************************)
(* Theorems about Pipeline, for any symbols, prices, limits and orders of  *)
(* clients and all bounds.                                                 *)
(***************************************************************************)
EXTENDS Pipeline, Sums, SequenceTheorems

-----------------------------------------------------------------------------
(* The data thread *)

\* In the pipeline the data thread does what MarketDataFetcher says: nothing that
\* the other threads do touches it (main.cpp:108-112).
THEOREM FetcherImplemented == Spec => Fetcher!Spec
  <1>1. Init => Fetcher!Init
    BY DEF Init
  <1>2. [Next]_vars => [Fetcher!Next]_Fetcher!vars
    <2> SUFFICES ASSUME [Next]_vars PROVE [Fetcher!Next]_Fetcher!vars
      OBVIOUS
    <2> USE DEF Fetcher!vars, Fetcher!thread, data
    <2>1. CASE DataStep
      BY <2>1 DEF DataStep, Fetcher!Next
    <2>2. CASE Signal
      BY <2>2 DEF Signal, Fetcher!Next
    <2>3. CASE FanoutStep
      BY <2>3 DEF FanoutStep, FanoutLoop, FanoutPop, FanoutPush, FanoutOnly
    <2>4. CASE StrategyStep
      BY <2>4 DEF StrategyStep
    <2>5. CASE EngineStep
      BY <2>5 DEF EngineStep
    <2>6. CASE PnlStep
      BY <2>6 DEF PnlStep, PnlLoop, PnlPop, PnlAdd, PnlClamp, PnlOnly
    <2>7. ASSUME NEW s \in Symbol, NEW side \in Engine!Side, NEW price \in ClientPrice,
                 NEW quantity \in ClientQuantity, ClientOrder(s, side, price, quantity)
          PROVE  [Fetcher!Next]_Fetcher!vars
      BY <2>7 DEF ClientOrder
    <2>8. CASE MainStep
      BY <2>8 DEF MainStep, ShutdownOrders, StopEngine
    <2>9. CASE UNCHANGED vars
      BY <2>9 DEF vars
    <2> QED
      BY <2>1, <2>2, <2>3, <2>4, <2>5, <2>6, <2>7, <2>8, <2>9 DEF Next
  <1> QED BY <1>1, <1>2, PTL DEF Spec, Fetcher!Spec

\* Before the signal nothing is late.  After it, while the retries of a symbol go
\* on, each late fetch is one of the attempts made; and once they are over no
\* other symbol is begun.
LateInv ==
    /\ running \in BOOLEAN
    /\ attempt \in 0..max_retries
    /\ late \in Nat
    /\ data_pc = "fetch" => attempt < max_retries
    /\ late <= max_retries
    /\ running => late = 0
    /\ data_pc \in {"try", "backoff"} => late <= attempt
    /\ data_pc = "fetch" => late <= attempt + 1

\* The data thread keeps this.
LEMMA StepLate == LateInv /\ [Fetcher!Next]_Fetcher!vars => LateInv'
  <1> SUFFICES ASSUME LateInv, [Fetcher!Next]_Fetcher!vars PROVE LateInv'
    OBVIOUS
  <1>0. max_retries \in Nat \ {0}
    BY PipelineAssumption
  <1> USE <1>0 DEF LateInv
  <1>1. CASE Fetcher!Signal
    <2>1. running' \in BOOLEAN /\ ~running'
      BY <1>1 DEF Fetcher!Signal
    <2>2. attempt' = attempt /\ late' = late /\ data_pc' = data_pc
      BY <1>1 DEF Fetcher!Signal, Fetcher!thread
    <2> QED BY <2>1, <2>2, SMT
  <1>2. CASE Fetcher!CheckRunning
    BY <1>2, SMT DEF Fetcher!CheckRunning
  <1>3. CASE Fetcher!NextSymbol
    BY <1>3, SMT DEF Fetcher!NextSymbol, Fetcher!Begin
  <1>4. CASE \E price \in Price : Fetcher!Generate(price) \/ Fetcher!FetchSucceeds(price)
    BY <1>4, SMT DEF Fetcher!Generate, Fetcher!FetchSucceeds, Fetcher!Push
  <1>5. CASE Fetcher!Try
    BY <1>5, SMT DEF Fetcher!Try
  <1>6. CASE Fetcher!FetchFails
    BY <1>6, SMT DEF Fetcher!FetchFails
  <1>7. CASE Fetcher!Backoff
    BY <1>7, SMT DEF Fetcher!Backoff
  <1>8. CASE Fetcher!Sleep
    BY <1>8, SMT DEF Fetcher!Sleep
  <1>9. CASE UNCHANGED Fetcher!vars
    BY <1>9, SMT DEF Fetcher!vars, Fetcher!thread
  <1> QED
    BY <1>1, <1>2, <1>3, <1>4, <1>5, <1>6, <1>7, <1>8, <1>9
       DEF Fetcher!Next, Fetcher!Step

\* After a signal the data thread begins at most max_retries fetches, whatever
\* the mode and however many symbols there are, and whatever the other threads do
\* (MarketDataFetcher.cpp:152-166).
THEOREM LateFetchesAreBounded == Spec => []LateFetchesBounded
  <1>1. Fetcher!Init => LateInv
    BY PipelineAssumption, SMT DEF Fetcher!Init, LateInv
  <1>2. LateInv => LateFetchesBounded
    BY DEF LateInv, LateFetchesBounded, Fetcher!LateFetchesBounded
  <1>3. Fetcher!Spec => []LateInv
    BY <1>1, StepLate, PTL DEF Fetcher!Spec
  <1> QED BY <1>2, <1>3, FetcherImplemented, PTL

-----------------------------------------------------------------------------
(* Who writes what *)

\* main() builds finitely many symbols.
LEMMA SymbolFinite == IsFiniteSet(Symbol)
  <1>1. IsFiniteSet(1..Len(symbols))
    BY PipelineAssumption, FS_Interval
  <1>2. symbols \in [1..Len(symbols) -> Symbol]
    BY PipelineAssumption, LenProperties
  <1>3. \A s \in Symbol : \E i \in 1..Len(symbols) : symbols[i] = s
    BY <1>2 DEF Symbol
  <1>4. symbols \in Surjection(1..Len(symbols), Symbol)
    BY <1>2, <1>3 DEF Surjection
  <1> QED BY <1>1, <1>4, FS_Surjection

\* Some client sends an order.
Client ==
    \E s \in Symbol, side \in Engine!Side, price \in ClientPrice,
       quantity \in ClientQuantity : ClientOrder(s, side, price, quantity)

\* The state of a thread is changed by that thread only, and what threads share by
\* those at its two ends.
LEMMA Writers ==
  ASSUME [Next]_vars
  PROVE  /\ [Fetcher!Next]_Fetcher!vars
         /\ [FanoutStep]_fanout
         /\ [StrategyStep]_strategy
         /\ [EngineStep]_engine
         /\ [PnlStep]_<<pnl_pc, received, exposure>>
         /\ [Client]_clients
         /\ [FanoutStep \/ StrategyStep]_market_queue_display
         /\ [StrategyStep \/ EngineStep \/ Client]_order_queue
         /\ [MainStep]_queue_down
  <1> USE DEF Fetcher!vars, Fetcher!thread, data, fanout, strategy, engine, pnl, stops
  <1>1. CASE DataStep
    BY <1>1 DEF DataStep, Fetcher!Next
  <1>2. CASE Signal
    BY <1>2 DEF Signal, Fetcher!Next
  <1>3. CASE FanoutStep
    BY <1>3 DEF FanoutStep, FanoutLoop, FanoutPop, FanoutPush, FanoutOnly
  <1>4. CASE StrategyStep
    BY <1>4 DEF StrategyStep
  <1>5. CASE EngineStep
    BY <1>5 DEF EngineStep
  <1>6. CASE PnlStep
    BY <1>6 DEF PnlStep, PnlLoop, PnlPop, PnlAdd, PnlClamp, PnlOnly
  <1>7. CASE Client
    BY <1>7 DEF Client, ClientOrder
  <1>8. CASE MainStep
    <2>1. UNCHANGED <<order_queue, engine>>
      BY <1>8 DEF MainStep, ShutdownOrders, StopEngine, Engine!ShutdownQueue,
                  Engine!Stop, Engine!placers, Engine!engine
    <2> QED BY <1>8, <2>1 DEF MainStep, ShutdownOrders, StopEngine
  <1>9. CASE UNCHANGED vars
    BY <1>9 DEF vars
  <1> QED
    BY <1>1, <1>2, <1>3, <1>4, <1>5, <1>6, <1>7, <1>8, <1>9 DEF Next, Client

-----------------------------------------------------------------------------
(* The ticks *)

One(b) == IF b THEN 1 ELSE 0

\* The data thread has begun a tick.
Working == data_pc \in {"generate", "try", "fetch", "backoff"}

\* The strategy thread has an order approved.
Deciding == strategy_pc \in {"symbol", "total", "push"}

DataInv ==
    /\ at \in Nat \ {0}
    /\ Working => at <= Len(symbols)
    /\ pushed \in Seq(Strategy!Tick)
    /\ Len(pushed) + One(Working) <= MaxTicks

FanoutInv ==
    /\ popped \in Nat /\ popped <= Len(pushed)
    /\ fanout_pc = "push" => popped # 0
    /\ market_queue_display \in Seq(Strategy!Tick)

StrategyInv ==
    /\ fed \in [Symbol -> Seq(Nat)]
    /\ Deciding => order \in Strategy!Order
    /\ sent \in [Symbol -> Seq(Engine!Side)]

\* The data thread pushes ticks of the symbols that it knows, and MaxTicks at most.
\* What it pushed stays.
LEMMA StepData ==
  ASSUME DataInv, [Fetcher!Next]_Fetcher!vars
  PROVE  /\ DataInv'
         /\ \/ pushed' = pushed
            \/ \E tick \in Strategy!Tick : pushed' = Append(pushed, tick)
  <1>0. /\ Len(pushed) \in Nat /\ MaxTicks \in Nat /\ Len(symbols) \in Nat
        /\ symbols \in Seq(Symbol)
    BY PipelineAssumption, LenProperties DEF DataInv
  <1>1. CASE pushed' = pushed /\ UNCHANGED <<at, data_pc>>
    BY <1>1 DEF DataInv, Working
  <1>3. CASE Working /\ \E price \in Price : Fetcher!Push(price)
    <2>1. PICK price \in Price : Fetcher!Push(price)
      BY <1>3
    <2> DEFINE tick == [symbol |-> symbols[at], price |-> price]
    <2>2. tick \in Strategy!Tick
      <3>1. symbols[at] \in Symbol
        BY <1>0, <1>3 DEF DataInv
      <3> QED BY <3>1 DEF Strategy!Tick
    <2>3. pushed' = Append(pushed, tick) /\ at' = at + 1 /\ data_pc' = "symbol"
      BY <2>1 DEF Fetcher!Push
    <2> HIDE DEF tick
    <2>4. pushed' \in Seq(Strategy!Tick) /\ Len(pushed') = Len(pushed) + 1
      BY <2>2, <2>3, AppendProperties DEF DataInv
    <2>5. at' \in Nat \ {0} /\ ~Working' /\ Len(pushed) + 1 <= MaxTicks
      BY <1>3, <2>3 DEF DataInv, Working, One
    <2>6. Len(pushed') + One(Working') <= MaxTicks
      BY <1>0, <2>4, <2>5 DEF One
    <2> QED BY <2>2, <2>3, <2>4, <2>5, <2>6 DEF DataInv
  <1>4. CASE Fetcher!CheckRunning
    BY <1>0, <1>4 DEF Fetcher!CheckRunning, DataInv, Working, One
  <1>5. CASE Fetcher!NextSymbol
    BY <1>0, <1>5 DEF Fetcher!NextSymbol, Fetcher!Begin, DataInv, Working, One
  <1>6. CASE Fetcher!Try
    BY <1>0, <1>6 DEF Fetcher!Try, DataInv, Working, One
  <1>7. CASE Fetcher!FetchFails \/ Fetcher!Backoff
    BY <1>0, <1>7 DEF Fetcher!FetchFails, Fetcher!Backoff, DataInv, Working, One
  <1>8. CASE Fetcher!Sleep
    BY <1>0, <1>8 DEF Fetcher!Sleep, DataInv, Working, One
  <1>9. ASSUME NEW price \in Price, Fetcher!Generate(price) \/ Fetcher!FetchSucceeds(price)
        PROVE  Working /\ Fetcher!Push(price)
    BY <1>9 DEF Fetcher!Generate, Fetcher!FetchSucceeds, Working
  <1>10. CASE Fetcher!Signal \/ UNCHANGED Fetcher!vars
    BY <1>1, <1>10 DEF Fetcher!Signal, Fetcher!vars, Fetcher!thread
  <1> QED
    BY <1>3, <1>4, <1>5, <1>6, <1>7, <1>8, <1>9, <1>10 DEF Fetcher!Next, Fetcher!Step

\* What a step of the strategy thread does with the tick and the order at hand.
LEMMA StrategyMoves ==
  ASSUME StrategyStep
  PROVE  \/ /\ UNCHANGED <<fed, sent, market_queue_display, order_queue>>
            /\ Deciding' => Deciding /\ order' = order
         \/ /\ strategy_pc = "pop" /\ market_queue_display # <<>>
            /\ Strategy!Update(Head(market_queue_display).symbol,
                               Head(market_queue_display).price)
            /\ market_queue_display' = Tail(market_queue_display)
            /\ UNCHANGED <<sent, order_queue>>
            /\ \/ ~Deciding'
               \/ \E side \in Engine!Side :
                     order' = Strategy!MakeMarketOrder(
                                  Head(market_queue_display).symbol, side,
                                  Head(market_queue_display).price)
         \/ /\ strategy_pc = "push" /\ ~Deciding'
            /\ UNCHANGED <<fed, market_queue_display>>
            /\ sent' = [sent EXCEPT ![order.symbol] = Append(@, order.side)]
            /\ Enqueue(NewOrder(order.symbol, "MARKET", order.side, 0, order_qty))
  <1> USE DEF Strategy!indicators, Strategy!vars, Strategy!strategy, Strategy!risk,
              Deciding
  <1>0. strategy_pc # "push" => UNCHANGED order_queue
    BY DEF StrategyStep
  <1>1. CASE Strategy!CheckRunning
    BY <1>0, <1>1 DEF Strategy!CheckRunning
  <1>2. CASE Strategy!PopNothing
    BY <1>0, <1>2 DEF Strategy!PopNothing
  <1>3. CASE Strategy!TakeTick
    <2> DEFINE tick == Head(market_queue_display)
               side == Strategy!Decision(tick.symbol, states'[tick.symbol])
    <2>1. side = "none" \/ side \in Engine!Side
      BY DEF Strategy!Decision, Engine!Side
    <2>2. side = "none" => ~Deciding'
      BY <1>3 DEF Strategy!TakeTick
    <2>3. side # "none" =>
             order' = Strategy!MakeMarketOrder(tick.symbol, side, tick.price)
      BY <1>3 DEF Strategy!TakeTick
    <2> HIDE DEF side
    <2>4. \/ ~Deciding'
          \/ \E other \in Engine!Side :
                order' = Strategy!MakeMarketOrder(tick.symbol, other, tick.price)
      BY <2>1, <2>2, <2>3
    <2>5. /\ strategy_pc = "pop" /\ market_queue_display # <<>>
          /\ Strategy!Update(tick.symbol, tick.price)
          /\ market_queue_display' = Tail(market_queue_display)
          /\ UNCHANGED sent
      BY <1>3 DEF Strategy!TakeTick
    <2> QED BY <1>0, <2>4, <2>5
  <1>4. CASE Strategy!CheckSymbol
    BY <1>0, <1>4 DEF Strategy!CheckSymbol, Strategy!Reject
  <1>5. ASSUME NEW s \in Symbol, Strategy!ReadExposure(s)
        PROVE  /\ UNCHANGED <<fed, sent, market_queue_display, order_queue>>
               /\ Deciding' => Deciding /\ order' = order
    BY <1>0, <1>5 DEF Strategy!ReadExposure
  <1>6. CASE Strategy!CheckTotal
    BY <1>0, <1>6 DEF Strategy!CheckTotal, Strategy!Reject
  <1>7. CASE Strategy!PushOrder
    BY <1>7 DEF Strategy!PushOrder, StrategyStep
  <1> QED
    BY <1>1, <1>2, <1>3, <1>4, <1>5, <1>6, <1>7 DEF StrategyStep, Strategy!StrategyStep

\* A tick at the head of the queue is one of a symbol and a price.
LEMMA HeadIsTick ==
  ASSUME FanoutInv, market_queue_display # <<>>
  PROVE  /\ Head(market_queue_display).symbol \in Symbol
         /\ Head(market_queue_display).price \in Nat
         /\ Tail(market_queue_display) \in Seq(Strategy!Tick)
         /\ Len(Tail(market_queue_display)) = Len(market_queue_display) - 1
  <1>1. /\ Head(market_queue_display) \in Strategy!Tick
        /\ Tail(market_queue_display) \in Seq(Strategy!Tick)
        /\ Len(Tail(market_queue_display)) = Len(market_queue_display) - 1
    BY HeadTailProperties DEF FanoutInv
  <1> QED BY <1>1, PipelineAssumption DEF Strategy!Tick

\* The fan-out passes on what the data thread pushed.
LEMMA StepFanout ==
  ASSUME DataInv, FanoutInv, [Next]_vars
  PROVE  FanoutInv'
  <1>1. pushed' \in Seq(Strategy!Tick) /\ Len(pushed) <= Len(pushed')
        /\ Len(pushed) \in Nat /\ Len(pushed') \in Nat
    <2>1. CASE pushed' = pushed
      BY <2>1, LenProperties DEF DataInv
    <2>2. ASSUME NEW tick \in Strategy!Tick, pushed' = Append(pushed, tick)
          PROVE  /\ pushed' \in Seq(Strategy!Tick) /\ Len(pushed) <= Len(pushed')
                 /\ Len(pushed) \in Nat /\ Len(pushed') \in Nat
      BY <2>2, AppendProperties, LenProperties DEF DataInv
    <2> QED BY <2>1, <2>2, StepData, Writers
  <1>2. /\ popped' \in Nat /\ popped' <= Len(pushed')
        /\ fanout_pc' = "push" => popped' # 0
    <2>1. CASE UNCHANGED fanout
      BY <1>1, <2>1 DEF FanoutInv, fanout
    <2>2. CASE FanoutStep
      BY <1>1, <2>2 DEF FanoutInv, FanoutStep, FanoutLoop, FanoutPop, FanoutPush
    <2> QED BY <2>1, <2>2, Writers
  <1>3. market_queue_display' \in Seq(Strategy!Tick)
    <2>1. CASE UNCHANGED market_queue_display
      BY <2>1 DEF FanoutInv
    <2>2. CASE FanoutPush
      <3>1. pushed[popped] \in Strategy!Tick
        BY <2>2, ElementOfSeq DEF FanoutPush, FanoutInv, DataInv
      <3> QED BY <2>2, <3>1, AppendProperties DEF FanoutPush, FanoutInv
    <2>3. CASE StrategyStep
      BY <2>1, <2>3, StrategyMoves, HeadIsTick
    <2> QED BY <2>1, <2>2, <2>3, Writers DEF FanoutStep, FanoutLoop, FanoutPop
  <1> QED BY <1>2, <1>3 DEF FanoutInv

\* The strategy thread feeds the tick to its symbol, and makes an order of it.
LEMMA StepStrategy ==
  ASSUME FanoutInv, StrategyInv, [Next]_vars
  PROVE  StrategyInv'
  <1>1. CASE UNCHANGED strategy
    BY <1>1 DEF StrategyInv, strategy, Deciding
  <1>2. CASE /\ UNCHANGED <<fed, sent>>
             /\ Deciding' => Deciding /\ order' = order
    BY <1>2 DEF StrategyInv
  <1>3. CASE /\ market_queue_display # <<>>
             /\ Strategy!Update(Head(market_queue_display).symbol,
                                Head(market_queue_display).price)
             /\ UNCHANGED sent
             /\ \/ ~Deciding'
                \/ \E side \in Engine!Side :
                      order' = Strategy!MakeMarketOrder(
                                   Head(market_queue_display).symbol, side,
                                   Head(market_queue_display).price)
    <2> DEFINE s == Head(market_queue_display).symbol
               price == Head(market_queue_display).price
    <2>1. s \in Symbol /\ price \in Nat
      BY <1>3, HeadIsTick
    <2>2. fed' = [fed EXCEPT ![s] = Append(fed[s], price)]
      BY <1>3 DEF Strategy!Update
    <2>3. \A side \in Engine!Side :
             Strategy!MakeMarketOrder(s, side, price) \in Strategy!Order
      BY <2>1, PipelineAssumption
         DEF Strategy!MakeMarketOrder, Strategy!Order, Engine!Side, Strategy!Side
    <2>4. Deciding' => order' \in Strategy!Order
      BY <1>3, <2>3
    <2> HIDE DEF s, price
    <2>5. Append(fed[s], price) \in Seq(Nat)
      BY <2>1, AppendProperties DEF StrategyInv
    <2>6. fed' \in [Symbol -> Seq(Nat)]
      BY <2>1, <2>2, <2>5 DEF StrategyInv
    <2> QED BY <1>3, <2>4, <2>6 DEF StrategyInv
  <1>4. CASE /\ strategy_pc = "push" /\ ~Deciding' /\ UNCHANGED fed
             /\ sent' = [sent EXCEPT ![order.symbol] = Append(@, order.side)]
    <2>1. order.symbol \in Symbol /\ order.side \in Engine!Side
      BY <1>4 DEF StrategyInv, Deciding, Strategy!Order, Strategy!Side, Engine!Side
    <2>2. Append(sent[order.symbol], order.side) \in Seq(Engine!Side)
      BY <2>1, AppendProperties DEF StrategyInv
    <2>3. sent' \in [Symbol -> Seq(Engine!Side)]
      BY <1>4, <2>1, <2>2 DEF StrategyInv
    <2> QED BY <1>4, <2>3 DEF StrategyInv
  <1> QED BY <1>1, <1>2, <1>3, <1>4, Writers, StrategyMoves

\* Elements of the sequences of all symbols
Total(f) == SumFunction([s \in Symbol |-> Len(f[s])])

LEMMA TotalNat ==
  ASSUME NEW S, NEW f \in [Symbol -> Seq(S)]
  PROVE  Total(f) \in Nat
  <1> DEFINE len == [s \in Symbol |-> Len(f[s])]
             zero == [s \in Symbol |-> 0]
  <1>1. Total(f) = SumFunctionOnSet(len, Symbol)
    BY DEF Total, SumFunction
  <1>2. \A s \in Symbol : len[s] \in Nat /\ zero[s] = 0
    BY LenProperties
  <1> HIDE DEF len, zero
  <1>3. SumFunctionOnSet(len, Symbol) \in Int
    BY <1>2, SymbolFinite, SumInt
  <1>4. \A s \in Symbol : zero[s] \in Int /\ len[s] \in Int /\ zero[s] <= len[s]
    BY <1>2
  <1>5. SumFunctionOnSet(zero, Symbol) <= SumFunctionOnSet(len, Symbol)
    BY <1>4, SymbolFinite, SumMonotone
  <1>6. SumFunctionOnSet(zero, Symbol) = 0
    BY <1>2, SymbolFinite, SumZero
  <1> QED BY <1>1, <1>3, <1>5, <1>6

\* One element more for one of the symbols is one element more.
LEMMA TotalGrows ==
  ASSUME NEW f, \A t \in Symbol : Len(f[t]) \in Nat, NEW s \in Symbol,
         NEW g, Len(g[s]) = Len(f[s]) + 1, \A t \in Symbol \ {s} : g[t] = f[t]
  PROVE  Total(g) = Total(f) + 1
  <1> DEFINE old == [t \in Symbol |-> Len(f[t])]
             new == [t \in Symbol |-> Len(g[t])]
  <1>1. /\ Total(f) = SumFunctionOnSet(old, Symbol)
        /\ Total(g) = SumFunctionOnSet(new, Symbol)
    BY DEF Total, SumFunction
  <1>2. /\ \A t \in Symbol : old[t] \in Int
        /\ new[s] = old[s] + 1
        /\ \A t \in Symbol \ {s} : new[t] = old[t]
    OBVIOUS
  <1> HIDE DEF old, new
  <1>3. \A t \in Symbol : new[t] \in Int
    BY <1>2
  <1>4. /\ SumFunctionOnSet(old, Symbol) = old[s] + SumFunctionOnSet(old, Symbol \ {s})
        /\ SumFunctionOnSet(new, Symbol) = new[s] + SumFunctionOnSet(new, Symbol \ {s})
    BY <1>2, <1>3, SymbolFinite, SumTakeOut
  <1>5. IsFiniteSet(Symbol \ {s})
    BY SymbolFinite, FS_RemoveElement
  <1>6. SumFunctionOnSet(new, Symbol \ {s}) = SumFunctionOnSet(old, Symbol \ {s})
    BY <1>2, <1>5, SumSame
  <1>7. SumFunctionOnSet(old, Symbol \ {s}) \in Int
    BY <1>2, <1>5, SumInt
  <1>8. SumFunctionOnSet(new, Symbol) = SumFunctionOnSet(old, Symbol) + 1
    BY <1>2, <1>4, <1>6, <1>7
  <1> QED BY <1>1, <1>8

\* With nothing for any symbol there is nothing.
LEMMA TotalNothing == Total([s \in Symbol |-> <<>>]) = 0
  <1> DEFINE len == [s \in Symbol |-> Len([t \in Symbol |-> <<>>][s])]
  <1>1. Total([s \in Symbol |-> <<>>]) = SumFunctionOnSet(len, Symbol)
    BY DEF Total, SumFunction
  <1>2. \A s \in Symbol : len[s] = 0
    BY EmptySeq
  <1> HIDE DEF len
  <1> QED BY <1>1, <1>2, SymbolFinite, SumZero

\* The tick that was taken is fed to its symbol.
LEMMA UpdateFeeds ==
  ASSUME FanoutInv, StrategyInv, market_queue_display # <<>>,
         Strategy!Update(Head(market_queue_display).symbol,
                         Head(market_queue_display).price)
  PROVE  Total(fed)' = Total(fed) + 1
  <1> DEFINE s == Head(market_queue_display).symbol
             price == Head(market_queue_display).price
  <1>1. s \in Symbol /\ price \in Nat
    BY HeadIsTick
  <1>2. fed' = [fed EXCEPT ![s] = Append(fed[s], price)]
    BY DEF Strategy!Update
  <1>3. fed \in [Symbol -> Seq(Nat)]
    BY DEF StrategyInv
  <1> HIDE DEF s, price
  <1>4. /\ \A t \in Symbol : Len(fed[t]) \in Nat
        /\ Len(fed'[s]) = Len(fed[s]) + 1
        /\ \A t \in Symbol \ {s} : fed'[t] = fed[t]
    BY <1>1, <1>2, <1>3, AppendProperties, LenProperties
  <1> QED BY <1>1, <1>4, TotalGrows

\* Every tick that the fan-out took was fed to the indicators, is on its way to
\* the strategy, or is in the fan-out's hands.
TicksKept ==
    Total(fed) + Len(market_queue_display) + One(fanout_pc = "push") = popped

LEMMA StepTicks ==
  ASSUME FanoutInv, StrategyInv, TicksKept, [Next]_vars
  PROVE  TicksKept'
  <1>0. /\ Total(fed) \in Nat /\ Len(market_queue_display) \in Nat /\ popped \in Nat
        /\ Len(market_queue_display) = 0 <=> market_queue_display = <<>>
    BY TotalNat, LenProperties, EmptySeq DEF FanoutInv, StrategyInv
  <1>1. CASE FanoutStep
    <2>1. UNCHANGED fed
      BY <1>1 DEF FanoutStep, FanoutLoop, FanoutPop, FanoutPush, FanoutOnly, strategy
    <2>2. CASE FanoutLoop \/ FanoutPop
      BY <1>0, <2>1, <2>2 DEF FanoutLoop, FanoutPop, TicksKept, One
    <2>3. CASE FanoutPush
      <3>1. Len(market_queue_display') = Len(market_queue_display) + 1
        <4>1. market_queue_display \in Seq(Strategy!Tick)
          BY DEF FanoutInv
        <4>2. Len(Append(market_queue_display, pushed[popped]))
                = Len(market_queue_display) + 1
          BY <4>1
        <4> QED BY <2>3, <4>2 DEF FanoutPush
      <3> QED BY <1>0, <2>1, <2>3, <3>1 DEF FanoutPush, TicksKept, One
    <2> QED BY <1>1, <2>2, <2>3 DEF FanoutStep
  <1>2. CASE UNCHANGED <<fanout, fed, market_queue_display>>
    BY <1>2 DEF fanout, TicksKept
  <1>3. CASE StrategyStep
    <2>0. UNCHANGED fanout
      BY <1>3 DEF StrategyStep
    <2>1. CASE /\ market_queue_display # <<>>
               /\ Strategy!Update(Head(market_queue_display).symbol,
                                  Head(market_queue_display).price)
               /\ market_queue_display' = Tail(market_queue_display)
      <3>1. Total(fed)' = Total(fed) + 1
        BY <2>1, UpdateFeeds
      <3>2. Len(market_queue_display') = Len(market_queue_display) - 1
        BY <2>1, HeadIsTick
      <3> QED BY <1>0, <2>0, <3>1, <3>2 DEF fanout, TicksKept, One
    <2> QED BY <1>2, <1>3, <2>0, <2>1, StrategyMoves
  <1> QED BY <1>1, <1>2, <1>3, Writers DEF strategy

-----------------------------------------------------------------------------
(* The orders and the trades *)

\* What the engine is asked for, what of it may rest, and what is traded then.
Request ==
    {o \in Engine!Order : o.type = "LIMIT" =>
        o.price \in ClientPrice /\ o.quantity <= MaxQuantity}

Resting == {o \in Request : o.type = "LIMIT" /\ Engine!Remaining(o) > 0}

Deal ==
    {t \in Engine!Trade : t.price \in ClientPrice /\ t.quantity <= MaxQuantity}

EngineInv ==
    /\ order_counter \in Nat
    /\ order_queue \in Seq(Request)
    /\ arrived \in Seq(Request)
    /\ engine_pc = "match" => cur \in Request
    /\ book \in [Symbol -> [Engine!Side -> SUBSET Resting]]
    /\ \A s \in Symbol, side \in Engine!Side : \A o \in book[s][side] :
          o.symbol = s /\ o.side = side
    /\ trade_queue \in Seq(Deal)

\* The strategy's MARKET order and a client's LIMIT order are requests.
LEMMA NewRequest ==
  /\ \A s \in Symbol, side \in Engine!Side :
        NewOrder(s, "MARKET", side, 0, order_qty) \in Request
  /\ \A s \in Symbol, side \in Engine!Side, price \in ClientPrice,
        quantity \in ClientQuantity :
        NewOrder(s, "LIMIT", side, price, quantity) \in Request
  <1> USE DEF NewOrder
  <1>1. ASSUME NEW s \in Symbol, NEW side \in Engine!Side
        PROVE  NewOrder(s, "MARKET", side, 0, order_qty) \in Request
    <2> DEFINE o == NewOrder(s, "MARKET", side, 0, order_qty)
    <2>1. o.type = "MARKET" /\ o \in Engine!Order
      BY PipelineAssumption DEF Engine!Order, Engine!OrderType
    <2> QED BY <2>1 DEF Request
  <1>2. ASSUME NEW s \in Symbol, NEW side \in Engine!Side, NEW price \in ClientPrice,
               NEW quantity \in ClientQuantity
        PROVE  NewOrder(s, "LIMIT", side, price, quantity) \in Request
    <2> DEFINE o == NewOrder(s, "LIMIT", side, price, quantity)
    <2>1. /\ o \in Engine!Order
          /\ o.price \in ClientPrice /\ o.quantity <= MaxQuantity
      BY PipelineAssumption DEF Engine!Order, Engine!OrderType
    <2> QED BY <2>1 DEF Request
  <1> QED BY <1>1, <1>2

\* An order that gets its id, or a fill, stays a request of the same kind.
LEMMA RequestStays ==
  ASSUME NEW o \in Request, NEW n \in Nat
  PROVE  /\ [o EXCEPT !.id = n] \in Request
         /\ [o EXCEPT !.filled = @ + n] \in Request
         /\ [o EXCEPT !.filled = @ + n].type = o.type
         /\ [o EXCEPT !.filled = @ + n].symbol = o.symbol
         /\ [o EXCEPT !.filled = @ + n].side = o.side
         /\ Engine!Remaining([o EXCEPT !.filled = @ + n]) = Engine!Remaining(o) - n
         /\ [o EXCEPT !.id = n].type = o.type
         /\ Engine!Remaining(o) \in Int
         /\ o.symbol \in Symbol /\ o.side \in Engine!Side
         /\ Engine!Opposite(o.side) \in Engine!Side
  <1>1. /\ o \in Engine!Order
        /\ o.type = "LIMIT" => o.price \in ClientPrice /\ o.quantity <= MaxQuantity
    BY DEF Request
  <1>2. /\ [o EXCEPT !.id = n] \in Engine!Order
        /\ [o EXCEPT !.filled = @ + n] \in Engine!Order
        /\ o.filled \in Nat /\ o.quantity \in Int
    BY <1>1 DEF Engine!Order
  <1>3. /\ [o EXCEPT !.filled = @ + n].filled = o.filled + n
        /\ [o EXCEPT !.filled = @ + n].quantity = o.quantity
        /\ [o EXCEPT !.filled = @ + n].price = o.price
        /\ [o EXCEPT !.filled = @ + n].type = o.type
        /\ [o EXCEPT !.filled = @ + n].symbol = o.symbol
        /\ [o EXCEPT !.filled = @ + n].side = o.side
        /\ [o EXCEPT !.id = n].quantity = o.quantity
        /\ [o EXCEPT !.id = n].price = o.price
        /\ [o EXCEPT !.id = n].type = o.type
    BY <1>1 DEF Engine!Order
  <1>4. /\ o.symbol \in Symbol /\ o.side \in Engine!Side
        /\ Engine!Opposite(o.side) \in Engine!Side
    BY <1>1 DEF Engine!Order, Engine!Side, Engine!Opposite
  <1> DEFINE named == [o EXCEPT !.id = n]
             filled == [o EXCEPT !.filled = @ + n]
  <1>5. named \in Request /\ filled \in Request
    <2> HIDE DEF named, filled
    <2> QED BY <1>1, <1>2, <1>3 DEF Request, named, filled
  <1>6. /\ Engine!Remaining(filled) = Engine!Remaining(o) - n
        /\ Engine!Remaining(o) \in Int
    <2>1. filled.filled = o.filled + n /\ filled.quantity = o.quantity
      BY <1>3
    <2> HIDE DEF filled
    <2> QED BY <1>2, <2>1 DEF Engine!Remaining
  <1> QED BY <1>3, <1>4, <1>5, <1>6

\* What an iteration of the matching loop does: a resting order and the one at
\* hand trade what the lesser of them has left, twice over.
LEMMA FillMoves ==
  ASSUME EngineInv, Engine!Fill
  PROVE  \E maker \in Resting, quantity \in Nat \ {0}, trade \in Deal :
            /\ maker \in book[cur.symbol][Engine!Opposite(cur.side)]
            /\ quantity <= Engine!Remaining(cur)
            /\ quantity <= Engine!Remaining(maker)
            /\ quantity \in {Engine!Remaining(cur), Engine!Remaining(maker)}
            /\ trade_queue' = Append(Append(trade_queue, trade), trade)
            /\ cur' = [cur EXCEPT !.filled = @ + quantity]
            /\ book' = [book EXCEPT ![cur.symbol][Engine!Opposite(cur.side)] =
                   Engine!UpdateTop(@, maker, [maker EXCEPT !.filled = @ + quantity])]
  <1>1. engine_pc = "match" /\ cur \in Request
    BY DEF Engine!Fill, EngineInv
  <1>2. /\ cur.symbol \in Symbol /\ Engine!Opposite(cur.side) \in Engine!Side
        /\ Engine!Remaining(cur) \in Int
    BY <1>1, RequestStays
  <1>3. PICK maker \in Engine!Best :
           /\ Engine!Matching(maker)
           /\ LET quantity == Engine!Lesser(Engine!Remaining(cur), Engine!Remaining(maker))
                  trade == Engine!MakeTrade(cur, maker, quantity)
              IN /\ trade_queue' = Append(Append(trade_queue, trade), trade)
                 /\ cur' = [cur EXCEPT !.filled = @ + quantity]
                 /\ book' = [book EXCEPT ![cur.symbol][Engine!Opposite(cur.side)] =
                        Engine!UpdateTop(@, maker, [maker EXCEPT !.filled = @ + quantity])]
    BY DEF Engine!Fill
  <1> DEFINE quantity == Engine!Lesser(Engine!Remaining(cur), Engine!Remaining(maker))
             trade == Engine!MakeTrade(cur, maker, quantity)
  <1>4. maker \in book[cur.symbol][Engine!Opposite(cur.side)]
    BY DEF Engine!Best, Engine!Makers, Engine!Top
  <1>5. maker \in Resting
    BY <1>2, <1>4 DEF EngineInv
  <1>6. /\ maker \in Request /\ maker.type = "LIMIT"
        /\ Engine!Remaining(maker) > 0 /\ Engine!Remaining(maker) \in Int
    BY <1>5, RequestStays DEF Resting
  <1>7. Engine!Remaining(cur) > 0
    BY <1>3 DEF Engine!Matching
  <1>8. /\ quantity \in Nat \ {0}
        /\ quantity <= Engine!Remaining(cur)
        /\ quantity <= Engine!Remaining(maker)
        /\ quantity \in {Engine!Remaining(cur), Engine!Remaining(maker)}
    BY <1>2, <1>6, <1>7 DEF Engine!Lesser
  <1>9. trade \in Deal
    <2>1. /\ maker.price \in ClientPrice /\ maker.quantity <= MaxQuantity
          /\ maker.filled \in Nat /\ maker.quantity \in Int /\ MaxQuantity \in Nat
      BY <1>6, PipelineAssumption DEF Request, Engine!Order
    <2>2. quantity <= MaxQuantity
      BY <1>8, <2>1 DEF Engine!Remaining
    <2>3. cur.id \in Nat /\ maker.id \in Nat /\ maker.price \in Int
      BY <1>1, <1>6 DEF Request, Engine!Order
    <2> HIDE DEF quantity
    <2>4. /\ trade.price = maker.price /\ trade.quantity = quantity
          /\ trade \in Engine!Trade
      BY <1>2, <1>8, <2>3 DEF Engine!MakeTrade, Engine!Trade
    <2> QED BY <2>1, <2>2, <2>4 DEF Deal
  <1>10. /\ trade_queue' = Append(Append(trade_queue, trade), trade)
         /\ cur' = [cur EXCEPT !.filled = @ + quantity]
         /\ book' = [book EXCEPT ![cur.symbol][Engine!Opposite(cur.side)] =
                Engine!UpdateTop(@, maker, [maker EXCEPT !.filled = @ + quantity])]
    BY <1>3
  <1> HIDE DEF quantity, trade
  <1> QED BY <1>4, <1>5, <1>8, <1>9, <1>10

\* An order that is put into a queue of requests leaves it one.
LEMMA Enqueues ==
  ASSUME EngineInv, NEW o \in Request, Enqueue(o)
  PROVE  order_queue' \in Seq(Request)
  <1>1. Append(order_queue, o) \in Seq(Request)
    BY AppendProperties DEF EngineInv
  <1> QED BY <1>1 DEF Enqueue, EngineInv

\* Whoever else takes a step leaves the engine's state, and puts a request into
\* its queue at most.
LEMMA OthersEnqueue ==
  ASSUME EngineInv, StrategyInv, [Next]_vars, ~EngineStep
  PROVE  UNCHANGED engine /\ order_queue' \in Seq(Request)
  <1>1. UNCHANGED engine
    BY Writers
  <1>2. CASE UNCHANGED order_queue
    BY <1>1, <1>2 DEF EngineInv
  <1>3. CASE StrategyStep
    <2>1. CASE strategy_pc = "push"
               /\ Enqueue(NewOrder(order.symbol, "MARKET", order.side, 0, order_qty))
      <3>1. order.symbol \in Symbol /\ order.side \in Engine!Side
        BY <2>1 DEF StrategyInv, Deciding, Strategy!Order, Strategy!Side, Engine!Side
      <3> QED BY <1>1, <2>1, <3>1, NewRequest, Enqueues
    <2> QED BY <1>2, <1>3, <2>1, StrategyMoves
  <1>4. CASE Client
    BY <1>1, <1>4, NewRequest, Enqueues DEF Client, ClientOrder
  <1> QED BY <1>2, <1>3, <1>4, Writers

\* What rests or trades was asked for by clients.
LEMMA StepEngine ==
  ASSUME EngineInv, StrategyInv, [Next]_vars
  PROVE  EngineInv'
  <1>1. CASE ~EngineStep
    BY <1>1, OthersEnqueue DEF EngineInv, engine
  <1>2. CASE Engine!CheckShutdown \/ Engine!PopNothing
    BY <1>2 DEF Engine!CheckShutdown, Engine!PopNothing, Engine!engine, EngineInv
  <1>3. CASE Engine!TakeOrder
    <2>1. Head(order_queue) \in Request /\ Tail(order_queue) \in Seq(Request)
      BY <1>3, HeadTailProperties DEF Engine!TakeOrder, EngineInv
    <2>2. cur' \in Request
      BY <1>3, <2>1, RequestStays DEF Engine!TakeOrder, EngineInv
    <2>3. Append(arrived, Head(order_queue)) \in Seq(Request)
      BY <2>1, AppendProperties DEF EngineInv
    <2> QED BY <1>3, <2>1, <2>2, <2>3 DEF Engine!TakeOrder, EngineInv
  <1>4. CASE Engine!Fill
    <2>0. engine_pc = "match" /\ cur \in Request
      BY <1>4 DEF Engine!Fill, EngineInv
    <2>1. PICK maker \in Resting, quantity \in Nat \ {0}, trade \in Deal :
             /\ maker \in book[cur.symbol][Engine!Opposite(cur.side)]
             /\ quantity <= Engine!Remaining(cur)
             /\ quantity <= Engine!Remaining(maker)
             /\ trade_queue' = Append(Append(trade_queue, trade), trade)
             /\ cur' = [cur EXCEPT !.filled = @ + quantity]
             /\ book' = [book EXCEPT ![cur.symbol][Engine!Opposite(cur.side)] =
                    Engine!UpdateTop(@, maker, [maker EXCEPT !.filled = @ + quantity])]
      BY <1>4, FillMoves
    <2>2. UNCHANGED <<order_queue, order_counter, arrived, engine_pc>>
      BY <1>4 DEF Engine!Fill
    <2>3. cur' \in Request
      BY <2>0, <2>1, RequestStays
    <2>4. trade_queue' \in Seq(Deal)
      <3>1. Append(trade_queue, trade) \in Seq(Deal)
        BY AppendProperties DEF EngineInv
      <3>2. Append(Append(trade_queue, trade), trade) \in Seq(Deal)
        BY <3>1, AppendProperties
      <3> QED BY <2>1, <3>2
    <2> DEFINE s == cur.symbol
               side == Engine!Opposite(cur.side)
               updated == [maker EXCEPT !.filled = @ + quantity]
               orders == Engine!UpdateTop(book[s][side], maker, updated)
    <2>5. s \in Symbol /\ side \in Engine!Side
      BY <2>0, RequestStays
    <2>6. orders \in SUBSET Resting /\ \A o \in orders : o.symbol = s /\ o.side = side
      <3>1. maker \in Request /\ maker.type = "LIMIT"
        BY DEF Resting
      <3>2. /\ updated \in Request /\ updated.type = "LIMIT"
            /\ updated.symbol = maker.symbol /\ updated.side = maker.side
        BY <3>1, RequestStays
      <3>3. maker.symbol = s /\ maker.side = side
        BY <2>1, <2>5 DEF EngineInv
      <3>4. \A o \in book[s][side] : o \in Resting /\ o.symbol = s /\ o.side = side
        BY <2>5 DEF EngineInv
      <3> HIDE DEF s, side, updated
      <3> QED BY <3>2, <3>3, <3>4 DEF Engine!UpdateTop, Resting
    <2>7. book' = [book EXCEPT ![s][side] = orders]
      BY <2>1
    <2> HIDE DEF s, side, updated, orders
    <2>8. /\ book' \in [Symbol -> [Engine!Side -> SUBSET Resting]]
          /\ \A t \in Symbol, other \in Engine!Side : \A o \in book'[t][other] :
                o.symbol = t /\ o.side = other
      BY <2>5, <2>6, <2>7 DEF EngineInv
    <2> QED BY <2>2, <2>3, <2>4, <2>8 DEF EngineInv
  <1>5. CASE Engine!Finish
    <2>0. engine_pc = "match" /\ cur \in Request
      BY <1>5 DEF Engine!Finish, EngineInv
    <2>1. /\ UNCHANGED <<order_queue, order_counter, arrived, trade_queue>>
          /\ engine_pc' # "match"
      BY <1>5 DEF Engine!Finish
    <2>2. CASE book' = book
      BY <2>1, <2>2 DEF EngineInv
    <2>3. CASE /\ cur.type = "LIMIT" /\ Engine!Remaining(cur) > 0
               /\ book' = [book EXCEPT ![cur.symbol][cur.side] = @ \cup {cur}]
      <3>1. cur \in Resting /\ cur.symbol \in Symbol /\ cur.side \in Engine!Side
        BY <2>0, <2>3, RequestStays DEF Resting
      <3>2. /\ book' \in [Symbol -> [Engine!Side -> SUBSET Resting]]
            /\ \A t \in Symbol, other \in Engine!Side : \A o \in book'[t][other] :
                  o.symbol = t /\ o.side = other
        BY <2>3, <3>1 DEF EngineInv
      <3> QED BY <2>1, <3>2 DEF EngineInv
    <2> QED BY <1>5, <2>2, <2>3 DEF Engine!Finish, Engine!AddOrder
  <1> QED
    BY <1>1, <1>2, <1>3, <1>4, <1>5 DEF EngineStep, Engine!EngineStep

-----------------------------------------------------------------------------
(* How many orders there are, and how many trades *)

\* Every order was made of a tick that the strategy was fed, or by a client.
OrdersBounded ==
    /\ clients \in 0..MaxClient
    /\ Len(arrived) + Len(order_queue) + One(Deciding) <= Total(fed) + clients

\* A push makes the queue one longer, or is dropped.
LEMMA EnqueueLength ==
  ASSUME EngineInv, NEW o \in Request, Enqueue(o)
  PROVE  Len(order_queue') <= Len(order_queue) + 1 /\ Len(order_queue') \in Nat
  <1>1. /\ Len(Append(order_queue, o)) = Len(order_queue) + 1
        /\ Len(order_queue) \in Nat
    BY AppendProperties, LenProperties DEF EngineInv
  <1> QED BY <1>1 DEF Enqueue

LEMMA StepOrders ==
  ASSUME FanoutInv, StrategyInv, EngineInv, OrdersBounded, [Next]_vars
  PROVE  OrdersBounded'
  <1>0. /\ Len(arrived) \in Nat /\ Len(order_queue) \in Nat /\ Total(fed) \in Nat
        /\ MaxClient \in Nat /\ clients \in Nat
    BY TotalNat, LenProperties, PipelineAssumption
       DEF StrategyInv, EngineInv, OrdersBounded
  <1>1. CASE StrategyStep
    <2>0. UNCHANGED <<engine, clients>>
      BY <1>1 DEF StrategyStep
    <2>1. CASE /\ UNCHANGED <<fed, sent, market_queue_display, order_queue>>
               /\ Deciding' => Deciding
      BY <1>0, <2>0, <2>1 DEF OrdersBounded, engine, One
    <2>2. CASE /\ strategy_pc = "pop" /\ market_queue_display # <<>>
               /\ Strategy!Update(Head(market_queue_display).symbol,
                                  Head(market_queue_display).price)
               /\ UNCHANGED order_queue
      <3>1. Total(fed)' = Total(fed) + 1
        BY <2>2, UpdateFeeds
      <3>2. ~Deciding
        BY <2>2 DEF Deciding
      <3> QED BY <1>0, <2>0, <2>2, <3>1, <3>2 DEF OrdersBounded, engine, One
    <2>3. CASE /\ strategy_pc = "push" /\ ~Deciding' /\ UNCHANGED fed
               /\ Enqueue(NewOrder(order.symbol, "MARKET", order.side, 0, order_qty))
      <3>1. order.symbol \in Symbol /\ order.side \in Engine!Side /\ Deciding
        BY <2>3 DEF StrategyInv, Deciding, Strategy!Order, Strategy!Side, Engine!Side
      <3>2. Len(order_queue') <= Len(order_queue) + 1 /\ Len(order_queue') \in Nat
        BY <2>3, <3>1, NewRequest, EnqueueLength
      <3> QED BY <1>0, <2>0, <2>3, <3>1, <3>2 DEF OrdersBounded, engine, One
    <2> QED BY <1>1, <2>1, <2>2, <2>3, StrategyMoves
  <1>2. CASE Client
    <2>1. PICK s \in Symbol, side \in Engine!Side, price \in ClientPrice,
               quantity \in ClientQuantity : ClientOrder(s, side, price, quantity)
      BY <1>2 DEF Client
    <2>2. Len(order_queue') <= Len(order_queue) + 1 /\ Len(order_queue') \in Nat
      BY <2>1, NewRequest, EnqueueLength DEF ClientOrder
    <2>3. clients' = clients + 1 /\ clients < MaxClient
          /\ UNCHANGED <<engine, strategy>>
      BY <2>1 DEF ClientOrder
    <2> QED BY <1>0, <2>2, <2>3 DEF OrdersBounded, engine, strategy, One, Deciding
  <1>3. CASE EngineStep
    <2>0. UNCHANGED <<strategy, clients>>
      BY <1>3 DEF EngineStep
    <2>1. CASE Engine!TakeOrder
      <3>1. /\ Head(order_queue) \in Request
            /\ Len(Tail(order_queue)) = Len(order_queue) - 1
        BY <2>1, HeadTailProperties DEF Engine!TakeOrder, EngineInv
      <3>2. Len(Append(arrived, Head(order_queue))) = Len(arrived) + 1
        BY <3>1, AppendProperties DEF EngineInv
      <3>3. Len(arrived') = Len(arrived) + 1 /\ Len(order_queue') = Len(order_queue) - 1
        BY <2>1, <3>1, <3>2 DEF Engine!TakeOrder
      <3> QED BY <1>0, <2>0, <3>3 DEF OrdersBounded, strategy, One, Deciding
    <2>2. CASE UNCHANGED <<arrived, order_queue>>
      BY <2>0, <2>2 DEF OrdersBounded, strategy, One, Deciding
    <2> QED
      BY <1>3, <2>1, <2>2 DEF EngineStep, Engine!EngineStep, Engine!CheckShutdown,
         Engine!PopNothing, Engine!Fill, Engine!Finish, Engine!engine
  <1>4. CASE UNCHANGED <<clients, order_queue, engine, strategy>>
    BY <1>4 DEF OrdersBounded, engine, strategy, One, Deciding
  <1> QED BY <1>1, <1>2, <1>3, <1>4, Writers

\* Orders that rest, on whatever side of whatever book
Resters == {o \in Resting : o \in book[o.symbol][o.side]}

\* Each trade of the engine is there twice, one after the other.
TradesPaired ==
    /\ Len(trade_queue) % 2 = 0
    /\ \A i \in 1..Len(trade_queue) :
          i % 2 = 1 => i < Len(trade_queue) /\ trade_queue[i + 1] = trade_queue[i]

\* A trade uses up an order: the one at hand, or the one that rested.
TradesBounded ==
    /\ IsFiniteSet(Resters)
    /\ Len(trade_queue) + 2 * Cardinality(Resters)
         + 2 * One(engine_pc = "match" /\ Engine!Remaining(cur) > 0)
       <= 2 * Len(arrived)

LEMMA TwiceAppended ==
  ASSUME NEW S, NEW q \in Seq(S), NEW x \in S
  PROVE  /\ Len(Append(Append(q, x), x)) = Len(q) + 2
         /\ \A i \in 1..Len(q) : Append(Append(q, x), x)[i] = q[i]
         /\ Append(Append(q, x), x)[Len(q) + 1] = x
         /\ Append(Append(q, x), x)[Len(q) + 2] = x
         /\ Len(q) \in Nat
  <1>1. /\ Append(q, x) \in Seq(S) /\ Len(Append(q, x)) = Len(q) + 1
        /\ \A i \in 1..Len(q) : Append(q, x)[i] = q[i]
        /\ Append(q, x)[Len(q) + 1] = x /\ Len(q) \in Nat
    BY AppendProperties, LenProperties
  <1>2. /\ Len(Append(Append(q, x), x)) = Len(Append(q, x)) + 1
        /\ \A i \in 1..Len(Append(q, x)) : Append(Append(q, x), x)[i] = Append(q, x)[i]
        /\ Append(Append(q, x), x)[Len(Append(q, x)) + 1] = x
    BY <1>1, AppendProperties
  <1>3. \A i \in 1..Len(q) : Append(Append(q, x), x)[i] = q[i]
    BY <1>1, <1>2
  <1>4. Append(Append(q, x), x)[Len(q) + 1] = x
    BY <1>1, <1>2
  <1> QED BY <1>1, <1>2, <1>3, <1>4

LEMMA StepPaired ==
  ASSUME EngineInv, TradesPaired, [Next]_vars
  PROVE  TradesPaired'
  <1>1. CASE UNCHANGED trade_queue
    BY <1>1 DEF TradesPaired
  <1>2. CASE Engine!Fill
    <2>1. PICK trade \in Deal : trade_queue' = Append(Append(trade_queue, trade), trade)
      BY <1>2, FillMoves
    <2>2. /\ Len(trade_queue') = Len(trade_queue) + 2
          /\ \A i \in 1..Len(trade_queue) : trade_queue'[i] = trade_queue[i]
          /\ trade_queue'[Len(trade_queue) + 1] = trade
          /\ trade_queue'[Len(trade_queue) + 2] = trade
          /\ Len(trade_queue) \in Nat
      BY <2>1, TwiceAppended DEF EngineInv
    <2>3. ASSUME NEW i \in 1..Len(trade_queue'), i % 2 = 1
          PROVE  i < Len(trade_queue') /\ trade_queue'[i + 1] = trade_queue'[i]
      <3>1. CASE i <= Len(trade_queue)
        <4>1. i \in 1..Len(trade_queue) /\ i + 1 \in 1..Len(trade_queue)
          BY <2>2, <2>3, <3>1 DEF TradesPaired
        <4>2. trade_queue[i + 1] = trade_queue[i]
          BY <2>3, <4>1 DEF TradesPaired
        <4> QED BY <2>2, <4>1, <4>2
      <3>2. CASE i = Len(trade_queue) + 1
        BY <2>2, <3>2
      <3>3. CASE i = Len(trade_queue) + 2
        BY <2>2, <2>3, <3>3 DEF TradesPaired
      <3> QED BY <2>2, <3>1, <3>2, <3>3
    <2>4. Len(trade_queue') % 2 = 0
      BY <2>2 DEF TradesPaired
    <2> QED BY <2>3, <2>4 DEF TradesPaired
  <1> QED
    BY <1>1, <1>2, Writers DEF EngineStep, Engine!EngineStep, Engine!CheckShutdown,
       Engine!PopNothing, Engine!TakeOrder, Engine!Finish, Engine!engine, engine

\* With one element more, a finite set has one element more at most.
LEMMA OneMore ==
  ASSUME NEW S, IsFiniteSet(S), NEW x
  PROVE  /\ IsFiniteSet(S \cup {x})
         /\ Cardinality(S \cup {x}) \in Nat
         /\ Cardinality(S \cup {x}) <= Cardinality(S) + 1
  <1>1. Cardinality(S) \in Nat
    BY FS_CardinalityType
  <1>2. /\ IsFiniteSet(S \cup {x})
        /\ Cardinality(S \cup {x}) = IF x \in S THEN Cardinality(S) ELSE Cardinality(S) + 1
    BY FS_AddElement, Zenon
  <1> DEFINE more == Cardinality(S \cup {x})
             before == Cardinality(S)
  <1>3. more = before \/ more = before + 1
    BY <1>2
  <1> HIDE DEF more, before
  <1>4. more \in Nat /\ more <= before + 1
    BY <1>1, <1>3 DEF before
  <1> QED BY <1>2, <1>4 DEF more, before

LEMMA StepBounded ==
  ASSUME EngineInv, TradesBounded, [Next]_vars
  PROVE  TradesBounded'
  <1>0. /\ Len(trade_queue) \in Nat /\ Len(arrived) \in Nat
        /\ Cardinality(Resters) \in Nat
    BY LenProperties, FS_CardinalityType DEF EngineInv, TradesBounded
  <1>1. CASE UNCHANGED engine
    BY <1>1 DEF TradesBounded, Resters, engine
  <1>2. CASE Engine!CheckShutdown \/ Engine!PopNothing
    <2>1. /\ UNCHANGED <<book, trade_queue, arrived>>
          /\ engine_pc' # "match"
      BY <1>2 DEF Engine!CheckShutdown, Engine!PopNothing, Engine!engine
    <2> QED BY <1>0, <2>1 DEF TradesBounded, Resters, One
  <1>3. CASE Engine!TakeOrder
    <2>1. Head(order_queue) \in Request
      BY <1>3, HeadTailProperties DEF Engine!TakeOrder, EngineInv
    <2>2. Len(Append(arrived, Head(order_queue))) = Len(arrived) + 1
      BY <2>1, AppendProperties DEF EngineInv
    <2>3. /\ UNCHANGED <<book, trade_queue>> /\ engine_pc = "pop"
          /\ Len(arrived') = Len(arrived) + 1
      BY <1>3, <2>2 DEF Engine!TakeOrder
    <2> QED BY <1>0, <2>3 DEF TradesBounded, Resters, One
  <1>4. CASE Engine!Fill
    <2>0. /\ engine_pc = "match" /\ cur \in Request
          /\ UNCHANGED <<arrived, engine_pc>>
      BY <1>4 DEF Engine!Fill, EngineInv
    <2>1. PICK maker \in Resting, quantity \in Nat \ {0}, trade \in Deal :
             /\ maker \in book[cur.symbol][Engine!Opposite(cur.side)]
             /\ quantity <= Engine!Remaining(cur)
             /\ quantity \in {Engine!Remaining(cur), Engine!Remaining(maker)}
             /\ trade_queue' = Append(Append(trade_queue, trade), trade)
             /\ cur' = [cur EXCEPT !.filled = @ + quantity]
             /\ book' = [book EXCEPT ![cur.symbol][Engine!Opposite(cur.side)] =
                    Engine!UpdateTop(@, maker, [maker EXCEPT !.filled = @ + quantity])]
      BY <1>4, FillMoves
    <2> DEFINE s == cur.symbol
               side == Engine!Opposite(cur.side)
               updated == [maker EXCEPT !.filled = @ + quantity]
               rest == {o \in {updated} : Engine!Remaining(o) > 0}
               others == Resters \ {maker}
    <2>2. s \in Symbol /\ side \in Engine!Side
      BY <2>0, RequestStays
    <2>3. /\ maker \in Request
          /\ Engine!Remaining(maker) \in Int /\ Engine!Remaining(cur) \in Int
          /\ Engine!Remaining(updated) = Engine!Remaining(maker) - quantity
      BY <2>0, RequestStays DEF Resting
    <2>4. Engine!Remaining(cur') = Engine!Remaining(cur) - quantity
      <3>1. Engine!Remaining([cur EXCEPT !.filled = @ + quantity])
              = Engine!Remaining(cur) - quantity
        BY <2>0, RequestStays
      <3> QED BY <2>1, <3>1
    <2>5. maker \in Resters
      BY <2>1, <2>2 DEF EngineInv, Resters
    <2>6. Len(trade_queue') = Len(trade_queue) + 2
      BY <2>1, TwiceAppended DEF EngineInv
    <2>7. book' = [book EXCEPT ![s][side] = (book[s][side] \ {maker}) \cup rest]
      BY <2>1 DEF Engine!UpdateTop
    <2>8. /\ IsFiniteSet(others)
          /\ Cardinality(others) = Cardinality(Resters) - 1
      BY <2>5, FS_RemoveElement DEF TradesBounded
    <2>9. /\ IsFiniteSet(others \cup rest)
          /\ Cardinality(others \cup rest) <= Cardinality(Resters) - 1
                                               + One(Engine!Remaining(updated) > 0)
      <3>1. CASE Engine!Remaining(updated) > 0
        <4>1. others \cup rest = others \cup {updated}
          BY <3>1
        <4> HIDE DEF others, rest, updated
        <4>2. /\ IsFiniteSet(others \cup {updated})
              /\ Cardinality(others \cup {updated}) <= Cardinality(others) + 1
          BY <2>8, OneMore
        <4> QED BY <1>0, <2>8, <3>1, <4>1, <4>2 DEF One
      <3>2. CASE ~(Engine!Remaining(updated) > 0)
        <4>1. others \cup rest = others
          BY <3>2
        <4> HIDE DEF others, rest, updated
        <4>2. /\ IsFiniteSet(others \cup rest)
              /\ Cardinality(others \cup rest) = Cardinality(others)
          BY <2>8, <4>1, Zenon
        <4> QED BY <1>0, <2>8, <3>2, <4>2 DEF One
      <3> QED BY <3>1, <3>2
    <2>10. Resters' \subseteq others \cup rest
      <3> SUFFICES ASSUME NEW o \in Resting, o \in book'[o.symbol][o.side]
                   PROVE  o \in others \cup rest
        BY DEF Resters
      <3>1. o.symbol \in Symbol /\ o.side \in Engine!Side
        BY RequestStays DEF Resting
      <3> HIDE DEF s, side, rest
      <3>2. CASE o.symbol = s /\ o.side = side
        <4>1. o \in (book[s][side] \ {maker}) \cup rest
          BY <2>2, <2>7, <3>2 DEF EngineInv
        <4> QED BY <3>2, <4>1 DEF Resters
      <3>3. CASE ~(o.symbol = s /\ o.side = side)
        <4>1. book'[o.symbol][o.side] = book[o.symbol][o.side]
          BY <2>2, <2>7, <3>1, <3>3 DEF EngineInv
        <4>2. o # maker
          BY <2>1, <2>2, <3>3 DEF EngineInv, s, side
        <4> QED BY <4>1, <4>2 DEF Resters
      <3> QED BY <3>2, <3>3
    <2>11. /\ IsFiniteSet(Resters')
           /\ Cardinality(Resters') \in Nat
           /\ Cardinality(Resters') <= Cardinality(Resters) - 1
                                         + One(Engine!Remaining(updated) > 0)
      <3> HIDE DEF others, rest, updated
      <3>1. /\ IsFiniteSet(Resters')
            /\ Cardinality(Resters') <= Cardinality(others \cup rest)
        BY <2>9, <2>10, FS_Subset
      <3>2. Cardinality(Resters') \in Nat /\ Cardinality(others \cup rest) \in Nat
        BY <2>9, <3>1, FS_CardinalityType
      <3> QED BY <1>0, <2>9, <3>1, <3>2 DEF One
    <2>12. One(Engine!Remaining(updated) > 0) + One(Engine!Remaining(cur') > 0) <= 1
      BY <2>1, <2>3, <2>4 DEF One
    <2>13. Engine!Remaining(cur) > 0
      BY <2>1, <2>3
    <2> HIDE DEF updated
    <2>14. Len(trade_queue') + 2 * Cardinality(Resters')
             + 2 * One(engine_pc' = "match" /\ Engine!Remaining(cur') > 0)
           <= 2 * Len(arrived')
      BY <1>0, <2>0, <2>6, <2>11, <2>12, <2>13 DEF TradesBounded, One
    <2> QED BY <2>11, <2>14 DEF TradesBounded
  <1>5. CASE Engine!Finish
    <2>0. /\ engine_pc = "match" /\ cur \in Request /\ engine_pc' # "match"
          /\ UNCHANGED <<arrived, trade_queue>>
      BY <1>5 DEF Engine!Finish, EngineInv
    <2>1. CASE book' = book
      BY <1>0, <2>0, <2>1 DEF TradesBounded, Resters, One
    <2>2. CASE /\ Engine!Remaining(cur) > 0
               /\ book' = [book EXCEPT ![cur.symbol][cur.side] = @ \cup {cur}]
      <3>1. cur.symbol \in Symbol /\ cur.side \in Engine!Side
        BY <2>0, RequestStays
      <3>2. Resters' \subseteq Resters \cup {cur}
        <4> SUFFICES ASSUME NEW o \in Resting, o \in book'[o.symbol][o.side]
                     PROVE  o \in Resters \cup {cur}
          BY DEF Resters
        <4>1. o.symbol \in Symbol /\ o.side \in Engine!Side
          BY RequestStays DEF Resting
        <4>2. o \in book[o.symbol][o.side] \cup {cur}
          BY <2>2, <3>1, <4>1 DEF EngineInv
        <4> QED BY <4>2 DEF Resters
      <3>3. /\ IsFiniteSet(Resters \cup {cur})
            /\ Cardinality(Resters \cup {cur}) <= Cardinality(Resters) + 1
        BY OneMore DEF TradesBounded
      <3>4. /\ IsFiniteSet(Resters')
            /\ Cardinality(Resters') <= Cardinality(Resters \cup {cur})
        BY <3>2, <3>3, FS_Subset
      <3>5. Cardinality(Resters') \in Nat /\ Cardinality(Resters \cup {cur}) \in Nat
        BY <3>3, <3>4, FS_CardinalityType
      <3>6. Len(trade_queue') + 2 * Cardinality(Resters') <= 2 * Len(arrived')
        BY <1>0, <2>0, <2>2, <3>3, <3>4, <3>5 DEF TradesBounded, One
      <3> QED BY <1>0, <2>0, <3>4, <3>5, <3>6 DEF TradesBounded, One
    <2> QED BY <1>5, <2>1, <2>2 DEF Engine!Finish, Engine!AddOrder
  <1> QED
    BY <1>1, <1>2, <1>3, <1>4, <1>5, Writers DEF EngineStep, Engine!EngineStep

-----------------------------------------------------------------------------
(* The PnL thread, and all of it together *)

PnlInv ==
    /\ received \in Nat /\ received <= Len(trade_queue)
    /\ pnl_pc \in {"add", "clamp"} => received # 0

\* The trades that the PnL thread received stay where they are.
LEMMA TradesStay ==
  ASSUME EngineInv, PnlInv, [Next]_vars
  PROVE  /\ Len(trade_queue) \in Nat /\ Len(trade_queue') \in Nat
         /\ Len(trade_queue) <= Len(trade_queue')
         /\ \A i \in 1..Len(trade_queue) : trade_queue'[i] = trade_queue[i]
  <1>0. Len(trade_queue) \in Nat
    BY LenProperties DEF EngineInv
  <1>1. CASE UNCHANGED trade_queue
    BY <1>0, <1>1
  <1>2. CASE Engine!Fill
    <2>1. PICK trade \in Deal : trade_queue' = Append(Append(trade_queue, trade), trade)
      BY <1>2, FillMoves
    <2>2. /\ Len(trade_queue') = Len(trade_queue) + 2
          /\ \A i \in 1..Len(trade_queue) : trade_queue'[i] = trade_queue[i]
      BY <2>1, TwiceAppended DEF EngineInv
    <2> QED BY <1>0, <2>2
  <1> QED
    BY <1>1, <1>2, Writers DEF EngineStep, Engine!EngineStep, Engine!CheckShutdown,
       Engine!PopNothing, Engine!TakeOrder, Engine!Finish, Engine!engine, engine

LEMMA StepPnl ==
  ASSUME EngineInv, PnlInv, [Next]_vars
  PROVE  PnlInv'
  <1>0. /\ Len(trade_queue) \in Nat /\ Len(trade_queue') \in Nat
        /\ Len(trade_queue) <= Len(trade_queue')
    BY TradesStay
  <1>1. CASE UNCHANGED <<pnl_pc, received, exposure>>
    BY <1>0, <1>1 DEF PnlInv
  <1>2. CASE PnlLoop
    BY <1>0, <1>2 DEF PnlInv, PnlLoop
  <1>3. CASE PnlPop
    BY <1>0, <1>3 DEF PnlInv, PnlPop
  <1>4. CASE PnlAdd
    BY <1>0, <1>4 DEF PnlInv, PnlAdd
  <1>5. CASE PnlClamp
    BY <1>0, <1>5 DEF PnlInv, PnlClamp
  <1> QED BY <1>1, <1>2, <1>3, <1>4, <1>5, Writers DEF PnlStep

\* What is true of the pipeline whatever the threads' order: the ticks are kept,
\* each order comes of a tick or of a client, each trade of an order, and the PnL
\* thread goes through the trades.
Inv ==
    /\ DataInv /\ FanoutInv /\ StrategyInv /\ TicksKept
    /\ EngineInv /\ OrdersBounded /\ TradesPaired /\ TradesBounded
    /\ PnlInv

LEMMA InitInv == Init => Inv
  <1> SUFFICES ASSUME Init PROVE Inv
    OBVIOUS
  <1>0. MaxTicks \in Nat /\ MaxClient \in Nat
    BY PipelineAssumption
  <1> USE DEF Init, Strategy!StrategyInit, Strategy!Init, Engine!Init, Fetcher!Init,
              Engine!engine, Engine!placers
  <1>1. DataInv /\ FanoutInv
    BY <1>0, EmptySeq DEF DataInv, FanoutInv, Working, One
  <1>2. StrategyInv
    BY EmptySeq DEF StrategyInv, Deciding
  <1>3. EngineInv
    BY EmptySeq DEF EngineInv
  <1>4. Total(fed) = 0
    BY TotalNothing
  <1>5. TicksKept /\ OrdersBounded
    BY <1>0, <1>4, EmptySeq DEF TicksKept, OrdersBounded, One, Deciding
  <1>6. TradesPaired /\ PnlInv
    BY EmptySeq DEF TradesPaired, PnlInv
  <1>7. Resters = {}
    <2> SUFFICES ASSUME NEW o \in Resting, o \in book[o.symbol][o.side] PROVE FALSE
      BY DEF Resters
    <2>1. o.symbol \in Symbol /\ o.side \in Engine!Side
      BY RequestStays DEF Resting
    <2> QED BY <2>1
  <1>8. TradesBounded
    BY <1>7, EmptySeq, FS_EmptySet DEF TradesBounded, One
  <1> QED BY <1>1, <1>2, <1>3, <1>5, <1>6, <1>8 DEF Inv

LEMMA StepInv == Inv /\ [Next]_vars => Inv'
  BY Writers, StepData, StepFanout, StepStrategy, StepTicks, StepEngine, StepOrders,
     StepPaired, StepBounded, StepPnl DEF Inv

\* What holds in every state of the pipeline, and what the theorems below rest on:
\* no thread's steps disturb what links the queues to their two ends.
THEOREM Invariance == Spec => []Inv
  BY InitInv, StepInv, PTL DEF Spec

-----------------------------------------------------------------------------
(* TradingStrategy is implemented *)

\* What the other threads do is not seen by the call of record_fill().
LEMMA FillStays ==
  ASSUME Inv, [Next]_vars, UNCHANGED <<pnl_pc, received>>
  PROVE  Fill' = Fill
  <1>1. CASE received = 0
    BY <1>1 DEF Fill, Inv, PnlInv
  <1>2. CASE received # 0
    <2>1. trade_queue'[received] = trade_queue[received]
      BY <1>2, TradesStay DEF Inv, PnlInv
    <2> QED BY <2>1 DEF Fill
  <1> QED BY <1>1, <1>2

\* The fan-out has a tick to push while the bounds of TradingStrategy allow one.
LEMMA FanoutPushes ==
  ASSUME Inv, FanoutPush
  PROVE  \E s \in Symbol, price \in Price :
            /\ Len(market_queue_display) < MaxTicks
            /\ Total(fed) + Len(market_queue_display) < MaxTicks
            /\ market_queue_display'
                  = Append(market_queue_display, [symbol |-> s, price |-> price])
  <1>1. /\ Total(fed) \in Nat /\ Len(market_queue_display) \in Nat
        /\ Len(pushed) \in Nat /\ MaxTicks \in Nat
    BY TotalNat, LenProperties, PipelineAssumption
       DEF Inv, DataInv, FanoutInv, StrategyInv
  <1>2. Total(fed) + Len(market_queue_display) < MaxTicks
    BY <1>1 DEF Inv, TicksKept, FanoutPush, FanoutInv, DataInv, One
  <1>3. pushed[popped] \in Strategy!Tick
    BY ElementOfSeq DEF Inv, FanoutPush, FanoutInv, DataInv
  <1>4. PICK s \in Symbol, price \in Price :
           pushed[popped] = [symbol |-> s, price |-> price]
    BY <1>3 DEF Strategy!Tick
  <1> QED BY <1>1, <1>2, <1>4 DEF FanoutPush

\* What a trade may cost
Notional == {price * quantity : price \in ClientPrice, quantity \in 1..MaxQuantity}

\* A trade that the PnL thread finds at an even place is a new one, and there are
\* not more of them than orders;
LEMMA PopBooks ==
  ASSUME Inv, PnlPop, received < Len(trade_queue), received % 2 = 0
  PROVE  \E s \in Symbol, notional \in Notional :
            /\ Fill = NoFill
            /\ (received + 1) \div 2 < MaxOrders
            /\ (received' + 1) \div 2 = (received + 1) \div 2 + 1
            /\ Fill' = [symbol |-> s, side |-> "BUY", notional |-> notional,
                        added |-> FALSE]
  <1>1. /\ received' = received + 1 /\ pnl_pc' = "add" /\ pnl_pc = "pop"
        /\ trade_queue' = trade_queue
    BY DEF PnlPop, PnlOnly, engine
  <1>2. received \in Nat /\ Len(trade_queue) \in Nat
    BY LenProperties DEF Inv, PnlInv, EngineInv
  <1>3. Fill = NoFill
    BY <1>1 DEF Fill
  <1>4. trade_queue[received + 1] \in Deal
    <2>1. received + 1 \in 1..Len(trade_queue)
      BY <1>2
    <2>2. trade_queue \in Seq(Deal)
      BY DEF Inv, EngineInv
    <2> QED BY <2>1, <2>2, ElementOfSeq
  <1> DEFINE trade == trade_queue[received + 1]
  <1>5. /\ trade.symbol \in Symbol
        /\ trade.price \in ClientPrice /\ trade.quantity \in 1..MaxQuantity
    BY <1>4, PipelineAssumption DEF Deal, Engine!Trade
  <1>6. (received' % 2) = 1
    BY <1>1, <1>2
  <1>7. Fill' = [symbol |-> trade.symbol, side |-> "BUY",
                 notional |-> trade.price * trade.quantity, added |-> FALSE]
    BY <1>1, <1>6 DEF Fill
  <1>8. Len(trade_queue) <= 2 * MaxOrders
    <2>1. /\ Cardinality(Resters) \in Nat /\ Len(arrived) \in Nat
          /\ Len(order_queue) \in Nat /\ Total(fed) \in Nat
          /\ Len(market_queue_display) \in Nat /\ Len(pushed) \in Nat
          /\ {MaxTicks, MaxClient, MaxOrders} \subseteq Nat
          /\ MaxTicks + MaxClient <= MaxOrders
      BY FS_CardinalityType, TotalNat, LenProperties, PipelineAssumption
         DEF Inv, DataInv, FanoutInv, StrategyInv, EngineInv, TradesBounded
    <2>2. Len(trade_queue) <= 2 * Len(arrived)
      BY <1>2, <2>1 DEF Inv, TradesBounded, One
    <2>3. Len(arrived) <= Total(fed) + clients /\ clients \in 0..MaxClient
      BY <2>1 DEF Inv, OrdersBounded, One
    <2>4. Total(fed) <= MaxTicks
      BY <2>1 DEF Inv, TicksKept, FanoutInv, DataInv, One
    <2> QED BY <1>2, <2>1, <2>2, <2>3, <2>4
  <1>9. received + 1 < Len(trade_queue)
    BY <1>2 DEF Inv, TradesPaired
  <1>10. /\ (received + 1) \div 2 < MaxOrders
         /\ (received' + 1) \div 2 = (received + 1) \div 2 + 1
    BY <1>1, <1>2, <1>8, <1>9, PipelineAssumption
  <1> DEFINE usd == trade.price * trade.quantity
  <1>11. usd \in Notional
    BY <1>5 DEF Notional
  <1>12. trade.symbol \in Symbol
    BY <1>5
  <1>13. Fill' = [symbol |-> trade.symbol, side |-> "BUY", notional |-> usd,
                  added |-> FALSE]
    BY <1>7
  <1> HIDE DEF trade, usd
  <1> QED BY <1>3, <1>10, <1>11, <1>12, <1>13

\* and one at an odd place is the one before, come again.
LEMMA PopRepeats ==
  ASSUME Inv, PnlPop, received < Len(trade_queue) => received % 2 = 1
  PROVE  Fill' = Fill /\ (received' + 1) \div 2 = (received + 1) \div 2
  <1>1. received \in Nat /\ Len(trade_queue) \in Nat /\ received <= Len(trade_queue)
    BY LenProperties DEF Inv, PnlInv, EngineInv
  <1>2. trade_queue' = trade_queue /\ pnl_pc = "pop"
    BY DEF PnlPop, PnlOnly, engine
  <1>3. CASE received < Len(trade_queue)
    <2>1. received' = received + 1 /\ pnl_pc' = "add"
      BY <1>3 DEF PnlPop
    <2>2. trade_queue[received + 1] = trade_queue[received]
      BY <1>1, <1>3 DEF Inv, TradesPaired
    <2>3. received' % 2 = 0 /\ received % 2 = 1
      BY <1>1, <1>3, <2>1
    <2>4. Fill' = Fill
      BY <1>2, <2>1, <2>2, <2>3 DEF Fill
    <2> QED BY <1>1, <2>1, <2>3, <2>4
  <1>4. CASE ~(received < Len(trade_queue))
    <2>1. received' = received /\ pnl_pc' = "loop"
      BY <1>4 DEF PnlPop
    <2> QED BY <1>2, <2>1 DEF Fill
  <1> QED BY <1>3, <1>4

\* The threads around the strategy do what TradingStrategy takes for granted of
\* them, for ever (main.cpp:97 and main.cpp:155-162): what is proved there holds
\* here.
THEOREM StrategyImplemented == Spec => ImplementsStrategy
  <1>1. Init => Strategy!StrategyInit
    <2> SUFFICES ASSUME Init PROVE Strategy!StrategyInit
      OBVIOUS
    <2>1. Fill = NoFill /\ (received + 1) \div 2 = 0
      BY DEF Init, Fill
    <2> QED BY <2>1 DEF Init, Strategy!StrategyInit
  <1>2. Inv /\ [Next]_vars => [Strategy!StrategyNext]_Strategy!strategyVars
    <2> SUFFICES ASSUME Inv, [Next]_vars
                 PROVE  [Strategy!StrategyNext]_Strategy!strategyVars
      OBVIOUS
    <2> USE DEF Strategy!strategyVars, Strategy!indicators, Strategy!vars,
                Strategy!strategy, Strategy!risk, strategy, pnl
    <2>1. CASE /\ UNCHANGED <<running, market_queue_display, strategy, low, pnl_pc,
                              received, exposure>>
      <3>1. Fill' = Fill
        BY <2>1, FillStays
      <3> QED BY <2>1, <3>1
    <2>2. CASE DataStep
      <3>1. UNCHANGED running
        BY <2>2 DEF DataStep, Fetcher!Step, Fetcher!CheckRunning, Fetcher!NextSymbol,
           Fetcher!Generate, Fetcher!FetchSucceeds, Fetcher!Try, Fetcher!FetchFails,
           Fetcher!Backoff, Fetcher!Sleep
      <3> QED BY <2>1, <2>2, <3>1 DEF DataStep
    <2>3. CASE Signal
      <3>1. Fill' = Fill
        BY <2>3, FillStays DEF Signal
      <3>2. Strategy!Signal
        BY <2>3, <3>1 DEF Signal, Fetcher!Signal, Strategy!Signal
      <3> QED BY <3>2 DEF Strategy!StrategyNext
    <2>4. CASE FanoutStep
      <3>0. UNCHANGED <<running, strategy, pnl>>
        BY <2>4 DEF FanoutStep, FanoutLoop, FanoutPop, FanoutPush, FanoutOnly
      <3>1. CASE UNCHANGED market_queue_display
        BY <2>1, <3>0, <3>1
      <3>2. CASE FanoutPush
        <4>1. PICK s \in Symbol, price \in Price :
                 /\ Len(market_queue_display) < MaxTicks
                 /\ Total(fed) + Len(market_queue_display) < MaxTicks
                 /\ market_queue_display'
                       = Append(market_queue_display, [symbol |-> s, price |-> price])
          BY <3>2, FanoutPushes
        <4>2. Fill' = Fill
          BY <3>0, FillStays
        <4>3. Strategy!SumFunction([t \in Symbol |-> Len(fed[t])]) = Total(fed)
          BY DEF Total, SumFunction, SumFunctionOnSet, FoldFunctionOnSet, MapThenFoldSet,
             Strategy!SumFunction, Strategy!SumFunctionOnSet,
             Strategy!FoldFunctionOnSet, Strategy!MapThenFoldSet
        <4>4. Strategy!PushTick(s, price)
          BY <3>0, <4>1, <4>2, <4>3 DEF Strategy!PushTick
        <4> QED BY <4>4 DEF Strategy!StrategyNext
      <3> QED BY <2>4, <3>1, <3>2 DEF FanoutStep, FanoutLoop, FanoutPop
    <2>5. CASE StrategyStep
      BY <2>5 DEF StrategyStep, Strategy!StrategyNext
    <2>6. CASE EngineStep
      BY <2>1, <2>6 DEF EngineStep
    <2>7. CASE PnlStep
      <3>0. UNCHANGED <<running, market_queue_display, strategy, trade_queue>>
        BY <2>7 DEF PnlStep, PnlLoop, PnlPop, PnlAdd, PnlClamp, PnlOnly, engine
      <3>1. CASE PnlLoop
        <4>1. Fill' = Fill
          BY <3>0, <3>1 DEF PnlLoop, Fill
        <4> QED BY <3>0, <3>1, <4>1 DEF PnlLoop
      <3>2. CASE PnlPop
        <4>0. UNCHANGED <<exposure, low>>
          BY <3>2 DEF PnlPop
        <4>1. CASE received < Len(trade_queue) /\ received % 2 = 0
          <5>1. PICK s \in Symbol, notional \in Notional :
                   /\ Fill = NoFill
                   /\ (received + 1) \div 2 < MaxOrders
                   /\ (received' + 1) \div 2 = (received + 1) \div 2 + 1
                   /\ Fill' = [symbol |-> s, side |-> "BUY", notional |-> notional,
                               added |-> FALSE]
            BY <3>2, <4>1, PopBooks
          <5>2. Strategy!BookTrade(s, notional)
            BY <3>0, <4>0, <5>1 DEF Strategy!BookTrade
          <5> QED BY <5>2 DEF Strategy!StrategyNext, Notional
        <4>2. CASE received < Len(trade_queue) => received % 2 # 0
          <5>1. received < Len(trade_queue) => received % 2 = 1
            BY <4>2 DEF Inv, PnlInv
          <5>2. Fill' = Fill /\ (received' + 1) \div 2 = (received + 1) \div 2
            BY <3>2, <5>1, PopRepeats
          <5> QED BY <3>0, <4>0, <5>2
        <4> QED BY <4>1, <4>2
      <3>3. CASE PnlAdd
        BY <3>3 DEF PnlAdd, Strategy!StrategyNext
      <3>4. CASE PnlClamp
        BY <3>4 DEF PnlClamp, Strategy!StrategyNext
      <3> QED BY <2>7, <3>1, <3>2, <3>3, <3>4 DEF PnlStep
    <2>8. CASE Client
      BY <2>1, <2>8 DEF Client, ClientOrder
    <2>9. CASE MainStep
      BY <2>1, <2>9 DEF MainStep, ShutdownOrders, StopEngine
    <2>10. CASE UNCHANGED vars
      BY <2>1, <2>10 DEF vars
    <2> QED
      BY <2>2, <2>3, <2>4, <2>5, <2>6, <2>7, <2>8, <2>9, <2>10 DEF Next, Client
  <1> QED
    BY <1>1, <1>2, Invariance, PTL DEF Spec, ImplementsStrategy, Strategy!StrategySpec

-----------------------------------------------------------------------------
(* What is proved of the strategy holds in the pipeline *)

\* TradingStrategy as in Pipeline, with the theorems about it.
Proved == INSTANCE TradingStrategyProofs WITH
    pc <- strategy_pc, market_queue <- market_queue_display,
    fill <- Fill, fills <- (received + 1) \div 2,
    FillNotional <- {price * quantity : price \in ClientPrice,
                                        quantity \in 1..MaxQuantity},
    MaxUpdates <- MaxTicks, MaxQueue <- MaxTicks, MaxFills <- MaxOrders

\* The pipeline's constants are as the strategy needs them.
LEMMA ProvedAssumptions == Proved!IndicatorAssumption /\ Proved!StrategyAssumption
  <1>1. Proved!IndicatorAssumption
    BY PipelineAssumption, PipelineThreadsAssumption DEF Proved!IndicatorAssumption
  <1>2. {price * quantity : price \in ClientPrice, quantity \in 1..MaxQuantity}
          \subseteq Int
    BY PipelineAssumption
  <1>3. Proved!IsFiniteSet(Symbol)
    BY SymbolFinite DEF IsFiniteSet, Proved!IsFiniteSet
  <1>4. Proved!StrategyAssumption
    BY <1>2, <1>3, PipelineAssumption, PipelineThreadsAssumption
    DEF Proved!StrategyAssumption, Proved!Order, Proved!Fill, Proved!Side
  <1> QED BY <1>1, <1>4


\* The two instances say the same of an update and of a step.
LEMMA SameUpdate ==
  ASSUME NEW s, NEW price
  PROVE  Strategy!Update(s, price) <=> Proved!Update(s, price)
  <1>1. ASSUME NEW st PROVE Strategy!ComputeSma(st, price) = Proved!ComputeSma(st, price)
    BY DEF Strategy!ComputeSma, Proved!ComputeSma
  <1>2. ASSUME NEW st PROVE Strategy!ComputeEma(st, price) = Proved!ComputeEma(st, price)
    BY DEF Strategy!ComputeEma, Proved!ComputeEma, Strategy!Full, Proved!Full,
           Strategy!Frac, Proved!Frac
  <1>3. ASSUME NEW st PROVE Strategy!ComputeRsi(st, price) = Proved!ComputeRsi(st, price)
    BY DEF Strategy!ComputeRsi, Proved!ComputeRsi, Strategy!WarmUp, Proved!WarmUp,
       Strategy!Smooth, Proved!Smooth, Strategy!Gain, Proved!Gain, Strategy!Loss,
       Proved!Loss, Strategy!Rsi, Proved!Rsi, Strategy!Frac, Proved!Frac
  <1>4. ASSUME NEW st PROVE Strategy!Snapshot(st) = Proved!Snapshot(st)
    BY DEF Strategy!Snapshot, Proved!Snapshot, Strategy!Sma, Proved!Sma, Strategy!Full,
       Proved!Full, Strategy!Frac, Proved!Frac
  <1> QED BY <1>1, <1>2, <1>3, <1>4 DEF Strategy!Update, Proved!Update

LEMMA SameStep ==
  [Strategy!StrategyNext]_Strategy!strategyVars
    => [Proved!StrategyNext]_Proved!strategyVars
  <1> USE DEF Strategy!strategyVars, Proved!strategyVars, Strategy!indicators,
          Proved!indicators, Strategy!strategy, Proved!strategy, Strategy!risk,
          Proved!risk, Strategy!vars, Proved!vars
  <1>1. /\ Strategy!CheckRunning => Proved!CheckRunning
        /\ Strategy!PopNothing => Proved!PopNothing
        /\ Strategy!Signal => Proved!Signal
    BY DEF Strategy!CheckRunning, Proved!CheckRunning, Strategy!PopNothing,
       Proved!PopNothing, Strategy!Signal, Proved!Signal
  <1>2. Strategy!TakeTick => Proved!TakeTick
    <2>1. ASSUME NEW s, NEW snap
          PROVE Strategy!Decision(s, snap) = Proved!Decision(s, snap)
      BY DEF Strategy!Decision, Proved!Decision, Strategy!ShouldBuy, Proved!ShouldBuy,
         Strategy!ShouldSell, Proved!ShouldSell
    <2> QED
      BY <2>1, SameUpdate DEF Strategy!TakeTick, Proved!TakeTick,
         Strategy!MakeMarketOrder, Proved!MakeMarketOrder
  <1>3. /\ Strategy!CheckSymbol => Proved!CheckSymbol
        /\ \A s \in Symbol : Strategy!ReadExposure(s) => Proved!ReadExposure(s)
        /\ Strategy!CheckTotal => Proved!CheckTotal
        /\ Strategy!PushOrder => Proved!PushOrder
    BY DEF Strategy!CheckSymbol, Proved!CheckSymbol, Strategy!ReadExposure,
       Proved!ReadExposure, Strategy!CheckTotal, Proved!CheckTotal, Strategy!PushOrder,
       Proved!PushOrder, Strategy!Reject, Proved!Reject
  <1>4. ASSUME NEW s, NEW price
        PROVE  Strategy!PushTick(s, price) => Proved!PushTick(s, price)
    BY DEF Strategy!PushTick, Proved!PushTick, Strategy!SumFunction,
       Proved!SumFunction, Strategy!SumFunctionOnSet, Proved!SumFunctionOnSet,
       Strategy!FoldFunctionOnSet, Proved!FoldFunctionOnSet, Strategy!MapThenFoldSet,
       Proved!MapThenFoldSet
  <1>5. ASSUME NEW s, NEW notional
        PROVE  Strategy!BookTrade(s, notional) => Proved!BookTrade(s, notional)
    BY DEF Strategy!BookTrade, Proved!BookTrade
  <1>6. /\ Strategy!AddNotional => Proved!AddNotional
        /\ Strategy!Clamp => Proved!Clamp
    BY DEF Strategy!AddNotional, Proved!AddNotional, Strategy!Clamp, Proved!Clamp,
       Strategy!SetExposure, Proved!SetExposure, Strategy!Lesser, Proved!Lesser
  <1>7. Strategy!StrategyStep => Proved!StrategyStep
    BY <1>1, <1>2, <1>3 DEF Strategy!StrategyStep, Proved!StrategyStep
  <1> QED
    BY <1>1, <1>4, <1>5, <1>6, <1>7 DEF Strategy!StrategyNext, Proved!StrategyNext

\* The theorems apply to the pipeline.
LEMMA StrategyApplies == Spec => Proved!StrategySpec
  <1>1. Strategy!StrategyInit => Proved!StrategyInit
    BY DEF Strategy!StrategyInit, Proved!StrategyInit, Strategy!Init, Proved!Init,
       Strategy!NewState, Proved!NewState, Strategy!Frac, Proved!Frac
  <1> QED
    BY <1>1, SameStep, StrategyImplemented, PTL DEF ImplementsStrategy,
       Strategy!StrategySpec, Proved!StrategySpec

\* Between real threads, too, approve() lets no order pass that is over the trade's
\* or its symbol's limit, while the PnL thread books clients' fills
\* (RiskManager.cpp:17 against RiskManager.cpp:48).
THEOREM GateHoldsInPipeline == Spec => []Strategy!SymbolLimitKept
  <1>1. Proved!StrategySpec => []Proved!SymbolLimitKept
    BY ProvedAssumptions, Proved!GateHolds
  <1>2. Proved!SymbolLimitKept => Strategy!SymbolLimitKept
    BY DEF Proved!SymbolLimitKept, Strategy!SymbolLimitKept
  <1> QED BY <1>1, <1>2, StrategyApplies, PTL

\* And none that is over the portfolio's, however torn the sum of exposures.
THEOREM PortfolioGateHoldsInPipeline == Spec => []Strategy!PortfolioLimitKept
  <1>1. Proved!StrategySpec => []Proved!PortfolioLimitKept
    BY ProvedAssumptions, Proved!PortfolioGateHolds
  <1>2. Proved!PortfolioLimitKept => Strategy!PortfolioLimitKept
    BY DEF Proved!PortfolioLimitKept, Strategy!PortfolioLimitKept,
       Strategy!SumFunction, Proved!SumFunction, Strategy!SumFunctionOnSet,
       Proved!SumFunctionOnSet, Strategy!FoldFunctionOnSet, Proved!FoldFunctionOnSet,
       Strategy!MapThenFoldSet, Proved!MapThenFoldSet
  <1> QED BY <1>1, <1>2, StrategyApplies, PTL

\* The orders that the engine gets from the strategy alternate for each symbol
\* (TradingStrategy.cpp:68-84).
THEOREM CooldownHoldsInPipeline == Spec => []Strategy!OrdersAlternate
  <1>1. Proved!StrategySpec => []Proved!OrdersAlternate
    BY ProvedAssumptions, Proved!CooldownHolds
  <1>2. Proved!OrdersAlternate => Strategy!OrdersAlternate
    BY DEF Proved!OrdersAlternate, Strategy!OrdersAlternate
  <1> QED BY <1>1, <1>2, StrategyApplies, PTL

\* No order of the strategy is for a symbol that the fetcher has not delivered
\* enough ticks of (TradingStrategy.cpp:37).
THEOREM WarmupRespectedInPipeline == Spec => []Strategy!OrdersAfterWarmup
  <1>1. Proved!StrategySpec => []Proved!OrdersAfterWarmup
    BY ProvedAssumptions, Proved!WarmupRespected
  <1>2. Proved!OrdersAfterWarmup => Strategy!OrdersAfterWarmup
    BY DEF Proved!OrdersAfterWarmup, Strategy!OrdersAfterWarmup
  <1> QED BY <1>1, <1>2, StrategyApplies, PTL

-----------------------------------------------------------------------------
(* What is proved of the engine holds in the pipeline *)

\* OrderMatchingEngine as in Pipeline, with the theorems about it.
Matched == INSTANCE OrderMatchingEngineProofs WITH
    pc <- engine_pc, Producer <- {}, Quantity <- ClientQuantity, MaxClock <- 0,
    clock <- 0, placing <- [p \in {} |-> NoOrder], accepted <- 0

\* The pipeline's constants are as the engine needs them.
LEMMA MatchedAssumption == Matched!EngineAssumption
  BY PipelineAssumption, PipelineThreadsAssumption
     DEF Matched!EngineAssumption, Matched!Order, Matched!OrderType, Matched!Side

\* The two instances say the same of an engine's step.
LEMMA SameEngineStep == Engine!EngineStep => Matched!EngineStep
  <1> USE DEF Engine!placers, Matched!placers, Engine!engine, Matched!engine
  <1>1. /\ Engine!CheckShutdown => Matched!CheckShutdown
        /\ Engine!PopNothing => Matched!PopNothing
        /\ Engine!TakeOrder => Matched!TakeOrder
    BY DEF Engine!CheckShutdown, Matched!CheckShutdown, Engine!PopNothing,
       Matched!PopNothing, Engine!TakeOrder, Matched!TakeOrder
  <1>2. Engine!Best = Matched!Best
    BY DEF Engine!Best, Matched!Best, Engine!Top, Matched!Top, Engine!Outranks,
       Matched!Outranks, Engine!Makers, Matched!Makers, Engine!Opposite,
       Matched!Opposite
  <1>3. \A maker : Engine!Matching(maker) <=> Matched!Matching(maker)
    BY <1>2 DEF Engine!Matching, Matched!Matching, Engine!Remaining, Matched!Remaining,
       Engine!Acceptable, Matched!Acceptable
  <1>4. Engine!Fill => Matched!Fill
    BY <1>2, <1>3 DEF Engine!Fill, Matched!Fill, Engine!Lesser, Matched!Lesser,
       Engine!Remaining, Matched!Remaining, Engine!MakeTrade, Matched!MakeTrade,
       Engine!UpdateTop, Matched!UpdateTop, Engine!Opposite, Matched!Opposite
  <1>5. Engine!Finish => Matched!Finish
    BY <1>2, <1>3 DEF Engine!Finish, Matched!Finish, Engine!Remaining,
       Matched!Remaining, Engine!AddOrder, Matched!AddOrder
  <1> QED BY <1>1, <1>4, <1>5 DEF Engine!EngineStep, Matched!EngineStep

\* The engine's own invariants.
Books == Matched!Inv /\ Matched!Shares

\* An order of the strategy or of a client keeps the books.
LEMMA EnqueueBooks ==
  ASSUME Books, NEW o \in Request, o.filled = 0, Enqueue(o),
         UNCHANGED <<queue_down, shutdown, engine>>
  PROVE  Books'
  <1>t. Matched!TypeOK /\ Matched!Unfilled
    BY DEF Books, Matched!Inv, Matched!Shares
  <1>1. o \in Matched!Order
    BY DEF Request, Engine!Order, Engine!OrderType, Engine!Side, Matched!Order,
       Matched!OrderType, Matched!Side
  <1>2. /\ order_queue' \in Seq(Matched!Order)
        /\ \A i \in 1..Len(order_queue') : order_queue'[i].filled = 0
    BY <1>t, <1>1, AppendProperties DEF Enqueue, Matched!TypeOK, Matched!Unfilled
  <1>3. Matched!TypeOK'
    BY <1>t, <1>2 DEF Matched!TypeOK, engine
  <1>4. Matched!Unfilled'
    BY <1>t, <1>2 DEF Matched!Unfilled
  <1>5. UNCHANGED Matched!engine /\ engine_pc' = engine_pc
    BY DEF Matched!engine, engine
  <1>6. Matched!Inv'
    BY <1>3, <1>5, MatchedAssumption, Matched!OtherStepInv DEF Books
  <1>7. Matched!Shares'
    BY <1>4, <1>5, MatchedAssumption, Matched!OtherStepShares DEF Books
  <1> QED BY <1>6, <1>7 DEF Books

\* So does every step of the pipeline: it is one of the engine, of those who place
\* orders or of main(), or has nothing to do with the books.
LEMMA StepBooks ==
  ASSUME Inv, Books, [Next]_vars
  PROVE  Books'
  <1>0. ASSUME [Matched!Next]_Matched!vars PROVE Books'
    BY <1>0, MatchedAssumption, Matched!StepInv, Matched!StepShares DEF Books
  <1>1. CASE UNCHANGED <<order_queue, stops, engine>>
    <2>1. UNCHANGED Matched!vars
      BY <1>1 DEF Matched!vars, Matched!placers, Matched!engine, stops, engine
    <2> QED BY <1>0, <2>1
  <1>2. CASE EngineStep
    BY <1>0, <1>2, SameEngineStep DEF EngineStep, Matched!Next
  <1>3. CASE MainStep
    <2>1. Matched!ShutdownQueue \/ Matched!Stop
      BY <1>3 DEF MainStep, ShutdownOrders, StopEngine, Engine!ShutdownQueue,
         Engine!Stop, Matched!ShutdownQueue, Matched!Stop, Engine!placers,
         Matched!placers, Engine!engine, Matched!engine
    <2> QED BY <1>0, <2>1 DEF Matched!Next
  <1>4. CASE StrategyStep
    <2>1. CASE strategy_pc = "push"
      <3>1. order.symbol \in Symbol /\ order.side \in Engine!Side
        BY <2>1 DEF Inv, StrategyInv, Deciding, Strategy!Order, Strategy!Side,
           Engine!Side
      <3> DEFINE o == NewOrder(order.symbol, "MARKET", order.side, 0, order_qty)
      <3>2. o \in Request
        BY <3>1, NewRequest
      <3>3. o.filled = 0
        BY DEF NewOrder
      <3>4. Enqueue(o) /\ UNCHANGED <<queue_down, shutdown, engine>>
        BY <1>4, <2>1 DEF StrategyStep, stops
      <3> HIDE DEF o
      <3> QED BY <3>2, <3>3, <3>4, EnqueueBooks
    <2>2. CASE strategy_pc # "push"
      BY <1>1, <1>4, <2>2 DEF StrategyStep
    <2> QED BY <2>1, <2>2
  <1>5. ASSUME NEW s \in Symbol, NEW side \in Engine!Side, NEW price \in ClientPrice,
               NEW quantity \in ClientQuantity, ClientOrder(s, side, price, quantity)
        PROVE  Books'
    <2> DEFINE o == NewOrder(s, "LIMIT", side, price, quantity)
    <2>1. o \in Request
      BY NewRequest
    <2>2. o.filled = 0
      BY DEF NewOrder
    <2>3. Enqueue(o) /\ UNCHANGED <<queue_down, shutdown, engine>>
      BY <1>5 DEF ClientOrder, stops
    <2> HIDE DEF o
    <2> QED BY <2>1, <2>2, <2>3, EnqueueBooks
  <1>6. CASE DataStep \/ Signal \/ FanoutStep \/ PnlStep
    BY <1>1, <1>6 DEF DataStep, Signal, FanoutStep, FanoutLoop, FanoutPop, FanoutPush,
       FanoutOnly, PnlStep, PnlLoop, PnlPop, PnlAdd, PnlClamp, PnlOnly
  <1>7. CASE UNCHANGED vars
    BY <1>1, <1>7 DEF vars
  <1> QED BY <1>2, <1>3, <1>4, <1>5, <1>6, <1>7 DEF Next

\* All that is invariant in the engine is so in the pipeline, whose threads feed and
\* stop it (main.cpp:143-145 and main.cpp:204-205).
THEOREM BooksInPipeline == Spec => []Books
  <1>1. Init => Books
    <2>1. Engine!Init => Matched!Init
      BY DEF Engine!Init, Matched!Init, Engine!Side, Matched!Side
    <2> QED
      BY <2>1, MatchedAssumption, Matched!InitInv, Matched!InitShares DEF Init, Books
  <1> QED BY <1>1, StepBooks, Invariance, PTL DEF Spec

\* With the strategy and clients as its producers, no book is ever crossed, nobody
\* trades beyond a limit, and no resting order is passed over for a worse price
\* (OrderMatchingEngine.cpp; orders are stamped 0 here, so that their age is only a
\* matter of PriorityRespected).
THEOREM BooksHoldInPipeline ==
  Spec => [](/\ Engine!NoCrossedBook /\ Engine!TradesWithinLimits
             /\ Engine!PricePriority)
  <1>1. Books => /\ Engine!NoCrossedBook /\ Engine!TradesWithinLimits
                 /\ Engine!PricePriority
    <2> SUFFICES ASSUME Books
                 PROVE  /\ Engine!NoCrossedBook /\ Engine!TradesWithinLimits
                        /\ Engine!PricePriority
      OBVIOUS
    <2>1. Matched!NoCrossedBook /\ Matched!TradesWithinLimits /\ Matched!PricePriority
      BY DEF Books, Matched!Inv
    <2>2. Engine!NoCrossedBook
      BY <2>1 DEF Matched!NoCrossedBook, Engine!NoCrossedBook
    <2>3. Engine!TradesWithinLimits
      BY <2>1 DEF Engine!TradesWithinLimits, Matched!TradesWithinLimits,
         Engine!WithinLimits, Matched!WithinLimits
    <2>4. Engine!PricePriority
      BY <2>1 DEF Matched!PricePriority, Engine!PricePriority, Matched!Side,
         Engine!Side, Matched!Maker, Engine!Maker, Matched!Taker, Engine!Taker,
         Matched!Outranks, Engine!Outranks, Matched!Lesser, Engine!Lesser
    <2> QED BY <2>2, <2>3, <2>4
  <1> QED BY <1>1, BooksInPipeline, PTL

\* And no share is created or lost between the orders that the strategy and clients
\* push and the trades that the PnL thread is given.
THEOREM SharesHoldInPipeline == Spec => []Engine!SharesConserved
  <1>1. Matched!Inv /\ Matched!Shares => Matched!SharesConserved
    BY MatchedAssumption, Matched!SharesBalance
  <1>2. Matched!SharesConserved => Engine!SharesConserved
    BY DEF Matched!SharesConserved, Engine!SharesConserved, Matched!Traded,
       Engine!Traded, Matched!SumFunctionOnSet, Engine!SumFunctionOnSet,
       Matched!FoldFunctionOnSet, Engine!FoldFunctionOnSet, Matched!MapThenFoldSet,
       Engine!MapThenFoldSet, Matched!Cardinality, Engine!Cardinality
  <1> QED BY <1>1, <1>2, BooksInPipeline, PTL DEF Books

-----------------------------------------------------------------------------
(* No trade without a client *)

\* While no client sends anything, the orders are the strategy's, none rests, and
\* there is nothing to trade or to book.
Quiet ==
    clients = 0 =>
        /\ order_queue \in Seq({o \in Request : o.type = "MARKET"})
        /\ engine_pc = "match" => cur.type = "MARKET"
        /\ \A s \in Symbol, side \in Engine!Side : book[s][side] = {}
        /\ trade_queue = <<>>
        /\ \A s \in Symbol : exposure[s] = 0

LEMMA StepQuiet ==
  ASSUME Inv, Quiet, [Next]_vars
  PROVE  Quiet'
  <1> SUFFICES ASSUME clients' = 0
               PROVE  /\ order_queue' \in Seq({o \in Request : o.type = "MARKET"})
                      /\ engine_pc' = "match" => cur'.type = "MARKET"
                      /\ \A s \in Symbol, side \in Engine!Side : book'[s][side] = {}
                      /\ trade_queue' = <<>>
                      /\ \A s \in Symbol : exposure'[s] = 0
    BY DEF Quiet
  <1> DEFINE S == {o \in Request : o.type = "MARKET"}
  <1>0. clients = 0 /\ ~Client
    BY Writers DEF Inv, OrdersBounded, Client, ClientOrder
  <1>1. /\ order_queue \in Seq(S)
        /\ engine_pc = "match" => cur.type = "MARKET"
        /\ \A s \in Symbol, side \in Engine!Side : book[s][side] = {}
        /\ trade_queue = <<>>
        /\ \A s \in Symbol : exposure[s] = 0
    BY <1>0 DEF Quiet
  <1> HIDE DEF S
  <1>2. UNCHANGED exposure
    <2>1. received = 0 /\ pnl_pc \notin {"add", "clamp"}
      BY <1>1, EmptySeq DEF Inv, PnlInv
    <2> QED
      BY <2>1, Writers DEF PnlStep, PnlLoop, PnlPop, PnlAdd, PnlClamp
  <1>3. CASE StrategyStep
    <2>1. UNCHANGED engine
      BY <1>3 DEF StrategyStep
    <2>2. order_queue' \in Seq(S)
      <3>1. CASE UNCHANGED order_queue
        BY <1>1, <3>1
      <3>2. CASE strategy_pc = "push"
                 /\ Enqueue(NewOrder(order.symbol, "MARKET", order.side, 0, order_qty))
        <4> DEFINE o == NewOrder(order.symbol, "MARKET", order.side, 0, order_qty)
        <4>1. order.symbol \in Symbol /\ order.side \in Engine!Side
          BY <3>2 DEF Inv, StrategyInv, Deciding, Strategy!Order, Strategy!Side,
             Engine!Side
        <4>2. o \in Request /\ o.type = "MARKET"
          BY <4>1, NewRequest DEF NewOrder
        <4> HIDE DEF o
        <4>3. o \in S
          BY <4>2 DEF S
        <4>4. Append(order_queue, o) \in Seq(S)
          BY <1>1, <4>3, AppendProperties
        <4> QED BY <1>1, <3>2, <4>4 DEF Enqueue, o
      <3> QED BY <1>3, <3>1, <3>2, StrategyMoves
    <2> QED BY <1>1, <1>2, <2>1, <2>2 DEF engine, S
  <1>4. CASE EngineStep
    <2>1. CASE Engine!CheckShutdown \/ Engine!PopNothing
      BY <1>1, <1>2, <2>1 DEF Engine!CheckShutdown, Engine!PopNothing, Engine!engine, S
    <2>2. CASE Engine!TakeOrder
      <3>1. Head(order_queue) \in S /\ Tail(order_queue) \in Seq(S)
        BY <1>1, <2>2, HeadTailProperties DEF Engine!TakeOrder
      <3>2. Head(order_queue) \in Request /\ Head(order_queue).type = "MARKET"
        BY <3>1 DEF S
      <3>3. [Head(order_queue) EXCEPT !.id = order_counter].type = "MARKET"
        BY <3>2, RequestStays DEF Inv, EngineInv
      <3> QED BY <1>1, <1>2, <2>2, <3>1, <3>3 DEF Engine!TakeOrder, S
    <2>3. CASE Engine!Fill
      <3>1. engine_pc = "match" /\ cur \in Request
        BY <2>3 DEF Engine!Fill, Inv, EngineInv
      <3>2. \E o \in Resting : o \in book[cur.symbol][Engine!Opposite(cur.side)]
        BY <2>3, FillMoves DEF Inv
      <3> QED BY <1>1, <3>1, <3>2, RequestStays
    <2>4. CASE Engine!Finish
      BY <1>1, <1>2, <2>4 DEF Engine!Finish, S
    <2> QED
      BY <1>4, <2>1, <2>2, <2>3, <2>4 DEF EngineStep, Engine!EngineStep
  <1>5. CASE UNCHANGED <<order_queue, engine>>
    BY <1>1, <1>2, <1>5 DEF engine, S
  <1> QED BY <1>0, <1>3, <1>4, <1>5, Writers

\* The strategy on its own never trades, however long it runs: only a client's
\* LIMIT order can rest, be matched and move the exposure
\* (OrderMatchingEngine.cpp:90-97).
THEOREM StrategyAloneNeverTrades == Spec => []NoClientNoTrade
  <1>1. Init => Quiet
    BY EmptySeq DEF Init, Quiet, Engine!Init, Strategy!StrategyInit
  <1>2. Inv /\ Quiet /\ [Next]_vars => Quiet'
    BY StepQuiet
  <1>3. Quiet => NoClientNoTrade
    BY DEF Quiet, NoClientNoTrade
  <1> QED BY <1>1, <1>2, <1>3, Invariance, PTL DEF Spec

-----------------------------------------------------------------------------
(* No order of the strategy is dropped *)

\* Places of the orders of a type
Places(type, orders) == {i \in DOMAIN orders : orders[i].type = type}

LEMMA CountNat ==
  ASSUME NEW orders \in Seq(Request), NEW type
  PROVE  /\ IsFiniteSet(Places(type, orders))
         /\ Cardinality(Places(type, orders)) \in Nat
  <1>1. Len(orders) \in Nat /\ DOMAIN orders = 1..Len(orders)
    BY LenProperties
  <1>2. IsFiniteSet(DOMAIN orders)
    BY <1>1, FS_Interval
  <1>3. Places(type, orders) \in SUBSET DOMAIN orders
    BY DEF Places
  <1> QED BY <1>2, <1>3, FS_Subset, FS_CardinalityType

\* One order more is one more of its type.
LEMMA CountAppend ==
  ASSUME NEW orders \in Seq(Request), NEW o \in Request, NEW type
  PROVE  Cardinality(Places(type, Append(orders, o)))
            = Cardinality(Places(type, orders)) + One(o.type = type)
  <1> DEFINE more == Append(orders, o)
             n == Len(orders) + 1
             old == Places(type, orders)
             new == Places(type, more)
  <1>1. /\ more \in Seq(Request) /\ Len(more) = n
        /\ \A i \in 1..Len(orders) : more[i] = orders[i]
        /\ more[n] = o
    BY AppendProperties
  <1>2. Len(orders) \in Nat /\ DOMAIN orders = 1..Len(orders) /\ DOMAIN more = 1..n
    BY <1>1, LenProperties
  <1>3. IsFiniteSet(old) /\ Cardinality(old) \in Nat
    BY CountNat
  <1> HIDE DEF more
  <1>4. n \notin old
    BY <1>2 DEF Places
  <1>5. CASE o.type = type
    <2>1. ASSUME NEW i PROVE i \in new <=> i \in old \cup {n}
      BY <1>1, <1>2, <1>5 DEF Places
    <2>2. new = old \cup {n}
      BY <2>1
    <2> HIDE DEF old, new, n
    <2>3. Cardinality(old \cup {n}) = Cardinality(old) + 1
      BY <1>3, <1>4, FS_AddElement, Zenon
    <2> QED BY <1>5, <2>2, <2>3 DEF One, old, new, more
  <1>6. CASE o.type # type
    <2>1. ASSUME NEW i PROVE i \in new <=> i \in old
      BY <1>1, <1>2, <1>6 DEF Places
    <2>2. new = old
      BY <2>1
    <2> QED BY <1>3, <1>6, <2>2 DEF One, more
  <1> QED BY <1>5, <1>6

\* Orders that order_queue took
Accepted == arrived \o order_queue

\* An order that is taken out of the queue arrives.
LEMMA TakenIsAccepted ==
  ASSUME NEW a \in Seq(Request), NEW q \in Seq(Request), q # <<>>
  PROVE  Append(a, Head(q)) \o Tail(q) = a \o q
  <1> DEFINE front == Append(a, Head(q))
             left == front \o Tail(q)
             right == a \o q
  <1>1. /\ Head(q) \in Request /\ Tail(q) \in Seq(Request)
        /\ Len(Tail(q)) = Len(q) - 1
        /\ \A i \in 1..Len(Tail(q)) : Tail(q)[i] = q[i + 1]
    BY HeadTailProperties
  <1>2. /\ front \in Seq(Request) /\ Len(front) = Len(a) + 1
        /\ \A i \in 1..Len(a) : front[i] = a[i]
        /\ front[Len(a) + 1] = Head(q)
    BY <1>1, AppendProperties
  <1>3. Head(q) = q[1] /\ Len(a) \in Nat /\ Len(q) \in Nat
    BY LenProperties
  <1> HIDE DEF front
  <1>4. /\ left \in Seq(Request) /\ Len(left) = Len(front) + Len(Tail(q))
        /\ \A i \in 1..(Len(front) + Len(Tail(q))) :
              left[i] = IF i <= Len(front) THEN front[i] ELSE Tail(q)[i - Len(front)]
    BY <1>1, <1>2, ConcatProperties
  <1>5. /\ right \in Seq(Request) /\ Len(right) = Len(a) + Len(q)
        /\ \A i \in 1..(Len(a) + Len(q)) :
              right[i] = IF i <= Len(a) THEN a[i] ELSE q[i - Len(a)]
    BY ConcatProperties
  <1> HIDE DEF left, right
  <1>6. Len(left) = Len(right)
    BY <1>1, <1>2, <1>3, <1>4, <1>5
  <1>7. ASSUME NEW i \in 1..Len(left) PROVE left[i] = right[i]
    <2>1. CASE i <= Len(a)
      BY <1>2, <1>3, <1>4, <1>5, <1>6, <2>1
    <2>2. CASE i = Len(a) + 1
      BY <1>2, <1>3, <1>4, <1>5, <1>6, <2>2
    <2>3. CASE i > Len(a) + 1
      <3>1. left[i] = Tail(q)[i - Len(front)]
        BY <1>1, <1>2, <1>3, <1>4, <2>3
      <3>2. i - Len(front) \in 1..Len(Tail(q))
        BY <1>1, <1>2, <1>3, <1>4, <2>3
      <3>3. Tail(q)[i - Len(front)] = q[i - Len(front) + 1]
        BY <1>1, <3>2
      <3>4. right[i] = q[i - Len(a)] /\ i - Len(front) + 1 = i - Len(a)
        BY <1>2, <1>3, <1>5, <1>6, <2>3
      <3> QED BY <3>1, <3>3, <3>4
    <2> QED BY <1>1, <1>2, <1>3, <1>4, <2>1, <2>2, <2>3
  <1>8. left = right
    BY <1>4, <1>5, <1>6, <1>7, SeqEqual
  <1> QED BY <1>8 DEF left, right, front

\* An order that is pushed is accepted, unless the queue is down.
LEMMA PushedIsAccepted ==
  ASSUME EngineInv, NEW o \in Request, Enqueue(o), UNCHANGED arrived
  PROVE  Accepted' = IF queue_down THEN Accepted ELSE Append(Accepted, o)
  <1>1. arrived \in Seq(Request) /\ order_queue \in Seq(Request) /\ <<o>> \in Seq(Request)
    BY DEF EngineInv
  <1>2. arrived \o order_queue \in Seq(Request)
    BY <1>1, ConcatProperties
  <1>3. /\ Append(order_queue, o) = order_queue \o <<o>>
        /\ Append(arrived \o order_queue, o) = (arrived \o order_queue) \o <<o>>
    BY <1>1, <1>2, AppendIsConcat
  <1>4. arrived \o Append(order_queue, o) = Append(arrived \o order_queue, o)
    BY <1>1, <1>3, ConcatAssociative
  <1> QED BY <1>4 DEF Enqueue, Accepted

\* The strategy's orders are all accepted, for the queue goes down only after the
\* strategy has ended; and until then so are the clients'.
Counted ==
    /\ Taken("MARKET") = Total(sent)
    /\ ~queue_down => Taken("LIMIT") = clients
    /\ queue_down => strategy_pc = "done"

\* A thread that is done takes no step.
LEMMA DoneIsDone == StrategyStep => strategy_pc # "done"
  BY DEF StrategyStep, Strategy!StrategyStep, Strategy!CheckRunning,
     Strategy!PopNothing, Strategy!TakeTick, Strategy!CheckSymbol,
     Strategy!ReadExposure, Strategy!CheckTotal, Strategy!PushOrder

\* The same orders are as many of each type.
LEMMA CountSame ==
  ASSUME UNCHANGED Accepted, NEW type
  PROVE  Taken(type)' = Taken(type)
  BY DEF Taken, Accepted

\* An order pushed before the queue is down counts.
LEMMA CountPushed ==
  ASSUME EngineInv, NEW o \in Request, Enqueue(o), UNCHANGED arrived, ~queue_down,
         NEW type
  PROVE  Taken(type)' = Taken(type) + One(o.type = type)
  <1>1. Accepted' = Append(Accepted, o)
    BY PushedIsAccepted
  <1>2. Accepted \in Seq(Request)
    BY ConcatProperties DEF EngineInv, Accepted
  <1>3. Cardinality(Places(type, Append(Accepted, o)))
           = Cardinality(Places(type, Accepted)) + One(o.type = type)
    BY <1>2, CountAppend
  <1>4. /\ Taken(type) = Cardinality(Places(type, Accepted))
        /\ Taken(type)' = Cardinality(Places(type, Accepted'))
    BY DEF Taken, Places, Accepted
  <1> QED BY <1>1, <1>3, <1>4

LEMMA StepCounted ==
  ASSUME Inv, Counted, [Next]_vars
  PROVE  Counted'
  <1> USE DEF Inv
  <1>1. CASE StrategyStep
    <2>0. UNCHANGED <<engine, clients, stops>> /\ ~queue_down
      BY <1>1, DoneIsDone DEF StrategyStep, Counted
    <2>1. CASE UNCHANGED <<sent, order_queue>>
      <3>1. UNCHANGED Accepted
        BY <2>0, <2>1 DEF Accepted, engine
      <3> QED BY <2>0, <2>1, <3>1, CountSame DEF Counted, stops
    <2>2. CASE /\ strategy_pc = "push"
               /\ sent' = [sent EXCEPT ![order.symbol] = Append(@, order.side)]
               /\ Enqueue(NewOrder(order.symbol, "MARKET", order.side, 0, order_qty))
      <3> DEFINE s == order.symbol
                 side == order.side
                 o == NewOrder(s, "MARKET", side, 0, order_qty)
      <3>1. s \in Symbol /\ side \in Engine!Side
        BY <2>2 DEF StrategyInv, Deciding, Strategy!Order, Strategy!Side, Engine!Side
      <3>2. o \in Request /\ o.type = "MARKET"
        BY <3>1, NewRequest DEF NewOrder
      <3>3. UNCHANGED arrived
        BY <2>0 DEF engine
      <3>4. Enqueue(o) /\ sent' = [sent EXCEPT ![s] = Append(sent[s], side)]
        BY <2>2
      <3> HIDE DEF s, side, o
      <3>5. Taken("MARKET")' = Taken("MARKET") + One(o.type = "MARKET")
        BY <2>0, <3>2, <3>3, <3>4, CountPushed
      <3>6. Taken("LIMIT")' = Taken("LIMIT") + One(o.type = "LIMIT")
        BY <2>0, <3>2, <3>3, <3>4, CountPushed
      <3>7. Total(sent)' = Total(sent) + 1
        <4>1. sent \in [Symbol -> Seq(Engine!Side)]
          BY DEF StrategyInv
        <4>2. /\ \A t \in Symbol : Len(sent[t]) \in Nat
              /\ Len(sent'[s]) = Len(sent[s]) + 1
              /\ \A t \in Symbol \ {s} : sent'[t] = sent[t]
          BY <3>1, <3>4, <4>1, AppendProperties, LenProperties
        <4> QED BY <3>1, <4>2, TotalGrows
      <3>8. clients \in Nat
        BY PipelineAssumption DEF OrdersBounded
      <3>9. Taken("MARKET")' = Total(sent)'
        BY <3>2, <3>5, <3>7 DEF Counted, One
      <3>10. ~queue_down' => Taken("LIMIT")' = clients'
        BY <2>0, <3>2, <3>6, <3>8 DEF Counted, One
      <3> QED BY <2>0, <3>9, <3>10 DEF Counted, stops
    <2> QED BY <1>1, <2>1, <2>2, StrategyMoves
  <1>2. CASE Client
    <2>1. PICK s \in Symbol, side \in Engine!Side, price \in ClientPrice,
               quantity \in ClientQuantity : ClientOrder(s, side, price, quantity)
      BY <1>2 DEF Client
    <2> DEFINE o == NewOrder(s, "LIMIT", side, price, quantity)
    <2>2. o \in Request /\ o.type = "LIMIT" /\ Enqueue(o)
      BY <2>1, NewRequest DEF NewOrder, ClientOrder
    <2>3. /\ UNCHANGED <<arrived, sent, strategy_pc, queue_down>>
          /\ clients' = clients + 1
      BY <2>1 DEF ClientOrder, engine, strategy, stops
    <2> HIDE DEF o
    <2>4. CASE queue_down
      <3>1. UNCHANGED Accepted
        BY <2>2, <2>3, <2>4, PushedIsAccepted
      <3> QED BY <2>3, <2>4, <3>1, CountSame DEF Counted
    <2>5. CASE ~queue_down
      <3>1. /\ Taken("MARKET")' = Taken("MARKET") + One(o.type = "MARKET")
            /\ Taken("LIMIT")' = Taken("LIMIT") + One(o.type = "LIMIT")
        BY <2>2, <2>3, <2>5, CountPushed
      <3>2. clients \in Nat /\ Total(sent) \in Nat
        BY TotalNat, PipelineAssumption DEF OrdersBounded, StrategyInv
      <3>3. Taken("MARKET")' = Total(sent)'
        BY <2>2, <2>3, <3>1, <3>2 DEF Counted, One
      <3>4. Taken("LIMIT")' = clients'
        BY <2>2, <2>3, <2>5, <3>1, <3>2 DEF Counted, One
      <3> QED BY <2>3, <2>5, <3>3, <3>4 DEF Counted
    <2> QED BY <2>4, <2>5
  <1>3. CASE EngineStep
    <2>0. UNCHANGED <<strategy, clients, queue_down>>
      BY <1>3 DEF EngineStep
    <2>1. UNCHANGED Accepted
      <3>1. CASE Engine!TakeOrder
        BY <3>1, TakenIsAccepted DEF Engine!TakeOrder, EngineInv, Accepted
      <3>2. CASE UNCHANGED <<arrived, order_queue>>
        BY <3>2 DEF Accepted
      <3> QED
        BY <1>3, <3>1, <3>2 DEF EngineStep, Engine!EngineStep, Engine!CheckShutdown,
           Engine!PopNothing, Engine!Fill, Engine!Finish, Engine!engine
    <2> QED BY <2>0, <2>1, CountSame DEF Counted, strategy
  <1>4. CASE MainStep
    <2>1. /\ UNCHANGED <<sent, strategy_pc, clients, arrived, order_queue>>
          /\ ~queue_down => strategy_pc = "done"
          /\ queue_down'
      BY <1>4 DEF MainStep, ShutdownOrders, StopEngine, Engine!ShutdownQueue,
         Engine!Stop, Engine!engine, strategy
    <2>2. UNCHANGED Accepted
      BY <2>1 DEF Accepted
    <2> QED BY <2>1, <2>2, CountSame DEF Counted
  <1>5. CASE UNCHANGED <<strategy, clients, engine, order_queue, queue_down>>
    <2>1. UNCHANGED Accepted
      BY <1>5 DEF Accepted, engine
    <2> QED BY <1>5, <2>1, CountSame DEF Counted, strategy
  <1> QED BY <1>1, <1>2, <1>3, <1>4, <1>5, Writers

\* No order of the strategy is ever dropped, wherever the signal finds it, and no
\* client's before main() shuts the queue down (ApiServer.cpp:230, main.cpp:204).
THEOREM NoEarlyOrderDropped == Spec => []OnlyLateOrdersDropped
  <1>1. Init => Counted
    <2> SUFFICES ASSUME Init PROVE Counted
      OBVIOUS
    <2>1. /\ order_queue = <<>> /\ arrived = <<>> /\ ~queue_down /\ clients = 0
          /\ sent = [s \in Symbol |-> <<>>]
      BY DEF Init, Engine!Init, Strategy!StrategyInit
    <2>2. ASSUME NEW type PROVE Taken(type) = 0
      <3>1. Places(type, arrived \o order_queue) = {}
        BY <2>1, ConcatProperties, EmptySeq DEF Places
      <3> QED BY <3>1, FS_EmptySet DEF Taken, Places
    <2>3. Total(sent) = 0
      BY <2>1, TotalNothing
    <2> QED BY <2>1, <2>2, <2>3 DEF Counted
  <1>2. Inv /\ Counted /\ [Next]_vars => Counted'
    BY StepCounted
  <1>3. Counted => OnlyLateOrdersDropped
    BY DEF Counted, OnlyLateOrdersDropped, Total
  <1> QED BY <1>1, <1>2, <1>3, Invariance, PTL DEF Spec

=============================================================================
