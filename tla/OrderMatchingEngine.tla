------------------------- MODULE OrderMatchingEngine -------------------------
(***************************************************************************)
(* src/engine/OrderMatchingEngine.cpp with the threads around it: the      *)
(* producers that stamp an order and push it (TradingStrategy and the      *)
(* handlers of POST /api/order), the engine thread that matches it against *)
(* the book of its symbol, and the main thread that shuts the queue down   *)
(* and stops the engine.                                                   *)
(*                                                                         *)
(* order_queue is a FIFO that drops what is pushed after its shutdown:     *)
(* that is what ThreadSafeQueue is shown to implement.  One iteration of a *)
(* matching loop is one step.  An order's status is written and never read *)
(* by the program, and is left out.                                        *)
(***************************************************************************)
EXTENDS OrderBook, Sequences, FiniteSets, Functions

CONSTANTS Producer,   \* threads that place orders
          Symbol, Price, Quantity,  \* what an order may ask for
          MaxOrders,  \* bound: orders placed over a behaviour
          MaxClock,   \* bound: distinct readings of steady_clock
          NoOrder     \* "no order at hand"

OrderType == {"MARKET", "LIMIT"}

\* struct Order.  quantity and price come unchecked from a client: any number.
Order == [id : Nat, symbol : Symbol, type : OrderType, side : Side, price : Int,
          quantity : Int, filled : Nat, timestamp : Nat]

\* struct Trade, without its time.  No trade is empty.
Trade == [buy_order_id : Nat, sell_order_id : Nat, symbol : Symbol,
          price : Int, quantity : Nat \ {0}]

ASSUME EngineAssumption ==
    /\ Price \subseteq Int
    /\ Quantity \subseteq Int
    /\ MaxOrders \in Nat
    /\ MaxClock \in Nat
    /\ NoOrder \notin Order

VARIABLES clock,          \* std::chrono::steady_clock
          placing,        \* per producer: the order it has made and not pushed
          accepted,       \* number of orders pushed and acknowledged so far
          order_queue,    \* contents of order_queue
          queue_down,     \* its shutdown flag
          shutdown,       \* shutdown_ of the engine
          pc,             \* of the engine thread: loop, pop, match or stopped
          order_counter,  \* order_counter_
          cur,            \* the order being processed
          book,           \* books_: for each symbol and side the resting orders
          trade_queue,    \* everything pushed to the trade queue, in order
          arrived         \* history: the orders as popped; the n-th gets id n

placers == <<clock, placing, accepted>>
engine  == <<order_counter, cur, book, trade_queue, arrived>>
vars == <<placers, order_queue, queue_down, shutdown, pc, engine>>

TypeOK ==
    /\ clock \in Nat
    /\ placing \in [Producer -> Order \cup {NoOrder}]
    /\ accepted \in Nat
    /\ order_queue \in Seq(Order)
    /\ queue_down \in BOOLEAN
    /\ shutdown \in BOOLEAN
    /\ pc \in {"loop", "pop", "match", "stopped"}
    /\ order_counter \in Nat \ {0}
    /\ cur \in IF pc = "match" THEN Order ELSE {NoOrder}
    /\ book \in [Symbol -> [Side -> SUBSET Order]]
    /\ trade_queue \in Seq(Trade)
    /\ arrived \in Seq(Order)

Init ==
    /\ clock = 0
    /\ placing = [p \in Producer |-> NoOrder]
    /\ accepted = 0
    /\ order_queue = <<>>
    /\ queue_down = FALSE
    /\ shutdown = FALSE
    /\ pc = "loop"
    /\ order_counter = 1
    /\ cur = NoOrder
    /\ book = [s \in Symbol |-> [side \in Side |-> {}]]
    /\ trade_queue = <<>>
    /\ arrived = <<>>

-----------------------------------------------------------------------------
(* The producers *)

\* Orders made so far, pushed or not.
Placed == accepted + Cardinality({p \in Producer : placing[p] # NoOrder})

\* A producer makes an order and stamps it with the time.  The clock is steady:
\* it never goes back, and two readings may be equal.
MakeOrder(p, symbol, type, side, price, quantity) ==
    /\ placing[p] = NoOrder
    /\ Placed < MaxOrders
    /\ placing' = [placing EXCEPT ![p] =
           [id |-> 0, symbol |-> symbol, type |-> type, side |-> side,
            price |-> IF type = "MARKET" THEN 0 ELSE price,
            quantity |-> quantity, filled |-> 0, timestamp |-> clock]]
    /\ clock' \in {clock, clock + 1} \cap (0..MaxClock)
    /\ UNCHANGED <<accepted, order_queue, queue_down, shutdown, pc, engine>>

\* It pushes the order, some time later, and takes it for accepted: push()
\* reports nothing, not even that the queue was shut down.
PushOrder(p) ==
    /\ placing[p] # NoOrder
    /\ order_queue' = IF queue_down THEN order_queue
                                    ELSE Append(order_queue, placing[p])
    /\ placing' = [placing EXCEPT ![p] = NoOrder]
    /\ accepted' = accepted + 1
    /\ UNCHANGED <<clock, queue_down, shutdown, pc, engine>>

-----------------------------------------------------------------------------
(* The engine thread *)

\* while (!shutdown_)
CheckShutdown ==
    /\ pc = "loop"
    /\ pc' = IF shutdown THEN "stopped" ELSE "pop"
    /\ UNCHANGED <<placers, order_queue, queue_down, shutdown, engine>>

\* Mutant: a pop that times out ends the loop.
PopNothingBreaks ==
    /\ pc = "pop"
    /\ order_queue = <<>>
    /\ pc' = "stopped"
    /\ UNCHANGED <<placers, order_queue, queue_down, shutdown, engine>>

\* pop() returned nullopt: it timed out, or the queue is shut down and empty.
PopNothing ==
    /\ pc = "pop"
    /\ order_queue = <<>>
    /\ pc' = "loop"
    /\ UNCHANGED <<placers, order_queue, queue_down, shutdown, engine>>

\* pop() returned an order, and process_order() gives it the next id.
TakeOrder ==
    /\ pc = "pop"
    /\ order_queue # <<>>
    /\ cur' = [Head(order_queue) EXCEPT !.id = order_counter]
    /\ arrived' = Append(arrived, Head(order_queue))
    /\ order_counter' = order_counter + 1
    /\ order_queue' = Tail(order_queue)
    /\ pc' = "match"
    /\ UNCHANGED <<placers, queue_down, shutdown, book, trade_queue>>

\* The side of the book that cur is matched against, and the orders at its top.
Makers == book[cur.symbol][Opposite(cur.side)]
Best == Top(Opposite(cur.side), Makers)

\* Mutant: orders at the same price do not match.
AcceptableStrictly(taker, maker) ==
    \/ taker.type = "MARKET"
    \/ taker.side = "BUY"  /\ maker.price < taker.price
    \/ taker.side = "SELL" /\ maker.price > taker.price

\* A MARKET order takes any price, a LIMIT order none worse than its own.
Acceptable(taker, maker) ==
    \/ taker.type = "MARKET"
    \/ taker.side = "BUY"  /\ maker.price <= taker.price
    \/ taker.side = "SELL" /\ maker.price >= taker.price

\* Mutant: the loop does not ask whether anything remains to be filled.
MatchingSpent(maker) ==
    /\ maker \in Best
    /\ Acceptable(cur, maker)

\* The best resting order, when the loop of match_buy / match_sell goes on.
Matching(maker) ==
    /\ maker \in Best
    /\ Remaining(cur) > 0
    /\ Acceptable(cur, maker)

Lesser(a, b) == IF a <= b THEN a ELSE b

\* Mutant: the trade is made at the price of the incoming order.
MakeTradeAtTaker(taker, maker, quantity) ==
    [buy_order_id  |-> IF taker.side = "BUY" THEN taker.id ELSE maker.id,
     sell_order_id |-> IF taker.side = "BUY" THEN maker.id ELSE taker.id,
     symbol |-> taker.symbol, price |-> taker.price, quantity |-> quantity]

\* make_trade(), at the price of the resting order.
MakeTrade(taker, maker, quantity) ==
    [buy_order_id  |-> IF taker.side = "BUY" THEN taker.id ELSE maker.id,
     sell_order_id |-> IF taker.side = "BUY" THEN maker.id ELSE taker.id,
     symbol |-> taker.symbol, price |-> maker.price, quantity |-> quantity]

\* One iteration of the loop.  The trade goes to the trade queue, and then the
\* fill callback that main() registers pushes it there once more.
Fill ==
    /\ pc = "match"
    /\ \E maker \in Best :
          /\ Matching(maker)
          /\ LET quantity == Lesser(Remaining(cur), Remaining(maker))
                 trade == MakeTrade(cur, maker, quantity)
             IN /\ trade_queue' = Append(Append(trade_queue, trade), trade)
                /\ cur' = [cur EXCEPT !.filled = @ + quantity]
                /\ book' = [book EXCEPT ![cur.symbol][Opposite(cur.side)] =
                       UpdateTop(@, maker, [maker EXCEPT !.filled = @ + quantity])]
    /\ UNCHANGED <<placers, order_queue, queue_down, shutdown, pc,
                   order_counter, arrived>>

\* Mutant: what remains rests, whatever the order's type.
FinishRests ==
    /\ pc = "match"
    /\ ~ \E maker \in Best : Matching(maker)
    /\ book' = IF Remaining(cur) > 0
               THEN [book EXCEPT ![cur.symbol][cur.side] = AddOrder(@, cur)]
               ELSE book
    /\ cur' = NoOrder
    /\ pc' = "loop"
    /\ UNCHANGED <<placers, order_queue, queue_down, shutdown,
                   order_counter, trade_queue, arrived>>

\* The loop is over: what remains of a LIMIT order rests on the book, what
\* remains of a MARKET order is dropped.
Finish ==
    /\ pc = "match"
    /\ ~ \E maker \in Best : Matching(maker)
    /\ book' = IF cur.type = "LIMIT" /\ Remaining(cur) > 0
               THEN [book EXCEPT ![cur.symbol][cur.side] = AddOrder(@, cur)]
               ELSE book
    /\ cur' = NoOrder
    /\ pc' = "loop"
    /\ UNCHANGED <<placers, order_queue, queue_down, shutdown,
                   order_counter, trade_queue, arrived>>

EngineStep == CheckShutdown \/ PopNothing \/ TakeOrder \/ Fill \/ Finish

-----------------------------------------------------------------------------
(* The main thread, after it has joined the strategy thread *)

\* order_queue.shutdown()
ShutdownQueue ==
    /\ queue_down' = TRUE
    /\ UNCHANGED <<placers, order_queue, shutdown, pc, engine>>

\* engine.stop(), which shuts the queue down a second time.
Stop ==
    /\ queue_down
    /\ shutdown' = TRUE
    /\ queue_down' = TRUE
    /\ UNCHANGED <<placers, order_queue, pc, engine>>

-----------------------------------------------------------------------------
Next ==
    \/ \E p \in Producer, s \in Symbol, type \in OrderType, side \in Side,
          price \in Price, quantity \in Quantity :
              MakeOrder(p, s, type, side, price, quantity)
    \/ \E p \in Producer : PushOrder(p)
    \/ EngineStep
    \/ ShutdownQueue
    \/ Stop

Spec == Init /\ [][Next]_vars

-----------------------------------------------------------------------------
(* Safety *)

\* No resting bid meets a resting ask: whatever could trade has traded before
\* anything rests, also while an order is half way through its sweep
\* (match_buy, match_sell).
NoCrossedBook ==
    \A s \in Symbol : \A bid \in book[s]["BUY"], ask \in book[s]["SELL"] :
        bid.price < ask.price

\* Two copies of one order: they differ at most in their id and their fills.
SameRequest(o, p) ==
    /\ o.symbol = p.symbol /\ o.side = p.side /\ o.type = p.type
    /\ o.price = p.price /\ o.quantity = p.quantity
    /\ o.timestamp = p.timestamp

\* A resting order is a LIMIT order that arrived for this side of this book,
\* with something left to fill and nothing but its fills changed: pop, update
\* and push of a copy (update_top_bid, update_top_ask) neither corrupt an order
\* nor leave a spent one behind.
BookHoldsArrivals ==
    \A s \in Symbol, side \in Side : \A o \in book[s][side] :
        /\ o.symbol = s /\ o.side = side
        /\ o.type = "LIMIT" /\ Remaining(o) > 0
        /\ o.id \in DOMAIN arrived
        /\ SameRequest(o, arrived[o.id])

\* The orders of trade t are a BUY and a SELL order of its symbol, and its price
\* is one that the LIMIT orders among them allow.
WithinLimits(t) ==
    /\ {t.buy_order_id, t.sell_order_id} \subseteq DOMAIN arrived
    /\ LET buy == arrived[t.buy_order_id]
           sell == arrived[t.sell_order_id]
       IN /\ buy.side = "BUY" /\ sell.side = "SELL"
          /\ buy.symbol = t.symbol /\ sell.symbol = t.symbol
          /\ buy.type = "LIMIT" => t.price <= buy.price
          /\ sell.type = "LIMIT" => t.price >= sell.price

\* Nobody trades at a price worse than the limit they set (the break in
\* match_buy and match_sell), with the wrong side or in another symbol.
TradesWithinLimits ==
    \A i \in DOMAIN trade_queue : WithinLimits(trade_queue[i])

\* Of the two orders of a trade the one that arrived first was on the book.
Maker(t) == Lesser(t.buy_order_id, t.sell_order_id)
Taker(t) == IF Maker(t) = t.buy_order_id THEN t.sell_order_id
                                         ELSE t.buy_order_id

\* Price-time priority (the comparators of OrderBook.hpp): an order that still
\* rests, and already did when an incoming order traded with another one of its
\* side, does not outrank that other one.
PricePriority ==
    \A s \in Symbol, side \in Side : \A o \in book[s][side] :
        \A i \in DOMAIN trade_queue :
            LET t == trade_queue[i] IN
            (/\ t.symbol = s
             /\ arrived[Maker(t)].side = side
             /\ o.id < Taker(t)) => ~Outranks(side, o, arrived[Maker(t)])

\* What order id has traded: each of its fills is in the trade queue twice.
Traded(id) ==
    SumFunctionOnSet([i \in DOMAIN trade_queue |-> trade_queue[i].quantity],
                     {i \in DOMAIN trade_queue :
                         id \in {trade_queue[i].buy_order_id,
                                 trade_queue[i].sell_order_id}}) \div 2

\* No share is created, lost or traded twice: an order is at most once on the
\* book or in the engine's hands, and then the trades say what it has filled; a
\* LIMIT order that is neither has traded its whole quantity, and a MARKET order
\* never more than it asked for.
SharesConserved ==
    \A id \in DOMAIN arrived :
        LET o == arrived[id]
            asked == IF o.quantity > 0 THEN o.quantity ELSE 0
            open == {r \in book[o.symbol][o.side] \cup ({cur} \ {NoOrder}) :
                        r.id = id}
        IN /\ Cardinality(open) <= 1
           /\ Traded(id) <= asked
           /\ \A r \in open : Traded(id) = r.filled
           /\ open = {} /\ o.type = "LIMIT" => Traded(id) = asked

=============================================================================
