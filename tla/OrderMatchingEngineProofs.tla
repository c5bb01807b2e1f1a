--------------------- MODULE OrderMatchingEngineProofs ---------------------
(***************************************************************************)
(* Theorems about OrderMatchingEngine, for every set of producers, symbols,*)
(* prices and quantities and all bounds.                                   *)
(***************************************************************************)
EXTENDS OrderMatchingEngine, Sums, SequenceTheorems

-----------------------------------------------------------------------------
(* The order book *)

\* A side of a book that is not empty has a top: the orders that outrank an
\* order are finitely many and fewer for each of them.
LEMMA TopExists ==
  ASSUME NEW side \in Side, NEW S, IsFiniteSet(S), S # {},
         \A o \in S : o.price \in Int /\ o.timestamp \in Nat
  PROVE  Top(side, S) # {}
  <1> DEFINE Better(o) == {p \in S : Outranks(side, p, o)}
             T == {Better(o) : o \in S}
  <1>1. IsWellFoundedOn(StrictSubsetOrdering(S), FiniteSubsetsOf(S))
    BY FS_StrictSubsetOrderingWellFounded
  <1>2. T # {} /\ T \subseteq FiniteSubsetsOf(S)
    <2>1. FiniteSubsetsOf(S) = SUBSET S
      BY FS_FiniteSubsetsOfFinite
    <2>2. \A o \in S : Better(o) \in SUBSET S
      OBVIOUS
    <2>3. T \subseteq SUBSET S
      BY <2>2
    <2>4. PICK o \in S : TRUE
      OBVIOUS
    <2>5. Better(o) \in T
      OBVIOUS
    <2> HIDE DEF T
    <2> QED BY <2>1, <2>3, <2>5
  <1> HIDE DEF T
  <1>3. PICK least \in T :
           \A other \in T : <<other, least>> \notin StrictSubsetOrdering(S)
    BY <1>1, <1>2, WFMin
  <1>4. PICK o \in S : least = Better(o)
    BY DEF T
  <1>5. ASSUME NEW p \in S, Outranks(side, p, o)
        PROVE  FALSE
    <2>1. \A q \in S : Outranks(side, q, p) => Outranks(side, q, o)
      BY <1>5 DEF Outranks, Side
    <2>2. ~Outranks(side, p, p)
      BY DEF Outranks
    <2>3. Better(p) \subseteq Better(o) /\ p \in Better(o) /\ p \notin Better(p)
      BY <1>5, <2>1, <2>2
    <2>4. <<Better(p), Better(o)>> \in StrictSubsetOrdering(S)
      BY <2>3 DEF StrictSubsetOrdering
    <2>5. Better(p) \in T
      BY DEF T
    <2> QED BY <1>3, <1>4, <2>4, <2>5
  <1> QED BY <1>5 DEF Top

-----------------------------------------------------------------------------
(* The inductive invariant *)

\* Ids are given in the order of arrival.
IdsInOrder == order_counter = Len(arrived) + 1

BooksFinite == \A s \in Symbol, side \in Side : IsFiniteSet(book[s][side])

\* The order at hand is the last that arrived, with its fills; what rests came
\* before it.
CurArrivedLast ==
    pc = "match" =>
        /\ Len(arrived) > 0
        /\ cur.id = Len(arrived)
        /\ SameRequest(cur, arrived[cur.id])
        /\ \A s \in Symbol, side \in Side : \A o \in book[s][side] :
              o.id < cur.id

Inv ==
    /\ TypeOK
    /\ IdsInOrder
    /\ BooksFinite
    /\ CurArrivedLast
    /\ BookHoldsArrivals
    /\ NoCrossedBook
    /\ TradesWithinLimits
    /\ PricePriority

\* The empty engine satisfies the inductive invariant.
LEMMA InitInv == Init => Inv
  <1> SUFFICES ASSUME Init PROVE Inv
    OBVIOUS
  <1>1. \A s \in Symbol, side \in Side : book[s][side] = {}
    BY DEF Init
  <1>2. TypeOK
    <2>1. book \in [Symbol -> [Side -> SUBSET Order]]
      BY DEF Init
    <2>2. placing \in [Producer -> Order \cup {NoOrder}]
      BY DEF Init
    <2>3. /\ order_queue \in Seq(Order) /\ trade_queue \in Seq(Trade)
          /\ arrived \in Seq(Order)
      BY EmptySeq DEF Init
    <2>4. cur \in IF pc = "match" THEN Order ELSE {NoOrder}
      BY DEF Init
    <2>5. clock \in Nat /\ accepted \in Nat /\ order_counter \in Nat \ {0}
      BY DEF Init
    <2>6. queue_down \in BOOLEAN /\ shutdown \in BOOLEAN
      BY DEF Init
    <2>7. pc \in {"loop", "pop", "match", "stopped"}
      BY DEF Init
    <2> QED BY <2>1, <2>2, <2>3, <2>4, <2>5, <2>6, <2>7 DEF TypeOK
  <1>3. IdsInOrder /\ CurArrivedLast
    BY DEF Init, IdsInOrder, CurArrivedLast
  <1>4. BooksFinite
    BY <1>1, FS_EmptySet DEF BooksFinite
  <1>5. BookHoldsArrivals /\ NoCrossedBook /\ PricePriority
    BY <1>1 DEF BookHoldsArrivals, NoCrossedBook, PricePriority, Side
  <1>6. TradesWithinLimits
    BY DEF Init, TradesWithinLimits
  <1> QED BY <1>2, <1>3, <1>4, <1>5, <1>6 DEF Inv

-----------------------------------------------------------------------------
(* Fill: one iteration of a matching loop *)

\* The updated copy of a resting order, when quantity of it has been filled.
Grown(maker, quantity) == [maker EXCEPT !.filled = @ + quantity]

\* What a Fill does, in terms of the resting order it takes.
FillOf(maker, quantity) ==
    /\ maker \in Makers /\ Matching(maker)
    /\ quantity <= Remaining(cur) /\ quantity <= Remaining(maker)
    /\ trade_queue' = Append(Append(trade_queue,
                                    MakeTrade(cur, maker, quantity)),
                             MakeTrade(cur, maker, quantity))
    /\ cur' = [cur EXCEPT !.filled = @ + quantity]
    /\ book' = [book EXCEPT ![cur.symbol][Opposite(cur.side)] =
                   UpdateTop(@, maker, Grown(maker, quantity))]

\* What a Fill does, unfolded: it takes a top order of the other side, grows
\* both orders by one positive quantity, and records the trade twice.
LEMMA FillTakesTop ==
  ASSUME Inv, Fill
  PROVE  /\ pc = "match" /\ cur \in Order
         /\ cur.symbol \in Symbol /\ cur.side \in Side
         /\ Opposite(cur.side) \in Side
         /\ Makers \subseteq Order
         /\ \E maker \in Makers, quantity \in Nat \ {0} : FillOf(maker, quantity)
  <1>1. pc = "match" /\ cur \in Order
    BY DEF Inv, TypeOK, Fill
  <1>2. cur.symbol \in Symbol /\ cur.side \in Side /\ Opposite(cur.side) \in Side
    BY <1>1 DEF Order, Side, Opposite
  <1>3. Makers \subseteq Order
    BY <1>2 DEF Inv, TypeOK, Makers
  <1>4. PICK maker \in Best : /\ Matching(maker)
          /\ LET quantity == Lesser(Remaining(cur), Remaining(maker))
                 trade == MakeTrade(cur, maker, quantity)
             IN /\ trade_queue' = Append(Append(trade_queue, trade), trade)
                /\ cur' = [cur EXCEPT !.filled = @ + quantity]
                /\ book' = [book EXCEPT ![cur.symbol][Opposite(cur.side)] =
                       UpdateTop(@, maker, [maker EXCEPT !.filled = @ + quantity])]
    BY DEF Fill
  <1>5. maker \in Makers
    BY DEF Best, Top
  <1>6. Remaining(maker) > 0
    BY <1>2, <1>5 DEF Inv, BookHoldsArrivals, Makers
  <1>7. Remaining(cur) \in Int /\ Remaining(maker) \in Int
    BY <1>1, <1>3, <1>5 DEF Order, Remaining
  <1> DEFINE quantity == Lesser(Remaining(cur), Remaining(maker))
  <1>8. /\ quantity \in Nat \ {0}
        /\ quantity <= Remaining(cur) /\ quantity <= Remaining(maker)
    BY <1>4, <1>6, <1>7 DEF Matching, Lesser
  <1>9. FillOf(maker, quantity)
    BY <1>4, <1>5, <1>8 DEF FillOf, Grown
  <1> QED BY <1>1, <1>2, <1>3, <1>5, <1>8, <1>9

\* A Fill keeps the types.
LEMMA FillType ==
  ASSUME Inv, Fill,
         NEW maker \in Makers, NEW quantity \in Nat \ {0}, FillOf(maker, quantity)
  PROVE  /\ TypeOK'
         /\ Grown(maker, quantity) \in Order
         /\ MakeTrade(cur, maker, quantity) \in Trade
         /\ \A s \in Symbol, side \in Side : book'[s][side] =
               IF s = cur.symbol /\ side = Opposite(cur.side)
               THEN UpdateTop(book[s][side], maker, Grown(maker, quantity))
               ELSE book[s][side]
  <1>1. /\ pc = "match" /\ cur \in Order /\ maker \in Order
        /\ cur.symbol \in Symbol /\ Opposite(cur.side) \in Side
    BY FillTakesTop
  <1>2. Grown(maker, quantity) \in Order /\ cur' \in Order
    <2>1. \A o \in Order : [o EXCEPT !.filled = @ + quantity] \in Order
      BY DEF Order
    <2> QED BY <1>1, <2>1 DEF Grown, FillOf
  <1>3. MakeTrade(cur, maker, quantity) \in Trade
    BY <1>1 DEF MakeTrade, Order, Trade
  <1>4. book \in [Symbol -> [Side -> SUBSET Order]]
    BY DEF Inv, TypeOK
  <1>5. \A orders \in SUBSET Order :
           UpdateTop(orders, maker, Grown(maker, quantity)) \in SUBSET Order
    BY <1>2 DEF UpdateTop
  <1> HIDE DEF Order
  <1>6. book' \in [Symbol -> [Side -> SUBSET Order]]
    BY <1>1, <1>4, <1>5 DEF FillOf
  <1>7. \A s \in Symbol, side \in Side : book'[s][side] =
           IF s = cur.symbol /\ side = Opposite(cur.side)
           THEN UpdateTop(book[s][side], maker, Grown(maker, quantity))
           ELSE book[s][side]
    BY <1>1, <1>4 DEF FillOf
  <1>8. trade_queue' \in Seq(Trade)
    BY <1>3, AppendProperties DEF Inv, TypeOK, FillOf
  <1>9. TypeOK'
    BY <1>1, <1>2, <1>6, <1>8 DEF Inv, TypeOK, Fill, placers
  <1> QED BY <1>2, <1>3, <1>7, <1>9

\* An order on the book after a Fill was there before it, filled less or as much.
LEMMA FillKeepsOrders ==
  ASSUME Inv, Fill,
         NEW maker \in Makers, NEW quantity \in Nat \ {0}, FillOf(maker, quantity),
         NEW s \in Symbol, NEW side \in Side, NEW o \in book'[s][side]
  PROVE  \E old \in book[s][side] :
            /\ SameRequest(o, old) /\ o.id = old.id
            /\ o \in Order /\ old \in Order
            /\ Remaining(o) > 0
  <1>1. book[s][side] \subseteq Order
    BY DEF Inv, TypeOK
  <1>2. CASE o \in book[s][side]
    <2>1. o \in Order /\ Remaining(o) > 0
      BY <1>1, <1>2 DEF Inv, BookHoldsArrivals
    <2>2. SameRequest(o, o)
      BY DEF SameRequest
    <2> QED BY <1>2, <2>1, <2>2
  <1>3. CASE o \notin book[s][side]
    <2>1. /\ s = cur.symbol /\ side = Opposite(cur.side)
          /\ o = Grown(maker, quantity) /\ Remaining(o) > 0
      <3>1. book'[s][side] =
               IF s = cur.symbol /\ side = Opposite(cur.side)
               THEN UpdateTop(book[s][side], maker, Grown(maker, quantity))
               ELSE book[s][side]
        BY FillType
      <3> QED BY <1>3, <3>1 DEF UpdateTop
    <2>2. maker \in book[s][side] /\ maker \in Order /\ o \in Order
      BY <1>1, <2>1, FillType DEF Makers
    <2>3. SameRequest(o, maker) /\ o.id = maker.id
      BY <2>1, <2>2 DEF Grown, Order, SameRequest
    <2> QED BY <2>1, <2>2, <2>3
  <1> QED BY <1>2, <1>3

\* The trades after a Fill: those before it and two copies of the new one.
LEMMA FillTrades ==
  ASSUME Inv, Fill,
         NEW maker \in Makers, NEW quantity \in Nat \ {0}, FillOf(maker, quantity),
         NEW i \in DOMAIN trade_queue'
  PROVE  \/ i \in DOMAIN trade_queue /\ trade_queue'[i] = trade_queue[i]
         \/ trade_queue'[i] = MakeTrade(cur, maker, quantity)
  <1> DEFINE trade == MakeTrade(cur, maker, quantity)
             once == Append(trade_queue, trade)
  <1>1. trade_queue \in Seq(Trade) /\ trade \in Trade
    BY FillType DEF Inv, TypeOK
  <1> HIDE DEF trade
  <1>2. once \in Seq(Trade) /\ Len(once) = Len(trade_queue) + 1
    BY <1>1
  <1>3. trade_queue' = Append(once, trade)
    BY DEF FillOf, trade
  <1>4. \/ i \in 1..Len(trade_queue) \/ i = Len(trade_queue) + 1
        \/ i = Len(trade_queue) + 2
    BY <1>1, <1>2, <1>3
  <1>5. CASE i \in 1..Len(trade_queue)
    BY <1>1, <1>2, <1>3, <1>5
  <1>6. CASE i > Len(trade_queue)
    BY <1>1, <1>2, <1>3, <1>4, <1>6 DEF trade
  <1> QED BY <1>1, <1>4, <1>5, <1>6

\* A Fill keeps the inductive invariant.
LEMMA FillInv == Inv /\ Fill => Inv'
  <1> SUFFICES ASSUME Inv, Fill PROVE Inv'
    OBVIOUS
  <1>1. PICK maker \in Makers, quantity \in Nat \ {0} : FillOf(maker, quantity)
    BY FillTakesTop
  <1> DEFINE trade == MakeTrade(cur, maker, quantity)
             opposite == Opposite(cur.side)
  <1>2. /\ pc = "match" /\ pc' = "match" /\ cur \in Order /\ cur' \in Order
        /\ cur.symbol \in Symbol /\ cur.side \in Side /\ opposite \in Side
        /\ maker \in Order /\ maker \in book[cur.symbol][opposite]
        /\ cur' = [cur EXCEPT !.filled = @ + quantity]
        /\ UNCHANGED <<arrived, order_counter>>
    <2>1. TypeOK'
      BY <1>1, FillType
    <2> QED BY <1>1, <2>1, FillTakesTop DEF Fill, FillOf, Makers, TypeOK
  <1>3. \A s \in Symbol, side \in Side : book[s][side] \subseteq Order
    BY DEF Inv, TypeOK
  \* The two orders of the new trade.
  <1>4. /\ cur.id = Len(arrived) /\ cur.id \in DOMAIN arrived
        /\ SameRequest(cur, arrived[cur.id])
    BY <1>2 DEF Inv, TypeOK, CurArrivedLast
  <1>5. /\ maker.id < cur.id /\ maker.id \in DOMAIN arrived
        /\ maker.symbol = cur.symbol /\ maker.side = opposite
        /\ maker.type = "LIMIT"
        /\ SameRequest(maker, arrived[maker.id])
    BY <1>2 DEF Inv, CurArrivedLast, BookHoldsArrivals
  <1>6. /\ cur.id \in Nat /\ maker.id \in Nat
        /\ cur.price \in Int /\ maker.price \in Int
    BY <1>2 DEF Order
  <1>7. /\ trade.buy_order_id = IF cur.side = "BUY" THEN cur.id ELSE maker.id
        /\ trade.sell_order_id = IF cur.side = "BUY" THEN maker.id ELSE cur.id
        /\ trade.symbol = cur.symbol /\ trade.price = maker.price
    BY DEF MakeTrade
  <1>t. \A i \in DOMAIN trade_queue' :
           \/ i \in DOMAIN trade_queue /\ trade_queue'[i] = trade_queue[i]
           \/ trade_queue'[i] = trade
    BY <1>1, FillTrades
  <1> HIDE DEF trade
  <1>8. TypeOK'
    BY <1>1, FillType
  <1>9. IdsInOrder'
    BY <1>2 DEF Inv, IdsInOrder
  <1>10. BooksFinite'
    <2> SUFFICES ASSUME NEW s \in Symbol, NEW side \in Side
                 PROVE  IsFiniteSet(book'[s][side])
      BY DEF BooksFinite
    <2>1. book'[s][side] \subseteq book[s][side] \cup {Grown(maker, quantity)}
      <3>1. book'[s][side] = IF s = cur.symbol /\ side = opposite
                 THEN UpdateTop(book[s][side], maker, Grown(maker, quantity))
                 ELSE book[s][side]
        BY <1>1, FillType
      <3> QED BY <3>1 DEF UpdateTop
    <2>2. IsFiniteSet(book[s][side] \cup {Grown(maker, quantity)})
      BY FS_AddElement DEF Inv, BooksFinite
    <2> QED BY <2>1, <2>2, FS_Subset
  <1>11. CurArrivedLast'
    <2>1. SameRequest(cur', arrived[cur'.id]) /\ cur'.id = cur.id
      BY <1>2, <1>4 DEF Order, SameRequest
    <2>2. ASSUME NEW s \in Symbol, NEW side \in Side, NEW o \in book'[s][side]
          PROVE  o.id < cur'.id
      <3>1. PICK old \in book[s][side] :
               SameRequest(o, old) /\ o.id = old.id
        BY <1>1, FillKeepsOrders
      <3>2. old.id < cur.id
        BY <1>2 DEF Inv, CurArrivedLast
      <3> QED BY <2>1, <3>1, <3>2
    <2>3. Len(arrived) > 0
      BY <1>2 DEF Inv, CurArrivedLast
    <2> QED BY <1>2, <1>4, <2>1, <2>2, <2>3 DEF CurArrivedLast
  <1>12. BookHoldsArrivals'
    <2> SUFFICES ASSUME NEW s \in Symbol, NEW side \in Side, NEW o \in book'[s][side]
                 PROVE  /\ o.symbol = s /\ o.side = side
                        /\ o.type = "LIMIT" /\ Remaining(o) > 0
                        /\ o.id \in DOMAIN arrived
                        /\ SameRequest(o, arrived[o.id])
      BY <1>2 DEF BookHoldsArrivals
    <2>1. PICK old \in book[s][side] :
             SameRequest(o, old) /\ o.id = old.id /\ Remaining(o) > 0
      BY <1>1, FillKeepsOrders
    <2>2. /\ old.symbol = s /\ old.side = side /\ old.type = "LIMIT"
          /\ old.id \in DOMAIN arrived
          /\ SameRequest(old, arrived[old.id])
      BY DEF Inv, BookHoldsArrivals
    <2> QED BY <2>1, <2>2 DEF SameRequest
  <1>13. NoCrossedBook'
    <2> SUFFICES ASSUME NEW s \in Symbol, NEW bid \in book'[s]["BUY"],
                        NEW ask \in book'[s]["SELL"]
                 PROVE  bid.price < ask.price
      BY DEF NoCrossedBook
    <2>1. PICK b \in book[s]["BUY"] :
             SameRequest(bid, b)
      BY <1>1, FillKeepsOrders DEF Side
    <2>2. PICK a \in book[s]["SELL"] :
             SameRequest(ask, a)
      BY <1>1, FillKeepsOrders DEF Side
    <2>3. b.price < a.price
      BY DEF Inv, NoCrossedBook
    <2> QED BY <2>1, <2>2, <2>3 DEF SameRequest
  <1>14. TradesWithinLimits'
    <2> SUFFICES ASSUME NEW i \in DOMAIN trade_queue'
                 PROVE  WithinLimits(trade_queue[i])'
      BY DEF TradesWithinLimits
    <2>1. CASE i \in DOMAIN trade_queue /\ trade_queue'[i] = trade_queue[i]
      <3>1. WithinLimits(trade_queue[i])
        BY <2>1 DEF Inv, TradesWithinLimits
      <3> QED BY <1>2, <2>1, <3>1 DEF WithinLimits
    <2>2. CASE trade_queue'[i] = trade
      <3>1. Acceptable(cur, maker)
        BY <1>1 DEF FillOf, Matching
      <3>2. WithinLimits(trade)
        <4>1. CASE cur.side = "BUY"
          <5>1. trade.buy_order_id = cur.id /\ trade.sell_order_id = maker.id
            BY <1>7, <4>1
          <5>2. maker.side = "SELL"
            BY <1>5, <4>1 DEF Opposite
          <5>3. cur.type = "LIMIT" => maker.price <= cur.price
            BY <3>1, <4>1 DEF Acceptable
          <5>4. /\ arrived[cur.id].side = "BUY"
                /\ arrived[maker.id].side = "SELL"
            BY <1>4, <1>5, <4>1, <5>2 DEF SameRequest
          <5>5. /\ arrived[cur.id].symbol = trade.symbol
                /\ arrived[maker.id].symbol = trade.symbol
            BY <1>4, <1>5, <1>7 DEF SameRequest
          <5>6. arrived[cur.id].type = "LIMIT" => trade.price <= arrived[cur.id].price
            BY <1>4, <1>6, <1>7, <5>3 DEF SameRequest
          <5>7. trade.price >= arrived[maker.id].price
            BY <1>5, <1>6, <1>7 DEF SameRequest
          <5> QED BY <1>4, <1>5, <5>1, <5>4, <5>5, <5>6, <5>7 DEF WithinLimits
        <4>2. CASE cur.side = "SELL"
          <5>1. trade.buy_order_id = maker.id /\ trade.sell_order_id = cur.id
            BY <1>7, <4>2
          <5>2. maker.side = "BUY"
            BY <1>5, <4>2 DEF Opposite
          <5>3. cur.type = "LIMIT" => maker.price >= cur.price
            BY <3>1, <4>2 DEF Acceptable
          <5>4. /\ arrived[maker.id].side = "BUY"
                /\ arrived[cur.id].side = "SELL"
            BY <1>4, <1>5, <4>2, <5>2 DEF SameRequest
          <5>5. /\ arrived[cur.id].symbol = trade.symbol
                /\ arrived[maker.id].symbol = trade.symbol
            BY <1>4, <1>5, <1>7 DEF SameRequest
          <5>6. arrived[cur.id].type = "LIMIT" => trade.price >= arrived[cur.id].price
            BY <1>4, <1>6, <1>7, <5>3 DEF SameRequest
          <5>7. trade.price <= arrived[maker.id].price
            BY <1>5, <1>6, <1>7 DEF SameRequest
          <5> QED BY <1>4, <1>5, <5>1, <5>4, <5>5, <5>6, <5>7 DEF WithinLimits
        <4> QED BY <1>2, <4>1, <4>2 DEF Side
      <3> QED BY <1>2, <2>2, <3>2 DEF WithinLimits
    <2> QED BY <1>t, <2>1, <2>2
  <1>15. PricePriority'
    <2> SUFFICES ASSUME NEW s \in Symbol, NEW side \in Side, NEW o \in book'[s][side],
                        NEW i \in DOMAIN trade_queue',
                        trade_queue'[i].symbol = s,
                        arrived[Maker(trade_queue'[i])].side = side,
                        o.id < Taker(trade_queue'[i])
                 PROVE  ~Outranks(side, o, arrived[Maker(trade_queue'[i])])
      BY <1>2 DEF PricePriority
    <2>1. PICK old \in book[s][side] :
             SameRequest(o, old) /\ o.id = old.id
      BY <1>1, FillKeepsOrders
    <2>2. o.id = old.id /\ o.price = old.price /\ o.timestamp = old.timestamp
      BY <2>1 DEF SameRequest
    <2>3. CASE i \in DOMAIN trade_queue /\ trade_queue'[i] = trade_queue[i]
      <3>1. ~Outranks(side, old, arrived[Maker(trade_queue[i])])
        BY <2>2, <2>3 DEF Inv, PricePriority
      <3> QED BY <2>2, <2>3, <3>1 DEF Outranks
    <2>4. CASE trade_queue'[i] = trade
      <3>1. Maker(trade) = maker.id
        BY <1>5, <1>6, <1>7 DEF Maker, Lesser
      <3>2. s = cur.symbol /\ side = opposite
        BY <1>5, <1>7, <2>4, <3>1 DEF SameRequest
      <3>3. maker \in Top(opposite, book[cur.symbol][opposite])
        BY <1>1 DEF FillOf, Matching, Best, Makers
      <3>4. ~Outranks(side, old, maker)
        BY <3>2, <3>3 DEF Top
      <3> QED BY <1>5, <2>2, <2>4, <3>1, <3>4 DEF Outranks, SameRequest
    <2> QED BY <1>t, <2>3, <2>4
  <1> QED BY <1>8, <1>9, <1>10, <1>11, <1>12, <1>13, <1>14, <1>15 DEF Inv

-----------------------------------------------------------------------------
(* TakeOrder: the next order is popped and gets its id *)

\* Taking an order keeps the inductive invariant: its id is new.
LEMMA TakeOrderInv == Inv /\ TakeOrder => Inv'
  <1> SUFFICES ASSUME Inv, TakeOrder PROVE Inv'
    OBVIOUS
  <1> DEFINE head == Head(order_queue)
  <1>1. head \in Order /\ Tail(order_queue) \in Seq(Order)
    BY HeadTailProperties DEF Inv, TypeOK, TakeOrder
  <1>2. /\ arrived \in Seq(Order) /\ arrived' = Append(arrived, head)
        /\ Len(arrived') = Len(arrived) + 1
        /\ DOMAIN arrived' = 1..Len(arrived) + 1 /\ DOMAIN arrived = 1..Len(arrived)
        /\ arrived'[Len(arrived) + 1] = head
        /\ \A id \in DOMAIN arrived : arrived'[id] = arrived[id]
    BY <1>1 DEF Inv, TypeOK, TakeOrder
  <1>3. /\ cur' = [head EXCEPT !.id = Len(arrived) + 1]
        /\ cur' \in Order /\ cur'.id = Len(arrived) + 1
        /\ SameRequest(cur', head)
    <2>1. order_counter = Len(arrived) + 1 /\ Len(arrived) + 1 \in Nat
      BY <1>2 DEF Inv, IdsInOrder
    <2>2. cur' = [head EXCEPT !.id = Len(arrived) + 1]
      BY <2>1 DEF TakeOrder
    <2> QED BY <1>1, <2>1, <2>2 DEF Order, SameRequest
  <1>4. pc' = "match" /\ UNCHANGED <<book, trade_queue>>
    BY DEF TakeOrder
  <1>5. TypeOK'
    BY <1>1, <1>2, <1>3, <1>4, AppendProperties
       DEF Inv, TypeOK, TakeOrder, placers
  <1>6. IdsInOrder'
    BY <1>2 DEF Inv, TypeOK, IdsInOrder, TakeOrder
  <1>7. BooksFinite'
    BY <1>4 DEF Inv, BooksFinite
  <1>8. BookHoldsArrivals'
    BY <1>2, <1>4 DEF Inv, BookHoldsArrivals
  <1>9. CurArrivedLast'
    <2>1. ASSUME NEW s \in Symbol, NEW side \in Side, NEW o \in book[s][side]
          PROVE  o.id < cur'.id
      <3>1. o.id \in DOMAIN arrived
        BY DEF Inv, BookHoldsArrivals
      <3> QED BY <1>2, <1>3, <3>1
    <2> QED BY <1>2, <1>3, <1>4, <2>1 DEF CurArrivedLast
  <1>10. NoCrossedBook'
    BY <1>4 DEF Inv, NoCrossedBook
  \* The orders of the trades are among those that arrived before.
  <1>11. ASSUME NEW i \in DOMAIN trade_queue
         PROVE  /\ WithinLimits(trade_queue[i])
                /\ trade_queue[i].buy_order_id \in DOMAIN arrived
                /\ trade_queue[i].sell_order_id \in DOMAIN arrived
                /\ Maker(trade_queue[i]) \in DOMAIN arrived
    <2>1. WithinLimits(trade_queue[i])
      BY DEF Inv, TradesWithinLimits
    <2> QED BY <2>1 DEF WithinLimits, Maker, Lesser
  <1>12. TradesWithinLimits'
    <2> SUFFICES ASSUME NEW i \in DOMAIN trade_queue
                 PROVE  WithinLimits(trade_queue[i])'
      BY <1>4 DEF TradesWithinLimits
    <2> QED BY <1>2, <1>4, <1>11 DEF WithinLimits
  <1>13. PricePriority'
    BY <1>2, <1>4, <1>11 DEF Inv, PricePriority
  <1> QED
    BY <1>5, <1>6, <1>7, <1>8, <1>9, <1>10, <1>12, <1>13 DEF Inv

-----------------------------------------------------------------------------
(* Finish: the end of a matching loop *)

\* When the loop has ended with a LIMIT order unfilled, no resting order of the
\* other side has a price it accepts: the best of them has not.
LEMMA NothingToMatch ==
  ASSUME Inv, Finish, cur.type = "LIMIT", Remaining(cur) > 0,
         NEW o \in Makers
  PROVE  ~Acceptable(cur, o)
  <1>1. /\ cur \in Order /\ cur.symbol \in Symbol /\ cur.side \in Side
        /\ Opposite(cur.side) \in Side
    <2>1. cur \in Order
      BY DEF Inv, TypeOK, Finish
    <2> QED BY <2>1 DEF Order, Side, Opposite
  <1>2. Makers \subseteq Order /\ IsFiniteSet(Makers)
    BY <1>1 DEF Inv, TypeOK, BooksFinite, Makers
  <1>3. \A p \in Makers : p.price \in Int /\ p.timestamp \in Nat
    BY <1>2 DEF Order
  <1>4. Best # {}
    BY <1>1, <1>2, <1>3, TopExists DEF Best
  <1>5. PICK best \in Best : ~Acceptable(cur, best)
    BY <1>4 DEF Finish, Matching
  <1>6. ~Outranks(Opposite(cur.side), o, best) /\ best \in Makers
    BY DEF Best, Top
  <1>7. cur.price \in Int
    BY <1>1 DEF Order
  <1> QED
    BY <1>1, <1>3, <1>5, <1>6, <1>7 DEF Acceptable, Outranks, Opposite, Side

\* The end of a matching loop keeps the inductive invariant, also when what
\* remains of the order goes to the book.
LEMMA FinishInv == Inv /\ Finish => Inv'
  <1> SUFFICES ASSUME Inv, Finish PROVE Inv'
    OBVIOUS
  <1> DEFINE rests == cur.type = "LIMIT" /\ Remaining(cur) > 0
  <1>1. /\ pc = "match" /\ pc' = "loop" /\ cur \in Order /\ cur' = NoOrder
        /\ cur.symbol \in Symbol /\ cur.side \in Side
        /\ UNCHANGED <<placers, order_queue, queue_down, shutdown,
                       order_counter, trade_queue, arrived>>
    <2>1. cur \in Order
      BY DEF Inv, TypeOK, Finish
    <2> QED BY <2>1 DEF Finish, Order
  <1>2. book \in [Symbol -> [Side -> SUBSET Order]]
    BY DEF Inv, TypeOK
  <1>3. /\ book' \in [Symbol -> [Side -> SUBSET Order]]
        /\ \A s \in Symbol, side \in Side : book'[s][side] =
              IF rests /\ s = cur.symbol /\ side = cur.side
              THEN book[s][side] \cup {cur}
              ELSE book[s][side]
    <2>1. CASE rests
      BY <1>1, <1>2, <2>1 DEF Finish, AddOrder
    <2>2. CASE ~rests
      BY <1>1, <1>2, <2>2 DEF Finish
    <2> QED BY <2>1, <2>2
  \* cur as it comes to rest
  <1>4. /\ cur.id = Len(arrived) /\ cur.id \in DOMAIN arrived
        /\ SameRequest(cur, arrived[cur.id])
    BY <1>1 DEF Inv, TypeOK, CurArrivedLast
  <1> HIDE DEF rests
  <1>5. \A s \in Symbol, side \in Side : \A o \in book'[s][side] :
           \/ o \in book[s][side]
           \/ rests /\ o = cur /\ s = cur.symbol /\ side = cur.side
    <2> TAKE s \in Symbol, side \in Side
    <2>1. CASE rests /\ s = cur.symbol /\ side = cur.side
      <3>1. book'[s][side] = book[s][side] \cup {cur}
        BY <1>3, <2>1
      <3> QED BY <2>1, <3>1
    <2>2. CASE ~(rests /\ s = cur.symbol /\ side = cur.side)
      <3>1. book'[s][side] = book[s][side]
        BY <1>3, <2>2
      <3> QED BY <3>1
    <2> QED BY <2>1, <2>2
  <1>6. TypeOK'
    BY <1>1, <1>3 DEF Inv, TypeOK, placers
  <1>7. IdsInOrder' /\ CurArrivedLast'
    BY <1>1 DEF Inv, IdsInOrder, CurArrivedLast
  <1>8. BooksFinite'
    <2> SUFFICES ASSUME NEW s \in Symbol, NEW side \in Side
                 PROVE  IsFiniteSet(book'[s][side])
      BY DEF BooksFinite
    <2>1. IsFiniteSet(book[s][side]) /\ IsFiniteSet(book[s][side] \cup {cur})
      BY FS_AddElement DEF Inv, BooksFinite
    <2> QED BY <1>3, <2>1
  <1>9. BookHoldsArrivals'
    BY <1>1, <1>4, <1>5 DEF Inv, BookHoldsArrivals, rests
  <1>10. NoCrossedBook'
    <2> SUFFICES ASSUME NEW s \in Symbol, NEW bid \in book'[s]["BUY"],
                        NEW ask \in book'[s]["SELL"]
                 PROVE  bid.price < ask.price
      BY DEF NoCrossedBook
    <2>1. bid.price \in Int /\ ask.price \in Int
      <3>1. bid \in Order /\ ask \in Order
        BY <1>3 DEF Side
      <3> QED BY <3>1 DEF Order
    <2>2. CASE bid \in book[s]["BUY"] /\ ask \in book[s]["SELL"]
      BY <2>2 DEF Inv, NoCrossedBook
    <2>3. CASE rests /\ bid = cur /\ s = cur.symbol /\ cur.side = "BUY"
               /\ ask \in book[s]["SELL"]
      <3>1. ask \in Makers
        BY <2>3 DEF Makers, Opposite
      <3>2. ~Acceptable(cur, ask)
        BY <2>3, <3>1, NothingToMatch DEF rests
      <3> QED BY <2>1, <2>3, <3>2 DEF Acceptable
    <2>4. CASE rests /\ ask = cur /\ s = cur.symbol /\ cur.side = "SELL"
               /\ bid \in book[s]["BUY"]
      <3>1. bid \in Makers
        BY <2>4 DEF Makers, Opposite
      <3>2. ~Acceptable(cur, bid)
        BY <2>4, <3>1, NothingToMatch DEF rests
      <3> QED BY <2>1, <2>4, <3>2 DEF Acceptable
    <2> QED BY <1>5, <2>2, <2>3, <2>4 DEF Side
  <1>11. TradesWithinLimits'
    <2>1. \A i \in DOMAIN trade_queue : WithinLimits(trade_queue[i])'
      BY <1>1 DEF Inv, TradesWithinLimits, WithinLimits
    <2> QED BY <1>1, <2>1 DEF TradesWithinLimits
  <1>12. PricePriority'
    <2> SUFFICES ASSUME NEW s \in Symbol, NEW side \in Side, NEW o \in book'[s][side],
                        NEW i \in DOMAIN trade_queue,
                        trade_queue[i].symbol = s,
                        arrived[Maker(trade_queue[i])].side = side,
                        o.id < Taker(trade_queue[i])
                 PROVE  ~Outranks(side, o, arrived[Maker(trade_queue[i])])
      BY <1>1 DEF PricePriority
    <2>1. CASE o \in book[s][side]
      BY <2>1 DEF Inv, PricePriority
    <2>2. CASE o = cur
      \* No trade has a taker that arrived after cur.
      <3>1. WithinLimits(trade_queue[i])
        BY DEF Inv, TradesWithinLimits
      <3>2. Taker(trade_queue[i]) \in 1..Len(arrived)
        BY <3>1 DEF WithinLimits, Taker, Inv, TypeOK
      <3> QED BY <1>4, <2>2, <3>2
    <2> QED BY <1>5, <2>1, <2>2
  <1> QED
    BY <1>6, <1>7, <1>8, <1>9, <1>10, <1>11, <1>12 DEF Inv

-----------------------------------------------------------------------------
(* The other steps, and the theorems *)

\* Placing orders, shutting down and idling leave the books, the trades and the
\* order at hand alone.
LEMMA OtherStepInv ==
  ASSUME Inv, UNCHANGED engine, TypeOK', pc' = "match" => pc = "match"
  PROVE  Inv'
  <1> USE DEF engine
  <1>1. IdsInOrder' /\ BooksFinite' /\ BookHoldsArrivals' /\ NoCrossedBook'
    BY DEF Inv, IdsInOrder, BooksFinite, BookHoldsArrivals, NoCrossedBook
  <1>2. CurArrivedLast'
    BY DEF Inv, CurArrivedLast
  <1>3. TradesWithinLimits' /\ PricePriority'
    BY DEF Inv, TradesWithinLimits, WithinLimits, PricePriority
  <1> QED BY <1>1, <1>2, <1>3 DEF Inv

\* Every step keeps the inductive invariant.
LEMMA StepInv == Inv /\ [Next]_vars => Inv'
  <1> SUFFICES ASSUME Inv, [Next]_vars PROVE Inv'
    OBVIOUS
  <1>t. TypeOK
    BY DEF Inv
  <1>1. ASSUME NEW p \in Producer, NEW s \in Symbol, NEW type \in OrderType,
               NEW side \in Side, NEW price \in Price, NEW quantity \in Quantity,
               MakeOrder(p, s, type, side, price, quantity)
        PROVE  Inv'
    <2> DEFINE o == [id |-> 0, symbol |-> s, type |-> type, side |-> side,
                     price |-> IF type = "MARKET" THEN 0 ELSE price,
                     quantity |-> quantity, filled |-> 0, timestamp |-> clock]
    <2>1. o \in Order
      <3>1. price \in Int /\ quantity \in Int /\ clock \in Nat
        BY <1>t, EngineAssumption DEF TypeOK
      <3> QED BY <3>1 DEF Order
    <2>2. placing' = [placing EXCEPT ![p] = o]
      BY <1>1 DEF MakeOrder
    <2> HIDE DEF o
    <2>3. placing' \in [Producer -> Order \cup {NoOrder}]
      BY <1>t, <2>1, <2>2 DEF TypeOK
    <2>4. clock' \in Nat
      BY <1>1, <1>t DEF MakeOrder, TypeOK
    <2>5. TypeOK'
      BY <1>1, <1>t, <2>3, <2>4 DEF MakeOrder, TypeOK, engine
    <2> QED BY <1>1, <2>5, OtherStepInv DEF MakeOrder
  <1>2. ASSUME NEW p \in Producer, PushOrder(p) PROVE Inv'
    <2>1. placing[p] \in Order
      BY <1>2, <1>t DEF PushOrder, TypeOK
    <2>2. order_queue' \in Seq(Order)
      BY <1>2, <1>t, <2>1, AppendProperties DEF PushOrder, TypeOK
    <2>3. TypeOK'
      BY <1>2, <1>t, <2>2 DEF PushOrder, TypeOK, engine
    <2> QED BY <1>2, <2>3, OtherStepInv DEF PushOrder
  <1>3. CASE CheckShutdown
    BY <1>3, <1>t, OtherStepInv DEF CheckShutdown, TypeOK, placers, engine
  <1>4. CASE PopNothing
    BY <1>4, <1>t, OtherStepInv DEF PopNothing, TypeOK, placers, engine
  <1>5. CASE ShutdownQueue
    BY <1>5, <1>t, OtherStepInv DEF ShutdownQueue, TypeOK, placers, engine
  <1>6. CASE Stop
    BY <1>6, <1>t, OtherStepInv DEF Stop, TypeOK, placers, engine
  <1>7. CASE UNCHANGED vars
    BY <1>7, <1>t, OtherStepInv DEF vars, TypeOK, placers, engine
  <1> QED
    BY <1>1, <1>2, <1>3, <1>4, <1>5, <1>6, <1>7, TakeOrderInv, FillInv, FinishInv
       DEF Next, EngineStep

-----------------------------------------------------------------------------
(* Shares *)

\* What has not been popped has not been filled.
Unfilled ==
    /\ \A p \in Producer : placing[p] # NoOrder => placing[p].filled = 0
    /\ \A i \in 1..Len(order_queue) : order_queue[i].filled = 0

Asked(o) == IF o.quantity > 0 THEN o.quantity ELSE 0

\* The copies of an order that are on the book or in the engine's hands.
Open(id) == {r \in book[arrived[id].symbol][arrived[id].side]
                     \cup ({cur} \ {NoOrder}) : r.id = id}

\* SharesConserved for one order.
Ledger(id) ==
    /\ \A r, q \in Open(id) : r = q
    /\ Traded(id) <= Asked(arrived[id])
    /\ \A r \in Open(id) : Traded(id) = r.filled
    /\ Open(id) = {} /\ arrived[id].type = "LIMIT" => Traded(id) = Asked(arrived[id])

Shares == Unfilled /\ \A id \in DOMAIN arrived : Ledger(id)

LEMMA TradedInt ==
  ASSUME NEW id, trade_queue \in Seq(Trade)
  PROVE  Traded(id) \in Int
  <1> DEFINE f == [i \in DOMAIN trade_queue |-> trade_queue[i].quantity]
             S == {i \in DOMAIN trade_queue :
                      id \in {trade_queue[i].buy_order_id,
                              trade_queue[i].sell_order_id}}
  <1>1. IsFiniteSet(1..Len(trade_queue))
    BY FS_Interval
  <1>2. S \in SUBSET (1..Len(trade_queue))
    OBVIOUS
  <1>3. IsFiniteSet(S)
    BY <1>1, <1>2, FS_Subset
  <1>4. \A i \in S : f[i] \in Int
    <2>1. \A i \in DOMAIN trade_queue : trade_queue[i] \in Trade
      OBVIOUS
    <2> QED BY <2>1 DEF Trade
  <1>5. SumFunctionOnSet(f, S) \in Int
    <2> HIDE DEF f, S
    <2> QED BY <1>3, <1>4, SumInt
  <1>6. Traded(id) = SumFunctionOnSet(f, S) \div 2
    BY DEF Traded
  <1> HIDE DEF f, S
  <1> QED BY <1>5, <1>6

\* Both copies of a trade together are its quantity, for its two orders.
LEMMA TradedGrows ==
  ASSUME trade_queue \in Seq(Trade), NEW t \in Trade,
         trade_queue' = Append(Append(trade_queue, t), t),
         NEW id
  PROVE  Traded(id)' = Traded(id) + IF id \in {t.buy_order_id, t.sell_order_id}
                                    THEN t.quantity ELSE 0
  <1> DEFINE n == Len(trade_queue)
             hit(i) == id \in {trade_queue[i].buy_order_id, trade_queue[i].sell_order_id}
             f == [i \in DOMAIN trade_queue |-> trade_queue[i].quantity]
             S == {i \in DOMAIN trade_queue :
                      id \in {trade_queue[i].buy_order_id,
                              trade_queue[i].sell_order_id}}
             g == [i \in DOMAIN trade_queue' |-> trade_queue'[i].quantity]
             R == {i \in DOMAIN trade_queue' :
                      id \in {trade_queue'[i].buy_order_id,
                              trade_queue'[i].sell_order_id}}
  <1>1. /\ n \in Nat /\ DOMAIN trade_queue = 1..n
        /\ DOMAIN trade_queue' = 1..(n + 2)
        /\ \A i \in 1..n : trade_queue'[i] = trade_queue[i] /\ trade_queue[i] \in Trade
        /\ trade_queue'[n + 1] = t /\ trade_queue'[n + 2] = t
    <2> DEFINE once == Append(trade_queue, t)
    <2>1. /\ once \in Seq(Trade) /\ Len(once) = n + 1 /\ n \in Nat
          /\ once[n + 1] = t
          /\ \A i \in 1..n : once[i] = trade_queue[i]
      OBVIOUS
    <2>2. trade_queue' = Append(once, t)
      OBVIOUS
    <2> HIDE DEF once, n
    <2>3. /\ Len(trade_queue') = n + 2 /\ trade_queue' \in Seq(Trade)
          /\ trade_queue'[n + 2] = t
          /\ \A i \in 1..(n + 1) : trade_queue'[i] = once[i]
      BY <2>1, <2>2
    <2>4. DOMAIN trade_queue = 1..n
      BY DEF n
    <2> QED BY <2>1, <2>3, <2>4
  <1>2. /\ Traded(id) = SumFunctionOnSet(f, S) \div 2
        /\ Traded(id)' = SumFunctionOnSet(g, R) \div 2
    BY DEF Traded
  <1>3. /\ S \in SUBSET (1..n) /\ IsFiniteSet(S)
        /\ \A i \in S : f[i] \in Int /\ g[i] = f[i]
        /\ t.quantity \in Int /\ g[n + 1] = t.quantity /\ g[n + 2] = t.quantity
    <2>1. IsFiniteSet(1..n) /\ S \in SUBSET (1..n)
      BY <1>1, FS_Interval
    <2>2. IsFiniteSet(S)
      BY <2>1, FS_Subset
    <2>3. \A i \in 1..n : trade_queue[i].quantity \in Int
      BY <1>1 DEF Trade
    <2>4. t.quantity \in Int
      BY DEF Trade
    <2>5. n + 1 \in 1..(n + 2) /\ n + 2 \in 1..(n + 2) /\ 1..n \subseteq 1..(n + 2)
      BY <1>1
    <2> HIDE DEF n
    <2> QED BY <1>1, <2>1, <2>2, <2>3, <2>4, <2>5
  <1>4. R = IF id \in {t.buy_order_id, t.sell_order_id}
            THEN (S \cup {n + 1}) \cup {n + 2} ELSE S
    <2>1. 1..(n + 2) = ((1..n) \cup {n + 1}) \cup {n + 2}
      BY <1>1
    <2> HIDE DEF n
    <2> QED BY <1>1, <2>1
  <1> HIDE DEF f, S, g, R, n
  <1>5. SumFunctionOnSet(g, S) = SumFunctionOnSet(f, S) /\ SumFunctionOnSet(f, S) \in Int
    BY <1>3, SumSame, SumInt
  <1>6. CASE id \in {t.buy_order_id, t.sell_order_id}
    <2>1. n + 1 \notin S /\ n + 2 \notin S \cup {n + 1}
      BY <1>1, <1>3
    <2>0. /\ IsFiniteSet(S)
          /\ \A y \in S \cup {n + 1} : g[y] \in Int
          /\ \A y \in (S \cup {n + 1}) \cup {n + 2} : g[y] \in Int
      BY <1>3
    <2>2. SumFunctionOnSet(g, S \cup {n + 1}) = SumFunctionOnSet(g, S) + g[n + 1]
      BY <2>0, <2>1, SumPutIn
    <2>3. IsFiniteSet(S \cup {n + 1})
      BY <1>3, FS_AddElement
    <2>4. SumFunctionOnSet(g, R) = SumFunctionOnSet(g, S \cup {n + 1}) + g[n + 2]
      BY <1>4, <1>6, <2>0, <2>1, <2>3, SumPutIn
    <2>5. SumFunctionOnSet(g, R) = SumFunctionOnSet(f, S) + 2 * t.quantity
      BY <1>3, <1>5, <2>2, <2>4
    <2>6. \A x, q \in Int : (x + 2 * q) \div 2 = (x \div 2) + q
      OBVIOUS
    <2> QED BY <1>2, <1>3, <1>5, <1>6, <2>5, <2>6
  <1>7. CASE id \notin {t.buy_order_id, t.sell_order_id}
    <2>1. Traded(id)' = Traded(id) /\ Traded(id) \in Int
      BY <1>2, <1>4, <1>5, <1>7, TradedInt
    <2> QED BY <1>7, <2>1
  <1> QED BY <1>6, <1>7

LEMMA InitShares == Init => Shares
  BY DEF Init, Shares, Unfilled

\* Steps that leave the trades, the books and the order at hand alone.
LEMMA OtherStepShares ==
  ASSUME Shares, UNCHANGED engine, Unfilled'
  PROVE  Shares'
  <1>1. \A id \in DOMAIN arrived : Ledger(id)' = Ledger(id)
    BY DEF engine, Ledger, Open, Traded
  <1>2. DOMAIN arrived' = DOMAIN arrived
    BY DEF engine
  <1> QED BY <1>1, <1>2 DEF Shares

\* An order that is taken has traded nothing, and is alone with its id.
LEMMA TakeOrderShares == Inv /\ Shares /\ TakeOrder => Shares'
  <1> SUFFICES ASSUME Inv, Shares, TakeOrder PROVE Shares'
    OBVIOUS
  <1> DEFINE head == Head(order_queue)
             new == Len(arrived) + 1
  <1>1. /\ arrived \in Seq(Order) /\ order_queue \in Seq(Order) /\ order_queue # <<>>
        /\ trade_queue \in Seq(Trade) /\ order_counter = new /\ pc = "pop"
        /\ cur = NoOrder
    BY DEF Inv, TypeOK, IdsInOrder, TakeOrder
  <1>2. /\ head \in Order /\ head.filled = 0
        /\ Len(Tail(order_queue)) = Len(order_queue) - 1
        /\ \A i \in 1..Len(Tail(order_queue)) : Tail(order_queue)[i] = order_queue[i + 1]
    <2>1. head = order_queue[1] /\ 1 \in 1..Len(order_queue)
      BY <1>1, HeadTailProperties
    <2>2. head.filled = 0
      BY <2>1 DEF Shares, Unfilled
    <2> QED BY <1>1, <2>2, HeadTailProperties
  <1>3. Unfilled'
    <2>1. order_queue' = Tail(order_queue) /\ placing' = placing
      BY DEF TakeOrder, placers
    <2>2. ASSUME NEW i \in 1..Len(Tail(order_queue))
          PROVE  Tail(order_queue)[i].filled = 0
      <3>1. i + 1 \in 1..Len(order_queue)
        BY <1>1, <1>2
      <3> QED BY <1>2, <3>1 DEF Shares, Unfilled
    <2> QED BY <2>1, <2>2 DEF Shares, Unfilled
  <1>4. /\ DOMAIN arrived' = DOMAIN arrived \cup {new} /\ new \notin DOMAIN arrived
        /\ \A id \in DOMAIN arrived : arrived'[id] = arrived[id]
        /\ arrived'[new] = head
    BY <1>1, <1>2 DEF TakeOrder
  <1>5. /\ UNCHANGED <<book, trade_queue>>
        /\ cur' = [head EXCEPT !.id = new]
        /\ cur'.id = new /\ cur'.filled = 0 /\ cur' # NoOrder
    <2>1. cur' = [head EXCEPT !.id = new] /\ UNCHANGED <<book, trade_queue>>
      BY <1>1 DEF TakeOrder
    <2>2. new \in Nat
      BY <1>1
    <2> HIDE DEF new, head
    <2>3. cur' \in Order /\ cur'.id = new /\ cur'.filled = 0
      BY <1>2, <2>1, <2>2 DEF Order
    <2> QED BY <2>1, <2>3, EngineAssumption
  <1>6. \A id : Traded(id)' = Traded(id)
    BY <1>5 DEF Traded
  <1> HIDE DEF new, head
  <1>7. ASSUME NEW id \in DOMAIN arrived
        PROVE  Ledger(id)'
    <2>1. id # new
      BY <1>4
    <2>2. Open(id)' = Open(id)
      BY <1>1, <1>4, <1>5, <2>1 DEF Open
    <2>3. Ledger(id)
      BY DEF Shares
    <2> QED BY <1>4, <1>6, <2>2, <2>3 DEF Ledger
  <1>8. ASSUME NEW id, id = new
        PROVE  Ledger(id)'
    <2>1. Traded(id) = 0
      <3> DEFINE f == [i \in DOMAIN trade_queue |-> trade_queue[i].quantity]
                 S == {i \in DOMAIN trade_queue :
                          id \in {trade_queue[i].buy_order_id,
                                  trade_queue[i].sell_order_id}}
      <3>1. S = {}
        BY <1>4, <1>8 DEF Inv, TradesWithinLimits, WithinLimits
      <3>2. Traded(id) = SumFunctionOnSet(f, S) \div 2
        BY DEF Traded
      <3> HIDE DEF f, S
      <3>3. SumFunctionOnSet(f, S) = 0
        BY <3>1, SumEmpty
      <3> QED BY <3>2, <3>3
    <2>2. Open(id)' = {cur'}
      <3>1. \A r \in book[arrived'[id].symbol][arrived'[id].side] : r.id # id
        <4>1. arrived'[id].symbol \in Symbol /\ arrived'[id].side \in Side
          BY <1>2, <1>4, <1>8 DEF Order
        <4> QED BY <1>4, <1>8, <4>1 DEF Inv, BookHoldsArrivals
      <3> QED BY <1>5, <1>8, <3>1 DEF Open
    <2>3. Asked(arrived'[id]) >= 0
      BY <1>2, <1>4, <1>8 DEF Asked, Order
    <2> QED BY <1>4, <1>5, <1>6, <1>8, <2>1, <2>2, <2>3 DEF Ledger
  <1> QED BY <1>3, <1>4, <1>7, <1>8 DEF Shares

\* A trade adds its quantity to the fills of its two orders and to no other's.
LEMMA FillShares == Inv /\ Shares /\ Fill => Shares'
  <1> SUFFICES ASSUME Inv, Shares, Fill PROVE Shares'
    OBVIOUS
  <1>1. PICK maker \in Makers, quantity \in Nat \ {0} : FillOf(maker, quantity)
    BY FillTakesTop
  <1> DEFINE trade == MakeTrade(cur, maker, quantity)
             opposite == Opposite(cur.side)
             grown == Grown(maker, quantity)
  <1>2. /\ pc = "match" /\ cur \in Order /\ cur # NoOrder /\ maker \in Order
        /\ cur.symbol \in Symbol /\ opposite \in Side /\ cur.side \in Side
        /\ maker \in book[cur.symbol][opposite]
        /\ trade_queue \in Seq(Trade) /\ trade \in Trade /\ grown \in Order
        /\ quantity <= Remaining(cur) /\ quantity <= Remaining(maker)
    <2>1. pc = "match" /\ cur \in Order /\ cur.symbol \in Symbol /\ opposite \in Side
          /\ maker \in Order /\ cur.side \in Side
      BY <1>1, FillTakesTop
    <2>2. trade \in Trade /\ grown \in Order
      BY <1>1, FillType
    <2> QED BY <1>1, <2>1, <2>2, EngineAssumption DEF FillOf, Makers, Inv, TypeOK
  <1>3. /\ cur.id = Len(arrived) /\ cur.id \in DOMAIN arrived
        /\ SameRequest(cur, arrived[cur.id])
        /\ \A s \in Symbol, side \in Side : \A o \in book[s][side] : o.id < cur.id
    BY <1>2 DEF Inv, TypeOK, CurArrivedLast
  <1>4. /\ maker.id \in DOMAIN arrived /\ maker.id # cur.id
        /\ maker.symbol = cur.symbol /\ maker.side = opposite
        /\ SameRequest(maker, arrived[maker.id])
    <2>1. maker.id < cur.id /\ maker.id \in Nat /\ cur.id \in Nat
      BY <1>2, <1>3 DEF Order
    <2> QED BY <1>2, <2>1 DEF Inv, BookHoldsArrivals
  <1>5. /\ cur' = [cur EXCEPT !.filled = @ + quantity]
        /\ cur' # NoOrder /\ cur'.id = cur.id /\ cur'.filled = cur.filled + quantity
    <2>1. cur' = [cur EXCEPT !.filled = @ + quantity]
      BY <1>1 DEF FillOf
    <2>2. \A o \in Order : LET grew == [o EXCEPT !.filled = @ + quantity] IN
             grew \in Order /\ grew.id = o.id /\ grew.filled = o.filled + quantity
      BY DEF Order
    <2> HIDE DEF Order
    <2> QED BY <1>2, <2>1, <2>2, EngineAssumption
  <1>6. grown.id = maker.id /\ grown.filled = maker.filled + quantity
        /\ Remaining(grown) = Remaining(maker) - quantity
    BY <1>2 DEF Grown, Order, Remaining
  <1>7. {trade.buy_order_id, trade.sell_order_id} = {cur.id, maker.id}
        /\ trade.quantity = quantity
    BY DEF MakeTrade
  <1>8. trade_queue' = Append(Append(trade_queue, trade), trade)
    BY <1>1 DEF FillOf
  <1>b. \A s \in Symbol, side \in Side : book'[s][side] =
           IF s = cur.symbol /\ side = opposite
           THEN UpdateTop(book[s][side], maker, grown) ELSE book[s][side]
    BY <1>1, FillType
  <1> HIDE DEF trade, grown, opposite
  <1>9. \A id : Traded(id)' = Traded(id) + IF id \in {cur.id, maker.id}
                                           THEN quantity ELSE 0
    <2> TAKE id
    <2>1. Traded(id)' = Traded(id) + IF id \in {trade.buy_order_id, trade.sell_order_id}
                                     THEN trade.quantity ELSE 0
      BY <1>2, <1>8, TradedGrows
    <2> QED BY <1>7, <2>1
  <1>10. UNCHANGED <<arrived, order_queue, placing>>
    BY DEF Fill, placers
  <1>11. /\ Ledger(cur.id) /\ Ledger(maker.id)
         /\ Traded(cur.id) \in Int /\ Traded(maker.id) \in Int
    BY <1>2, <1>3, <1>4, TradedInt DEF Shares
  <1>12. ASSUME NEW id, id = cur.id
         PROVE  Ledger(id)'
    <2>1. cur \in Open(id)
      BY <1>2, <1>3, <1>12 DEF Open, SameRequest
    <2>2. Traded(id) = cur.filled
      BY <1>11, <1>12, <2>1 DEF Ledger
    <2>3. Open(id)' = {cur'}
      <3>1. ASSUME NEW s \in Symbol, NEW side \in Side, NEW r \in book'[s][side]
            PROVE  r.id # id
        <4>1. CurArrivedLast' /\ cur'.id = cur.id /\ pc' = "match"
          BY <1>2, <1>5, FillInv DEF Inv, Fill
        <4>2. r.id < cur.id /\ cur.id \in Nat
          BY <1>2, <4>1 DEF CurArrivedLast, Order
        <4> QED BY <1>12, <4>2
      <3>2. arrived[id].symbol \in Symbol /\ arrived[id].side \in Side
        BY <1>2, <1>3, <1>12 DEF SameRequest
      <3> QED BY <1>5, <1>10, <1>12, <3>1, <3>2 DEF Open
    <2>4. Traded(id)' = cur'.filled
      BY <1>5, <1>9, <1>12, <2>2
    <2>5. cur'.filled <= Asked(arrived[id])
      <3>1. /\ arrived[id].quantity = cur.quantity
            /\ cur.quantity \in Int /\ cur.filled \in Nat
        BY <1>2, <1>3, <1>12 DEF SameRequest, Order
      <3> QED BY <1>2, <1>5, <3>1 DEF Asked, Remaining
    <2> QED BY <1>10, <2>3, <2>4, <2>5 DEF Ledger
  <1>13. ASSUME NEW id, id = maker.id
         PROVE  Ledger(id)'
    <2>1. /\ arrived[id].symbol = cur.symbol /\ arrived[id].side = opposite
          /\ arrived[id].quantity = maker.quantity
      BY <1>4, <1>13 DEF SameRequest
    <2>2. maker \in Open(id)
      BY <1>2, <1>13, <2>1 DEF Open
    <2>3. /\ Traded(id) = maker.filled
          /\ \A r \in Open(id) : r = maker
      BY <1>11, <1>13, <2>2 DEF Ledger
    <2>4. Open(id)' = {r \in {grown} : Remaining(r) > 0}
      <3>1. book'[cur.symbol][opposite] =
               (book[cur.symbol][opposite] \ {maker}) \cup {r \in {grown} : Remaining(r) > 0}
        BY <1>2, <1>b DEF UpdateTop
      <3>2. \A r \in book[cur.symbol][opposite] \ {maker} : r.id # id
        BY <2>1, <2>3 DEF Open
      <3>3. Open(id)' = {r \in book'[cur.symbol][opposite]
                                      \cup ({cur'} \ {NoOrder}) : r.id = id}
        BY <1>10, <2>1 DEF Open
      <3> QED BY <1>4, <1>5, <1>6, <1>13, <3>1, <3>2, <3>3
    <2>5. Traded(id)' = maker.filled + quantity
      BY <1>9, <1>13, <2>3
    <2>6. maker.quantity \in Int /\ maker.filled \in Nat /\ quantity \in Nat \ {0}
      BY <1>2 DEF Order
    <2>7. /\ maker.filled + quantity <= maker.quantity
          /\ ~(Remaining(grown) > 0) => maker.filled + quantity = maker.quantity
      BY <1>2, <1>6, <2>6 DEF Remaining
    <2>8. Asked(arrived'[id]) = maker.quantity
      BY <1>10, <2>1, <2>6, <2>7 DEF Asked
    <2> QED BY <1>6, <2>4, <2>5, <2>7, <2>8 DEF Ledger
  <1>14. ASSUME NEW id \in DOMAIN arrived, id # cur.id, id # maker.id
         PROVE  Ledger(id)'
    <2>1. arrived[id].symbol \in Symbol /\ arrived[id].side \in Side
      <3>1. arrived[id] \in Order
        BY DEF Inv, TypeOK
      <3> QED BY <3>1 DEF Order
    <2>2. Open(id)' = Open(id)
      <3> DEFINE now == book[arrived[id].symbol][arrived[id].side]
                 after == book'[arrived[id].symbol][arrived[id].side]
      <3>1. after = now \/ after = UpdateTop(now, maker, grown)
        BY <1>b, <2>1
      <3>2. Open(id)' = {r \in after \cup ({cur'} \ {NoOrder}) : r.id = id}
        BY <1>10 DEF Open
      <3>3. Open(id) = {r \in now \cup ({cur} \ {NoOrder}) : r.id = id}
        BY DEF Open
      <3> HIDE DEF now, after
      <3>4. \A r : r.id = id => (r \in after <=> r \in now)
        BY <1>6, <1>14, <3>1 DEF UpdateTop
      <3> QED BY <1>5, <1>14, <3>2, <3>3, <3>4
    <2>3. Traded(id)' = Traded(id)
      BY <1>2, <1>9, <1>14, TradedInt
    <2> QED BY <1>10, <2>2, <2>3 DEF Shares, Ledger
  <1>15. Unfilled'
    BY <1>10 DEF Shares, Unfilled
  <1> QED BY <1>10, <1>12, <1>13, <1>14, <1>15 DEF Shares

\* What is dropped at the end of a loop is a MARKET order, or is spent.
LEMMA FinishShares == Inv /\ Shares /\ Finish => Shares'
  <1> SUFFICES ASSUME Inv, Shares, Finish PROVE Shares'
    OBVIOUS
  <1> DEFINE rests == cur.type = "LIMIT" /\ Remaining(cur) > 0
  <1>1. /\ pc = "match" /\ cur \in Order /\ cur # NoOrder /\ cur' = NoOrder
        /\ cur.symbol \in Symbol /\ cur.side \in Side
        /\ UNCHANGED <<placing, order_queue, trade_queue, arrived>>
    <2>1. cur \in Order /\ cur # NoOrder
      BY EngineAssumption DEF Inv, TypeOK, Finish
    <2> QED BY <2>1 DEF Finish, Order, placers
  <1>2. \A s \in Symbol, side \in Side : book'[s][side] =
           IF rests /\ s = cur.symbol /\ side = cur.side
           THEN book[s][side] \cup {cur} ELSE book[s][side]
    <2>1. book \in [Symbol -> [Side -> SUBSET Order]]
      BY DEF Inv, TypeOK
    <2>2. CASE rests
      BY <1>1, <2>1, <2>2 DEF Finish, AddOrder
    <2>3. CASE ~rests
      BY <1>1, <2>1, <2>3 DEF Finish
    <2> QED BY <2>2, <2>3
  <1>3. /\ cur.id \in DOMAIN arrived
        /\ SameRequest(cur, arrived[cur.id])
        /\ \A s \in Symbol, side \in Side : \A o \in book[s][side] : o.id # cur.id
    <2>1. /\ cur.id = Len(arrived) /\ cur.id \in DOMAIN arrived /\ cur.id \in Nat
          /\ SameRequest(cur, arrived[cur.id])
          /\ \A s \in Symbol, side \in Side : \A o \in book[s][side] : o.id < cur.id
      BY <1>1 DEF Inv, TypeOK, CurArrivedLast
    <2> QED BY <2>1
  <1>4. \A id : Traded(id)' = Traded(id)
    BY <1>1 DEF Traded
  <1> HIDE DEF rests
  <1>5. ASSUME NEW id, id = cur.id
        PROVE  Ledger(id)'
    <2>1. /\ arrived[id].symbol = cur.symbol /\ arrived[id].side = cur.side
          /\ arrived[id].quantity = cur.quantity /\ arrived[id].type = cur.type
      BY <1>5, <1>3 DEF SameRequest
    <2>2. Open(id)' = {r \in {cur} : rests}
      <3> DEFINE now == book[cur.symbol][cur.side]
                 after == book'[cur.symbol][cur.side]
      <3>1. after = IF rests THEN now \cup {cur} ELSE now
        BY <1>1, <1>2
      <3>2. \A r \in now : r.id # id
        BY <1>1, <1>3, <1>5
      <3>3. Open(id)' = {r \in after \cup ({cur'} \ {NoOrder}) : r.id = id}
        BY <1>1, <2>1 DEF Open
      <3> HIDE DEF now, after
      <3>4. \A r : r \in after /\ r.id = id <=> r \in {q \in {cur} : rests}
        BY <1>5, <3>1, <3>2
      <3>5. {cur'} \ {NoOrder} = {}
        BY <1>1
      <3> QED BY <3>3, <3>4, <3>5
    <2>3. cur \in Open(id) /\ Ledger(id)
      BY <1>5, <1>1, <1>3 DEF Open, Shares
    <2>4. Traded(id) = cur.filled /\ cur.filled <= Asked(cur)
      BY <1>5, <2>1, <2>3 DEF Ledger, Asked
    <2>5. cur.type = "LIMIT" /\ ~rests => cur.filled = Asked(cur)
      <3>1. cur.quantity \in Int /\ cur.filled \in Nat
        BY <1>5, <1>1 DEF Order
      <3> QED BY <2>4, <3>1 DEF rests, Asked, Remaining
    <2> QED BY <1>5, <1>1, <1>4, <2>1, <2>2, <2>4, <2>5 DEF Ledger, Asked
  <1>6. ASSUME NEW id \in DOMAIN arrived, id # cur.id
        PROVE  Ledger(id)'
    <2>1. arrived[id].symbol \in Symbol /\ arrived[id].side \in Side
      <3>1. arrived[id] \in Order
        BY DEF Inv, TypeOK
      <3> QED BY <3>1 DEF Order
    <2>2. Open(id)' = Open(id)
      <3> DEFINE now == book[arrived[id].symbol][arrived[id].side]
                 after == book'[arrived[id].symbol][arrived[id].side]
      <3>1. after = now \/ after = now \cup {cur}
        BY <1>2, <2>1
      <3>2. Open(id)' = {r \in after \cup ({cur'} \ {NoOrder}) : r.id = id}
        BY <1>1 DEF Open
      <3>3. Open(id) = {r \in now \cup ({cur} \ {NoOrder}) : r.id = id}
        BY DEF Open
      <3> HIDE DEF now, after
      <3>4. \A r : r.id = id => (r \in after <=> r \in now)
        BY <1>6, <3>1
      <3> QED BY <1>1, <1>6, <3>2, <3>3, <3>4
    <2> QED BY <1>1, <1>4, <2>2 DEF Shares, Ledger
  <1>7. Unfilled'
    BY <1>1 DEF Shares, Unfilled
  <1> QED BY <1>1, <1>5, <1>6, <1>7 DEF Shares

\* Every step keeps the shares of every order.
LEMMA StepShares == Inv /\ Shares /\ [Next]_vars => Shares'
  <1> SUFFICES ASSUME Inv, Shares, [Next]_vars PROVE Shares'
    OBVIOUS
  <1>t. TypeOK /\ Unfilled
    BY DEF Inv, Shares
  <1>1. ASSUME NEW p \in Producer, NEW s \in Symbol, NEW type \in OrderType,
               NEW side \in Side, NEW price \in Price, NEW quantity \in Quantity,
               MakeOrder(p, s, type, side, price, quantity)
        PROVE  Shares'
    <2> DEFINE o == [id |-> 0, symbol |-> s, type |-> type, side |-> side,
                     price |-> IF type = "MARKET" THEN 0 ELSE price,
                     quantity |-> quantity, filled |-> 0, timestamp |-> clock]
    <2>1. placing' = [placing EXCEPT ![p] = o] /\ o.filled = 0
      BY <1>1 DEF MakeOrder
    <2> HIDE DEF o
    <2>2. Unfilled'
      BY <1>1, <1>t, <2>1 DEF MakeOrder, Unfilled, TypeOK
    <2> QED BY <1>1, <2>2, OtherStepShares DEF MakeOrder
  <1>2. ASSUME NEW p \in Producer, PushOrder(p) PROVE Shares'
    <2>1. placing[p] \in Order /\ placing[p].filled = 0 /\ order_queue \in Seq(Order)
      BY <1>2, <1>t DEF PushOrder, TypeOK, Unfilled
    <2>2. \A i \in 1..Len(order_queue') : order_queue'[i].filled = 0
      BY <1>2, <1>t, <2>1, AppendProperties DEF PushOrder, Unfilled
    <2>3. Unfilled'
      BY <1>2, <1>t, <2>2 DEF PushOrder, Unfilled, TypeOK
    <2> QED BY <1>2, <2>3, OtherStepShares DEF PushOrder
  <1>3. CASE CheckShutdown
    BY <1>3, <1>t, OtherStepShares DEF CheckShutdown, Unfilled, placers
  <1>4. CASE PopNothing
    BY <1>4, <1>t, OtherStepShares DEF PopNothing, Unfilled, placers
  <1>5. CASE ShutdownQueue
    BY <1>5, <1>t, OtherStepShares DEF ShutdownQueue, Unfilled, placers
  <1>6. CASE Stop
    BY <1>6, <1>t, OtherStepShares DEF Stop, Unfilled, placers
  <1>7. CASE UNCHANGED vars
    BY <1>7, <1>t, OtherStepShares DEF vars, Unfilled, placers
  <1> QED
    BY <1>1, <1>2, <1>3, <1>4, <1>5, <1>6, <1>7, TakeOrderShares, FillShares,
       FinishShares DEF Next, EngineStep

-----------------------------------------------------------------------------
(* Theorems *)

\* The inductive invariant, whose conjuncts are the theorems below and what
\* they need of each other, holds in every behaviour.
THEOREM Invariance == Spec => []Inv
  BY InitInv, StepInv, PTL DEF Spec

\* Orders, trades and the engine's state have the types of Types.hpp; above all,
\* no order is ever filled by less than nothing.
THEOREM TypeCorrect == Spec => []TypeOK
  BY Invariance, PTL DEF Inv

\* After every step of every matching loop, no bid on a book meets an ask.
THEOREM BookNeverCrossed == Spec => []NoCrossedBook
  BY Invariance, PTL DEF Inv

\* What rests is what arrived, less what has been filled.
THEOREM BookFaithful == Spec => []BookHoldsArrivals
  BY Invariance, PTL DEF Inv

\* All trades there have ever been respect the limits of both their orders.
THEOREM LimitsRespected == Spec => []TradesWithinLimits
  BY Invariance, PTL DEF Inv

\* No order is passed over for one that it outranks.
THEOREM PriorityRespected == Spec => []PricePriority
  BY Invariance, PTL DEF Inv

\* What the ledgers say of each order is what SharesConserved asks of it.
LEMMA SharesBalance == Inv /\ Shares => SharesConserved
  <1> SUFFICES ASSUME Inv, Shares, NEW id \in DOMAIN arrived
               PROVE  LET o == arrived[id]
                          asked == IF o.quantity > 0 THEN o.quantity ELSE 0
                          open == {r \in book[o.symbol][o.side]
                                          \cup ({cur} \ {NoOrder}) : r.id = id}
                      IN /\ Cardinality(open) <= 1
                         /\ Traded(id) <= asked
                         /\ \A r \in open : Traded(id) = r.filled
                         /\ open = {} /\ o.type = "LIMIT" => Traded(id) = asked
    BY DEF SharesConserved
  <1>1. Ledger(id)
    BY DEF Shares
  <1>2. Cardinality(Open(id)) <= 1
    <2>1. CASE Open(id) = {}
      BY <2>1, FS_EmptySet
    <2>2. CASE Open(id) # {}
      <3>1. PICK r \in Open(id) : Open(id) = {r}
        BY <1>1, <2>2 DEF Ledger
      <3>2. Cardinality({r}) = 1
        BY FS_Singleton
      <3> QED BY <3>1, <3>2
    <2> QED BY <2>1, <2>2
  <1> QED BY <1>1, <1>2 DEF Ledger, Open, Asked

\* No share is created, lost or traded twice, whatever quantities clients send:
\* what an order has filled is what it traded, and a LIMIT order leaves the book
\* only when it has traded all it asked for (match_buy, match_sell).
THEOREM SharesAreConserved == Spec => []SharesConserved
  <1>1. Spec => []Shares
    BY InitShares, StepShares, Invariance, PTL DEF Spec
  <1> QED BY Invariance, SharesBalance, <1>1, PTL
=============================================================================
