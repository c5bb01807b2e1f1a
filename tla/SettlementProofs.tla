-------------------------- MODULE SettlementProofs --------------------------
(***************************************************************************)
(* Theorems about Settlement and PortfolioView, for all symbols, prices,   *)
(* quantities, every initial cash and all bounds.                          *)
(***************************************************************************)
EXTENDS PortfolioView, Sums, SequenceTheorems

-----------------------------------------------------------------------------
(* The inductive invariant *)

\* The trades come in pairs: each odd one is followed by its copy, which is yet
\* to come exactly while the engine thread is in the fill callback.
Paired ==
    /\ engine = "callback" <=> Len(sent) % 2 = 1
    /\ \A i \in 1..Len(sent) :
          i % 2 = 1 /\ i < Len(sent) => sent[i + 1] = sent[i]
    /\ down => engine = "stopped"

\* The first of a pair is booked as a BUY, the second as a SELL.
InTurn == buy_turn <=> received % 2 = 0

\* Exposure is what the trade booked halfway has cost.
ExposureOpen ==
    (\A i \in DOMAIN sent : sent[i].price >= 0) =>
        \A s \in Symbol :
            exposure[s] = IF Counted % 2 = 1 /\ sent[Counted].symbol = s
                          THEN Cost(sent[Counted]) ELSE 0

Inv == TypeOK /\ Paired /\ InTurn /\ RoundTrips /\ ExposureOpen

\* The division that makes an average cost is exact for one purchase.
LEMMA DivisionExact ==
  ASSUME NEW p \in Int, NEW q \in Nat \ {0}
  PROVE  (p * q) \div q = p
  OBVIOUS

\* The books as they are opened satisfy the inductive invariant.
LEMMA InitInv == Init => Inv
  <1> SUFFICES ASSUME Init PROVE Inv
    OBVIOUS
  <1>1. sent = <<>> /\ Len(sent) = 0 /\ received = 0 /\ pnl = "loop"
    BY DEF Init
  <1>2. positions = [s \in {} |-> NewPosition] /\ DOMAIN positions = {}
    BY DEF Init
  <1>3. TypeOK
    <2>1. /\ DOMAIN positions \subseteq Symbol
          /\ positions \in [DOMAIN positions -> Position]
      BY <1>2
    <2>2. sent \in Seq(Trade) /\ recent_trades \in Seq(Trade)
      BY EmptySeq DEF Init
    <2>3. exposure \in [Symbol -> Int]
      BY DEF Init
    <2>4. cash \in Int /\ realized_pnl \in Int
      BY SettlementAssumption DEF Init
    <2>5. received \in 0..Len(sent) /\ fills \in Nat
      BY <1>1 DEF Init
    <2>6. running \in BOOLEAN /\ down \in BOOLEAN /\ buy_turn \in BOOLEAN
      BY DEF Init
    <2> QED BY <1>1, <2>1, <2>2, <2>3, <2>4, <2>5, <2>6 DEF Init, TypeOK
  <1>4. Paired
    BY <1>1 DEF Init, Paired
  <1>5. InTurn
    BY DEF Init, InTurn
  <1>6. RoundTrips
    <2>1. \A s \in Symbol : Held(s) = NewPosition
      BY <1>2 DEF Held
    <2>2. Recorded = 0
      BY <1>1 DEF Recorded
    <2> QED BY <2>1, <2>2 DEF Init, RoundTrips, NewPosition
  <1>7. ExposureOpen
    <2>1. Counted = 0
      BY <1>1 DEF Counted
    <2> QED BY <2>1 DEF Init, ExposureOpen
  <1> QED BY <1>3, <1>4, <1>5, <1>6, <1>7 DEF Inv

-----------------------------------------------------------------------------
(* What is at hand *)

\* The trade at hand is one that was sent; booked as a SELL, it is the copy of
\* the one before.
LEMMA TradeAtHand ==
  ASSUME Inv, received > 0
  PROVE  /\ received \in 1..Len(sent)
         /\ Current \in Trade
         /\ Current.symbol \in Symbol /\ Current.price \in Int
         /\ Current.quantity \in Nat \ {0}
         /\ Cost(Current) \in Int
         /\ Side = "BUY" => received % 2 = 1
         /\ Side = "SELL" => /\ received % 2 = 0 /\ (received - 1) % 2 = 1
                             /\ received - 1 \in 1..Len(sent)
                             /\ sent[received - 1] = Current
  <1>1. sent \in Seq(Trade) /\ received \in 1..Len(sent) /\ received \in Nat
    BY DEF Inv, TypeOK
  <1>2. Current \in Trade
    BY <1>1, ElementOfSeq DEF Current
  <1>3. /\ Current.symbol \in Symbol /\ Current.price \in Int
        /\ Current.quantity \in Nat \ {0}
    BY <1>2 DEF Trade
  <1>4. Cost(Current) \in Int
    BY <1>3 DEF Cost
  <1>5. Side = "BUY" => received % 2 = 1
    BY <1>1 DEF Side, Inv, InTurn, TypeOK
  <1>6. ASSUME Side = "SELL"
        PROVE  /\ received % 2 = 0 /\ (received - 1) % 2 = 1
               /\ received - 1 \in 1..Len(sent)
               /\ sent[received - 1] = Current
    <2>1. received % 2 = 0
      BY <1>6 DEF Side, Inv, InTurn
    <2>2. (received - 1) % 2 = 1 /\ received - 1 \in 1..Len(sent)
      BY <1>1, <2>1
    <2>3. sent[(received - 1) + 1] = sent[received - 1]
      BY <1>1, <2>2 DEF Inv, Paired
    <2> QED BY <1>1, <2>1, <2>2, <2>3 DEF Current
  <1> QED BY <1>1, <1>2, <1>3, <1>4, <1>5, <1>6

-----------------------------------------------------------------------------
(* record_trade *)

\* What is held of a symbol is a position, also when there is no entry.
LEMMA HeldType ==
  ASSUME Inv, NEW s \in Symbol
  PROVE  Held(s) \in Position
  BY DEF Inv, TypeOK, Held, NewPosition, Position

\* Booking a position changes what is held of its symbol and of no other.
LEMMA BookedHeld ==
  ASSUME Inv, NEW t \in Trade, t.symbol \in Symbol, NEW position \in Position,
         Booked(t, position)
  PROVE  /\ DOMAIN positions' \subseteq Symbol
         /\ positions' \in [DOMAIN positions' -> Position]
         /\ \A s \in Symbol :
               Held(s)' = IF s = t.symbol THEN position ELSE Held(s)
  BY DEF Inv, TypeOK, Booked, Held

\* Bought from flat, a position holds the trade at its price.
LEMMA BuyFromFlat ==
  ASSUME Inv, pnl = "record", Side = "BUY", Buy(Current)
  PROVE  /\ DOMAIN positions' \subseteq Symbol
         /\ positions' \in [DOMAIN positions' -> Position]
         /\ \A s \in Symbol :
               /\ Held(s)'.realized_pnl = 0
               /\ Held(s)'.quantity = IF s = Current.symbol THEN Current.quantity ELSE 0
               /\ Held(s)'.avg_cost = IF s = Current.symbol THEN Current.price ELSE 0
         /\ cash' = InitialCash - Cost(Current)
         /\ realized_pnl' = 0
  <1>1. received > 0 /\ Recorded = received - 1
    BY DEF Inv, TypeOK, Recorded
  <1>2. /\ Current \in Trade /\ Current.symbol \in Symbol
        /\ Current.price \in Int /\ Current.quantity \in Nat \ {0}
        /\ received \in 1..Len(sent) /\ received % 2 = 1
    BY <1>1, TradeAtHand
  <1>3. Recorded % 2 # 1
    BY <1>1, <1>2 DEF Inv, TypeOK
  <1>4. /\ \A s \in Symbol :
              /\ Held(s).realized_pnl = 0
              /\ Held(s).quantity = 0 /\ Held(s).avg_cost = 0
        /\ cash = InitialCash /\ realized_pnl = 0
    BY <1>3 DEF Inv, RoundTrips
  <1> DEFINE pos == Held(Current.symbol)
             quantity == pos.quantity + Current.quantity
             avg_cost == IF quantity > 0
                  THEN (pos.avg_cost * pos.quantity + Cost(Current)) \div quantity
                  ELSE 0
             bought == [pos EXCEPT !.quantity = quantity, !.avg_cost = avg_cost,
                                   !.last_price = Current.price]
  <1>5. pos \in Position
    BY <1>2, HeldType
  <1>6. quantity = Current.quantity /\ quantity > 0
    BY <1>2, <1>4
  <1>7. avg_cost = Current.price
    <2>1. pos.avg_cost * pos.quantity + Cost(Current) = Current.price * Current.quantity
      BY <1>2, <1>4 DEF Cost
    <2>2. (Current.price * Current.quantity) \div Current.quantity = Current.price
      BY <1>2, DivisionExact
    <2> QED BY <1>6, <2>1, <2>2
  <1>8. Booked(Current, bought)
    BY DEF Buy
  <1> HIDE DEF quantity, avg_cost
  <1>9. /\ bought \in Position
        /\ bought.quantity = Current.quantity /\ bought.avg_cost = Current.price
        /\ bought.realized_pnl = 0
    <2>1. quantity \in Int /\ avg_cost \in Int /\ pos.realized_pnl = 0
      BY <1>2, <1>4, <1>6, <1>7
    <2> HIDE DEF pos
    <2> QED BY <1>2, <1>5, <1>6, <1>7, <2>1 DEF Position
  <1> HIDE DEF bought
  <1>10. /\ DOMAIN positions' \subseteq Symbol
         /\ positions' \in [DOMAIN positions' -> Position]
         /\ \A s \in Symbol :
               Held(s)' = IF s = Current.symbol THEN bought ELSE Held(s)
    BY <1>2, <1>8, <1>9, BookedHeld
  <1> QED BY <1>4, <1>9, <1>10 DEF Buy

\* Sold at the price it was bought for, a position is flat, and nothing was won.
LEMMA SellToFlat ==
  ASSUME Inv, pnl = "record", Side = "SELL", Sell(Current)
  PROVE  /\ DOMAIN positions' \subseteq Symbol
         /\ positions' \in [DOMAIN positions' -> Position]
         /\ \A s \in Symbol :
               /\ Held(s)'.realized_pnl = 0
               /\ Held(s)'.quantity = 0 /\ Held(s)'.avg_cost = 0
         /\ cash' = InitialCash
         /\ realized_pnl' = 0
  <1>1. received > 0 /\ Recorded = received - 1
    BY DEF Inv, TypeOK, Recorded
  <1>2. /\ Current \in Trade /\ Current.symbol \in Symbol
        /\ Current.price \in Int /\ Current.quantity \in Nat \ {0}
        /\ Cost(Current) \in Int
        /\ Recorded % 2 = 1 /\ sent[Recorded] = Current
    BY <1>1, TradeAtHand
  <1> DEFINE pos == Held(Current.symbol)
             profit == (Current.price - pos.avg_cost) * Current.quantity
             quantity == pos.quantity - Current.quantity
             sold == [quantity |-> IF quantity > 0 THEN quantity ELSE 0,
                      avg_cost |-> IF quantity > 0 THEN pos.avg_cost ELSE 0,
                      realized_pnl |-> pos.realized_pnl + profit,
                      last_price |-> Current.price]
  <1>3. /\ \A s \in Symbol \ {Current.symbol} :
              /\ Held(s).realized_pnl = 0
              /\ Held(s).quantity = 0 /\ Held(s).avg_cost = 0
        /\ pos.realized_pnl = 0
        /\ pos.quantity = Current.quantity /\ pos.avg_cost = Current.price
        /\ cash = InitialCash - Cost(Current) /\ realized_pnl = 0
    BY <1>2 DEF Inv, RoundTrips
  <1>4. quantity = 0 /\ profit = 0
    BY <1>2, <1>3
  <1>5. /\ Booked(Current, sold)
        /\ realized_pnl' = realized_pnl + profit
        /\ cash' = cash + Cost(Current)
    BY DEF Sell
  <1> HIDE DEF quantity, profit
  <1>6. /\ sold \in Position
        /\ sold.quantity = 0 /\ sold.avg_cost = 0 /\ sold.realized_pnl = 0
    BY <1>2, <1>3, <1>4 DEF Position
  <1> HIDE DEF sold
  <1>7. /\ DOMAIN positions' \subseteq Symbol
        /\ positions' \in [DOMAIN positions' -> Position]
        /\ \A s \in Symbol :
              Held(s)' = IF s = Current.symbol THEN sold ELSE Held(s)
    BY <1>2, <1>5, <1>6, BookedHeld
  <1>8. cash' = InitialCash
    BY <1>2, <1>3, <1>5, SettlementAssumption
  <1>9. \A s \in Symbol :
              /\ Held(s)'.realized_pnl = 0
              /\ Held(s)'.quantity = 0 /\ Held(s)'.avg_cost = 0
    BY <1>3, <1>6, <1>7
  <1> QED BY <1>3, <1>4, <1>5, <1>7, <1>8, <1>9

\* Booking a trade keeps the inductive invariant.
LEMMA RecordTradeInv == Inv /\ RecordTrade => Inv'
  <1> SUFFICES ASSUME Inv, RecordTrade PROVE Inv'
    OBVIOUS
  <1>1. /\ pnl = "record" /\ pnl' = "risk" /\ received > 0
        /\ UNCHANGED <<market, received, buy_turn, exposure, recent_trades>>
        /\ Recorded' = received /\ Counted = received - 1 /\ Counted' = received - 1
    BY DEF Inv, TypeOK, RecordTrade, Recorded, Counted
  <1>2. Paired' /\ InTurn'
    BY <1>1 DEF Inv, Paired, InTurn, market
  <1>3. ExposureOpen'
    BY <1>1 DEF Inv, ExposureOpen, market, Cost
  <1>4. Cost(Current) \in Int /\ InitialCash \in Int
    BY <1>1, TradeAtHand, SettlementAssumption
  <1>5. CASE Side = "BUY"
    <2>1. Buy(Current)
      BY <1>5 DEF RecordTrade
    <2>2. /\ DOMAIN positions' \subseteq Symbol
          /\ positions' \in [DOMAIN positions' -> Position]
          /\ \A s \in Symbol :
               /\ Held(s)'.realized_pnl = 0
               /\ Held(s)'.quantity = IF s = Current.symbol THEN Current.quantity ELSE 0
               /\ Held(s)'.avg_cost = IF s = Current.symbol THEN Current.price ELSE 0
          /\ cash' = InitialCash - Cost(Current)
          /\ realized_pnl' = 0
      BY <1>1, <1>5, <2>1, BuyFromFlat
    <2>3. TypeOK'
      BY <1>1, <1>4, <2>2 DEF Inv, TypeOK, market
    <2>4. received % 2 = 1
      BY <1>1, <1>5, TradeAtHand
    <2>5. RoundTrips'
      BY <1>1, <2>2, <2>4 DEF RoundTrips, Current, Cost, market
    <2> QED BY <1>2, <1>3, <2>3, <2>5 DEF Inv
  <1>6. CASE Side = "SELL"
    <2>1. Sell(Current)
      BY <1>6 DEF RecordTrade
    <2>2. /\ DOMAIN positions' \subseteq Symbol
          /\ positions' \in [DOMAIN positions' -> Position]
          /\ \A s \in Symbol :
               /\ Held(s)'.realized_pnl = 0
               /\ Held(s)'.quantity = 0 /\ Held(s)'.avg_cost = 0
          /\ cash' = InitialCash
          /\ realized_pnl' = 0
      BY <1>1, <1>6, <2>1, SellToFlat
    <2>3. TypeOK'
      BY <1>1, <1>4, <2>2 DEF Inv, TypeOK, market
    <2>4. received % 2 = 0
      BY <1>1, <1>6, TradeAtHand
    <2>5. RoundTrips'
      BY <1>1, <2>2, <2>4 DEF RoundTrips, market
    <2> QED BY <1>2, <1>3, <2>3, <2>5 DEF Inv
  <1> QED BY <1>5, <1>6 DEF Side

-----------------------------------------------------------------------------
(* The other steps of the PnL thread *)

\* Popping a trade turns buy_turn with the parity of the trades received.
LEMMA PopTradeInv == Inv /\ PopTrade => Inv'
  <1> SUFFICES ASSUME Inv, PopTrade PROVE Inv'
    OBVIOUS
  <1>1. /\ pnl = "pop" /\ pnl' = "record"
        /\ received \in 0..Len(sent) /\ received < Len(sent)
        /\ received' = received + 1 /\ Len(sent) \in Nat
        /\ UNCHANGED <<market, books>>
    BY DEF Inv, TypeOK, PopTrade
  <1>2. /\ Recorded' = Recorded /\ Counted' = Counted
    BY <1>1 DEF Recorded, Counted
  <1>3. TypeOK'
    BY <1>1 DEF Inv, TypeOK, PopTrade, market, books
  <1>4. Paired'
    BY <1>1 DEF Inv, Paired, market
  <1>5. InTurn'
    <2>1. received' % 2 = 0 <=> ~(received % 2 = 0)
      BY <1>1
    <2>2. buy_turn \in BOOLEAN /\ buy_turn' = ~buy_turn
      BY DEF Inv, TypeOK, PopTrade
    <2>3. buy_turn <=> received % 2 = 0
      BY DEF Inv, InTurn
    <2> QED BY <2>1, <2>2, <2>3, Zenon DEF InTurn
  <1>6. RoundTrips' /\ ExposureOpen'
    BY <1>1, <1>2
       DEF Inv, RoundTrips, ExposureOpen, market, books, Held, Cost
  <1> QED BY <1>3, <1>4, <1>5, <1>6 DEF Inv

\* Counting a trade keeps the inductive invariant: the clamp to 0 does nothing
\* while prices are not negative.
LEMMA RecordFillInv == Inv /\ RecordFill => Inv'
  <1> SUFFICES ASSUME Inv, RecordFill PROVE Inv'
    OBVIOUS
  <1>1. /\ pnl = "risk" /\ pnl' = "display" /\ received > 0 /\ received \in Nat
        /\ UNCHANGED <<market, received, buy_turn, positions, cash,
                       realized_pnl, recent_trades>>
        /\ Recorded = received /\ Recorded' = received
        /\ Counted = received - 1 /\ Counted' = received
    BY DEF Inv, TypeOK, RecordFill, Recorded, Counted
  <1>2. /\ received \in 1..Len(sent)
        /\ Current \in Trade /\ Current.symbol \in Symbol
        /\ Current.price \in Int /\ Current.quantity \in Nat \ {0}
        /\ Cost(Current) \in Int
    BY <1>1, TradeAtHand
  <1>3. exposure \in [Symbol -> Int]
    BY DEF Inv, TypeOK
  <1>4. exposure' \in [Symbol -> Int]
    BY <1>2, <1>3 DEF RecordFill, AtLeastZero
  <1>5. TypeOK'
    BY <1>1, <1>4 DEF Inv, TypeOK, market
  <1>6. Paired' /\ InTurn'
    BY <1>1 DEF Inv, Paired, InTurn, market
  <1>7. RoundTrips'
    BY <1>1 DEF Inv, RoundTrips, market, Held, Cost
  <1>8. ExposureOpen'
    <2> SUFFICES ASSUME \A i \in DOMAIN sent : sent[i].price >= 0, NEW s \in Symbol
                 PROVE  exposure'[s] = IF received % 2 = 1 /\ Current.symbol = s
                                       THEN Cost(Current) ELSE 0
      BY <1>1 DEF ExposureOpen, market, Current, Cost
    <2>1. Current.price >= 0
      BY <1>2 DEF Current, Inv, TypeOK
    <2>2. Cost(Current) >= 0
      BY <1>2, <2>1 DEF Cost
    <2>3. \A x \in Symbol : exposure[x] =
             IF (received - 1) % 2 = 1 /\ sent[received - 1].symbol = x
             THEN Cost(sent[received - 1]) ELSE 0
      BY <1>1 DEF Inv, ExposureOpen
    <2>4. CASE Side = "BUY"
      <3>1. received % 2 = 1 /\ (received - 1) % 2 # 1
        BY <1>1, <2>4, TradeAtHand
      <3>2. \A x \in Symbol : exposure[x] = 0
        BY <2>3, <3>1
      <3>3. exposure' = [exposure EXCEPT ![Current.symbol] =
                            AtLeastZero(@ + Cost(Current))]
        BY <2>4 DEF RecordFill
      <3> QED BY <1>2, <1>3, <2>2, <3>1, <3>2, <3>3 DEF AtLeastZero
    <2>5. CASE Side = "SELL"
      <3>1. /\ received % 2 = 0 /\ (received - 1) % 2 = 1
            /\ sent[received - 1] = Current
        BY <1>1, <2>5, TradeAtHand
      <3>2. \A x \in Symbol :
               exposure[x] = IF Current.symbol = x THEN Cost(Current) ELSE 0
        BY <2>3, <3>1
      <3>3. exposure' = [exposure EXCEPT ![Current.symbol] =
                            AtLeastZero(@ - Cost(Current))]
        BY <2>5 DEF RecordFill
      <3> QED BY <1>2, <1>3, <3>1, <3>2, <3>3 DEF AtLeastZero
    <2> QED BY <2>4, <2>5 DEF Side
  <1> QED BY <1>5, <1>6, <1>7, <1>8 DEF Inv

\* Showing a trade keeps the inductive invariant.
LEMMA OnTradeInv == Inv /\ OnTrade => Inv'
  <1> SUFFICES ASSUME Inv, OnTrade PROVE Inv'
    OBVIOUS
  <1>1. /\ pnl = "display" /\ pnl' = "loop" /\ received > 0
        /\ UNCHANGED <<market, received, buy_turn, positions, cash,
                       realized_pnl, exposure>>
        /\ Recorded' = Recorded /\ Counted' = Counted
    BY DEF Inv, TypeOK, OnTrade, Recorded, Counted
  <1>2. recent_trades' \in Seq(Trade)
    <2> DEFINE all == <<Current>> \o recent_trades
    <2>1. Current \in Trade /\ recent_trades \in Seq(Trade)
      BY <1>1, TradeAtHand DEF Inv, TypeOK
    <2>2. all \in Seq(Trade) /\ Len(all) \in Nat
      BY <2>1
    <2>3. SubSeq(all, 1, Len(all) - 1) \in Seq(Trade)
      <3>1. \A i \in 1..(Len(all) - 1) : all[i] \in Trade
        BY <2>2, ElementOfSeq
      <3> HIDE DEF all
      <3> QED BY <2>2, <3>1, SubSeqProperties
    <2> HIDE DEF all
    <2> QED BY <2>2, <2>3 DEF OnTrade, all
  <1>3. TypeOK'
    BY <1>1, <1>2 DEF Inv, TypeOK, market
  <1>4. Paired' /\ InTurn'
    BY <1>1 DEF Inv, Paired, InTurn, market
  <1>5. RoundTrips' /\ ExposureOpen'
    BY <1>1 DEF Inv, RoundTrips, ExposureOpen, market, Held, Cost
  <1> QED BY <1>3, <1>4, <1>5 DEF Inv

-----------------------------------------------------------------------------
(* The engine thread *)

\* Another trade in the queue leaves those before it as they are.
LEMMA PushKeeps ==
  ASSUME Inv, NEW t \in Trade, sent' = Append(sent, t),
         UNCHANGED <<received, pnl, buy_turn, books>>
  PROVE  /\ sent' \in Seq(Trade) /\ Len(sent') = Len(sent) + 1
         /\ \A i \in 1..Len(sent) : sent'[i] = sent[i]
         /\ sent'[Len(sent) + 1] = t
         /\ received \in 0..Len(sent')
         /\ InTurn' /\ RoundTrips' /\ ExposureOpen'
  <1>1. /\ sent \in Seq(Trade) /\ received \in 0..Len(sent) /\ Len(sent) \in Nat
    BY DEF Inv, TypeOK
  <1>2. /\ sent' \in Seq(Trade) /\ Len(sent') = Len(sent) + 1
        /\ \A i \in 1..Len(sent) : sent'[i] = sent[i]
        /\ sent'[Len(sent) + 1] = t
    BY <1>1
  <1>3. InTurn'
    BY DEF Inv, InTurn
  <1>4. /\ Recorded' = Recorded /\ Recorded \in Int
        /\ Recorded % 2 = 1 => sent'[Recorded] = sent[Recorded]
        /\ Counted' = Counted /\ Counted \in Int
        /\ Counted % 2 = 1 => sent'[Counted] = sent[Counted]
    <2>1. pnl \in {"record", "risk", "display"} => received > 0
      BY DEF Inv, TypeOK
    <2>2. Recorded \in 0..Len(sent) /\ Counted \in 0..Len(sent)
      BY <1>1, <2>1 DEF Recorded, Counted
    <2>3. \A n \in 0..Len(sent) : n % 2 = 1 => n \in 1..Len(sent)
      BY <1>1
    <2> QED BY <1>2, <2>2, <2>3 DEF Recorded, Counted
  <1>5. RoundTrips'
    BY <1>4 DEF Inv, RoundTrips, books, Held, Cost
  <1>6. ExposureOpen'
    <2>1. (\A i \in DOMAIN sent' : sent'[i].price >= 0)
             => (\A i \in DOMAIN sent : sent[i].price >= 0)
      BY <1>1, <1>2
    <2> QED BY <1>4, <2>1 DEF Inv, ExposureOpen, books, Cost
  <1> QED BY <1>1, <1>2, <1>3, <1>5, <1>6

\* A fill opens a pair of trades.
LEMMA MakeFillInv ==
  ASSUME Inv, NEW s \in Symbol, NEW price \in Price, NEW quantity \in Quantity,
         MakeFill(s, price, quantity)
  PROVE  Inv'
  <1> DEFINE t == [symbol |-> s, price |-> price, quantity |-> quantity,
                   fill |-> fills']
  <1>1. fills \in Nat /\ sent \in Seq(Trade) /\ Len(sent) \in Nat
    BY DEF Inv, TypeOK
  <1>2. t \in Trade
    BY <1>1, SettlementAssumption DEF MakeFill, Trade
  <1>3. ~down
    BY DEF MakeFill, Inv, Paired
  <1>4. sent' = Append(sent, t)
    BY <1>3 DEF MakeFill, PushTrade
  <1>5. /\ engine = "match" /\ engine' = "callback" /\ fills' \in Nat
        /\ UNCHANGED <<running, down, received, pnl, buy_turn, books>>
    BY <1>1 DEF MakeFill
  <1> HIDE DEF t
  <1>6. /\ sent' \in Seq(Trade) /\ Len(sent') = Len(sent) + 1
        /\ \A i \in 1..Len(sent) : sent'[i] = sent[i]
        /\ received \in 0..Len(sent')
        /\ InTurn' /\ RoundTrips' /\ ExposureOpen'
    BY <1>2, <1>4, <1>5, PushKeeps
  <1>7. TypeOK'
    BY <1>5, <1>6 DEF Inv, TypeOK, books
  <1>8. Paired'
    <2>1. Len(sent) % 2 # 1
      BY <1>5 DEF Inv, Paired
    <2>2. Len(sent') % 2 = 1
      BY <1>1, <1>6, <2>1
    <2>3. ASSUME NEW i \in 1..Len(sent'), i % 2 = 1, i < Len(sent')
          PROVE  sent'[i + 1] = sent'[i]
      <3>1. i \in 1..Len(sent) /\ i # Len(sent)
        BY <1>1, <1>6, <2>1, <2>3
      <3>2. i + 1 \in 1..Len(sent)
        BY <1>1, <3>1
      <3> QED BY <1>1, <1>6, <2>3, <3>1, <3>2 DEF Inv, Paired
    <2> QED BY <1>3, <1>5, <2>2, <2>3 DEF Paired
  <1> QED BY <1>6, <1>7, <1>8 DEF Inv

\* The fill callback closes a pair of trades with a copy of the first.
LEMMA FillCallbackInv == Inv /\ FillCallback => Inv'
  <1> SUFFICES ASSUME Inv, FillCallback PROVE Inv'
    OBVIOUS
  <1> DEFINE n == Len(sent)
  <1>1. sent \in Seq(Trade) /\ n \in Nat
    BY DEF Inv, TypeOK
  <1>2. n % 2 = 1 /\ ~down
    BY DEF FillCallback, Inv, Paired
  <1>3. n \in 1..n /\ sent[n] \in Trade
    BY <1>1, <1>2, ElementOfSeq
  <1>4. sent' = Append(sent, sent[n])
    BY <1>2 DEF FillCallback, PushTrade
  <1>5. /\ engine' = "match"
        /\ UNCHANGED <<running, fills, down, received, pnl, buy_turn, books>>
    BY DEF FillCallback
  <1>6. /\ sent' \in Seq(Trade) /\ Len(sent') = n + 1
        /\ \A i \in 1..n : sent'[i] = sent[i]
        /\ sent'[n + 1] = sent[n]
        /\ received \in 0..Len(sent')
        /\ InTurn' /\ RoundTrips' /\ ExposureOpen'
    BY <1>3, <1>4, <1>5, PushKeeps
  <1> HIDE DEF n
  <1>7. TypeOK'
    BY <1>5, <1>6 DEF Inv, TypeOK, books
  <1>8. Paired'
    <2>1. Len(sent') % 2 # 1
      BY <1>1, <1>2, <1>6
    <2>2. ASSUME NEW i \in 1..Len(sent'), i % 2 = 1, i < Len(sent')
          PROVE  sent'[i + 1] = sent'[i]
      <3>1. i \in 1..n
        BY <1>1, <1>6, <2>2
      <3>2. CASE i = n
        BY <1>3, <1>6, <3>2
      <3>3. CASE i < n
        <4>1. i + 1 \in 1..n
          BY <1>1, <3>1, <3>3
        <4>2. sent[i + 1] = sent[i]
          BY <2>2, <3>1, <3>3 DEF Inv, Paired, n
        <4> QED BY <1>6, <3>1, <4>1, <4>2
      <3> QED BY <1>1, <3>1, <3>2, <3>3
    <2> QED BY <1>2, <1>5, <2>1, <2>2 DEF Paired
  <1> QED BY <1>6, <1>7, <1>8 DEF Inv

-----------------------------------------------------------------------------
(* The steps that book nothing *)

\* Where the PnL thread is in its loop matters only from pop() on.
LEMMA PnlIdleInv ==
  ASSUME Inv, UNCHANGED <<market, received, buy_turn, books>>,
         pnl \in {"loop", "pop"}, pnl' \in {"loop", "pop", "stopped"}
  PROVE  Inv'
  <1>1. Recorded' = Recorded /\ Counted' = Counted
    BY DEF Recorded, Counted
  <1>2. TypeOK'
    BY DEF Inv, TypeOK, market, books
  <1>3. Paired' /\ InTurn'
    BY DEF Inv, Paired, InTurn, market
  <1>4. RoundTrips' /\ ExposureOpen'
    BY <1>1 DEF Inv, RoundTrips, ExposureOpen, market, books, Held, Cost
  <1> QED BY <1>2, <1>3, <1>4 DEF Inv

\* The shutdown moves nothing: the engine thread ends between two orders, and
\* before its queue is closed.
LEMMA StoppingInv ==
  ASSUME Inv, UNCHANGED <<fills, sent, received, pnl, buy_turn, books>>,
         \/ running' = FALSE /\ UNCHANGED <<engine, down>>
         \/ engine = "match" /\ engine' = "stopped" /\ UNCHANGED <<running, down>>
         \/ engine = "stopped" /\ down' = TRUE /\ UNCHANGED <<running, engine>>
  PROVE  Inv'
  <1>1. Recorded' = Recorded /\ Counted' = Counted
    BY DEF Recorded, Counted
  <1>2. TypeOK'
    BY DEF Inv, TypeOK, books
  <1>3. Paired'
    <2>1. engine' = "callback" <=> engine = "callback"
      OBVIOUS
    <2>2. down' => engine' = "stopped"
      BY DEF Inv, Paired
    <2> QED BY <2>1, <2>2 DEF Inv, Paired
  <1>4. InTurn'
    BY DEF Inv, InTurn
  <1>5. RoundTrips' /\ ExposureOpen'
    BY <1>1 DEF Inv, RoundTrips, ExposureOpen, books, Held, Cost
  <1> QED BY <1>2, <1>3, <1>4, <1>5 DEF Inv

\* A mark moves the last price of a position and nothing else.
LEMMA UpdateMarkInv ==
  ASSUME Inv, NEW s \in Symbol, NEW price \in Price, UpdateMark(s, price)
  PROVE  Inv'
  <1>1. /\ s \in DOMAIN positions
        /\ positions' = [positions EXCEPT ![s].last_price = price]
        /\ UNCHANGED <<market, received, pnl, buy_turn, cash, realized_pnl,
                       exposure, recent_trades>>
    BY DEF UpdateMark
  <1>2. price \in Int
    BY SettlementAssumption
  <1>3. DOMAIN positions' = DOMAIN positions
    BY <1>1
  <1>4. \A x \in DOMAIN positions :
           /\ positions'[x] \in Position
           /\ positions'[x].quantity = positions[x].quantity
           /\ positions'[x].avg_cost = positions[x].avg_cost
           /\ positions'[x].realized_pnl = positions[x].realized_pnl
    BY <1>1, <1>2 DEF Inv, TypeOK, Position
  <1>5. positions' \in [DOMAIN positions' -> Position]
    BY <1>1, <1>3, <1>4
  <1>6. TypeOK'
    BY <1>1, <1>3, <1>5 DEF Inv, TypeOK, market
  <1>7. Paired' /\ InTurn'
    BY <1>1 DEF Inv, Paired, InTurn, market
  <1>8. Recorded' = Recorded /\ Counted' = Counted
    BY <1>1 DEF Recorded, Counted
  <1>9. \A x \in Symbol : /\ Held(x)'.quantity = Held(x).quantity
                          /\ Held(x)'.avg_cost = Held(x).avg_cost
                          /\ Held(x)'.realized_pnl = Held(x).realized_pnl
    BY <1>3, <1>4 DEF Held
  <1>10. RoundTrips' /\ ExposureOpen'
    BY <1>1, <1>8, <1>9 DEF Inv, RoundTrips, ExposureOpen, market, Cost
  <1> QED BY <1>6, <1>7, <1>10 DEF Inv

\* Every step keeps the inductive invariant.
LEMMA StepInv == Inv /\ [Next]_vars => Inv'
  <1> SUFFICES ASSUME Inv, [Next]_vars PROVE Inv'
    OBVIOUS
  <1>1. CASE \E s \in Symbol, price \in Price, quantity \in Quantity :
                MakeFill(s, price, quantity)
    BY <1>1, MakeFillInv
  <1>2. CASE FillCallback
    BY <1>2, FillCallbackInv
  <1>3. CASE Signal
    BY <1>3, StoppingInv DEF Signal
  <1>4. CASE StopEngine
    BY <1>4, StoppingInv DEF StopEngine
  <1>5. CASE ShutdownTrades
    BY <1>5, StoppingInv DEF ShutdownTrades
  <1>6. CASE CheckRunning
    BY <1>6, PnlIdleInv DEF CheckRunning
  <1>7. CASE PopNothing
    BY <1>7, PnlIdleInv DEF PopNothing
  <1>8. CASE PopTrade
    BY <1>8, PopTradeInv
  <1>9. CASE RecordTrade
    BY <1>9, RecordTradeInv
  <1>10. CASE RecordFill
    BY <1>10, RecordFillInv
  <1>11. CASE OnTrade
    BY <1>11, OnTradeInv
  <1>12. CASE \E s \in Symbol, price \in Price : UpdateMark(s, price)
    BY <1>12, UpdateMarkInv
  <1>13. CASE UNCHANGED vars
    <2>1. UNCHANGED <<running, engine, fills, sent, down, received, pnl, buy_turn,
                      positions, cash, realized_pnl, exposure, recent_trades>>
      BY <1>13 DEF vars, market, books
    <2>2. TypeOK' /\ Paired' /\ InTurn'
      BY <2>1 DEF Inv, TypeOK, Paired, InTurn
    <2>3. Recorded' = Recorded /\ Counted' = Counted
      BY <2>1 DEF Recorded, Counted
    <2>4. RoundTrips' /\ ExposureOpen'
      BY <2>1, <2>3 DEF Inv, RoundTrips, ExposureOpen, Held, Cost
    <2> QED BY <2>2, <2>4 DEF Inv
  <1> QED BY <1>1, <1>2, <1>3, <1>4, <1>5, <1>6, <1>7, <1>8, <1>9, <1>10, <1>11,
             <1>12, <1>13 DEF Next, PnlStep

-----------------------------------------------------------------------------
(* Theorems *)

\* The inductive invariant holds in every behaviour.
THEOREM Invariance == Spec => []Inv
  <1>1. Inv /\ [Next]_vars => Inv'
    BY StepInv
  <1> QED BY InitInv, <1>1, PTL DEF Spec

\* Every variable keeps its type; in particular the PnL thread never books a
\* trade it has not popped, nor pops one that was not pushed.
THEOREM TypeCorrect == Spec => []TypeOK
  <1>1. Inv => TypeOK
    BY DEF Inv
  <1> QED BY Invariance, <1>1, PTL

\* Whatever is traded and however the threads interleave, the callback's second
\* push makes every fill a BUY and a SELL at one price, so that nothing is ever
\* won or lost (main.cpp:97, main.cpp:155-162, PositionManager.cpp:20-54).
THEOREM FillsRoundTrip == Spec => []RoundTrips
  <1>1. Inv => RoundTrips
    BY DEF Inv
  <1> QED BY Invariance, <1>1, PTL

\* While no price is negative, the exposure RiskManager keeps is what the open
\* positions of PositionManager cost (RiskManager.cpp:48-58).
THEOREM ExposureAccurate == Spec => []ExposureIsCost
  <1>1. Inv => ExposureIsCost
    <2> SUFFICES ASSUME Inv, Recorded = Counted,
                        \A i \in DOMAIN sent : sent[i].price >= 0,
                        NEW s \in Symbol
                 PROVE  exposure[s] = Held(s).quantity * Held(s).avg_cost
      BY DEF ExposureIsCost
    <2>1. exposure[s] = IF Recorded % 2 = 1 /\ sent[Recorded].symbol = s
                        THEN Cost(sent[Recorded]) ELSE 0
      BY DEF Inv, ExposureOpen
    <2>2. /\ Held(s).quantity = IF Recorded % 2 = 1 /\ sent[Recorded].symbol = s
                                THEN sent[Recorded].quantity ELSE 0
          /\ Held(s).avg_cost = IF Recorded % 2 = 1 /\ sent[Recorded].symbol = s
                                THEN sent[Recorded].price ELSE 0
      BY DEF Inv, RoundTrips
    <2>3. CASE Recorded % 2 = 1 /\ sent[Recorded].symbol = s
      <3>1. sent \in Seq(Trade) /\ Recorded \in 1..Len(sent)
        <4>1. /\ received \in 0..Len(sent) /\ Len(sent) \in Nat
              /\ pnl \in {"record", "risk", "display"} => received > 0
          BY DEF Inv, TypeOK
        <4>2. Recorded \in 0..Len(sent)
          BY <4>1 DEF Recorded
        <4>3. Recorded # 0
          BY ONLY <2>3
        <4>4. sent \in Seq(Trade)
          BY DEF Inv, TypeOK
        <4> QED BY ONLY <4>1, <4>2, <4>3, <4>4
      <3>2. sent[Recorded] \in Trade
        BY <3>1, ElementOfSeq
      <3>3. sent[Recorded].price \in Int /\ sent[Recorded].quantity \in Int
        BY <3>2 DEF Trade
      <3> QED BY <2>1, <2>2, <2>3, <3>3 DEF Cost
    <2>4. CASE ~(Recorded % 2 = 1 /\ sent[Recorded].symbol = s)
      BY <2>1, <2>2, <2>4
    <2> QED BY <2>3, <2>4
  <1> QED BY Invariance, <1>1, PTL

-----------------------------------------------------------------------------
(* The accounts *)

\* Only finitely many symbols ever get a position.
FinitelyMany == IsFiniteSet(DOMAIN positions)

\* Each trade adds one symbol at most.
LEMMA FinitelyManyPositions == Spec => []FinitelyMany
  <1>1. Init => FinitelyMany
    <2> SUFFICES ASSUME Init PROVE FinitelyMany
      OBVIOUS
    <2>1. DOMAIN positions = {}
      BY DEF Init
    <2> QED BY <2>1, FS_EmptySet DEF FinitelyMany
  <1>2. FinitelyMany /\ [Next]_vars => FinitelyMany'
    <2> SUFFICES ASSUME FinitelyMany, [Next]_vars PROVE FinitelyMany'
      OBVIOUS
    <2>1. CASE RecordTrade
      <3>1. DOMAIN positions' = DOMAIN positions \cup {Current.symbol}
        BY <2>1 DEF RecordTrade, Buy, Sell, Booked
      <3> QED BY <3>1, FS_AddElement DEF FinitelyMany
    <2>2. CASE ~RecordTrade
      <3>1. DOMAIN positions' = DOMAIN positions
        BY <2>2 DEF Next, PnlStep, MakeFill, FillCallback, Signal, StopEngine,
              ShutdownTrades, CheckRunning, PopNothing, PopTrade, RecordFill,
              OnTrade, UpdateMark, vars, books
      <3> QED BY <3>1 DEF FinitelyMany
    <2> QED BY <2>1, <2>2
  <1> QED BY <1>1, <1>2, PTL DEF Spec

\* When all is flat, all three sums are zero; halfway through a fill, each is
\* that of the one position it has opened.
LEMMA RoundTripsBalance == Inv /\ FinitelyMany => AccountsBalance
  <1> SUFFICES ASSUME Inv, IsFiniteSet(DOMAIN positions) PROVE AccountsBalance
    BY DEF FinitelyMany
  <1> DEFINE S == DOMAIN positions
             worth == [s \in S |-> positions[s].quantity * positions[s].last_price]
             gain == [s \in S |-> (positions[s].last_price - positions[s].avg_cost)
                                     * positions[s].quantity]
             won == [s \in S |-> positions[s].realized_pnl]
  <1>1. /\ PortfolioValue = cash + SumFunctionOnSet(worth, S)
        /\ UnrealizedPnl = SumFunctionOnSet(gain, S)
        /\ SumFunction(won) = SumFunctionOnSet(won, S)
    BY DEF PortfolioValue, UnrealizedPnl, SumFunction
  <1>2. /\ S \subseteq Symbol /\ \A s \in S : Held(s) = positions[s]
        /\ \A s \in S : /\ positions[s].quantity \in Int
                        /\ positions[s].avg_cost \in Int
                        /\ positions[s].last_price \in Int
    BY DEF Inv, TypeOK, Position, Held
  <1>3. realized_pnl = 0 /\ InitialCash \in Int
    BY SettlementAssumption DEF Inv, RoundTrips
  <1>4. SumFunctionOnSet(won, S) = 0
    <2>1. \A s \in S : won[s] = 0
      BY <1>2 DEF Inv, RoundTrips
    <2> HIDE DEF S, won
    <2> QED BY <2>1, SumZero DEF S
  <1>5. CASE Recorded % 2 # 1
    <2>1. \A s \in S : positions[s].quantity = 0
      BY <1>2, <1>5 DEF Inv, RoundTrips
    <2>2. \A s \in S : worth[s] = 0 /\ gain[s] = 0
      BY <1>2, <2>1
    <2>3. cash = InitialCash
      BY <1>5 DEF Inv, RoundTrips
    <2> HIDE DEF worth, gain, won, S
    <2>4. SumFunctionOnSet(worth, S) = 0 /\ SumFunctionOnSet(gain, S) = 0
      BY <2>2, SumZero DEF S
    <2>5. PortfolioValue = InitialCash + realized_pnl + UnrealizedPnl
      BY <1>1, <1>3, <2>3, <2>4
    <2> QED BY <1>1, <1>3, <1>4, <2>5 DEF AccountsBalance, won, S
  <1>6. CASE Recorded % 2 = 1
    <2> DEFINE trade == sent[Recorded]
               s == trade.symbol
    <2>1. trade \in Trade
      <3>1. /\ received \in 0..Len(sent) /\ Len(sent) \in Nat /\ sent \in Seq(Trade)
            /\ pnl \in {"record", "risk", "display"} => received > 0
        BY DEF Inv, TypeOK
      <3>2. Recorded \in 0..Len(sent)
        BY <3>1 DEF Recorded
      <3>3. Recorded # 0
        BY ONLY <1>6
      <3>4. Recorded \in 1..Len(sent)
        BY ONLY <3>1, <3>2, <3>3
      <3> QED BY <3>1, <3>4, ElementOfSeq
    <2>2. s \in Symbol /\ trade.price \in Int /\ trade.quantity \in Nat \ {0}
      BY <2>1 DEF Trade
    <2>3. /\ Held(s).quantity = trade.quantity /\ Held(s).avg_cost = trade.price
          /\ \A x \in Symbol \ {s} : Held(x).quantity = 0
          /\ cash = InitialCash - Cost(trade)
      BY <1>6, <2>2 DEF Inv, RoundTrips
    <2>4. s \in S
      BY <2>2, <2>3 DEF Held, NewPosition
    <2>5. /\ \A x \in S \ {s} : positions[x].quantity = 0
          /\ positions[s].quantity = trade.quantity /\ positions[s].avg_cost = trade.price
          /\ positions[s].last_price \in Int
      BY <1>2, <2>3, <2>4
    <2>6. /\ worth[s] = trade.quantity * positions[s].last_price
          /\ gain[s] = (positions[s].last_price - trade.price) * trade.quantity
          /\ worth[s] \in Int /\ gain[s] \in Int
          /\ \A x \in S \ {s} : worth[x] = 0 /\ gain[x] = 0
      BY <1>2, <2>2, <2>4, <2>5
    <2> HIDE DEF worth, gain, won, S, s, trade
    <2>7. /\ SumFunctionOnSet(worth, S) = worth[s]
          /\ SumFunctionOnSet(gain, S) = gain[s]
      BY <2>4, <2>6, SumSingle DEF S
    <2>8. \A price, mark \in Int, quantity \in Nat, initial \in Int :
             initial - price * quantity + quantity * mark
                = initial + 0 + (mark - price) * quantity
      OBVIOUS
    <2>9. PortfolioValue = InitialCash + realized_pnl + UnrealizedPnl
      BY <1>1, <1>3, <2>2, <2>3, <2>5, <2>6, <2>7, <2>8 DEF Cost
    <2> QED BY <1>1, <1>3, <1>4, <2>9 DEF AccountsBalance, won, S
  <1> QED BY <1>5, <1>6

\* Under every interleaving of fills and marks, whatever the portfolio is worth
\* is the initial cash and the total PnL (PositionManager.cpp:75-103).
THEOREM AccountsAreBalanced == Spec => []AccountsBalance
  BY Invariance, FinitelyManyPositions, RoundTripsBalance, PTL

-----------------------------------------------------------------------------
(* The deque of recent trades *)

\* What was pushed stays where it is.
LEMMA SentGrows ==
  ASSUME Inv, [Next]_vars, NEW i \in 1..Len(sent)
  PROVE  sent'[i] = sent[i]
  <1>1. sent \in Seq(Trade)
    BY DEF Inv, TypeOK
  <1>2. sent' = sent \/ \E t : sent' = Append(sent, t)
    BY DEF Next, PnlStep, MakeFill, FillCallback, PushTrade, Signal, StopEngine,
          ShutdownTrades, CheckRunning, PopNothing, PopTrade, RecordTrade,
          RecordFill, OnTrade, UpdateMark, vars, market
  <1> QED BY <1>1, <1>2

\* Showing a trade moves the window of recent trades by one.
LEMMA OnTradeShows == Inv /\ RecentTradesAreLast /\ OnTrade => RecentTradesAreLast'
  <1> SUFFICES ASSUME Inv, RecentTradesAreLast, OnTrade PROVE RecentTradesAreLast'
    OBVIOUS
  <1> DEFINE all == <<Current>> \o recent_trades
  <1>1. /\ recent_trades \in Seq(Trade) /\ Current \in Trade
        /\ received \in Nat \ {0} /\ pnl = "display" /\ pnl' = "loop"
        /\ sent' = sent /\ received' = received
    BY TradeAtHand DEF Inv, TypeOK, OnTrade, market
  <1>2. Shown = received - 1 /\ Shown' = received
    BY <1>1 DEF Shown
  <1>3. /\ all \in Seq(Trade) /\ Len(all) = Len(recent_trades) + 1
        /\ \A i \in 1..Len(all) : all[i] = IF i = 1 THEN Current ELSE recent_trades[i - 1]
    BY <1>1
  <1>4. \A i \in 1..Len(all) : all[i] = sent[received + 1 - i]
    <2> SUFFICES ASSUME NEW i \in 1..Len(all) PROVE all[i] = sent[received + 1 - i]
      OBVIOUS
    <2>1. CASE i = 1
      BY <1>1, <1>3, <2>1 DEF Current
    <2>2. CASE i # 1
      <3>1. i - 1 \in DOMAIN recent_trades /\ all[i] = recent_trades[i - 1]
        <4> HIDE DEF all
        <4> QED BY <1>1, <1>3, <2>2
      <3>2. recent_trades[i - 1] = sent[Shown + 1 - (i - 1)]
        BY <3>1 DEF RecentTradesAreLast
      <3> QED BY <1>1, <1>2, <3>1, <3>2
    <2> QED BY <2>1, <2>2
  <1>5. recent_trades' = IF Len(all) > MaxTrades THEN SubSeq(all, 1, Len(all) - 1) ELSE all
    BY DEF OnTrade
  <1>6. Len(recent_trades) = IF received - 1 > MaxTrades THEN MaxTrades ELSE received - 1
    BY <1>2 DEF RecentTradesAreLast
  <1> HIDE DEF all
  <1>7. MaxTrades \in Nat
    BY SettlementAssumption
  <1>8. CASE Len(all) > MaxTrades
    <2>1. Len(all) = MaxTrades + 1 /\ received >= MaxTrades
      BY <1>1, <1>3, <1>6, <1>7, <1>8
    <2>2. /\ Len(recent_trades') = MaxTrades
          /\ DOMAIN recent_trades' = 1..MaxTrades
          /\ \A i \in 1..MaxTrades : recent_trades'[i] = all[i]
      <3>1. recent_trades' = SubSeq(all, 1, MaxTrades)
        BY <1>5, <1>7, <1>8, <2>1
      <3>2. \A i \in 1..MaxTrades : all[i] \in Trade
        BY <1>3, <1>7, <2>1, ElementOfSeq
      <3> QED BY <1>3, <1>7, <2>1, <3>1, <3>2, SubSeqProperties
    <2>3. \A i \in 1..MaxTrades : i \in 1..Len(all)
      BY <1>7, <2>1
    <2>4. \A i \in 1..MaxTrades : recent_trades'[i] = sent[received + 1 - i]
      BY <1>4, <2>2, <2>3
    <2> QED BY <1>1, <1>2, <1>7, <2>1, <2>2, <2>4 DEF RecentTradesAreLast
  <1>9. CASE ~(Len(all) > MaxTrades)
    <2>1. Len(all) = received /\ received <= MaxTrades
      BY <1>1, <1>3, <1>6, <1>7, <1>9
    <2>2. DOMAIN all = 1..Len(all)
      BY <1>3
    <2> QED BY <1>1, <1>2, <1>4, <1>5, <1>7, <1>9, <2>1, <2>2 DEF RecentTradesAreLast
  <1> QED BY <1>8, <1>9

\* At any moment the display has the last trades booked, newest first, and never
\* more than its limit (DisplayManager.cpp:40-45).
THEOREM DisplayIsCurrent == Spec => []RecentTradesAreLast
  <1>1. Init => RecentTradesAreLast
    BY SettlementAssumption DEF Init, RecentTradesAreLast, Shown
  <1>2. Inv /\ RecentTradesAreLast /\ [Next]_vars => RecentTradesAreLast'
    <2> SUFFICES ASSUME Inv, RecentTradesAreLast, [Next]_vars PROVE RecentTradesAreLast'
      OBVIOUS
    <2>1. CASE OnTrade
      BY <2>1, OnTradeShows
    <2>2. CASE ~OnTrade
      <3>1. recent_trades' = recent_trades
        BY <2>2 DEF Next, PnlStep, MakeFill, FillCallback, Signal, StopEngine,
              ShutdownTrades, CheckRunning, PopNothing, PopTrade, RecordTrade,
              RecordFill, UpdateMark, vars, books
      <3>2. received \in 0..Len(sent) /\ Len(sent) \in Nat
        BY DEF Inv, TypeOK
      <3>3. Shown' = Shown
        <4>1. CASE pnl' = pnl /\ received' = received
          BY <4>1 DEF Shown
        <4>2. CASE CheckRunning \/ PopNothing
          BY <4>2 DEF CheckRunning, PopNothing, Shown
        <4>3. CASE RecordTrade \/ RecordFill
          BY <4>3 DEF RecordTrade, RecordFill, Shown
        <4>4. CASE PopTrade
          BY <3>2, <4>4 DEF PopTrade, Shown
        <4>5. CASE UNCHANGED vars
          BY <4>5 DEF vars, Shown
        <4>6. CASE \/ \E s \in Symbol, price \in Price, quantity \in Quantity :
                        MakeFill(s, price, quantity)
                   \/ FillCallback \/ Signal \/ StopEngine \/ ShutdownTrades
                   \/ \E s \in Symbol, price \in Price : UpdateMark(s, price)
          BY <4>1, <4>6 DEF MakeFill, FillCallback, Signal, StopEngine,
              ShutdownTrades, UpdateMark
        <4> QED BY <2>2, <4>2, <4>3, <4>4, <4>5, <4>6 DEF Next, PnlStep
      <3>4. \A i \in 1..Len(sent) : sent'[i] = sent[i]
        BY SentGrows
      <3>5. \A i \in DOMAIN recent_trades : Shown + 1 - i \in 1..Len(sent)
        <4>1. recent_trades \in Seq(Trade)
          BY DEF Inv, TypeOK
        <4>2. Shown \in 0..Len(sent)
          BY <3>2 DEF Inv, TypeOK, Shown
        <4>3. Len(recent_trades) <= Shown
          BY <4>1, <4>2, SettlementAssumption DEF RecentTradesAreLast
        <4> QED BY <4>1, <4>2, <4>3
      <3> QED BY <3>1, <3>3, <3>4, <3>5 DEF RecentTradesAreLast
    <2> QED BY <2>1, <2>2
  <1> QED BY Invariance, <1>1, <1>2, PTL DEF Spec

-----------------------------------------------------------------------------
(* The reader *)

\* Whoever adds the two reads of total_pnl() gets what the total was between
\* them, whatever was booked and marked meanwhile (PositionManager.cpp:93-95).
THEOREM TotalIsNeverTorn == ViewSpec => TotalPnlIsReal
  <1> DEFINE J == reading => realized = 0 /\ TotalPnl \in totals
  <1>1. Init => Inv
    BY InitInv
  <1>2. Inv /\ [ViewNext]_<<vars, view>> => Inv'
    BY StepInv DEF ViewNext, Watched, ReadRealized, ReadUnrealized
  <1>3. ViewInit => J
    BY DEF ViewInit
  <1>4. Inv /\ Inv' /\ J /\ [ViewNext]_<<vars, view>> => J'
    <2> SUFFICES ASSUME Inv, Inv', J, [ViewNext]_<<vars, view>> PROVE J'
      OBVIOUS
    <2>1. realized_pnl = 0
      BY DEF Inv, RoundTrips
    <2>2. CASE Watched
      BY <2>2 DEF Watched
    <2>3. CASE ReadRealized
      <3>1. TotalPnl' = TotalPnl
        BY <2>3 DEF ReadRealized, TotalPnl, UnrealizedPnl, vars, books
      <3> QED BY <2>1, <2>3, <3>1 DEF ReadRealized
    <2>4. CASE ReadUnrealized
      BY <2>4 DEF ReadUnrealized
    <2>5. CASE UNCHANGED <<vars, view>>
      <3>1. TotalPnl' = TotalPnl
        BY <2>5 DEF TotalPnl, UnrealizedPnl, vars, books
      <3> QED BY <2>5, <3>1 DEF view
    <2> QED BY <2>2, <2>3, <2>4, <2>5 DEF ViewNext
  <1>5. Inv /\ J => (ReadUnrealized => realized + UnrealizedPnl \in totals)
    BY DEF Inv, RoundTrips, ReadUnrealized, TotalPnl
  <1>6. ViewInit => Init
    BY DEF ViewInit
  <1> QED BY <1>1, <1>2, <1>3, <1>4, <1>5, <1>6, PTL DEF ViewSpec, TotalPnlIsReal
=============================================================================
