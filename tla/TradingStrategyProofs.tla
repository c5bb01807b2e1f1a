------------------------ MODULE TradingStrategyProofs ------------------------
(***************************************************************************)
(* Theorems about IndicatorEngine and TradingStrategy, for all symbols,    *)
(* prices, periods and limits: what the indicators are, and when; types,   *)
(* the cooldown, the limits under racing reads, and the warm-up, which the *)
(* strategy gets from the indicators.                                      *)
(***************************************************************************)
EXTENDS TradingStrategy, Sums, SequenceTheorems

-----------------------------------------------------------------------------
(* IndicatorEngine *)

\* What one symbol's state has to do with the prices h it was fed.
Follows(st, h) ==
    /\ Len(st.window) = Lesser(Len(h), sma_period)
    /\ \A i \in 1..Len(st.window) : st.window[i] = h[Len(h) - Len(st.window) + i]
    /\ st.ema_initialized <=> Len(h) >= sma_period
    /\ st.prev_price = NoPrice <=> Len(h) = 0
    /\ Len(h) > 0 => st.rsi_count = Lesser(Len(h) - 1, rsi_period)
    /\ Len(h) = 0 => st.rsi_count = 0

\* The flags that update() copies to the snapshot.
FlagsSet(st) ==
    /\ st.sma_valid <=> Len(st.window) = sma_period
    /\ st.ema_valid <=> st.ema_initialized
    /\ st.rsi_valid <=> st.rsi_count >= rsi_period

\* The EMA of the prices h, over EmaDen(h).
EmaNum(h) ==
    LET k == Len(h) - sma_period
    IN Power(ema_period - 1, k) * SumOver(h, 1, sma_period)
         + 2 * sma_period
             * Weighted(h, sma_period + 1, Len(h), ema_period - 1, ema_period + 1)

EmaDen(h) == sma_period * Power(ema_period + 1, Len(h) - sma_period)

\* The averages of the first d of the changes f, over AverageDen(d).
Average(f, d) == IF d < rsi_period THEN SumOver(f, 1, d) ELSE Wilder(f, d)

AverageDen(d) == IF d < rsi_period THEN 1 ELSE Power(rsi_period, d - rsi_period + 1)

\* What the values of one symbol's state have to do with the prices it was fed:
\* each incremental value is the one its definition gives.
Averages(st, h) ==
    LET n == Len(h)
        d == n - 1
    IN /\ st.running_sum = SumOver(h, n - Len(st.window) + 1, n)
       /\ st.ema_initialized => st.ema_value = Frac(EmaNum(h), EmaDen(h))
       /\ n > 0 => st.prev_price = h[n]
       /\ st.avg_gain = Average(Gains(h), d)
       /\ st.avg_loss = Average(Losses(h), d)
       /\ st.avg_den = AverageDen(d)
       /\ d > rsi_period => st.rsi = Rsi(st.avg_gain, st.avg_loss)
       /\ st.sma_valid => st.sma = Frac(st.running_sum, sma_period)

Inv ==
    /\ states \in [Symbol -> SymbolState]
    /\ fed \in [Symbol -> Seq(Nat)]
    /\ \A s \in Symbol : /\ Follows(states[s], fed[s])
                         /\ FlagsSet(states[s])
                         /\ Averages(states[s], fed[s])

-----------------------------------------------------------------------------
(* The definitions of the indicators, one price at a time *)

\* The EMA starts as the first SMA.
LEMMA EmaSeeded ==
  ASSUME NEW h \in Seq(Nat), Len(h) = sma_period
  PROVE  EmaNum(h) = SumOver(h, 1, sma_period) /\ EmaDen(h) = sma_period
  <1>1. sma_period \in Nat \ {0} /\ ema_period \in Nat \ {0}
    BY IndicatorAssumption
  <1>2. \A i \in 1..sma_period : h[i] \in Int
    BY ElementOfSeq
  <1> DEFINE S == SumOver(h, 1, sma_period)
             W == Weighted(h, sma_period + 1, Len(h), ema_period - 1, ema_period + 1)
  <1>3. S \in Int
    BY <1>1, <1>2, SumOverInt
  <1>4. W = 0
    BY <1>1, WeightedNothing
  <1>5. Len(h) - sma_period = 0
    BY <1>1
  <1>6. /\ EmaNum(h) = Power(ema_period - 1, 0) * S + 2 * sma_period * W
        /\ EmaDen(h) = sma_period * Power(ema_period + 1, 0)
    BY <1>5 DEF EmaNum, EmaDen
  <1>7. Power(ema_period - 1, 0) = 1 /\ Power(ema_period + 1, 0) = 1
    BY PowerRecursion
  <1> HIDE DEF S, W
  <1>8. EmaNum(h) = S /\ EmaDen(h) = sma_period
    BY <1>1, <1>3, <1>4, <1>6, <1>7
  <1> QED BY <1>8 DEF S

\* One price more is one step of its recursion.
LEMMA EmaGrows ==
  ASSUME NEW h \in Seq(Nat), Len(h) >= sma_period, NEW price \in Nat
  PROVE  LET g == Append(h, price) IN
         /\ EmaNum(g) = 2 * price * EmaDen(h) + (ema_period - 1) * EmaNum(h)
         /\ EmaDen(g) = (ema_period + 1) * EmaDen(h)
  <1> DEFINE n == Len(h)
             g == Append(h, price)
             k == n - sma_period
             p == ema_period - 1
             q == ema_period + 1
             from == sma_period + 1
             S == SumOver(h, 1, sma_period)
             W == Weighted(h, from, n, p, q)
             Pk == Power(p, k)
             Qk == Power(q, k)
  <1>1. /\ sma_period \in Nat \ {0} /\ n \in Nat /\ k \in Nat /\ k + 1 = n + 1 - sma_period
        /\ p \in Int /\ q \in Int /\ from \in Int /\ from <= n + 1
        /\ n + 1 - from = k
    BY IndicatorAssumption
  <1>2. /\ Len(g) = n + 1 /\ \A i \in 1..n : g[i] = h[i]
        /\ g[n + 1] = price /\ \A i \in 1..(n + 1) : g[i] \in Int
    BY ElementOfSeq
  <1>3. \A i \in 1..n : h[i] \in Int
    BY ElementOfSeq
  <1>4. 1..sma_period \subseteq 1..n /\ from..n \subseteq 1..n /\ from..(n + 1) \subseteq 1..(n + 1)
    BY <1>1
  <1> HIDE DEF g
  <1>5. SumOver(g, 1, sma_period) = S /\ S \in Int
    <2>1. \A i \in 1..sma_period : g[i] = h[i] /\ h[i] \in Int
      BY <1>2, <1>3, <1>4
    <2> QED BY <1>1, <2>1, SumOverInt, SumOverSame
  <1>6. Weighted(g, from, n, p, q) = W /\ W \in Int
    <2>1. \A i \in from..n : g[i] = h[i] /\ h[i] \in Int
      BY <1>2, <1>3, <1>4
    <2> HIDE DEF n, p, q, from
    <2>2. Weighted(g, from, n, p, q) = W
      BY <1>1, <2>1, WeightedSame
    <2> QED BY <1>1, <2>1, <2>2, WeightedInt
  <1>7. Weighted(g, from, n + 1, p, q) = p * W + price * Qk
    <2> HIDE DEF n, p, q, from, W, k
    <2>1. \A i \in from..(n + 1) : g[i] \in Int
      BY <1>2, <1>4
    <2>2. Weighted(g, from, n + 1, p, q)
             = p * Weighted(g, from, n, p, q) + g[n + 1] * Power(q, n + 1 - from)
      BY <1>1, <2>1, WeightedGrows
    <2> QED BY <1>1, <1>2, <1>6, <2>2
  <1>8. /\ Pk \in Int /\ Qk \in Int
        /\ Power(p, k + 1) = p * Pk /\ Power(q, k + 1) = q * Qk
    <2> HIDE DEF k, p, q
    <2> QED BY <1>1, PowerInt, PowerRecursion
  <1>9. EmaNum(h) = Pk * S + 2 * sma_period * W /\ EmaDen(h) = sma_period * Qk
    BY DEF EmaNum, EmaDen
  <1>10. /\ EmaNum(g) = (p * Pk) * S + 2 * sma_period * (p * W + price * Qk)
         /\ EmaDen(g) = sma_period * (q * Qk)
    BY <1>1, <1>2, <1>5, <1>7, <1>8 DEF EmaNum, EmaDen
  <1> HIDE DEF n, k, p, q, from, S, W, Pk, Qk
  <1>11. (p * Pk) * S + 2 * sma_period * (p * W + price * Qk)
            = 2 * price * (sma_period * Qk) + p * (Pk * S + 2 * sma_period * W)
    <2>1. sma_period \in Int /\ price \in Int
      BY <1>1
    <2>2. \A a, b, c, d, x, y, s \in Int :
             (a * b) * c + 2 * s * (a * d + x * y)
               = 2 * x * (s * y) + a * (b * c + 2 * s * d)
      OBVIOUS
    <2> QED BY ONLY <1>1, <1>5, <1>6, <1>8, <2>1, <2>2
  <1>12. sma_period * (q * Qk) = q * (sma_period * Qk)
    <2>1. \A a, b, c \in Int : a * (b * c) = b * (a * c)
      OBVIOUS
    <2> QED BY <1>1, <1>8, <2>1
  <1>13. /\ EmaNum(g) = 2 * price * EmaDen(h) + p * EmaNum(h)
         /\ EmaDen(g) = q * EmaDen(h)
    BY <1>9, <1>10, <1>11, <1>12
  <1> QED BY <1>13 DEF g, p, q

\* One change more is one step of the warm-up or of Wilder's recursion.
LEMMA AverageGrows ==
  ASSUME NEW d \in Nat, NEW f, \A i \in 1..(d + 1) : f[i] \in Int
  PROVE  /\ d < rsi_period =>
               /\ Average(f, d + 1) = Average(f, d) + f[d + 1]
               /\ AverageDen(d + 1) = IF d + 1 = rsi_period THEN rsi_period ELSE 1
         /\ d >= rsi_period =>
               /\ Average(f, d + 1)
                    = Average(f, d) * (rsi_period - 1) + f[d + 1] * AverageDen(d)
               /\ AverageDen(d + 1) = AverageDen(d) * rsi_period
  <1> DEFINE r == rsi_period
             p == r - 1
             from == r + 1
             S == SumOver(f, 1, r)
  <1>1. r \in Nat \ {0} /\ p \in Int /\ from \in Int
    BY IndicatorAssumption
  <1>2. f[d + 1] \in Int
    OBVIOUS
  <1>3. CASE d + 1 < r
    <2>1. SumOver(f, 1, d + 1) = SumOver(f, 1, d) + f[d + 1]
      BY SumOverGrows
    <2>2. d < r /\ ~(d >= r) /\ d + 1 # r
      BY <1>1, <1>3
    <2> QED BY <1>3, <2>1, <2>2 DEF Average, AverageDen
  <1>4. CASE d + 1 = r
    <2>1. SumOver(f, 1, d + 1) = SumOver(f, 1, d) + f[d + 1]
      BY SumOverGrows
    <2>2. SumOver(f, 1, d + 1) \in Int
      BY SumOverInt
    <2>3. Weighted(f, from, d + 1, p, r) = 0
      <3> HIDE DEF p
      <3> QED BY <1>1, <1>4, WeightedNothing
    <2>4. d + 1 - r = 0 /\ d + 1 - r + 1 = 1 /\ d < r /\ ~(d + 1 < r) /\ ~(d >= r)
      BY <1>1, <1>4
    <2>5. Power(p, 0) = 1 /\ Power(r, 1) = r
      BY <1>1, PowerRecursion, PowerOne
    <2>6. Wilder(f, d + 1)
             = Power(p, 0) * SumOver(f, 1, r) + r * Weighted(f, from, d + 1, p, r)
      BY <1>1, <2>4 DEF Wilder
    <2> HIDE DEF r, p, from
    <2>7. Wilder(f, d + 1) = SumOver(f, 1, d + 1)
      BY <1>1, <1>4, <2>2, <2>3, <2>5, <2>6
    <2>8. AverageDen(d + 1) = r
      BY <1>1, <1>4, <2>4, <2>5 DEF AverageDen, r
    <2>9. Average(f, d + 1) = Average(f, d) + f[d + 1]
      BY <2>1, <2>4, <2>7 DEF Average, r
    <2> QED BY <1>4, <2>4, <2>8, <2>9 DEF r
  <1>5. CASE d >= r
    <2> DEFINE k == d - r
               W == Weighted(f, from, d, p, r)
               Pk == Power(p, k)
               Rk == Power(r, k)
    <2>1. /\ k \in Nat /\ d + 1 - r = k + 1 /\ d + 1 - from = k
          /\ from <= d + 1 /\ ~(d < r) /\ ~(d + 1 < r)
          /\ 1..r \subseteq 1..(d + 1) /\ from..(d + 1) \subseteq 1..(d + 1)
          /\ from..d \subseteq 1..(d + 1)
      BY <1>1, <1>5
    <2>2. S \in Int
      BY <1>1, <2>1, SumOverInt
    <2>3. W \in Int /\ Weighted(f, from, d + 1, p, r) = p * W + f[d + 1] * Rk
      <3> HIDE DEF r, p, from, k
      <3>1. \A i \in from..(d + 1) : f[i] \in Int
        BY <2>1
      <3>2. Weighted(f, from, d + 1, p, r)
               = p * Weighted(f, from, d, p, r) + f[d + 1] * Power(r, d + 1 - from)
        BY <1>1, <2>1, <3>1, WeightedGrows
      <3>3. W \in Int
        BY <1>1, <2>1, WeightedInt
      <3> QED BY <2>1, <3>2, <3>3
    <2>4. /\ Pk \in Int /\ Rk \in Int
          /\ Power(p, k + 1) = p * Pk /\ Power(r, k + 1) = r * Rk
          /\ Power(r, k + 1 + 1) = r * (r * Rk)
      <3> HIDE DEF k, p, r
      <3>1. k + 1 \in Nat
        BY <2>1
      <3>2. Power(r, k + 1 + 1) = r * Power(r, k + 1)
        BY <3>1, PowerRecursion
      <3>3. Power(p, k + 1) = p * Pk /\ Power(r, k + 1) = r * Rk
        BY <2>1, PowerRecursion
      <3>4. Pk \in Int /\ Rk \in Int
        BY <1>1, <2>1, PowerInt
      <3> QED BY <3>2, <3>3, <3>4
    <2>5. Average(f, d) = Pk * S + r * W /\ AverageDen(d) = r * Rk
      <3>1. Power(r, d - r + 1) = r * Rk
        BY <2>4
      <3> QED BY <2>1, <3>1 DEF Average, AverageDen, Wilder
    <2>6. /\ Average(f, d + 1) = (p * Pk) * S + r * (p * W + f[d + 1] * Rk)
          /\ AverageDen(d + 1) = r * (r * Rk)
      <3>1. /\ Average(f, d + 1)
                 = Power(p, d + 1 - r) * S + r * Weighted(f, from, d + 1, p, r)
            /\ AverageDen(d + 1) = Power(r, d + 1 - r + 1)
        BY <1>1, <2>1 DEF Average, AverageDen, Wilder
      <3> HIDE DEF k, p, r, from
      <3> QED BY <2>1, <2>3, <2>4, <3>1
    <2> HIDE DEF k, W, Pk, Rk, S, p, r, from
    <2>7. (p * Pk) * S + r * (p * W + f[d + 1] * Rk)
             = (Pk * S + r * W) * p + f[d + 1] * (r * Rk)
      <3>1. \A a, b, c, e, x, y, s \in Int :
               (a * b) * c + s * (a * e + x * y)
                 = (b * c + s * e) * a + x * (s * y)
        OBVIOUS
      <3>2. r \in Int
        BY <1>1
      <3> QED BY ONLY <1>1, <1>2, <2>2, <2>3, <2>4, <3>1, <3>2
    <2>8. r * (r * Rk) = (r * Rk) * r
      <3>1. \A x, y \in Int : x * (x * y) = (x * y) * x
        OBVIOUS
      <3> QED BY <1>1, <2>4, <3>1
    <2>9. /\ Average(f, d + 1) = Average(f, d) * p + f[d + 1] * AverageDen(d)
          /\ AverageDen(d + 1) = AverageDen(d) * r
      BY <2>5, <2>6, <2>7, <2>8
    <2> QED BY <2>1, <2>9 DEF p, r
  <1> QED BY <1>1, <1>3, <1>4, <1>5

\* An average depends on the changes it is taken over only.
LEMMA AverageSame ==
  ASSUME NEW d \in Int, NEW f, NEW g, \A i \in 1..d : f[i] = g[i]
  PROVE  Average(f, d) = Average(g, d)
  <1>1. rsi_period \in Nat \ {0}
    BY IndicatorAssumption
  <1>2. SumOver(f, 1, d) = SumOver(g, 1, d)
    BY SumOverSame
  <1>3. CASE d < rsi_period
    BY <1>2, <1>3 DEF Average
  <1>4. CASE ~(d < rsi_period)
    <2>1. 1..rsi_period \subseteq 1..d /\ (rsi_period + 1)..d \subseteq 1..d
      BY <1>1, <1>4
    <2>2. SumOver(f, 1, rsi_period) = SumOver(g, 1, rsi_period)
      BY <1>1, <2>1, SumOverSame
    <2>3. Weighted(f, rsi_period + 1, d, rsi_period - 1, rsi_period)
             = Weighted(g, rsi_period + 1, d, rsi_period - 1, rsi_period)
      BY <1>1, <2>1, WeightedSame
    <2> QED BY <1>4, <2>2, <2>3 DEF Average, Wilder
  <1> QED BY <1>3, <1>4

\* One price more is one change more.
LEMMA ChangesGrow ==
  ASSUME NEW h \in Seq(Nat), NEW price \in Nat, Len(h) > 0
  PROVE  LET n == Len(h)
             g == Append(h, price)
         IN /\ \A i \in 1..(n - 1) : Gains(g)[i] = Gains(h)[i] /\ Losses(g)[i] = Losses(h)[i]
            /\ Gains(g)[n] = Gain(price - h[n]) /\ Losses(g)[n] = Loss(price - h[n])
            /\ \A i \in 1..n : Gains(g)[i] \in Int /\ Losses(g)[i] \in Int
  <1> DEFINE n == Len(h)
             g == Append(h, price)
  <1>1. /\ n \in Nat /\ Len(g) = n + 1 /\ \A i \in 1..n : g[i] = h[i]
        /\ g[n + 1] = price /\ \A i \in 1..(n + 1) : g[i] \in Int
    BY ElementOfSeq
  <1> HIDE DEF g
  <1>2. /\ \A i \in 1..n : /\ Gains(g)[i] = Gain(g[i + 1] - g[i])
                           /\ Losses(g)[i] = Loss(g[i + 1] - g[i])
        /\ \A i \in 1..(n - 1) : /\ Gains(h)[i] = Gain(h[i + 1] - h[i])
                                 /\ Losses(h)[i] = Loss(h[i + 1] - h[i])
    BY <1>1 DEF Gains, Losses
  <1>3. ASSUME NEW i \in 1..(n - 1)
        PROVE  Gains(g)[i] = Gains(h)[i] /\ Losses(g)[i] = Losses(h)[i]
    <2>1. i \in 1..n /\ i + 1 \in 1..n
      BY <1>1
    <2> QED BY <1>1, <1>2, <2>1
  <1>4. Gains(g)[n] = Gain(price - h[n]) /\ Losses(g)[n] = Loss(price - h[n])
    BY <1>1, <1>2
  <1>5. ASSUME NEW i \in 1..n PROVE Gains(g)[i] \in Int /\ Losses(g)[i] \in Int
    <2>1. g[i + 1] - g[i] \in Int /\ -(g[i + 1] - g[i]) \in Int
      <3>1. i \in 1..(n + 1) /\ i + 1 \in 1..(n + 1)
        BY <1>1
      <3> QED BY <1>1, <3>1
    <2>2. \A x \in Int : Gain(x) \in Int
      BY DEF Gain
    <2> QED BY <1>2, <2>1, <2>2 DEF Loss
  <1> QED BY <1>3, <1>4, <1>5 DEF g

-----------------------------------------------------------------------------
(* The helpers of update() *)

\* The SMA's part keeps the window at the latest sma_period prices.
LEMMA SmaStep ==
  ASSUME NEW st \in SymbolState, NEW price \in Nat,
         Len(st.window) <= sma_period,
         NEW next, next = ComputeSma(st, price)
  PROVE  /\ next \in SymbolState
         /\ Len(next.window) = Lesser(Len(st.window) + 1, sma_period)
         /\ next.window[Len(next.window)] = price
         /\ \A i \in 1..(Len(next.window) - 1) :
               next.window[i] = st.window[Len(st.window) - Len(next.window) + 1 + i]
         /\ next.ema_initialized = st.ema_initialized
         /\ next.prev_price = st.prev_price
         /\ next.rsi_count = st.rsi_count
  <1> DEFINE window == Append(st.window, price)
             sum == st.running_sum + price
             rest == Tail(window)
             less == sum - Head(window)
  <1>1. /\ st.window \in Seq(Nat) /\ Len(st.window) \in Nat /\ st.running_sum \in Int
        /\ sma_period \in Nat \ {0}
    BY IndicatorAssumption DEF SymbolState
  <1>2. /\ window \in Seq(Nat) /\ Len(window) = Len(st.window) + 1
        /\ \A i \in 1..Len(st.window) : window[i] = st.window[i]
        /\ window[Len(st.window) + 1] = price
        /\ sum \in Int
    BY <1>1
  <1>3. CASE Len(window) > sma_period
    <2>1. Len(st.window) = sma_period
      BY <1>1, <1>2, <1>3
    <2>2. /\ rest \in Seq(Nat) /\ Len(rest) = sma_period
          /\ \A i \in 1..sma_period : rest[i] = window[i + 1]
          /\ Head(window) \in Nat
      <3> HIDE DEF window
      <3> QED BY <1>1, <1>2, <1>3, <2>1, HeadTailProperties
    <2>3. less \in Int
      <3> HIDE DEF window, sum
      <3> QED BY <1>2, <2>2
    <2>4. next = [st EXCEPT !.window = rest, !.running_sum = less]
      BY <1>3 DEF ComputeSma
    <2> HIDE DEF window, sum, rest, less
    <2>5. /\ next \in SymbolState
          /\ next.window = rest
          /\ next.ema_initialized = st.ema_initialized
          /\ next.prev_price = st.prev_price
          /\ next.rsi_count = st.rsi_count
      BY <2>2, <2>3, <2>4 DEF SymbolState
    <2>6. next.window[sma_period] = price
      BY <1>1, <1>2, <2>1, <2>2, <2>5
    <2>7. \A i \in 1..(sma_period - 1) : next.window[i] = st.window[i + 1]
      BY <1>1, <1>2, <2>1, <2>2, <2>5
    <2>8. Len(next.window) = sma_period
      BY <2>2, <2>5
    <2>9. Len(next.window) = Lesser(Len(st.window) + 1, sma_period)
      BY <1>1, <2>1, <2>8 DEF Lesser
    <2>10. \A i \in 1..(sma_period - 1) : sma_period - sma_period + 1 + i = i + 1
      BY <1>1
    <2> QED BY ZenonT(40), <2>1, <2>5, <2>6, <2>7, <2>8, <2>9, <2>10
  <1>4. CASE ~(Len(window) > sma_period)
    <2>1. next = [st EXCEPT !.window = window, !.running_sum = sum]
      BY <1>4 DEF ComputeSma
    <2> HIDE DEF window, sum
    <2>2. /\ next \in SymbolState
          /\ next.window = window
          /\ next.ema_initialized = st.ema_initialized
          /\ next.prev_price = st.prev_price
          /\ next.rsi_count = st.rsi_count
      BY <1>2, <2>1 DEF SymbolState
    <2>3. Len(next.window) = Len(st.window) + 1
      BY <1>2, <2>2
    <2>4. Len(next.window) = Lesser(Len(st.window) + 1, sma_period)
      BY <1>1, <1>2, <1>4, <2>3 DEF Lesser
    <2>5. next.window[Len(next.window)] = price
      BY <1>2, <2>2, <2>3
    <2>6. ASSUME NEW i \in 1..(Len(next.window) - 1)
          PROVE  next.window[i] = st.window[Len(st.window) - Len(next.window) + 1 + i]
      <3>1. /\ i \in 1..Len(st.window)
            /\ Len(st.window) - Len(next.window) + 1 + i = i
        BY <1>1, <2>3
      <3> QED BY <1>2, <2>2, <3>1
    <2> QED BY <2>2, <2>4, <2>5, <2>6
  <1> QED BY <1>3, <1>4

\* The EMA's part seeds it when the window is full, and never unseeds it.
LEMMA EmaStep ==
  ASSUME NEW st \in SymbolState, NEW price \in Nat
  PROVE  LET next == ComputeEma(st, price) IN
         /\ next \in SymbolState
         /\ next.window = st.window
         /\ next.ema_initialized <=> st.ema_initialized \/ Full(st)
         /\ next.prev_price = st.prev_price
         /\ next.rsi_count = st.rsi_count
  <1> DEFINE next == ComputeEma(st, price)
             e == st.ema_value
             smoothed == Frac(2 * price * e.den + (ema_period - 1) * e.num,
                              (ema_period + 1) * e.den)
             seed == Frac(st.running_sum, sma_period)
  <1>1. /\ e.num \in Int /\ e.den \in Int /\ st.running_sum \in Int
        /\ sma_period \in Nat /\ ema_period \in Nat
        /\ st.ema_initialized \in BOOLEAN
    BY IndicatorAssumption DEF SymbolState, Fraction
  <1>2. smoothed \in Fraction
    <2>1. /\ 2 * price * e.den + (ema_period - 1) * e.num \in Int
          /\ (ema_period + 1) * e.den \in Int
      BY <1>1
    <2> QED BY <2>1 DEF Frac, Fraction
  <1>3. seed \in Fraction
    BY <1>1 DEF Frac, Fraction
  <1> HIDE DEF smoothed, seed
  <1>4. CASE st.ema_initialized
    <2>1. next = [st EXCEPT !.ema_value = smoothed]
      BY <1>4 DEF ComputeEma, smoothed
    <2> HIDE DEF next
    <2> QED BY <1>2, <1>4, <2>1 DEF SymbolState, next
  <1>5. CASE ~st.ema_initialized /\ Full(st)
    <2>1. next = [st EXCEPT !.ema_value = seed, !.ema_initialized = TRUE]
      BY <1>5 DEF ComputeEma, seed
    <2> HIDE DEF next
    <2> QED BY <1>3, <1>5, <2>1 DEF SymbolState, next
  <1>6. CASE ~st.ema_initialized /\ ~Full(st)
    <2>1. next = st
      BY <1>6 DEF ComputeEma
    <2> HIDE DEF next
    <2> QED BY <1>6, <2>1 DEF next
  <1> QED BY <1>4, <1>5, <1>6

\* The RSI's part counts one delta, up to rsi_period, from the second price on.
LEMMA RsiStep ==
  ASSUME NEW st \in SymbolState, NEW price \in Nat, st.rsi_count <= rsi_period
  PROVE  LET next == ComputeRsi(st, price) IN
         /\ next \in SymbolState
         /\ next.window = st.window
         /\ next.ema_initialized = st.ema_initialized
         /\ next.prev_price = price
         /\ next.rsi_count = IF st.prev_price = NoPrice THEN st.rsi_count
                             ELSE Lesser(st.rsi_count + 1, rsi_period)
  <1> DEFINE next == ComputeRsi(st, price)
             moved == [st EXCEPT !.prev_price = price]
             change == price - st.prev_price
             half == Frac(50, 1)
  <1>1. /\ rsi_period \in Nat \ {0} /\ st.rsi_count \in Nat
        /\ st.avg_gain \in Int /\ st.avg_loss \in Int /\ st.avg_den \in Int
        /\ half \in Fraction
    BY IndicatorAssumption DEF SymbolState, Frac, Fraction
  <1>2. /\ moved \in SymbolState /\ moved.prev_price = price
        /\ moved.window = st.window /\ moved.ema_initialized = st.ema_initialized
        /\ moved.rsi_count = st.rsi_count
        /\ moved.avg_gain = st.avg_gain /\ moved.avg_loss = st.avg_loss
        /\ moved.avg_den = st.avg_den
    BY DEF SymbolState
  <1> HIDE DEF half
  <1>3. CASE st.prev_price = NoPrice
    <2>1. next = [st EXCEPT !.prev_price = price, !.rsi = half]
      BY <1>3 DEF ComputeRsi, half
    <2> HIDE DEF next
    <2> QED BY <1>1, <1>3, <2>1 DEF SymbolState, next
  <1>4. CASE st.prev_price # NoPrice
    <2>1. change \in Int
      BY <1>4 DEF SymbolState
    <2>2. Gain(change) \in Int /\ Loss(change) \in Int
      BY <2>1 DEF Gain, Loss
    <2> HIDE DEF change, moved
    <2>3. CASE st.rsi_count < rsi_period
      <3> DEFINE gain == moved.avg_gain + Gain(change)
                 loss == moved.avg_loss + Loss(change)
                 den == IF moved.rsi_count + 1 = rsi_period THEN rsi_period ELSE 1
      <3>1. next = [moved EXCEPT !.avg_gain = gain, !.avg_loss = loss,
                                 !.rsi_count = moved.rsi_count + 1,
                                 !.avg_den = den, !.rsi = half]
        BY <1>4, <2>3 DEF ComputeRsi, WarmUp, change, moved, half
      <3>2. /\ gain \in Int /\ loss \in Int /\ den \in Int
            /\ moved.rsi_count + 1 \in Nat
        BY <1>1, <1>2, <2>2
      <3>3. moved.rsi_count + 1 = Lesser(st.rsi_count + 1, rsi_period)
        BY <1>1, <1>2, <2>3 DEF Lesser
      <3> HIDE DEF gain, loss, den, next
      <3> QED BY ZenonT(40), <1>1, <1>2, <1>4, <3>1, <3>2, <3>3 DEF SymbolState, next
    <2>4. CASE ~(st.rsi_count < rsi_period)
      <3> DEFINE gain == moved.avg_gain * (rsi_period - 1) + Gain(change) * moved.avg_den
                 loss == moved.avg_loss * (rsi_period - 1) + Loss(change) * moved.avg_den
                 den == moved.avg_den * rsi_period
      <3>1. next = [moved EXCEPT !.avg_gain = gain, !.avg_loss = loss,
                                 !.avg_den = den, !.rsi = Rsi(gain, loss)]
        BY <1>4, <2>4 DEF ComputeRsi, Smooth, change, moved
      <3>2. gain \in Int /\ loss \in Int /\ den \in Int
        BY <1>1, <1>2, <2>2
      <3> HIDE DEF gain, loss, den, next
      <3>3. Rsi(gain, loss) \in Fraction
        BY <3>2 DEF Rsi, Frac, Fraction
      <3>4. st.rsi_count = Lesser(st.rsi_count + 1, rsi_period)
        BY <1>1, <2>4 DEF Lesser
      <3> QED BY ZenonT(40), <1>1, <1>2, <1>4, <3>1, <3>2, <3>3, <3>4 DEF SymbolState, next
    <2> QED BY <2>3, <2>4
  <1> QED BY <1>3, <1>4

\* The snapshot sets the flags and touches nothing that the next update reads.
LEMMA SnapshotStep ==
  ASSUME NEW st \in SymbolState
  PROVE  LET next == Snapshot(st) IN
         /\ next \in SymbolState
         /\ next.window = st.window
         /\ next.ema_initialized = st.ema_initialized
         /\ next.prev_price = st.prev_price
         /\ next.rsi_count = st.rsi_count
         /\ FlagsSet(next)
  <1> DEFINE next == Snapshot(st)
             full == Full(st)
             ready == st.rsi_count >= rsi_period
             sma == Sma(st)
  <1>1. sma \in Fraction
    BY IndicatorAssumption DEF Sma, Frac, Fraction, SymbolState
  <1>2. full \in BOOLEAN /\ ready \in BOOLEAN
    BY DEF Full
  <1>3. next = [st EXCEPT !.sma = sma, !.sma_valid = full,
                          !.ema_valid = st.ema_initialized, !.rsi_valid = ready]
    BY DEF Snapshot
  <1> HIDE DEF next, full, ready, sma
  <1>4. /\ next \in SymbolState
        /\ next.window = st.window
        /\ next.ema_initialized = st.ema_initialized
        /\ next.prev_price = st.prev_price
        /\ next.rsi_count = st.rsi_count
        /\ next.sma_valid = full /\ next.ema_valid = st.ema_initialized
        /\ next.rsi_valid = ready
    BY <1>1, <1>2, <1>3 DEF SymbolState
  <1>5. FlagsSet(next)
    BY <1>4 DEF FlagsSet, full, ready, Full
  <1> QED BY <1>4, <1>5 DEF next

\* The SMA's part moves the running sum with the window.
LEMMA SmaValues ==
  ASSUME NEW st \in SymbolState, NEW price \in Nat,
         Len(st.window) <= sma_period,
         NEW next, next = ComputeSma(st, price)
  PROVE  /\ next.running_sum = IF Len(st.window) = sma_period
                               THEN st.running_sum + price - st.window[1]
                               ELSE st.running_sum + price
         /\ next.ema_value = st.ema_value
         /\ next.avg_gain = st.avg_gain /\ next.avg_loss = st.avg_loss
         /\ next.avg_den = st.avg_den /\ next.rsi = st.rsi
  <1> DEFINE window == Append(st.window, price)
             sum == st.running_sum + price
             rest == Tail(window)
             less == sum - Head(window)
  <1>1. /\ st.window \in Seq(Nat) /\ Len(st.window) \in Nat
        /\ sma_period \in Nat \ {0}
    BY IndicatorAssumption DEF SymbolState
  <1>2. /\ Len(window) = Len(st.window) + 1 /\ window \in Seq(Nat) /\ window # <<>>
        /\ \A i \in 1..Len(st.window) : window[i] = st.window[i]
    BY <1>1
  <1>3. CASE Len(st.window) = sma_period
    <2>1. Head(window) = st.window[1] /\ st.window[1] \in Nat /\ st.running_sum \in Int
      <3>1. 1 \in 1..Len(st.window)
        BY <1>1, <1>3
      <3> HIDE DEF window
      <3>2. st.window[1] \in Nat /\ st.running_sum \in Int
        BY <1>1, <3>1, ElementOfSeq DEF SymbolState
      <3> QED BY <1>2, <3>1, <3>2, HeadTailProperties
    <2>2. Len(window) > sma_period
      BY <1>1, <1>2, <1>3
    <2>3. next = [st EXCEPT !.window = rest, !.running_sum = less]
      BY <2>2 DEF ComputeSma
    <2> HIDE DEF window, rest
    <2>5. less = st.running_sum + price - st.window[1]
      BY <2>1
    <2> HIDE DEF less
    <2>4. /\ next.running_sum = less
          /\ next.ema_value = st.ema_value
          /\ next.avg_gain = st.avg_gain /\ next.avg_loss = st.avg_loss
          /\ next.avg_den = st.avg_den /\ next.rsi = st.rsi
      BY <2>3 DEF SymbolState
    <2> QED BY <1>3, <2>4, <2>5
  <1>4. CASE Len(st.window) # sma_period
    <2>1. ~(Len(window) > sma_period)
      BY <1>1, <1>2, <1>4
    <2>2. next = [st EXCEPT !.window = window, !.running_sum = sum]
      BY <2>1 DEF ComputeSma
    <2> HIDE DEF window, sum
    <2>3. /\ next.running_sum = sum
          /\ next.ema_value = st.ema_value
          /\ next.avg_gain = st.avg_gain /\ next.avg_loss = st.avg_loss
          /\ next.avg_den = st.avg_den /\ next.rsi = st.rsi
      BY <2>2 DEF SymbolState
    <2> QED BY <1>4, <2>3 DEF sum
  <1> QED BY <1>3, <1>4

\* The EMA's part makes one step of the EMA.
LEMMA EmaValues ==
  ASSUME NEW st \in SymbolState, NEW price \in Nat,
         NEW next, next = ComputeEma(st, price)
  PROVE  /\ st.ema_initialized =>
               next.ema_value = Frac(2 * price * st.ema_value.den
                                       + (ema_period - 1) * st.ema_value.num,
                                     (ema_period + 1) * st.ema_value.den)
         /\ ~st.ema_initialized /\ Full(st) =>
               next.ema_value = Frac(st.running_sum, sma_period)
         /\ next.running_sum = st.running_sum
         /\ next.avg_gain = st.avg_gain /\ next.avg_loss = st.avg_loss
         /\ next.avg_den = st.avg_den /\ next.rsi = st.rsi
  <1> DEFINE e == st.ema_value
             smoothed == Frac(2 * price * e.den + (ema_period - 1) * e.num,
                              (ema_period + 1) * e.den)
             seed == Frac(st.running_sum, sma_period)
  <1>1. CASE st.ema_initialized
    <2>1. next = [st EXCEPT !.ema_value = smoothed]
      BY <1>1 DEF ComputeEma
    <2> HIDE DEF smoothed
    <2>2. /\ next.ema_value = smoothed
          /\ next.running_sum = st.running_sum
          /\ next.avg_gain = st.avg_gain /\ next.avg_loss = st.avg_loss
          /\ next.avg_den = st.avg_den /\ next.rsi = st.rsi
      BY <2>1 DEF SymbolState
    <2> QED BY <1>1, <2>2 DEF smoothed
  <1>2. CASE ~st.ema_initialized /\ Full(st)
    <2>1. next = [st EXCEPT !.ema_value = seed, !.ema_initialized = TRUE]
      BY <1>2 DEF ComputeEma
    <2> HIDE DEF seed
    <2>2. /\ next.ema_value = seed
          /\ next.running_sum = st.running_sum
          /\ next.avg_gain = st.avg_gain /\ next.avg_loss = st.avg_loss
          /\ next.avg_den = st.avg_den /\ next.rsi = st.rsi
      BY <2>1 DEF SymbolState
    <2> QED BY <1>2, <2>2 DEF seed
  <1>3. CASE ~st.ema_initialized /\ ~Full(st)
    <2>1. next = st
      BY <1>3 DEF ComputeEma
    <2> QED BY <1>3, <2>1
  <1> QED BY <1>1, <1>2, <1>3

\* The RSI's part adds a change of the warm-up and smooths a later one in.
LEMMA RsiValues ==
  ASSUME NEW st \in SymbolState, NEW price \in Nat,
         NEW next, next = ComputeRsi(st, price)
  PROVE  /\ next.running_sum = st.running_sum /\ next.ema_value = st.ema_value
         /\ st.prev_price = NoPrice =>
               /\ next.avg_gain = st.avg_gain /\ next.avg_loss = st.avg_loss
               /\ next.avg_den = st.avg_den
         /\ st.prev_price # NoPrice /\ st.rsi_count < rsi_period =>
               /\ next.avg_gain = st.avg_gain + Gain(price - st.prev_price)
               /\ next.avg_loss = st.avg_loss + Loss(price - st.prev_price)
               /\ next.avg_den = IF st.rsi_count + 1 = rsi_period THEN rsi_period ELSE 1
         /\ st.prev_price # NoPrice /\ ~(st.rsi_count < rsi_period) =>
               /\ next.avg_gain = st.avg_gain * (rsi_period - 1)
                                    + Gain(price - st.prev_price) * st.avg_den
               /\ next.avg_loss = st.avg_loss * (rsi_period - 1)
                                    + Loss(price - st.prev_price) * st.avg_den
               /\ next.avg_den = st.avg_den * rsi_period
               /\ next.rsi = Rsi(next.avg_gain, next.avg_loss)
  <1> DEFINE moved == [st EXCEPT !.prev_price = price]
             change == price - st.prev_price
             half == Frac(50, 1)
  <1>1. /\ moved \in SymbolState
        /\ moved.running_sum = st.running_sum /\ moved.ema_value = st.ema_value
        /\ moved.rsi_count = st.rsi_count
        /\ moved.avg_gain = st.avg_gain /\ moved.avg_loss = st.avg_loss
        /\ moved.avg_den = st.avg_den
    BY DEF SymbolState
  <1> HIDE DEF half
  <1>2. CASE st.prev_price = NoPrice
    <2>1. next = [st EXCEPT !.prev_price = price, !.rsi = half]
      BY <1>2 DEF ComputeRsi, half
    <2>2. /\ next.running_sum = st.running_sum /\ next.ema_value = st.ema_value
          /\ next.avg_gain = st.avg_gain /\ next.avg_loss = st.avg_loss
          /\ next.avg_den = st.avg_den
      BY <2>1 DEF SymbolState
    <2> QED BY <1>2, <2>2
  <1>3. CASE st.prev_price # NoPrice /\ st.rsi_count < rsi_period
    <2> DEFINE gain == moved.avg_gain + Gain(change)
               loss == moved.avg_loss + Loss(change)
               den == IF moved.rsi_count + 1 = rsi_period THEN rsi_period ELSE 1
               count == moved.rsi_count + 1
    <2>1. next = [moved EXCEPT !.avg_gain = gain, !.avg_loss = loss,
                               !.rsi_count = count,
                               !.avg_den = den, !.rsi = half]
      BY <1>3 DEF ComputeRsi, WarmUp, half
    <2> HIDE DEF moved, gain, loss, den, count
    <2>2. /\ next.running_sum = moved.running_sum /\ next.ema_value = moved.ema_value
          /\ next.avg_gain = gain /\ next.avg_loss = loss /\ next.avg_den = den
      BY <1>1, <2>1 DEF SymbolState
    <2>3. /\ gain = st.avg_gain + Gain(change) /\ loss = st.avg_loss + Loss(change)
          /\ den = IF st.rsi_count + 1 = rsi_period THEN rsi_period ELSE 1
      BY <1>1 DEF gain, loss, den
    <2> QED BY <1>1, <1>3, <2>2, <2>3
  <1>4. CASE st.prev_price # NoPrice /\ ~(st.rsi_count < rsi_period)
    <2> DEFINE gain == moved.avg_gain * (rsi_period - 1) + Gain(change) * moved.avg_den
               loss == moved.avg_loss * (rsi_period - 1) + Loss(change) * moved.avg_den
               den == moved.avg_den * rsi_period
               rsi == Rsi(gain, loss)
    <2>1. next = [moved EXCEPT !.avg_gain = gain, !.avg_loss = loss,
                               !.avg_den = den, !.rsi = rsi]
      BY <1>4 DEF ComputeRsi, Smooth
    <2> HIDE DEF moved, gain, loss, den, rsi
    <2>2. /\ next.running_sum = moved.running_sum /\ next.ema_value = moved.ema_value
          /\ next.avg_gain = gain /\ next.avg_loss = loss /\ next.avg_den = den
          /\ next.rsi = rsi
      BY <1>1, <2>1 DEF SymbolState
    <2>3. /\ gain = st.avg_gain * (rsi_period - 1) + Gain(change) * st.avg_den
          /\ loss = st.avg_loss * (rsi_period - 1) + Loss(change) * st.avg_den
          /\ den = st.avg_den * rsi_period
      BY <1>1 DEF gain, loss, den
    <2>4. next.rsi = Rsi(next.avg_gain, next.avg_loss)
      BY <2>2 DEF rsi
    <2> QED BY <1>1, <1>4, <2>2, <2>3, <2>4
  <1> QED BY <1>2, <1>3, <1>4

\* The snapshot takes the SMA from the running sum.
LEMMA SnapshotValues ==
  ASSUME NEW st \in SymbolState, NEW next, next = Snapshot(st)
  PROVE  /\ next.running_sum = st.running_sum /\ next.ema_value = st.ema_value
         /\ next.avg_gain = st.avg_gain /\ next.avg_loss = st.avg_loss
         /\ next.avg_den = st.avg_den /\ next.rsi = st.rsi
         /\ next.sma_valid => next.sma = Frac(next.running_sum, sma_period)
  <1> DEFINE full == Full(st)
             ready == st.rsi_count >= rsi_period
             sma == Sma(st)
  <1>1. next = [st EXCEPT !.sma = sma, !.sma_valid = full,
                          !.ema_valid = st.ema_initialized, !.rsi_valid = ready]
    BY DEF Snapshot
  <1> HIDE DEF full, ready, sma
  <1>2. /\ next.running_sum = st.running_sum /\ next.ema_value = st.ema_value
        /\ next.avg_gain = st.avg_gain /\ next.avg_loss = st.avg_loss
        /\ next.avg_den = st.avg_den /\ next.rsi = st.rsi
        /\ next.sma_valid = full /\ next.sma = sma
    BY <1>1 DEF SymbolState
  <1> QED BY <1>2 DEF full, sma, Sma

-----------------------------------------------------------------------------
(* The invariant *)

\* New states have averaged no price.
LEMMA InitAverages == Averages(NewState, <<>>)
  <1>1. rsi_period \in Nat \ {0} /\ Len(<<>>) = 0
    BY IndicatorAssumption, EmptySeq
  <1>2. /\ NewState.running_sum = 0 /\ ~NewState.ema_initialized
        /\ NewState.avg_gain = 0 /\ NewState.avg_loss = 0 /\ NewState.avg_den = 1
        /\ ~NewState.sma_valid /\ Len(NewState.window) = 0
    BY EmptySeq DEF NewState
  <1>3. \A f : Average(f, -1) = 0
    <2> TAKE f
    <2>1. SumOver(f, 1, -1) = 0
      BY SumOverNothing
    <2> QED BY <1>1, <2>1 DEF Average
  <1>4. AverageDen(-1) = 1
    BY <1>1 DEF AverageDen
  <1>5. SumOver(<<>>, 1, 0) = 0
    BY SumOverNothing
  <1>6. 0 - 1 = -1 /\ 0 - 0 + 1 = 1 /\ ~(-1 > rsi_period) /\ ~(0 > 0)
    BY <1>1
  <1> HIDE DEF NewState
  <1> QED BY <1>1, <1>2, <1>3, <1>4, <1>5, <1>6 DEF Averages

\* New states follow an empty history.
LEMMA InitInv == Init => Inv
  <1> SUFFICES ASSUME Init PROVE Inv
    OBVIOUS
  <1>1. NewState \in SymbolState
    <2>1. <<>> \in Seq(Nat)
      BY EmptySeq
    <2> QED BY <2>1 DEF NewState, SymbolState, Frac, Fraction
  <1>2. states \in [Symbol -> SymbolState]
    BY <1>1 DEF Init
  <1>3. fed \in [Symbol -> Seq(Nat)]
    BY EmptySeq DEF Init
  <1>4. ASSUME NEW s \in Symbol
        PROVE  /\ Follows(states[s], fed[s]) /\ FlagsSet(states[s])
               /\ Averages(states[s], fed[s])
    <2>1. states[s] = NewState /\ fed[s] = <<>>
      BY DEF Init
    <2>2. Averages(states[s], fed[s])
      BY <2>1, InitAverages
    <2>3. Follows(states[s], fed[s]) /\ FlagsSet(states[s])
      BY <2>1, IndicatorAssumption
         DEF Follows, FlagsSet, NewState, Lesser, Frac
    <2> QED BY <2>2, <2>3
  <1> QED BY <1>2, <1>3, <1>4 DEF Inv

\* One price more is one price more for the window, the EMA and the deltas.
LEMMA UpdateFollows ==
  ASSUME NEW st \in SymbolState, NEW h \in Seq(Nat), NEW price \in Nat,
         Follows(st, h)
  PROVE  LET next == Snapshot(ComputeRsi(ComputeEma(ComputeSma(st, price), price), price))
         IN /\ next \in SymbolState
            /\ Follows(next, Append(h, price))
            /\ FlagsSet(next)
  <1> DEFINE n == Len(h)
             a == ComputeSma(st, price)
             b == ComputeEma(a, price)
             c == ComputeRsi(b, price)
             next == Snapshot(c)
             g == Append(h, price)
  <1>1. /\ n \in Nat /\ sma_period \in Nat \ {0} /\ rsi_period \in Nat \ {0}
        /\ st.window \in Seq(Nat) /\ Len(st.window) \in Nat /\ st.rsi_count \in Nat
        /\ price # NoPrice
    BY IndicatorAssumption DEF SymbolState
  <1>2. /\ g \in Seq(Nat) /\ Len(g) = n + 1
        /\ \A i \in 1..n : g[i] = h[i]
        /\ g[n + 1] = price
    BY <1>1
  <1>3. Len(st.window) <= sma_period /\ Len(st.window) <= n /\ st.rsi_count <= rsi_period
    BY SMTT(30), <1>1 DEF Follows, Lesser
  <1>4. /\ a \in SymbolState
        /\ Len(a.window) = Lesser(Len(st.window) + 1, sma_period)
        /\ a.window[Len(a.window)] = price
        /\ \A i \in 1..(Len(a.window) - 1) :
              a.window[i] = st.window[Len(st.window) - Len(a.window) + 1 + i]
        /\ a.ema_initialized = st.ema_initialized
        /\ a.prev_price = st.prev_price
        /\ a.rsi_count = st.rsi_count
    BY ZenonT(40), <1>3, SmaStep
  <1> HIDE DEF a
  <1>5. /\ b \in SymbolState
        /\ b.window = a.window
        /\ b.ema_initialized <=> a.ema_initialized \/ Full(a)
        /\ b.prev_price = a.prev_price
        /\ b.rsi_count = a.rsi_count
    BY <1>4, EmaStep
  <1> HIDE DEF b
  <1>6. /\ c \in SymbolState
        /\ c.window = b.window
        /\ c.ema_initialized = b.ema_initialized
        /\ c.prev_price = price
        /\ c.rsi_count = IF b.prev_price = NoPrice THEN b.rsi_count
                         ELSE Lesser(b.rsi_count + 1, rsi_period)
    BY <1>3, <1>4, <1>5, RsiStep
  <1> HIDE DEF c
  <1>7. /\ next \in SymbolState
        /\ next.window = c.window
        /\ next.ema_initialized = c.ema_initialized
        /\ next.prev_price = c.prev_price
        /\ next.rsi_count = c.rsi_count
        /\ FlagsSet(next)
    BY <1>6, SnapshotStep
  <1> HIDE DEF next, g
  <1>8. Len(next.window) = Lesser(n + 1, sma_period)
    BY <1>1, <1>4, <1>5, <1>6, <1>7 DEF Follows, Lesser
  <1>9. ASSUME NEW i \in 1..Len(next.window)
        PROVE  next.window[i] = g[n + 1 - Len(next.window) + i]
    <2> DEFINE w == Len(next.window)
    <2>1. /\ next.window = a.window /\ w \in Nat \ {0} /\ w <= n + 1
          /\ w = Lesser(Len(st.window) + 1, sma_period)
      BY <1>1, <1>4, <1>5, <1>6, <1>7, <1>8 DEF Lesser
    <2>2. CASE i = w
      <3>1. n + 1 - w + i = n + 1
        BY <1>1, <2>1, <2>2
      <3>2. a.window[w] = price
        BY <1>4, <2>1
      <3> HIDE DEF n, w
      <3>3. g[n + 1 - w + i] = price
        BY <1>2, <3>1
      <3>4. next.window[i] = price
        BY <2>1, <2>2, <3>2
      <3> QED BY <3>3, <3>4 DEF w
    <2>3. CASE i # w
      <3>0. i \in 1..w
        OBVIOUS
      <3>1. /\ i \in 1..(w - 1)
            /\ Len(st.window) - w + 1 + i \in 1..Len(st.window)
            /\ n + 1 - w + i \in 1..n
            /\ n - Len(st.window) + (Len(st.window) - w + 1 + i) = n + 1 - w + i
        <4> DEFINE old == Len(st.window)
        <4>1. old \in Nat /\ old <= sma_period /\ old <= n
              /\ w <= old + 1
          BY <1>1, <1>3, <2>1 DEF Lesser
        <4>0. n \in Nat /\ w \in Nat \ {0} /\ w <= n + 1
          BY <1>1, <2>1
        <4> HIDE DEF old, n, w
        <4>2. i \in 1..(w - 1)
          BY <2>1, <2>3, <3>0
        <4>3. old - w + 1 + i \in 1..old
          BY <2>1, <4>1, <4>2
        <4>4. n + 1 - w + i \in 1..n
          BY <4>0, <4>2
        <4>5. n - old + (old - w + 1 + i) = n + 1 - w + i
          BY ONLY <4>0, <4>1, <4>2
        <4> QED BY <4>2, <4>3, <4>4, <4>5 DEF old
      <3>2. a.window[i] = st.window[Len(st.window) - w + 1 + i]
        BY <1>4, <2>1, <3>1
      <3>3. st.window[Len(st.window) - w + 1 + i] = h[n + 1 - w + i]
        BY <3>1 DEF Follows
      <3> QED BY <1>2, <2>1, <3>1, <3>2, <3>3
    <2> QED BY <2>2, <2>3
  <1>10. next.ema_initialized <=> n + 1 >= sma_period
    <2>1. Full(a) <=> n + 1 >= sma_period
      BY <1>1, <1>4 DEF Full, Follows, Lesser
    <2>2. st.ema_initialized => n + 1 >= sma_period
      BY <1>1 DEF Follows
    <2> QED BY <1>4, <1>5, <1>6, <1>7, <2>1, <2>2
  <1>11. next.rsi_count = Lesser(n, rsi_period)
    <2>1. CASE n = 0
      BY <1>1, <1>4, <1>5, <1>6, <1>7, <2>1 DEF Follows, Lesser
    <2>2. CASE n # 0
      <3>1. st.prev_price # NoPrice /\ st.rsi_count = Lesser(n - 1, rsi_period)
        BY <1>1, <2>2 DEF Follows
      <3> QED BY <1>1, <1>4, <1>5, <1>6, <1>7, <3>1 DEF Lesser
    <2> QED BY <2>1, <2>2
  <1>12. Follows(next, g)
    <2>1. next.prev_price # NoPrice
      BY <1>1, <1>6, <1>7
    <2>2. Len(g) - 1 = n /\ Len(g) > 0 /\ Len(g) # 0
      BY <1>1, <1>2
    <2>3. ASSUME NEW i \in 1..Len(next.window)
          PROVE  next.window[i] = g[Len(g) - Len(next.window) + i]
      <3>1. next.window[i] = g[n + 1 - Len(next.window) + i]
        BY <1>9
      <3>2. n + 1 - Len(next.window) + i = Len(g) - Len(next.window) + i
        BY <1>2
      <3> QED BY <3>1, <3>2, Zenon
    <2>4. Len(next.window) = Lesser(Len(g), sma_period)
      BY <1>2, <1>8
    <2>5. next.ema_initialized <=> Len(g) >= sma_period
      BY <1>2, <1>10
    <2>6. next.rsi_count = Lesser(Len(g) - 1, rsi_period)
      BY <1>11, <2>2
    <2> HIDE DEF n
    <2> QED BY ONLY <2>1, <2>2, <2>3, <2>4, <2>5, <2>6 DEF Follows
  <1> QED BY <1>7, <1>12 DEF next, c, b, a, g

\* One price more moves every value to what its definition gives for it.
LEMMA UpdateAverages ==
  ASSUME NEW st \in SymbolState, NEW h \in Seq(Nat), NEW price \in Nat,
         Follows(st, h), Averages(st, h),
         NEW next,
         next = Snapshot(ComputeRsi(ComputeEma(ComputeSma(st, price), price), price))
  PROVE  Averages(next, Append(h, price))
  <1> DEFINE n == Len(h)
             w == Len(st.window)
             a == ComputeSma(st, price)
             b == ComputeEma(a, price)
             c == ComputeRsi(b, price)
             g == Append(h, price)
  <1>1. /\ n \in Nat /\ sma_period \in Nat \ {0} /\ rsi_period \in Nat \ {0}
        /\ w \in Nat /\ price # NoPrice /\ price \in Int
    BY IndicatorAssumption DEF SymbolState
  <1>2. /\ g \in Seq(Nat) /\ Len(g) = n + 1
        /\ \A i \in 1..n : g[i] = h[i]
        /\ g[n + 1] = price
        /\ \A i \in 1..(n + 1) : g[i] \in Int
        /\ \A i \in 1..n : h[i] \in Int
    BY ElementOfSeq
  <1>3. w <= sma_period /\ w <= n /\ st.rsi_count <= rsi_period
    BY SMTT(30), <1>1 DEF Follows, Lesser, SymbolState
  <1>4. /\ a \in SymbolState
        /\ Len(a.window) = Lesser(w + 1, sma_period)
        /\ a.ema_initialized = st.ema_initialized
        /\ a.prev_price = st.prev_price
        /\ a.rsi_count = st.rsi_count
    <2>1. Len(st.window) <= sma_period
      BY <1>3
    <2>2. /\ a \in SymbolState
          /\ Len(a.window) = Lesser(Len(st.window) + 1, sma_period)
          /\ a.window[Len(a.window)] = price
          /\ \A i \in 1..(Len(a.window) - 1) :
                a.window[i] = st.window[Len(st.window) - Len(a.window) + 1 + i]
          /\ a.ema_initialized = st.ema_initialized
          /\ a.prev_price = st.prev_price
          /\ a.rsi_count = st.rsi_count
      BY ZenonT(40), <2>1, SmaStep
    <2> HIDE DEF a
    <2> QED BY <2>2
  <1>5. /\ a.running_sum = IF w = sma_period THEN st.running_sum + price - st.window[1]
                                             ELSE st.running_sum + price
        /\ a.ema_value = st.ema_value
        /\ a.avg_gain = st.avg_gain /\ a.avg_loss = st.avg_loss
        /\ a.avg_den = st.avg_den /\ a.rsi = st.rsi
    BY <1>3, SmaValues
  <1> HIDE DEF a
  <1>6. /\ b \in SymbolState
        /\ b.window = a.window
        /\ b.ema_initialized <=> a.ema_initialized \/ Full(a)
        /\ b.prev_price = a.prev_price
        /\ b.rsi_count = a.rsi_count
    BY <1>4, EmaStep
  <1>7. /\ a.ema_initialized =>
               b.ema_value = Frac(2 * price * a.ema_value.den
                                       + (ema_period - 1) * a.ema_value.num,
                                     (ema_period + 1) * a.ema_value.den)
        /\ ~a.ema_initialized /\ Full(a) =>
               b.ema_value = Frac(a.running_sum, sma_period)
        /\ b.running_sum = a.running_sum
        /\ b.avg_gain = a.avg_gain /\ b.avg_loss = a.avg_loss
        /\ b.avg_den = a.avg_den /\ b.rsi = a.rsi
    BY <1>4, EmaValues
  <1> HIDE DEF b
  <1>8. /\ c \in SymbolState
        /\ c.window = b.window
        /\ c.ema_initialized = b.ema_initialized
        /\ c.prev_price = price
    BY <1>3, <1>4, <1>6, RsiStep
  <1>9. /\ c.running_sum = b.running_sum /\ c.ema_value = b.ema_value
        /\ b.prev_price = NoPrice =>
               /\ c.avg_gain = b.avg_gain /\ c.avg_loss = b.avg_loss
               /\ c.avg_den = b.avg_den
        /\ b.prev_price # NoPrice /\ b.rsi_count < rsi_period =>
               /\ c.avg_gain = b.avg_gain + Gain(price - b.prev_price)
               /\ c.avg_loss = b.avg_loss + Loss(price - b.prev_price)
               /\ c.avg_den = IF b.rsi_count + 1 = rsi_period THEN rsi_period ELSE 1
        /\ b.prev_price # NoPrice /\ ~(b.rsi_count < rsi_period) =>
               /\ c.avg_gain = b.avg_gain * (rsi_period - 1)
                                    + Gain(price - b.prev_price) * b.avg_den
               /\ c.avg_loss = b.avg_loss * (rsi_period - 1)
                                    + Loss(price - b.prev_price) * b.avg_den
               /\ c.avg_den = b.avg_den * rsi_period
               /\ c.rsi = Rsi(c.avg_gain, c.avg_loss)
    BY <1>6, RsiValues
  <1> HIDE DEF c
  <1>10. /\ next.window = c.window
         /\ next.ema_initialized = c.ema_initialized
         /\ next.prev_price = c.prev_price
    BY <1>8, SnapshotStep DEF a, b, c
  <1>11. /\ next.running_sum = c.running_sum /\ next.ema_value = c.ema_value
         /\ next.avg_gain = c.avg_gain /\ next.avg_loss = c.avg_loss
         /\ next.avg_den = c.avg_den /\ next.rsi = c.rsi
         /\ next.sma_valid => next.sma = Frac(next.running_sum, sma_period)
    BY <1>8, SnapshotValues DEF a, b, c
  <1> HIDE DEF g
  \* the window
  <1>12. next.running_sum = SumOver(g, n + 1 - Len(next.window) + 1, n + 1)
    <2>1. next.running_sum = a.running_sum /\ next.window = a.window
      BY <1>6, <1>7, <1>8, <1>9, <1>10, <1>11
    <2>2. st.running_sum = SumOver(h, n - w + 1, n)
      BY DEF Averages
    <2> DEFINE from == n - w + 1
    <2> HIDE DEF n, w
    <2>3. /\ from \in Int /\ from <= n + 1 /\ 1 <= from
      BY <1>1, <1>3
    <2>4. \A i \in from..n : g[i] = h[i] /\ h[i] \in Int
      <3>1. from..n \subseteq 1..n
        BY <1>1, <2>3
      <3> QED BY <1>2, <3>1
    <2>5. \A i \in from..(n + 1) : g[i] \in Int
      <3>1. from..(n + 1) \subseteq 1..(n + 1)
        BY <1>1, <2>3
      <3> QED BY <1>2, <3>1
    <2> HIDE DEF from
    <2>6. SumOver(g, from, n) = SumOver(h, from, n) /\ SumOver(h, from, n) \in Int
      BY <1>1, <2>3, <2>4, SumOverSame, SumOverInt
    <2>7. SumOver(g, from, n + 1) = st.running_sum + price
      <3>1. SumOver(g, from, n + 1) = SumOver(g, from, n) + g[n + 1]
        BY <1>1, <2>3, <2>5, SumOverGrows
      <3> QED BY <1>2, <2>2, <2>6, <3>1 DEF from
    <2>8. CASE w = sma_period
      <3>1. Len(a.window) = sma_period
        BY <1>1, <1>4, <2>8 DEF Lesser
      <3>2. from \in from..n /\ from \in Int /\ n + 1 \in Int /\ from <= n + 1
        BY <1>1, <2>3, <2>8 DEF from
      <3>3. SumOver(g, from + 1, n + 1) = SumOver(g, from, n + 1) - g[from]
        BY <2>5, <3>2, SumOverShrinks
      <3>4. st.window[1] = h[from]
        <4>1. 1 \in 1..w /\ n - w + 1 = from
          BY <1>1, <2>8 DEF from
        <4>2. \A i \in 1..w : st.window[i] = h[n - w + i]
          BY DEF Follows, n, w
        <4> QED BY <4>1, <4>2
      <3>5. g[from] = st.window[1]
        BY <2>4, <3>2, <3>4
      <3>6. n + 1 - Len(a.window) + 1 = from + 1
        BY <1>1, <2>8, <3>1 DEF from
      <3>7. a.running_sum = st.running_sum + price - st.window[1]
        BY <1>5, <2>8
      <3>8. a.running_sum = SumOver(g, from + 1, n + 1)
        <4>1. st.running_sum \in Int /\ g[from] \in Int
          BY <2>5, <3>2 DEF SymbolState
        <4> QED BY <1>1, <2>7, <3>3, <3>5, <3>7, <4>1
      <3> QED BY <2>1, <3>6, <3>8
    <2>9. CASE w # sma_period
      <3>1. Len(a.window) = w + 1
        BY <1>1, <1>3, <1>4, <2>9 DEF Lesser
      <3>2. n + 1 - Len(a.window) + 1 = from
        BY <1>1, <3>1 DEF from
      <3> QED BY <1>5, <2>1, <2>7, <2>9, <3>2
    <2> QED BY <2>8, <2>9
  \* the EMA
  <1>13. next.ema_initialized => next.ema_value = Frac(EmaNum(g), EmaDen(g))
    <2> SUFFICES ASSUME next.ema_initialized
                 PROVE  b.ema_value = Frac(EmaNum(g), EmaDen(g))
      BY <1>9, <1>11
    <2>1. st.ema_initialized <=> n >= sma_period
      BY DEF Follows
    <2>2. CASE st.ema_initialized
      <3>1. st.ema_value = Frac(EmaNum(h), EmaDen(h))
        BY <2>2 DEF Averages
      <3>2. st.ema_value.num = EmaNum(h) /\ st.ema_value.den = EmaDen(h)
        BY <3>1 DEF Frac
      <3>3. /\ EmaNum(g) = 2 * price * EmaDen(h) + (ema_period - 1) * EmaNum(h)
            /\ EmaDen(g) = (ema_period + 1) * EmaDen(h)
        BY <2>1, <2>2, EmaGrows DEF g
      <3> QED BY <1>4, <1>5, <1>7, <2>2, <3>2, <3>3
    <2>3. CASE ~st.ema_initialized
      <3>1. Full(a) /\ ~a.ema_initialized
        BY <1>4, <1>6, <1>8, <1>10, <2>3
      <3>2. n + 1 = sma_period /\ Len(a.window) = sma_period /\ n < sma_period
        <4>1. n < sma_period /\ Len(a.window) = sma_period
          BY <1>1, <2>1, <2>3, <3>1 DEF Full
        <4>2. w + 1 >= sma_period
          BY <1>1, <1>4, <4>1 DEF Lesser
        <4> QED BY <1>1, <1>3, <4>1, <4>2
      <3>3. a.running_sum = SumOver(g, 1, sma_period)
        <4>1. next.running_sum = a.running_sum /\ next.window = a.window
          BY <1>6, <1>7, <1>8, <1>9, <1>10, <1>11
        <4>2. n + 1 - sma_period + 1 = 1
          BY <1>1, <3>2
        <4> HIDE DEF n
        <4> QED BY <1>12, <3>2, <4>1, <4>2
      <3>4. EmaNum(g) = SumOver(g, 1, sma_period) /\ EmaDen(g) = sma_period
        BY <1>2, <3>2, EmaSeeded
      <3> QED BY <1>7, <3>1, <3>3, <3>4
    <2> QED BY <2>2, <2>3
  \* the RSI
  <1>14. /\ next.avg_gain = Average(Gains(g), n)
         /\ next.avg_loss = Average(Losses(g), n)
         /\ next.avg_den = AverageDen(n)
         /\ n > rsi_period => next.rsi = Rsi(next.avg_gain, next.avg_loss)
    <2>1. /\ st.avg_gain = Average(Gains(h), n - 1)
          /\ st.avg_loss = Average(Losses(h), n - 1)
          /\ st.avg_den = AverageDen(n - 1)
          /\ n > 0 => st.prev_price = h[n]
      BY DEF Averages
    <2>2. /\ st.prev_price = NoPrice <=> n = 0
          /\ n > 0 => st.rsi_count = Lesser(n - 1, rsi_period)
      BY DEF Follows
    <2>3. CASE n = 0
      <3>1. /\ next.avg_gain = st.avg_gain /\ next.avg_loss = st.avg_loss
            /\ next.avg_den = st.avg_den
        BY <1>4, <1>5, <1>6, <1>7, <1>9, <1>11, <2>2, <2>3
      <3>2. \A f : Average(f, n - 1) = 0 /\ Average(f, n) = 0
        <4> TAKE f
        <4>1. SumOver(f, 1, -1) = 0 /\ SumOver(f, 1, 0) = 0
          BY SumOverNothing
        <4>2. 0 < rsi_period /\ -1 < rsi_period /\ 0 - 1 = -1
          BY <1>1
        <4> QED BY <2>3, <4>1, <4>2 DEF Average
      <3>3. AverageDen(n - 1) = 1 /\ AverageDen(n) = 1
        BY <1>1, <2>3 DEF AverageDen
      <3>4. ~(n > rsi_period)
        BY <1>1, <2>3
      <3> QED BY <2>1, <3>1, <3>2, <3>3, <3>4
    <2>4. CASE n # 0
      <3> DEFINE d == n - 1
                 x == price - h[n]
      <3>1. d \in Nat /\ n > 0 /\ d + 1 = n /\ n \in 1..n
        BY <1>1, <2>4
      <3>2. /\ b.prev_price = h[n] /\ b.prev_price # NoPrice
            /\ b.rsi_count = Lesser(d, rsi_period)
            /\ b.avg_gain = st.avg_gain /\ b.avg_loss = st.avg_loss
            /\ b.avg_den = st.avg_den
        BY <1>4, <1>5, <1>6, <1>7, <2>1, <2>2, <2>4, <3>1
      <3>3. /\ \A i \in 1..d : Gains(g)[i] = Gains(h)[i] /\ Losses(g)[i] = Losses(h)[i]
            /\ Gains(g)[n] = Gain(x) /\ Losses(g)[n] = Loss(x)
            /\ \A i \in 1..n : Gains(g)[i] \in Int /\ Losses(g)[i] \in Int
        BY <3>1, ChangesGrow DEF g
      <3>4. /\ Average(Gains(h), d) = Average(Gains(g), d)
            /\ Average(Losses(h), d) = Average(Losses(g), d)
        BY <3>1, <3>3, AverageSame
      <3> HIDE DEF d, n, x
      <3>5. \A i \in 1..(d + 1) : Gains(g)[i] \in Int /\ Losses(g)[i] \in Int
        BY <3>1, <3>3
      <3>6. CASE d < rsi_period
        <4>1. /\ Average(Gains(g), d + 1) = Average(Gains(g), d) + Gains(g)[d + 1]
              /\ AverageDen(d + 1) = IF d + 1 = rsi_period THEN rsi_period ELSE 1
          BY <3>1, <3>5, <3>6, AverageGrows
        <4>2. Average(Losses(g), d + 1) = Average(Losses(g), d) + Losses(g)[d + 1]
          BY <3>1, <3>5, <3>6, AverageGrows
        <4>3. b.rsi_count = d /\ b.rsi_count < rsi_period
          BY <1>1, <3>1, <3>2, <3>6 DEF Lesser
        <4>4. /\ c.avg_gain = b.avg_gain + Gain(x) /\ c.avg_loss = b.avg_loss + Loss(x)
              /\ c.avg_den = IF d + 1 = rsi_period THEN rsi_period ELSE 1
          BY <1>9, <3>2, <4>3 DEF x
        <4>5. ~(n > rsi_period)
          BY <1>1, <3>1, <3>6
        <4> QED BY <1>11, <2>1, <3>1, <3>2, <3>3, <3>4, <4>1, <4>2, <4>4, <4>5 DEF d
      <3>7. CASE ~(d < rsi_period)
        <4>1. d >= rsi_period
          BY <1>1, <3>1, <3>7
        <4>2. /\ Average(Gains(g), d + 1)
                   = Average(Gains(g), d) * (rsi_period - 1) + Gains(g)[d + 1] * AverageDen(d)
              /\ AverageDen(d + 1) = AverageDen(d) * rsi_period
          BY <3>1, <3>5, <4>1, AverageGrows
        <4>3. Average(Losses(g), d + 1)
                 = Average(Losses(g), d) * (rsi_period - 1) + Losses(g)[d + 1] * AverageDen(d)
          BY <3>1, <3>5, <4>1, AverageGrows
        <4>4. ~(b.rsi_count < rsi_period)
          BY <1>1, <3>1, <3>2, <3>7 DEF Lesser
        <4>5. /\ c.avg_gain = b.avg_gain * (rsi_period - 1) + Gain(x) * b.avg_den
              /\ c.avg_loss = b.avg_loss * (rsi_period - 1) + Loss(x) * b.avg_den
              /\ c.avg_den = b.avg_den * rsi_period
              /\ c.rsi = Rsi(c.avg_gain, c.avg_loss)
          BY <1>9, <3>2, <4>4 DEF x
        <4> QED BY <1>11, <2>1, <3>1, <3>2, <3>3, <3>4, <4>2, <4>3, <4>5 DEF d
      <3> QED BY <3>6, <3>7
    <2> QED BY <2>3, <2>4
  <1>15. next.prev_price = g[n + 1]
    BY <1>2, <1>8, <1>10
  <1>16. n + 1 = Len(g) /\ n = Len(g) - 1
    BY <1>1, <1>2
  <1> HIDE DEF n
  <1>17. Averages(next, g)
    <2> DEFINE m == Len(g)
    <2>1. next.running_sum = SumOver(g, m - Len(next.window) + 1, m)
      BY <1>12, <1>16
    <2>2. next.prev_price = g[m]
      BY <1>15, <1>16
    <2>3. /\ next.avg_gain = Average(Gains(g), m - 1)
          /\ next.avg_loss = Average(Losses(g), m - 1)
          /\ next.avg_den = AverageDen(m - 1)
          /\ m - 1 > rsi_period => next.rsi = Rsi(next.avg_gain, next.avg_loss)
      BY <1>14, <1>16
    <2> HIDE DEF m
    <2> QED BY <1>11, <1>13, <2>1, <2>2, <2>3 DEF Averages, m
  <1> QED BY <1>17 DEF g

\* Every update keeps the invariant, of its symbol and of the others.
LEMMA StepInv == Inv /\ [Next]_vars => Inv'
  <1> SUFFICES ASSUME Inv, [Next]_vars PROVE Inv'
    OBVIOUS
  <1>1. ASSUME NEW s \in Symbol, NEW price \in Price, Update(s, price) PROVE Inv'
    <2> DEFINE next == Snapshot(ComputeRsi(ComputeEma(
                           ComputeSma(states[s], price), price), price))
               g == Append(fed[s], price)
    <2>1. /\ price \in Nat /\ states[s] \in SymbolState /\ fed[s] \in Seq(Nat)
          /\ Follows(states[s], fed[s]) /\ Averages(states[s], fed[s])
      BY IndicatorAssumption DEF Inv
    <2>2. next \in SymbolState /\ Follows(next, g) /\ FlagsSet(next)
      BY <2>1, UpdateFollows
    <2>7. Averages(next, g)
      BY <2>1, UpdateAverages
    <2>3. g \in Seq(Nat)
      BY <2>1
    <2>4. states' = [states EXCEPT ![s] = next] /\ fed' = [fed EXCEPT ![s] = g]
      BY <1>1 DEF Update
    <2> HIDE DEF next, g
    <2>5. states' \in [Symbol -> SymbolState] /\ fed' \in [Symbol -> Seq(Nat)]
      BY <2>2, <2>3, <2>4 DEF Inv
    <2>6. ASSUME NEW x \in Symbol
          PROVE  /\ Follows(states'[x], fed'[x]) /\ FlagsSet(states'[x])
                 /\ Averages(states'[x], fed'[x])
      <3>1. CASE x = s
        BY <2>2, <2>4, <2>7, <3>1 DEF Inv
      <3>2. CASE x # s
        BY <2>4, <3>2 DEF Inv
      <3> QED BY <3>1, <3>2
    <2> QED BY <2>5, <2>6 DEF Inv
  <1>2. CASE UNCHANGED vars
    BY <1>2 DEF Inv, vars
  <1> QED BY <1>1, <1>2 DEF Next

-----------------------------------------------------------------------------
(* Theorems *)

\* The inductive invariant holds in every behaviour.
THEOREM Invariance == Spec => []Inv
  BY InitInv, StepInv, PTL DEF Spec

\* The state of a symbol is well-typed, and its window and its count of deltas
\* never exceed the periods.
THEOREM TypeCorrect == Spec => []TypeOK
  <1>1. Inv => TypeOK
    <2> SUFFICES ASSUME Inv, NEW s \in Symbol
                 PROVE  Len(states[s].window) <= sma_period /\ states[s].rsi_count <= rsi_period
      BY DEF Inv, TypeOK
    <2>1. /\ Len(fed[s]) \in Nat /\ sma_period \in Nat \ {0}
          /\ rsi_period \in Nat \ {0}
      BY IndicatorAssumption DEF Inv
    <2>2. Follows(states[s], fed[s])
      BY DEF Inv
    <2> QED BY <2>1, <2>2 DEF Follows, Lesser
  <1> QED BY Invariance, <1>1, PTL

\* For all periods, every indicator becomes valid on exactly the tick it should,
\* for each symbol by itself, and the window holds the latest prices
\* (IndicatorEngine.cpp:25-37).
THEOREM WarmupIsExact == Spec => []WarmupExact
  <1>1. Inv => WarmupExact
    <2> SUFFICES ASSUME Inv, NEW s \in Symbol
                 PROVE  LET st == states[s]
                            n == Len(fed[s])
                        IN /\ st.sma_valid <=> n >= sma_period
                           /\ st.ema_valid <=> n >= sma_period
                           /\ st.rsi_valid <=> n > rsi_period
                           /\ Len(st.window) = IF n < sma_period THEN n ELSE sma_period
                           /\ \A i \in 1..Len(st.window) :
                                 st.window[i] = fed[s][n - Len(st.window) + i]
      BY DEF WarmupExact
    <2>1. /\ Len(fed[s]) \in Nat /\ sma_period \in Nat \ {0}
          /\ rsi_period \in Nat \ {0}
      BY IndicatorAssumption DEF Inv
    <2>2. Follows(states[s], fed[s]) /\ FlagsSet(states[s])
      BY DEF Inv
    <2>3. states[s].rsi_valid <=> Len(fed[s]) > rsi_period
      BY <2>1, <2>2 DEF Follows, FlagsSet, Lesser
    <2>4. states[s].sma_valid <=> Len(fed[s]) >= sma_period
      BY <2>1, <2>2 DEF Follows, FlagsSet, Lesser
    <2>5. states[s].ema_valid <=> Len(fed[s]) >= sma_period
      BY <2>2 DEF Follows, FlagsSet
    <2> QED BY <2>2, <2>3, <2>4, <2>5 DEF Follows, Lesser
  <1> QED BY Invariance, <1>1, PTL

\* For all periods and prices, a valid SMA is the mean of the last sma_period
\* prices: the running sum never drifts from its window
\* (IndicatorEngine.cpp:54-65).
THEOREM SmaIsTheMean == Spec => []SmaIsMean
  <1>1. Inv => SmaIsMean
    <2> SUFFICES ASSUME Inv, NEW s \in Symbol, states[s].sma_valid
                 PROVE  Equal(states[s].sma,
                              SumOver(fed[s], Len(fed[s]) - sma_period + 1, Len(fed[s])),
                              sma_period)
      BY DEF SmaIsMean
    <2> DEFINE sum == SumOver(fed[s], Len(fed[s]) - sma_period + 1, Len(fed[s]))
    <2>1. Len(states[s].window) = sma_period
      BY DEF Inv, FlagsSet
    <2>2. states[s].running_sum = sum
      BY <2>1 DEF Inv, Averages
    <2>3. states[s].sma = Frac(states[s].running_sum, sma_period)
      BY DEF Inv, Averages
    <2>4. states[s].running_sum \in Int /\ sma_period \in Int
      BY IndicatorAssumption DEF Inv, SymbolState
    <2> HIDE DEF sum
    <2>5. Equal(states[s].sma, sum, sma_period)
      BY <2>2, <2>3, <2>4 DEF Equal, Frac
    <2> QED BY <2>5 DEF sum
  <1> QED BY Invariance, <1>1, PTL

\* For all periods and prices, a valid EMA is the weighted sum its recursion
\* stands for, seeded with the first SMA (IndicatorEngine.cpp:67-79).
THEOREM EmaIsTheWeightedSum == Spec => []EmaIsWeighted
  <1>1. Inv => EmaIsWeighted
    <2> SUFFICES ASSUME Inv, NEW s \in Symbol, states[s].ema_valid
                 PROVE  Equal(states[s].ema_value, EmaNum(fed[s]), EmaDen(fed[s]))
      BY DEF EmaIsWeighted, EmaNum, EmaDen
    <2>1. states[s].ema_initialized
      BY DEF Inv, FlagsSet
    <2>2. states[s].ema_value = Frac(EmaNum(fed[s]), EmaDen(fed[s]))
      BY <2>1 DEF Inv, Averages
    <2>3. states[s].ema_value.num \in Int /\ states[s].ema_value.den \in Int
      BY DEF Inv, SymbolState, Fraction
    <2> QED BY <2>2, <2>3 DEF Equal, Frac
  <1> QED BY Invariance, <1>1, PTL

\* For all periods and prices, from the tick after the warm-up on the RSI is the
\* one of Wilder's averages of all the changes so far
\* (IndicatorEngine.cpp:81-111).
THEOREM RsiIsTheOneOfWilder == Spec => []RsiIsWilder
  <1>1. Inv => RsiIsWilder
    <2> SUFFICES ASSUME Inv, NEW s \in Symbol, Len(fed[s]) - 1 > rsi_period
                 PROVE  LET d == Len(fed[s]) - 1
                            rsi == Rsi(Wilder(Gains(fed[s]), d), Wilder(Losses(fed[s]), d))
                        IN Equal(states[s].rsi, rsi.num, rsi.den)
      BY DEF RsiIsWilder
    <2> DEFINE d == Len(fed[s]) - 1
               gain == Wilder(Gains(fed[s]), d)
               loss == Wilder(Losses(fed[s]), d)
    <2>1. Len(fed[s]) \in Nat /\ rsi_period \in Nat \ {0} /\ d > rsi_period /\ ~(d < rsi_period)
      BY IndicatorAssumption DEF Inv
    <2>2. states[s].avg_gain = gain /\ states[s].avg_loss = loss
      BY <2>1 DEF Inv, Averages, Average
    <2>3. states[s].rsi = Rsi(states[s].avg_gain, states[s].avg_loss)
      BY <2>1 DEF Inv, Averages
    <2>4. states[s].rsi.num \in Int /\ states[s].rsi.den \in Int
      BY DEF Inv, SymbolState, Fraction
    <2> HIDE DEF gain, loss
    <2>5. Equal(states[s].rsi, Rsi(gain, loss).num, Rsi(gain, loss).den)
      BY <2>2, <2>3, <2>4 DEF Equal
    <2> QED BY <2>5 DEF gain, loss
  <1> QED BY Invariance, <1>1, PTL

-----------------------------------------------------------------------------
(* Types *)

\* The initial state is well-typed.
LEMMA InitStrategyType == StrategyInit => StrategyTypeOK
  BY EmptySeq, StrategyAssumption DEF StrategyInit, StrategyTypeOK

\* So is every next one.  An order exists only while it is approved or pushed.
LEMMA StepStrategyType == StrategyTypeOK /\ [StrategyNext]_strategyVars => StrategyTypeOK'
  <1> SUFFICES ASSUME StrategyTypeOK, [StrategyNext]_strategyVars PROVE StrategyTypeOK'
    OBVIOUS
  <1> USE DEF indicators, vars, strategy, risk
  <1>1. ASSUME NEW s \in Symbol, NEW price \in Price, PushTick(s, price) PROVE StrategyTypeOK'
    <2>1. market_queue' \in Seq(Tick)
      <3>1. market_queue' = Append(market_queue, [symbol |-> s, price |-> price])
        BY <1>1 DEF PushTick
      <3>2. [symbol |-> s, price |-> price] \in Tick
        BY <1>1 DEF Tick
      <3> QED BY <3>1, <3>2, AppendProperties DEF StrategyTypeOK
    <2> QED BY <1>1, <2>1 DEF PushTick, StrategyTypeOK
  <1>2. CASE Signal
    BY <1>2 DEF Signal, StrategyTypeOK
  <1>3. ASSUME NEW s \in Symbol, NEW notional \in FillNotional, BookTrade(s, notional)
        PROVE  StrategyTypeOK'
    <2>1. fill' \in Fill /\ ~fill'.added
      BY <1>3, StrategyAssumption DEF BookTrade, Fill, Side
    <2>2. \A x \in Symbol : exposure[x] >= 0
      BY <1>3, StrategyAssumption DEF BookTrade, StrategyTypeOK
    <2> QED BY <1>3, <2>1, <2>2 DEF BookTrade, StrategyTypeOK
  <1>4. CASE AddNotional
    <2>1. fill \in Fill /\ fill.symbol \in Symbol /\ fill.notional \in Int
      BY <1>4 DEF AddNotional, StrategyTypeOK, Fill
    <2>2. fill' = [fill EXCEPT !.added = TRUE]
      BY <1>4 DEF AddNotional
    <2>3. fill' \in Fill /\ fill'.added /\ fill'.symbol = fill.symbol
      BY <2>1, <2>2 DEF Fill
    <2> DEFINE usd == exposure[fill.symbol]
                        + (IF fill.side = "BUY" THEN fill.notional ELSE -fill.notional)
    <2>4. SetExposure(fill.symbol, usd)
      BY <1>4 DEF AddNotional
    <2>5. usd \in Int
      BY <2>1 DEF StrategyTypeOK
    <2> HIDE DEF usd
    <2>6. exposure' \in [Symbol -> Int] /\ low' \in [Symbol -> Int]
      BY <2>1, <2>4, <2>5 DEF SetExposure, Lesser, StrategyTypeOK
    <2>7. \A x \in Symbol : exposure'[x] < 0 => fill'.symbol = x
      BY <1>4, <2>1, <2>3, <2>4 DEF AddNotional, SetExposure, StrategyTypeOK
    <2> QED BY <1>4, <2>3, <2>6, <2>7 DEF AddNotional, StrategyTypeOK
  <1>5. CASE Clamp
    <2>1. fill \in Fill /\ fill.symbol \in Symbol /\ fill.added
      BY <1>5 DEF Clamp, StrategyTypeOK, Fill
    <2>2. fill' \in Fill \cup {NoFill}
      <3>1. [fill EXCEPT !.side = "SELL", !.added = FALSE] \in Fill
        BY <2>1 DEF Fill, Side
      <3> QED BY <1>5, <3>1 DEF Clamp
    <2> DEFINE usd == IF exposure[fill.symbol] < 0 THEN 0 ELSE exposure[fill.symbol]
    <2>3. SetExposure(fill.symbol, usd)
      BY <1>5 DEF Clamp
    <2>4. usd \in Int /\ usd >= 0
      BY <2>1 DEF StrategyTypeOK
    <2> HIDE DEF usd
    <2>5. exposure' \in [Symbol -> Int] /\ low' \in [Symbol -> Int]
      BY <2>1, <2>3, <2>4 DEF SetExposure, Lesser, StrategyTypeOK
    <2>6. \A x \in Symbol : ~(exposure'[x] < 0)
      BY <2>1, <2>3, <2>4 DEF SetExposure, StrategyTypeOK
    <2> QED BY <1>5, <2>2, <2>5, <2>6 DEF Clamp, StrategyTypeOK
  <1>6. CASE CheckRunning
    BY <1>6 DEF CheckRunning, StrategyTypeOK
  <1>7. CASE PopNothing
    BY <1>7 DEF PopNothing, StrategyTypeOK
  <1>8. CASE TakeTick
    <2> DEFINE tick == Head(market_queue)
               side == Decision(tick.symbol, states'[tick.symbol])
               next == MakeMarketOrder(tick.symbol, side, tick.price)
    <2>1. tick \in Tick /\ market_queue' \in Seq(Tick)
      BY <1>8, HeadTailProperties DEF TakeTick, StrategyTypeOK
    <2>2. side \in Side \cup {"none"}
      BY DEF Decision, Side
    <2>3. tick.symbol \in Symbol /\ order_qty * tick.price \in Int
      <3>1. tick.symbol \in Symbol /\ tick.price \in Nat /\ order_qty \in Nat
        BY <2>1, StrategyAssumption, IndicatorAssumption DEF Tick
      <3> HIDE DEF tick
      <3> QED BY <3>1
    <2>4. side # "none" => next \in Order
      BY <2>2, <2>3 DEF MakeMarketOrder, Order
    <2>5. IF side = "none" THEN pc' = "loop" /\ order' = order
                           ELSE pc' = "symbol" /\ order' = next
      BY <1>8 DEF TakeTick
    <2> HIDE DEF tick, side, next
    <2>6. order' \in Order \cup {NoOrder} /\ (order' \in Order <=> pc' = "symbol")
          /\ pc' \in {"loop", "symbol"}
      BY <1>8, <2>4, <2>5 DEF TakeTick, StrategyTypeOK
    <2> QED BY <1>8, <2>1, <2>6 DEF TakeTick, StrategyTypeOK
  <1>9. CASE CheckSymbol
    <2>1. CASE Reject /\ UNCHANGED <<unread, total>>
      BY <1>9, <2>1, StrategyAssumption DEF CheckSymbol, Reject, StrategyTypeOK
    <2>2. CASE pc' = "total" /\ unread' = Symbol /\ total' = 0 /\ UNCHANGED order
      BY <1>9, <2>2 DEF CheckSymbol, StrategyTypeOK
    <2> QED BY <1>9, <2>1, <2>2 DEF CheckSymbol
  <1>10. ASSUME NEW s \in Symbol, ReadExposure(s) PROVE StrategyTypeOK'
    BY <1>10 DEF ReadExposure, StrategyTypeOK
  <1>11. CASE CheckTotal
    <2>1. CASE Reject
      BY <1>11, <2>1, StrategyAssumption DEF CheckTotal, Reject, StrategyTypeOK
    <2>2. CASE pc' = "push" /\ UNCHANGED order
      BY <1>11, <2>2 DEF CheckTotal, StrategyTypeOK
    <2> QED BY <1>11, <2>1, <2>2 DEF CheckTotal
  <1>12. CASE PushOrder
    <2>1. order.symbol \in Symbol /\ order.side \in Side
      BY <1>12 DEF PushOrder, StrategyTypeOK, Order
    <2>2. sent' \in [Symbol -> Seq(Side)]
      BY <1>12, <2>1 DEF PushOrder, StrategyTypeOK
    <2>3. last_order_side' \in [Symbol -> Side \cup {"none"}]
      BY <1>12, <2>1 DEF PushOrder, StrategyTypeOK
    <2> QED BY <1>12, <2>2, <2>3, StrategyAssumption DEF PushOrder, StrategyTypeOK
  <1>13. CASE UNCHANGED strategyVars
    BY <1>13 DEF strategyVars, StrategyTypeOK
  <1> QED
    BY <1>1, <1>2, <1>3, <1>4, <1>5, <1>6, <1>7, <1>8, <1>9, <1>10, <1>11, <1>12, <1>13
    DEF StrategyNext, StrategyStep

\* Types are kept, an order exists only in the steps that approve and push it, and
\* a negative exposure is seen only between the two halves of record_fill().
THEOREM StrategyTypeCorrect == StrategySpec => []StrategyTypeOK
  BY InitStrategyType, StepStrategyType, PTL DEF StrategySpec

-----------------------------------------------------------------------------
(* The cooldown *)

\* last_order_side_ is the side of the latest order, and the order at hand, which
\* was the signal of a tick, has another one.
CooldownInv ==
    /\ OrdersAlternate
    /\ \A s \in Symbol :
          sent[s] # <<>> => last_order_side[s] = sent[s][Len(sent[s])]
    /\ order \in Order => last_order_side[order.symbol] # order.side

\* Only PushOrder touches what was sent, and it sends the other side.
LEMMA StepCooldown == StrategyTypeOK /\ CooldownInv /\ [StrategyNext]_strategyVars => CooldownInv'
  <1> SUFFICES ASSUME StrategyTypeOK, CooldownInv, [StrategyNext]_strategyVars PROVE CooldownInv'
    OBVIOUS
  <1> USE DEF indicators, vars, strategy, risk
  <1>1. CASE UNCHANGED <<sent, last_order_side, order>>
    BY <1>1 DEF CooldownInv, OrdersAlternate
  <1>2. CASE UNCHANGED <<sent, last_order_side>> /\ order' = NoOrder
    BY <1>2, StrategyAssumption DEF CooldownInv, OrdersAlternate
  <1>3. CASE TakeTick
    <2> DEFINE tick == Head(market_queue)
               side == Decision(tick.symbol, states'[tick.symbol])
               next == MakeMarketOrder(tick.symbol, side, tick.price)
    <2>1. IF side = "none" THEN order' = order ELSE order' = next
      BY <1>3 DEF TakeTick
    <2>2. side # "none" => last_order_side[tick.symbol] # side
      BY DEF Decision, ShouldBuy, ShouldSell
    <2>3. next.symbol = tick.symbol /\ next.side = side
      BY DEF MakeMarketOrder
    <2>4. UNCHANGED <<sent, last_order_side>>
      BY <1>3 DEF TakeTick
    <2> HIDE DEF tick, side, next
    <2>5. order' \in Order => last_order_side[order'.symbol] # order'.side
      BY <2>1, <2>2, <2>3 DEF CooldownInv
    <2> QED BY <2>4, <2>5 DEF CooldownInv, OrdersAlternate
  <1>4. CASE PushOrder
    <2> DEFINE s == order.symbol
    <2>1. /\ order \in Order /\ s \in Symbol /\ order.side \in Side
          /\ last_order_side[s] # order.side
      BY <1>4 DEF PushOrder, StrategyTypeOK, Order, CooldownInv
    <2>2. /\ sent' = [sent EXCEPT ![s] = Append(@, order.side)]
          /\ last_order_side' = [last_order_side EXCEPT ![s] = order.side]
          /\ order' = NoOrder
      BY <1>4 DEF PushOrder
    <2> HIDE DEF s
    <2>3. /\ sent[s] \in Seq(Side) /\ Len(sent[s]) \in Nat
          /\ sent'[s] = Append(sent[s], order.side)
          /\ last_order_side'[s] = order.side
      BY <2>1, <2>2 DEF StrategyTypeOK
    <2>4. /\ Len(sent'[s]) = Len(sent[s]) + 1
          /\ \A i \in 1..Len(sent[s]) : sent'[s][i] = sent[s][i]
          /\ sent'[s][Len(sent[s]) + 1] = order.side
      BY <2>1, <2>3
    <2>5. \A x \in Symbol : x # s => /\ sent'[x] = sent[x]
                                     /\ last_order_side'[x] = last_order_side[x]
      BY <2>2 DEF StrategyTypeOK
    <2>6. ASSUME NEW i \in 1..(Len(sent'[s]) - 1) PROVE sent'[s][i] # sent'[s][i + 1]
      <3>1. CASE i = Len(sent[s])
        <4>1. sent[s] # <<>> /\ sent[s][i] = last_order_side[s]
          BY <2>1, <2>3, <2>4, <3>1 DEF CooldownInv
        <4> QED BY <2>1, <2>3, <2>4, <3>1, <4>1
      <3>2. CASE i # Len(sent[s])
        <4>1. i \in 1..(Len(sent[s]) - 1) /\ i \in 1..Len(sent[s]) /\ i + 1 \in 1..Len(sent[s])
          BY <2>3, <2>4, <3>2
        <4>2. sent[s][i] # sent[s][i + 1]
          BY <2>1, <4>1 DEF CooldownInv, OrdersAlternate
        <4> QED BY <2>4, <4>1, <4>2
      <3> QED BY <3>1, <3>2
    <2>7. OrdersAlternate'
      BY <2>5, <2>6 DEF CooldownInv, OrdersAlternate
    <2>8. \A x \in Symbol :
             sent'[x] # <<>> => last_order_side'[x] = sent'[x][Len(sent'[x])]
      BY <2>3, <2>4, <2>5 DEF CooldownInv
    <2> QED BY <2>2, <2>7, <2>8, StrategyAssumption DEF CooldownInv
  <1> QED
    BY <1>1, <1>2, <1>3, <1>4 DEF StrategyNext, StrategyStep, strategyVars, PushTick, Signal, BookTrade,
       AddNotional, Clamp, CheckRunning, PopNothing, CheckSymbol, ReadExposure,
       CheckTotal, Reject

\* Orders of a symbol alternate between BUY and SELL, whatever approve() refuses
\* (TradingStrategy.hpp:42).
THEOREM CooldownHolds == StrategySpec => []OrdersAlternate
  <1>1. StrategyInit => CooldownInv
    BY EmptySeq, StrategyAssumption DEF StrategyInit, CooldownInv, OrdersAlternate
  <1>2. CooldownInv => OrdersAlternate
    BY DEF CooldownInv
  <1> QED BY StrategyTypeCorrect, <1>1, StepCooldown, <1>2, PTL DEF StrategySpec

-----------------------------------------------------------------------------
(* The gate *)

\* The least exposure is not above the exposure, and what CheckSymbol compared is
\* not below the least exposure of any later state.
GateInv ==
    /\ \A s \in Symbol : low[s] <= exposure[s]
    /\ pc \in {"total", "push"} =>
          /\ order.notional <= max_trade
          /\ order.side = "BUY" => low[order.symbol] + order.notional <= max_position

\* record_fill() can only lower the least exposure.
LEMMA StepGate == StrategyTypeOK /\ GateInv /\ [StrategyNext]_strategyVars => GateInv'
  <1> SUFFICES ASSUME StrategyTypeOK, GateInv, [StrategyNext]_strategyVars PROVE GateInv'
    OBVIOUS
  <1> USE DEF indicators, vars, strategy, risk
  <1>1. ASSUME NEW s \in Symbol, NEW usd \in Int, SetExposure(s, usd),
               UNCHANGED <<pc, order>>
        PROVE  GateInv'
    <2>1. \A x \in Symbol : low'[x] <= low[x] /\ low'[x] <= exposure'[x]
      BY <1>1 DEF SetExposure, Lesser, StrategyTypeOK, GateInv
    <2>2. ASSUME pc \in {"total", "push"}, order.side = "BUY"
          PROVE  low'[order.symbol] + order.notional <= max_position
      <3>1. order.symbol \in Symbol /\ order.notional \in Int
        BY <2>2 DEF StrategyTypeOK, Order
      <3>2. /\ low[order.symbol] + order.notional <= max_position
            /\ low[order.symbol] \in Int
        BY <2>2, <3>1 DEF GateInv, StrategyTypeOK
      <3>3. low'[order.symbol] \in Int
        BY <1>1, <3>1 DEF SetExposure, Lesser, StrategyTypeOK
      <3>4. low'[order.symbol] <= low[order.symbol] /\ max_position \in Int
        BY <2>1, <3>1, StrategyAssumption
      <3> QED BY <3>1, <3>2, <3>3, <3>4
    <2> QED BY <1>1, <2>1, <2>2 DEF GateInv
  <1>2. CASE AddNotional
    <2>1. fill \in Fill /\ fill.symbol \in Symbol /\ fill.notional \in Int
      BY <1>2 DEF AddNotional, StrategyTypeOK, Fill
    <2> DEFINE usd == exposure[fill.symbol]
                        + (IF fill.side = "BUY" THEN fill.notional ELSE -fill.notional)
    <2>2. SetExposure(fill.symbol, usd) /\ UNCHANGED <<pc, order>>
      BY <1>2 DEF AddNotional
    <2>3. usd \in Int
      BY <2>1 DEF StrategyTypeOK
    <2> HIDE DEF usd
    <2> QED BY <1>1, <2>1, <2>2, <2>3
  <1>3. CASE Clamp
    <2>1. fill \in Fill /\ fill.symbol \in Symbol
      BY <1>3 DEF Clamp, StrategyTypeOK, Fill
    <2> DEFINE usd == IF exposure[fill.symbol] < 0 THEN 0 ELSE exposure[fill.symbol]
    <2>2. SetExposure(fill.symbol, usd) /\ UNCHANGED <<pc, order>>
      BY <1>3 DEF Clamp
    <2>3. usd \in Int
      BY <2>1 DEF StrategyTypeOK
    <2> HIDE DEF usd
    <2> QED BY <1>1, <2>1, <2>2, <2>3
  <1>4. CASE TakeTick
    <2>1. pc' \in {"loop", "symbol"} /\ low' = exposure /\ exposure' = exposure
      BY <1>4 DEF TakeTick
    <2> QED BY <2>1 DEF GateInv, StrategyTypeOK
  <1>5. CASE CheckSymbol
    <2>1. CASE pc' = "loop"
      BY <1>5, <2>1 DEF CheckSymbol, GateInv
    <2>2. CASE pc' # "loop"
      <3>1. /\ UNCHANGED <<order, low, exposure>>
            /\ ~(order.notional > max_trade)
            /\ order.side = "BUY" =>
                  ~(exposure[order.symbol] + order.notional > max_position)
        BY <1>5, <2>2 DEF CheckSymbol, Reject
      <3>2. /\ order.symbol \in Symbol /\ order.notional \in Int
            /\ max_trade \in Int /\ max_position \in Int
        BY <1>5, StrategyAssumption DEF CheckSymbol, StrategyTypeOK, Order
      <3>3. /\ low[order.symbol] \in Int /\ exposure[order.symbol] \in Int
            /\ low[order.symbol] <= exposure[order.symbol]
        BY <3>2 DEF StrategyTypeOK, GateInv
      <3>4. order.notional <= max_trade
        BY <3>1, <3>2
      <3>5. order.side = "BUY" => low[order.symbol] + order.notional <= max_position
        BY <3>1, <3>2, <3>3
      <3> QED BY <3>1, <3>4, <3>5 DEF GateInv
    <2> QED BY <2>1, <2>2
  <1>6. CASE CheckTotal
    BY <1>6 DEF CheckTotal, Reject, GateInv
  <1>7. CASE /\ UNCHANGED <<order, low, exposure>>
             /\ pc' = pc \/ pc' \notin {"total", "push"}
    BY <1>7 DEF GateInv
  <1>8. CASE PushOrder
    BY <1>8 DEF PushOrder, GateInv
  <1> QED
    BY <1>2, <1>3, <1>4, <1>5, <1>6, <1>7, <1>8 DEF StrategyNext, StrategyStep, strategyVars, PushTick,
       Signal, BookTrade, CheckRunning, PopNothing, ReadExposure

\* Whatever record_fill() does between the reads of approve(), an order that passes
\* keeps the symbol's limit for the least exposure since its tick
\* (RiskManager.cpp:17-36).
THEOREM GateHolds == StrategySpec => []SymbolLimitKept
  <1>1. StrategyInit => GateInv
    BY DEF StrategyInit, GateInv
  <1>2. GateInv => SymbolLimitKept
    BY DEF GateInv, SymbolLimitKept
  <1> QED BY StrategyTypeCorrect, <1>1, StepGate, <1>2, PTL DEF StrategySpec

\* What has been read of the exposures is not below the least exposures of the
\* symbols read, in this state or in any later one.
TotalInv ==
    /\ pc = "total" => SumFunctionOnSet(low, Symbol \ unread) <= total
    /\ pc = "push" => SumFunctionOnSet(low, Symbol) + order.notional <= max_total_exposure

\* Every set of symbols has a sum of least exposures.
LEMMA LowSums ==
  ASSUME StrategyTypeOK, NEW S \in SUBSET Symbol
  PROVE  /\ IsFiniteSet(S)
         /\ \A s \in S : low[s] \in Int
         /\ SumFunctionOnSet(low, S) \in Int
  <1>1. IsFiniteSet(S)
    BY FS_Subset, StrategyAssumption
  <1>2. \A s \in S : low[s] \in Int
    BY DEF StrategyTypeOK
  <1> QED BY <1>1, <1>2, SumInt

\* A symbol that is read adds no less than its least exposure; what record_fill()
\* stores afterwards can only lower the least exposures.
LEMMA StepTotal ==
  StrategyTypeOK /\ StrategyTypeOK' /\ GateInv /\ TotalInv /\ [StrategyNext]_strategyVars
  => TotalInv'
  <1> SUFFICES ASSUME StrategyTypeOK, StrategyTypeOK', GateInv, TotalInv,
                      [StrategyNext]_strategyVars
               PROVE  TotalInv'
    OBVIOUS
  <1> USE DEF indicators, strategy, risk
  <1>1. ASSUME \A s \in Symbol : low'[s] <= low[s],
               UNCHANGED <<pc, order, unread, total>>
        PROVE  TotalInv'
    <2>1. ASSUME NEW S \in SUBSET Symbol
          PROVE  SumFunctionOnSet(low', S) <= SumFunctionOnSet(low, S)
      <3>1. IsFiniteSet(S) /\ \A s \in S : low[s] \in Int
        BY LowSums
      <3>2. \A s \in S : low'[s] \in Int
        BY DEF StrategyTypeOK
      <3> QED BY <1>1, <3>1, <3>2, SumMonotone
    <2>2. ASSUME NEW S \in SUBSET Symbol
          PROVE  /\ SumFunctionOnSet(low', S) \in Int
                 /\ SumFunctionOnSet(low, S) \in Int
      <3>1. \A s \in S : low'[s] \in Int
        BY DEF StrategyTypeOK
      <3> QED BY <3>1, LowSums, SumInt
    <2>3. pc = "total" => SumFunctionOnSet(low', Symbol \ unread) <= total
      <3>1. total \in Int
        BY DEF StrategyTypeOK
      <3> QED BY <2>1, <2>2, <3>1 DEF TotalInv
    <2>4. pc = "push" =>
             SumFunctionOnSet(low', Symbol) + order.notional <= max_total_exposure
      <3>1. pc = "push" => order.notional \in Int
        BY DEF StrategyTypeOK, Order
      <3>2. max_total_exposure \in Int
        BY StrategyAssumption
      <3> QED BY <2>1, <2>2, <3>1, <3>2 DEF TotalInv
    <2> QED BY <1>1, <2>3, <2>4 DEF TotalInv
  <1>2. CASE AddNotional \/ Clamp
    <2>1. \E s, usd : SetExposure(s, usd)
      BY <1>2 DEF AddNotional, Clamp
    <2>2. ASSUME NEW s \in Symbol PROVE low'[s] <= low[s]
      <3>1. PICK x, usd : /\ exposure' = [exposure EXCEPT ![x] = usd]
                          /\ low' = [low EXCEPT ![x] = Lesser(low[x], usd)]
        BY <2>1 DEF SetExposure
      <3>2. low[s] \in Int /\ exposure'[s] \in Int
        BY DEF StrategyTypeOK
      <3>3. low'[s] = IF s = x THEN Lesser(low[s], usd) ELSE low[s]
        BY <3>1 DEF StrategyTypeOK
      <3>4. s = x => usd \in Int
        BY <3>1, <3>2 DEF StrategyTypeOK
      <3> QED BY <3>2, <3>3, <3>4 DEF Lesser
    <2>3. UNCHANGED <<pc, order, unread, total>>
      BY <1>2 DEF AddNotional, Clamp
    <2> QED BY <1>1, <2>2, <2>3
  <1>3. CASE CheckSymbol
    <2>1. CASE pc' = "loop"
      BY <2>1 DEF TotalInv
    <2>2. CASE pc' # "loop"
      <3>1. pc' = "total" /\ unread' = Symbol /\ total' = 0
        BY <1>3, <2>2 DEF CheckSymbol, Reject
      <3>2. Symbol \ unread' = {}
        BY <3>1
      <3>3. SumFunctionOnSet(low', Symbol \ unread') = 0
        BY <3>2, SumEmpty
      <3> QED BY <3>1, <3>3 DEF TotalInv
    <2> QED BY <2>1, <2>2
  <1>4. ASSUME NEW s \in Symbol, ReadExposure(s) PROVE TotalInv'
    <2> DEFINE S == Symbol \ unread
    <2>1. /\ pc = "total" /\ pc' = "total" /\ s \in unread /\ low' = low
          /\ total' = total + exposure[s] /\ unread' = unread \ {s}
      BY <1>4 DEF ReadExposure
    <2>2. s \notin S /\ Symbol \ unread' = S \cup {s}
      BY <2>1
    <2>3. /\ IsFiniteSet(S) /\ SumFunctionOnSet(low, S) \in Int
          /\ \A x \in S \cup {s} : low[x] \in Int
      BY LowSums DEF StrategyTypeOK
    <2>4. SumFunctionOnSet(low, S) <= total
      BY <2>1 DEF TotalInv
    <2> HIDE DEF S
    <2>5. SumFunctionOnSet(low, S \cup {s}) = SumFunctionOnSet(low, S) + low[s]
      BY <2>2, <2>3, SumPutIn
    <2>6. low[s] \in Int /\ exposure[s] \in Int /\ total \in Int /\ low[s] <= exposure[s]
      BY DEF StrategyTypeOK, GateInv
    <2>7. SumFunctionOnSet(low, S \cup {s}) <= total + exposure[s]
      BY <2>3, <2>4, <2>5, <2>6
    <2> QED BY <2>1, <2>2, <2>7 DEF TotalInv
  <1>5. CASE CheckTotal
    <2>1. CASE pc' = "loop"
      BY <2>1 DEF TotalInv
    <2>2. CASE pc' # "loop"
      <3>1. /\ pc = "total" /\ pc' = "push" /\ unread = {} /\ UNCHANGED <<order, low>>
            /\ ~(total + order.notional > max_total_exposure)
        BY <1>5, <2>2 DEF CheckTotal, Reject
      <3>2. Symbol \ unread = Symbol
        BY <3>1
      <3>3. SumFunctionOnSet(low, Symbol) <= total
        BY <3>1, <3>2 DEF TotalInv
      <3>4. /\ SumFunctionOnSet(low, Symbol) \in Int /\ total \in Int
            /\ order.notional \in Int /\ max_total_exposure \in Int
        BY <3>1, LowSums, StrategyAssumption DEF StrategyTypeOK, Order
      <3>5. SumFunctionOnSet(low, Symbol) + order.notional <= max_total_exposure
        BY <3>1, <3>3, <3>4
      <3> QED BY <3>1, <3>5 DEF TotalInv
    <2> QED BY <2>1, <2>2
  <1>6. CASE pc' \notin {"total", "push"}
    BY <1>6 DEF TotalInv
  <1>7. CASE UNCHANGED <<pc, order, unread, total, low>>
    BY <1>7 DEF TotalInv
  <1> QED
    BY <1>2, <1>3, <1>4, <1>5, <1>6, <1>7 DEF StrategyNext, StrategyStep, strategyVars,
       PushTick, Signal, BookTrade, CheckRunning, PopNothing, TakeTick, PushOrder

\* However torn total_exposure() is by record_fill(), an order that passes keeps the
\* portfolio's limit for the least exposures since its tick (RiskManager.cpp:38-43,
\* RiskManager.cpp:65-69).
THEOREM PortfolioGateHolds == StrategySpec => []PortfolioLimitKept
  <1>1. StrategyInit => GateInv /\ TotalInv
    BY DEF StrategyInit, GateInv, TotalInv
  <1>2. StrategyTypeOK /\ TotalInv => PortfolioLimitKept
    <2> SUFFICES ASSUME StrategyTypeOK PROVE SumFunction(low) = SumFunctionOnSet(low, Symbol)
      BY DEF TotalInv, PortfolioLimitKept
    <2>1. DOMAIN low = Symbol
      BY DEF StrategyTypeOK
    <2> QED BY <2>1 DEF SumFunction
  <1> QED BY StrategyTypeCorrect, <1>1, <1>2, StepGate, StepTotal, PTL DEF StrategySpec

-----------------------------------------------------------------------------
(* The warm-up *)

\* The indicators in the strategy thread behave as IndicatorEngine says: a tick
\* updates those of its symbol, and nothing else touches them.
THEOREM IndicatorsImplemented == StrategySpec => Spec
  <1>1. StrategyInit => Init
    BY DEF StrategyInit
  <1>2. StrategyTypeOK /\ [StrategyNext]_strategyVars => [Next]_vars
    <2> SUFFICES ASSUME StrategyTypeOK, [StrategyNext]_strategyVars
                 PROVE  Next \/ UNCHANGED vars
      OBVIOUS
    <2>1. CASE TakeTick
      <3> DEFINE tick == Head(market_queue)
      <3>1. tick \in Tick
        BY <2>1, HeadTailProperties DEF TakeTick, StrategyTypeOK
      <3>2. tick.symbol \in Symbol /\ tick.price \in Price
        BY <3>1 DEF Tick
      <3>3. Update(tick.symbol, tick.price)
        BY <2>1 DEF TakeTick
      <3> QED BY <3>2, <3>3 DEF Next
    <2>2. CASE UNCHANGED vars
      BY <2>2
    <2> QED
      BY <2>1, <2>2 DEF StrategyNext, StrategyStep, strategyVars, indicators, PushTick,
         Signal, BookTrade, AddNotional, Clamp, CheckRunning, PopNothing, CheckSymbol,
         ReadExposure, CheckTotal, PushOrder
  <1> QED BY StrategyTypeCorrect, <1>1, <1>2, PTL DEF StrategySpec, Spec

Warm(prices) == Len(prices) >= sma_period /\ Len(prices) > rsi_period

WarmInv ==
    \A s \in Symbol :
        (sent[s] # <<>> \/ (order \in Order /\ order.symbol = s)) => Warm(fed[s])

\* A symbol stays warm, and gets an order only from a tick whose flags say that it is.
LEMMA StepWarm ==
  /\ StrategyTypeOK /\ WarmInv /\ [StrategyNext]_strategyVars
  /\ TypeOK /\ WarmupExact'
  => WarmInv'
  <1> SUFFICES ASSUME StrategyTypeOK, WarmInv, [StrategyNext]_strategyVars,
                      TypeOK, WarmupExact'
               PROVE  WarmInv'
    OBVIOUS
  <1> USE DEF indicators, vars, strategy, risk
  <1>0. sma_period \in Nat /\ rsi_period \in Nat
    BY IndicatorAssumption
  <1>1. CASE UNCHANGED <<fed, sent, order>>
    BY <1>1 DEF WarmInv, Warm
  <1>2. CASE UNCHANGED <<fed, sent>> /\ order' = NoOrder
    BY <1>2, StrategyAssumption DEF WarmInv, Warm
  <1>3. CASE TakeTick
    <2> DEFINE tick == Head(market_queue)
               s == tick.symbol
               side == Decision(s, states'[s])
               next == MakeMarketOrder(s, side, tick.price)
    <2>1. s \in Symbol /\ tick.price \in Nat
      <3>1. tick \in Tick
        BY <1>3, HeadTailProperties DEF TakeTick, StrategyTypeOK
      <3> QED BY <3>1, IndicatorAssumption DEF Tick
    <2>2. fed \in [Symbol -> Seq(Nat)]
      BY DEF TypeOK
    <2>3. Update(s, tick.price)
      BY <1>3 DEF TakeTick
    <2>4. IF side = "none" THEN order' = order ELSE order' = next
      BY <1>3 DEF TakeTick
    <2>5. sent' = sent /\ order \notin Order
      BY <1>3 DEF TakeTick, StrategyTypeOK
    <2>6. side # "none" => states'[s].rsi_valid /\ states'[s].ema_valid
      BY DEF Decision
    <2>7. next.symbol = s
      BY DEF MakeMarketOrder
    <2> HIDE DEF tick, s, side, next
    <2>8. fed' = [fed EXCEPT ![s] = Append(@, tick.price)]
      BY <2>3 DEF Update
    <2>9. \A x \in Symbol : Warm(fed[x]) => Warm(fed'[x])
      <3> SUFFICES ASSUME NEW x \in Symbol, Warm(fed[x]) PROVE Warm(fed'[x])
        OBVIOUS
      <3>1. Len(fed[x]) \in Nat /\ Len(fed'[x]) \in Nat /\ Len(fed'[x]) >= Len(fed[x])
        <4>1. CASE x = s
          BY <2>1, <2>2, <2>8, <4>1
        <4>2. CASE x # s
          BY <2>1, <2>2, <2>8, <4>2
        <4> QED BY <4>1, <4>2
      <3> QED BY <1>0, <3>1 DEF Warm
    <2>10. side # "none" => Warm(fed'[s])
      <3>1. /\ states'[s].ema_valid <=> Len(fed'[s]) >= sma_period
            /\ states'[s].rsi_valid <=> Len(fed'[s]) > rsi_period
        BY <2>1 DEF WarmupExact
      <3> HIDE DEF s
      <3> QED BY <2>6, <3>1 DEF Warm
    <2> QED BY <2>4, <2>5, <2>7, <2>9, <2>10 DEF WarmInv
  <1>4. CASE PushOrder
    <2>1. order \in Order /\ order.symbol \in Symbol /\ order' = NoOrder /\ fed' = fed
      BY <1>4 DEF PushOrder, StrategyTypeOK, Order
    <2>2. \A x \in Symbol : x # order.symbol => sent'[x] = sent[x]
      BY <1>4, <2>1 DEF PushOrder, StrategyTypeOK
    <2> QED BY <2>1, <2>2, StrategyAssumption DEF WarmInv, Warm
  <1> QED
    BY <1>1, <1>2, <1>3, <1>4 DEF StrategyNext, StrategyStep, strategyVars, PushTick, Signal, BookTrade,
       AddNotional, Clamp, CheckRunning, PopNothing, CheckSymbol, ReadExposure,
       CheckTotal, Reject

\* No order goes out for a symbol before its indicators are warm
\* (TradingStrategy.cpp:37).
THEOREM WarmupRespected == StrategySpec => []OrdersAfterWarmup
  <1>1. StrategyInit => WarmInv
    BY StrategyAssumption DEF StrategyInit, WarmInv
  <1>2. WarmInv => OrdersAfterWarmup
    BY DEF WarmInv, Warm, OrdersAfterWarmup
  <1> QED BY StrategyTypeCorrect, IndicatorsImplemented, TypeCorrect, WarmupIsExact,
             <1>1, StepWarm, <1>2, PTL DEF StrategySpec
=============================================================================
