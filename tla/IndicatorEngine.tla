--------------------------- MODULE IndicatorEngine ---------------------------
(***************************************************************************)
(* src/strategy/IndicatorEngine.cpp: SMA, EMA and Wilder's RSI of each     *)
(* symbol, all kept incrementally.  update() is one step: only the         *)
(* strategy thread calls it.  snapshot() returns "last" and changes        *)
(* nothing; for a symbol without an entry it returns the initial one.      *)
(*                                                                         *)
(* Prices are integers and indicators exact fractions: rounding is not     *)
(* modelled, and "avg_loss < 1e-10" is "no loss".                          *)
(***************************************************************************)
EXTENDS Integers, Sequences, WeightedSums

CONSTANTS Symbol, Price,
          sma_period, ema_period, rsi_period,   \* the arguments of init()
          NoPrice,                              \* prev_price has no value
          MaxUpdates                            \* bound: prices fed per symbol

ASSUME IndicatorAssumption ==
    /\ Price \subseteq Nat
    /\ NoPrice \notin Nat
    /\ sma_period \in Nat \ {0}
    /\ ema_period \in Nat \ {0}
    /\ rsi_period \in Nat \ {0}
    /\ MaxUpdates \in Nat

Frac(num, den) == [num |-> num, den |-> den]

Fraction == [num : Int, den : Int]

\* struct SymbolState.  avg_gain and avg_loss are over one denominator,
\* avg_den, and so need no fractions of their own.  sma, ema_value, rsi and the
\* valid flags are what update() copies to "last".
SymbolState ==
    [window : Seq(Nat), running_sum : Int,
     ema_value : Fraction, ema_initialized : BOOLEAN,
     prev_price : Nat \cup {NoPrice},
     avg_gain : Int, avg_loss : Int, avg_den : Int, rsi_count : Nat,
     sma : Fraction, rsi : Fraction,
     sma_valid : BOOLEAN, ema_valid : BOOLEAN, rsi_valid : BOOLEAN]

NewState ==
    [window |-> <<>>, running_sum |-> 0,
     ema_value |-> Frac(0, 1), ema_initialized |-> FALSE,
     prev_price |-> NoPrice,
     avg_gain |-> 0, avg_loss |-> 0, avg_den |-> 1, rsi_count |-> 0,
     sma |-> Frac(0, 1), rsi |-> Frac(0, 1),
     sma_valid |-> FALSE, ema_valid |-> FALSE, rsi_valid |-> FALSE]

VARIABLES states,   \* states_
          fed       \* history: the prices fed for each symbol

vars == <<states, fed>>

\* The window never holds more than it should, nor is an RSI delta counted
\* beyond the warm-up.
TypeOK ==
    /\ states \in [Symbol -> SymbolState]
    /\ fed \in [Symbol -> Seq(Nat)]
    /\ \A s \in Symbol : /\ Len(states[s].window) <= sma_period
                         /\ states[s].rsi_count <= rsi_period

Init ==
    /\ states = [s \in Symbol |-> NewState]
    /\ fed = [s \in Symbol |-> <<>>]

-----------------------------------------------------------------------------
(* compute_sma *)

\* Mutant: what leaves the window stays in the sum.
ComputeSmaLeaking(st, price) ==
    LET window == Append(st.window, price)
    IN [st EXCEPT !.window = IF Len(window) > sma_period THEN Tail(window)
                                                         ELSE window,
                  !.running_sum = @ + price]

\* The price enters the window; beyond sma_period the oldest one leaves.
ComputeSma(st, price) ==
    LET window == Append(st.window, price)
        sum == st.running_sum + price
    IN IF Len(window) > sma_period
       THEN [st EXCEPT !.window = Tail(window), !.running_sum = sum - Head(window)]
       ELSE [st EXCEPT !.window = window, !.running_sum = sum]

Full(st) == Len(st.window) = sma_period

Sma(st) == IF Full(st) THEN Frac(st.running_sum, sma_period) ELSE Frac(0, 1)

-----------------------------------------------------------------------------
(* compute_ema *)

\* Mutant: the tick that seeds the EMA is smoothed into it as well.
ComputeEmaTwice(st, price) ==
    IF st.ema_initialized \/ Full(st)
    THEN LET e == IF st.ema_initialized THEN st.ema_value
                                        ELSE Frac(st.running_sum, sma_period)
         IN [st EXCEPT !.ema_initialized = TRUE,
                       !.ema_value = Frac(2 * price * e.den + (ema_period - 1) * e.num,
                                          (ema_period + 1) * e.den)]
    ELSE st

\* Seeded with the first SMA, then price * k + EMA * (1 - k) with
\* k = 2 / (ema_period + 1).
ComputeEma(st, price) ==
    IF st.ema_initialized
    THEN LET e == st.ema_value
         IN [st EXCEPT !.ema_value =
                Frac(2 * price * e.den + (ema_period - 1) * e.num,
                     (ema_period + 1) * e.den)]
    ELSE IF Full(st)
    THEN [st EXCEPT !.ema_value = Frac(st.running_sum, sma_period),
                    !.ema_initialized = TRUE]
    ELSE st

-----------------------------------------------------------------------------
(* compute_rsi *)

Gain(change) == IF change > 0 THEN change ELSE 0
Loss(change) == Gain(-change)

\* 100 - 100 / (1 + gain / loss), and 100 when there is no loss.
Rsi(gain, loss) ==
    IF loss = 0 THEN Frac(100, 1) ELSE Frac(100 * gain, gain + loss)

\* A delta of the warm-up is summed; the last one turns sums into averages.
WarmUp(st, change) ==
    [st EXCEPT !.avg_gain = @ + Gain(change),
               !.avg_loss = @ + Loss(change),
               !.rsi_count = @ + 1,
               !.avg_den = IF st.rsi_count + 1 = rsi_period THEN rsi_period ELSE 1,
               !.rsi = Frac(50, 1)]

\* Wilder: avg = (avg * (n - 1) + current) / n
Smooth(st, change) ==
    LET gain == st.avg_gain * (rsi_period - 1) + Gain(change) * st.avg_den
        loss == st.avg_loss * (rsi_period - 1) + Loss(change) * st.avg_den
    IN [st EXCEPT !.avg_gain = gain, !.avg_loss = loss,
                  !.avg_den = @ * rsi_period,
                  !.rsi = Rsi(gain, loss)]

\* Mutant: prev_price stays at the first price during the warm-up.
ComputeRsiAnchored(st, price) ==
    IF st.prev_price = NoPrice
    THEN [st EXCEPT !.prev_price = price, !.rsi = Frac(50, 1)]
    ELSE LET change == price - st.prev_price
         IN IF st.rsi_count < rsi_period
            THEN WarmUp(st, change)
            ELSE Smooth([st EXCEPT !.prev_price = price], change)

\* Mutant: the first price counts as a delta.
ComputeRsiEager(st, price) ==
    LET change == IF st.prev_price = NoPrice THEN 0 ELSE price - st.prev_price
        next == [st EXCEPT !.prev_price = price]
    IN IF st.rsi_count < rsi_period THEN WarmUp(next, change)
                                    ELSE Smooth(next, change)

ComputeRsi(st, price) ==
    IF st.prev_price = NoPrice
    THEN [st EXCEPT !.prev_price = price, !.rsi = Frac(50, 1)]
    ELSE LET change == price - st.prev_price
             next == [st EXCEPT !.prev_price = price]
         IN IF st.rsi_count < rsi_period THEN WarmUp(next, change)
                                         ELSE Smooth(next, change)

-----------------------------------------------------------------------------
(* update *)

Snapshot(st) ==
    [st EXCEPT !.sma = Sma(st),
               !.sma_valid = Full(st),
               !.ema_valid = st.ema_initialized,
               !.rsi_valid = st.rsi_count >= rsi_period]

Update(s, price) ==
    /\ Len(fed[s]) < MaxUpdates
    /\ states' = [states EXCEPT ![s] =
           Snapshot(ComputeRsi(ComputeEma(ComputeSma(@, price), price), price))]
    /\ fed' = [fed EXCEPT ![s] = Append(@, price)]

Next == \E s \in Symbol, price \in Price : Update(s, price)

Spec == Init /\ [][Next]_vars

-----------------------------------------------------------------------------
(* Properties: the incremental values against their definitions *)

Equal(f, num, den) == f.num * den = f.den * num

\* Each indicator becomes valid on the tick its definition needs, whatever came
\* before and whatever the other symbols are fed: the SMA and the EMA, which
\* waits for the SMA and not for ema_period, with price number sma_period, the
\* RSI with delta number rsi_period.  The window holds the latest prices.
WarmupExact ==
    \A s \in Symbol :
        LET st == states[s]
            n == Len(fed[s])
        IN /\ st.sma_valid <=> n >= sma_period
           /\ st.ema_valid <=> n >= sma_period
           /\ st.rsi_valid <=> n > rsi_period
           /\ Len(st.window) = IF n < sma_period THEN n ELSE sma_period
           /\ \A i \in 1..Len(st.window) :
                 st.window[i] = fed[s][n - Len(st.window) + i]

\* "O(1) after warmup": the running sum is the sum of the last sma_period
\* prices, on every tick.
SmaIsMean ==
    \A s \in Symbol :
        LET n == Len(fed[s])
        IN states[s].sma_valid =>
              Equal(states[s].sma,
                    SumOver(fed[s], n - sma_period + 1, n), sma_period)

\* The EMA is the weighted sum that its recursion stands for: of the first SMA
\* and each later price.
EmaIsWeighted ==
    \A s \in Symbol :
        LET n == Len(fed[s])
            k == n - sma_period
            seed == SumOver(fed[s], 1, sma_period)
            later == Weighted(fed[s], sma_period + 1, n, ema_period - 1, ema_period + 1)
        IN states[s].ema_valid =>
              Equal(states[s].ema_value,
                    Power(ema_period - 1, k) * seed + 2 * sma_period * later,
                    sma_period * Power(ema_period + 1, k))

\* What Wilder's smoothing of the first d of the changes f amounts to, in units
\* of 1 / rsi_period^(d - rsi_period + 1).
Wilder(f, d) ==
    Power(rsi_period - 1, d - rsi_period) * SumOver(f, 1, rsi_period)
      + rsi_period * Weighted(f, rsi_period + 1, d, rsi_period - 1, rsi_period)

\* The gains and the losses from each price of h to the next.
Gains(h) == [i \in 1..(Len(h) - 1) |-> Gain(h[i + 1] - h[i])]
Losses(h) == [i \in 1..(Len(h) - 1) |-> Loss(h[i + 1] - h[i])]

\* From the tick after the warm-up on, the RSI is Wilder's.
RsiIsWilder ==
    \A s \in Symbol :
        LET d == Len(fed[s]) - 1
        IN d > rsi_period =>
              LET rsi == Rsi(Wilder(Gains(fed[s]), d), Wilder(Losses(fed[s]), d))
              IN Equal(states[s].rsi, rsi.num, rsi.den)

-----------------------------------------------------------------------------
(* What the tests say and the code does not do *)

\* "4 rising prices -> no losses -> RSI -> 100" with a period of 3
\* (tests/test_indicators.cpp:56-63): an RSI that is valid is above 90 when all
\* prices rose.  On the tick that completes the warm-up the averages are ready
\* and rsi_valid is set, and yet the RSI is the placeholder 50.
RisingMeansHigh ==
    \A s \in Symbol :
        (/\ states[s].rsi_valid
         /\ \A i \in 1..(Len(fed[s]) - 1) : fed[s][i] < fed[s][i + 1])
            => states[s].rsi.num > 90 * states[s].rsi.den
=============================================================================
