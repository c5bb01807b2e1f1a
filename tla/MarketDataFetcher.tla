-------------------------- MODULE MarketDataFetcher --------------------------
(***************************************************************************)
(* src/market/MarketDataFetcher.cpp: the data thread goes through the      *)
(* symbols round after round and pushes a tick of each.  In simulation the *)
(* tick is generated; in live mode it is fetched, and what fails is tried  *)
(* again after a delay.  The running flag is read before each round and    *)
(* before each symbol, and by nothing inside the retries.                  *)
(*                                                                         *)
(* A generated price is one at or above the floor: from any price the next *)
(* may be any.  A fetched one is whatever stod() made of the answer.  What *)
(* fails a fetch (cURL, JSON, a missing price) makes no difference.        *)
(***************************************************************************)
EXTENDS Naturals, Sequences

CONSTANTS symbols,       \* symbols_, in their order
          Price,         \* what a tick may cost
          max_retries,   \* of retry_with_backoff()
          MaxTicks       \* bound: ticks pushed over a behaviour

Mode == {"simulation", "live"}

Tick == [symbol : {symbols[i] : i \in DOMAIN symbols}, price : Price]

VARIABLES mode,      \* mode_
          running,   \* g_running
          pc,        \* loop, symbol, generate, try, fetch, backoff, sleep or done
          at,        \* the symbol of this round
          attempt,   \* attempt of retry_with_backoff()
          pushed,    \* every tick pushed to market_queue_, in order
          late       \* history: fetches begun after the signal

thread == <<pc, at, attempt, pushed, late>>
vars == <<mode, running, thread>>

Init ==
    /\ mode \in Mode
    /\ running = TRUE
    /\ pc = "loop"
    /\ at = 1
    /\ attempt = 0
    /\ pushed = <<>>
    /\ late = 0

\* A signal: g_running = false.
Signal ==
    /\ running' = FALSE
    /\ UNCHANGED <<mode, thread>>

\* while (running)
CheckRunning ==
    /\ pc = "loop"
    /\ IF running THEN pc' = "symbol" /\ at' = 1
                  ELSE pc' = "done" /\ UNCHANGED at
    /\ UNCHANGED <<mode, running, attempt, pushed, late>>

Begin ==
    /\ pc' = IF mode = "simulation" THEN "generate" ELSE "try"
    /\ attempt' = 0

\* The next symbol of the round, unless the flag says to break.
NextSymbol ==
    /\ pc = "symbol"
    /\ IF at > Len(symbols) \/ ~running
       THEN pc' = "sleep" /\ UNCHANGED attempt
       ELSE Len(pushed) < MaxTicks /\ Begin
    /\ UNCHANGED <<mode, running, at, pushed, late>>

Push(price) ==
    /\ pushed' = Append(pushed, [symbol |-> symbols[at], price |-> price])
    /\ at' = at + 1
    /\ pc' = "symbol"

\* generate_tick(), with its floor of 1, and the push.
Generate(price) ==
    /\ pc = "generate"
    /\ price >= 1
    /\ Push(price)
    /\ UNCHANGED <<mode, running, attempt, late>>

\* Mutant: one try more than there are retries.
TryOnceMore ==
    /\ pc = "try"
    /\ IF attempt <= max_retries
       THEN /\ pc' = "fetch"
            /\ late' = IF running THEN late ELSE late + 1
            /\ UNCHANGED at
       ELSE pc' = "symbol" /\ at' = at + 1 /\ UNCHANGED late
    /\ UNCHANGED <<mode, running, attempt, pushed>>

\* while (attempt < max_retries): a fetch begins, or the symbol is passed over.
Try ==
    /\ pc = "try"
    /\ IF attempt < max_retries
       THEN /\ pc' = "fetch"
            /\ late' = IF running THEN late ELSE late + 1
            /\ UNCHANGED at
       ELSE pc' = "symbol" /\ at' = at + 1 /\ UNCHANGED late
    /\ UNCHANGED <<mode, running, attempt, pushed>>

\* fetch_tick_curl() returned true.
FetchSucceeds(price) ==
    /\ pc = "fetch"
    /\ Push(price)
    /\ UNCHANGED <<mode, running, attempt, late>>

\* It returned false: a delay follows, also when no attempt is left.
FetchFails ==
    /\ pc = "fetch"
    /\ attempt' = attempt + 1
    /\ pc' = "backoff"
    /\ UNCHANGED <<mode, running, at, pushed, late>>

\* sleep_for(delay)
Backoff ==
    /\ pc = "backoff"
    /\ pc' = "try"
    /\ UNCHANGED <<mode, running, at, attempt, pushed, late>>

\* sleep_for(poll_ms_)
Sleep ==
    /\ pc = "sleep"
    /\ pc' = "loop"
    /\ UNCHANGED <<mode, running, at, attempt, pushed, late>>

Step ==
    \/ CheckRunning \/ NextSymbol
    \/ \E price \in Price : Generate(price) \/ FetchSucceeds(price)
    \/ Try \/ FetchFails \/ Backoff \/ Sleep

Next == Signal \/ Step

Spec == Init /\ [][Next]_vars

-----------------------------------------------------------------------------

\* The retries do not look at the flag, but they are all that goes on after a
\* signal: at most the max_retries fetches of one symbol are begun, so that the
\* join of the data thread waits a bounded time (retry_with_backoff, run_live).
LateFetchesBounded == late <= max_retries
=============================================================================
