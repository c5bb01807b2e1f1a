------------------------------ MODULE UserProofs ------------------------------
(***************************************************************************)
(* What the program's user can rely on: that main() closes its queues and  *)
(* leaves in the right order (Lifecycle), for any set of logging threads   *)
(* and any number of signals; and that the page lists what was booked and  *)
(* accounts for its orders (Dashboard), for any number of polls, fills and *)
(* clicks.  The two modules share nothing.                                 *)
(***************************************************************************)
EXTENDS Lifecycle, Dashboard, Sums, SequenceTheorems

-----------------------------------------------------------------------------
(* The inductive invariant: what main() is past has happened *)

Location == {"new", "loop", "lock", "log", "done", "setup", "bind", "listen",
             "serve", "join", "stop"}

\* What main() has yet to start is new.
Started ==
    /\ step <= 1 => pc["data"] = "new"
    /\ step <= 2 => pc["fanout"] = "new"
    /\ step <= 3 => pc["strategy"] = "new"
    /\ step <= 4 => pc["engine"] = "new"
    /\ step <= 5 => pc["pnl"] = "new"
    /\ step <= 6 => pc["ui"] = "new"
    /\ step <= 7 => pc["api"] = "new"

\* What it has joined is done.
Joined ==
    /\ step > 8 => pc["data"] = "done"
    /\ step > 9 => pc["fanout"] = "done"
    /\ step > 11 => pc["strategy"] = "done"
    /\ step > 14 => pc["engine"] = "done"
    /\ step > 16 => pc["pnl"] = "done"
    /\ step > 17 => pc["ui"] = "done"
    /\ step > 18 => pc["api"] = "done"
    /\ pc["api"] = "done" => pc["stop"] = "done"

\* What it has not come to is not closed.
Closed ==
    /\ "market_queue_display" \in down => step > 10
    /\ "order_queue" \in down => step > 12
    /\ "trade_queue" \in down => step > 15

IInv ==
    /\ TypeOK
    /\ pc \in [Thread -> Location]
    /\ Started /\ Joined /\ Closed

\* main()'s script, step by step.
LEMMA ScriptIs ==
    /\ Len(Script) = 18
    /\ Script[1] = Op("start", "data")    /\ Script[2] = Op("start", "fanout")
    /\ Script[3] = Op("start", "strategy") /\ Script[4] = Op("start", "engine")
    /\ Script[5] = Op("start", "pnl")     /\ Script[6] = Op("start", "ui")
    /\ Script[7] = Op("start", "api")
    /\ Script[8] = Op("join", "data")     /\ Script[9] = Op("join", "fanout")
    /\ Script[10] = Op("close", "market_queue_display")
    /\ Script[11] = Op("join", "strategy")
    /\ Script[12] = Op("close", "order_queue")
    /\ Script[13] = Op("stop", "engine")  /\ Script[14] = Op("join", "engine")
    /\ Script[15] = Op("close", "trade_queue")
    /\ Script[16] = Op("join", "pnl")     /\ Script[17] = Op("join", "ui")
    /\ Script[18] = Op("join", "api")
  BY DEF Script

LEMMA InitIInv == Init => IInv
  <1> SUFFICES ASSUME Init PROVE IInv
    OBVIOUS
  <1>1. \A t \in Thread : pc[t] = IF t \in {"main", "logger"} THEN "loop" ELSE "new"
    BY DEF Init
  <1>2. pc \in [Thread -> Location]
    BY DEF Init, Location
  <1>3. step = 1 /\ down = {} /\ holder = "none"
    BY DEF Init
  <1>4. /\ pc["data"] = "new" /\ pc["fanout"] = "new" /\ pc["strategy"] = "new"
        /\ pc["engine"] = "new" /\ pc["pnl"] = "new" /\ pc["ui"] = "new"
        /\ pc["api"] = "new" /\ pc["stop"] = "new" /\ pc["main"] = "loop"
        /\ pc["logger"] = "loop"
    BY <1>1 DEF Thread, Worker
  <1>5. Started /\ Joined /\ Closed
    BY <1>3, <1>4 DEF Started, Joined, Closed
  <1>6. TypeOK
    <2>1. \A t \in Thread : holder # t /\ pc[t] # "log"
      BY <1>1, <1>3 DEF Thread, Worker
    <2>2. step \in 1..(Len(Script) + 1)
      BY <1>3, ScriptIs
    <2>3. \A t \in Worker : pc[t] \in {"new", "loop", "lock", "log", "done"}
      BY <1>1 DEF Thread
    <2>4. 0 \in 0..MaxSignals
      BY LifecycleAssumption
    <2> QED BY <1>4, <1>3, <2>1, <2>2, <2>3, <2>4 DEF Init, TypeOK
  <1> QED BY <1>2, <1>5, <1>6 DEF IInv

-----------------------------------------------------------------------------
(* The threads that main() starts and joins *)

\* A thread that is neither new nor done moves on, and nobody else does.
LEMMA MovesOn ==
  ASSUME IInv, NEW t \in Thread, NEW loc \in Location \ {"new"},
         pc[t] \notin {"new", "done"}, Goto(t, loc),
         UNCHANGED <<step, down>>,
         t = "api" /\ loc = "done" => pc["stop"] = "done"
  PROVE  /\ pc' \in [Thread -> Location] /\ Started' /\ Joined' /\ Closed'
         /\ pc'[t] = loc
         /\ \A u \in Thread \ {t} : pc'[u] = pc[u]
  <1>1. pc' \in [Thread -> Location] /\ pc'[t] = loc
    BY DEF IInv, Goto
  <1>2. \A u \in Thread \ {t} : pc'[u] = pc[u]
    BY DEF IInv, Goto
  <1>3. \A u \in Thread : pc[u] \in {"new", "done"} => pc'[u] = pc[u]
    BY <1>2
  <1>4.
        /\ pc["data"] \in {"new", "done"} => pc'["data"] = pc["data"]
        /\ pc["fanout"] \in {"new", "done"} => pc'["fanout"] = pc["fanout"]
        /\ pc["strategy"] \in {"new", "done"} => pc'["strategy"] = pc["strategy"]
        /\ pc["engine"] \in {"new", "done"} => pc'["engine"] = pc["engine"]
        /\ pc["pnl"] \in {"new", "done"} => pc'["pnl"] = pc["pnl"]
        /\ pc["ui"] \in {"new", "done"} => pc'["ui"] = pc["ui"]
        /\ pc["api"] \in {"new", "done"} => pc'["api"] = pc["api"]
        /\ pc["stop"] \in {"new", "done"} => pc'["stop"] = pc["stop"]
    BY <1>3 DEF Thread, Worker
  <1>5. Started'
    <2>1. Started /\ step' = step
      BY DEF IInv
    <2> QED BY ONLY <1>4, <2>1 DEF Started
  <1>6. Joined'
    <2>1. Joined /\ step' = step
      BY DEF IInv
    <2>2. pc'["api"] = "done" => pc'["stop"] = "done"
      <3>1. CASE t = "api" /\ loc = "done"
        BY <1>4, <3>1
      <3>2. CASE ~(t = "api" /\ loc = "done")
        <4>1. pc'["api"] = "done" => pc["api"] = "done"
          BY <1>1, <1>2, <3>2 DEF Thread
        <4> QED BY <1>4, <2>1, <4>1 DEF Joined
      <3> QED BY <3>1, <3>2
    <2> QED BY ONLY <1>4, <2>1, <2>2 DEF Joined
  <1>7. Closed'
    BY DEF IInv, Closed
  <1> QED BY <1>1, <1>2, <1>5, <1>6, <1>7

\* Taking and leaving the mutex.
LEMMA MutexIInv == ASSUME IInv, NEW t \in Thread, Lock(t) \/ Unlock(t) PROVE IInv'
  <1> USE DEF At
  <1>1. CASE Lock(t)
    <2>1. pc[t] = "lock" /\ Goto(t, "log") /\ holder = "none" /\ holder' = t
      BY <1>1 DEF Lock
    <2>2. UNCHANGED <<running, shutdown, down, step, server, signal>>
      BY <1>1 DEF Lock
    <2>3. /\ pc' \in [Thread -> Location] /\ Started' /\ Joined' /\ Closed'
          /\ pc'[t] = "log" /\ \A u \in Thread \ {t} : pc'[u] = pc[u]
      BY <2>1, <2>2, MovesOn DEF Location
    <2>4. t \in Worker \cup {"main"}
      BY <2>1 DEF IInv, TypeOK, Thread
    <2>5. \A u \in Thread : holder' = u <=> pc'[u] = "log"
      <3>1. \A u \in Thread \ {t} : pc[u] # "log"
        BY <2>1 DEF IInv, TypeOK, Thread, Worker
      <3> QED BY <2>1, <2>3, <3>1
    <2>6. TypeOK'
      BY <2>1, <2>2, <2>3, <2>4, <2>5 DEF IInv, TypeOK, Thread, Worker, server, signal, Script
    <2> QED BY <2>3, <2>6 DEF IInv
  <1>2. CASE Unlock(t)
    <2>1. pc[t] = "log" /\ Goto(t, "loop") /\ holder' = "none"
      BY <1>2 DEF Unlock
    <2>2. UNCHANGED <<running, shutdown, down, step, server, signal>>
      BY <1>2 DEF Unlock
    <2>3. /\ pc' \in [Thread -> Location] /\ Started' /\ Joined' /\ Closed'
          /\ pc'[t] = "loop" /\ \A u \in Thread \ {t} : pc'[u] = pc[u]
      BY <2>1, <2>2, MovesOn DEF Location
    <2>4. t \in Worker \cup {"main"}
      BY <2>1 DEF IInv, TypeOK, Thread
    <2>5. \A u \in Thread : holder' = u <=> pc'[u] = "log"
      <3>1. \A u \in Thread \ {t} : pc[u] # "log"
        BY <2>1 DEF IInv, TypeOK
      <3> QED BY <2>1, <2>3, <3>1 DEF Thread, Worker
    <2>6. TypeOK'
      BY <2>1, <2>2, <2>3, <2>4, <2>5 DEF IInv, TypeOK, Thread, Worker, server, signal, Script
    <2> QED BY <2>3, <2>6 DEF IInv
  <1> QED BY <1>1, <1>2

\* A step outside of the logger's lock keeps the lock's part of TypeOK.
LEMMA LockKept ==
  ASSUME IInv, NEW t \in Thread, pc[t] # "log", pc'[t] # "log", holder' = holder,
         \A u \in Thread \ {t} : pc'[u] = pc[u]
  PROVE  \A u \in Thread : holder' = u <=> pc'[u] = "log"
  BY DEF IInv, TypeOK

\* A round of a worker's loop.
LEMMA RoundIInv == ASSUME IInv, NEW t \in Worker, Round(t) PROVE IInv'
  <1>1. PICK loc \in {"loop", "lock", "done"} : Goto(t, loc)
    BY DEF Round, Onward
  <1>2. /\ pc[t] = "loop" /\ t \in Thread /\ t # "api"
        /\ UNCHANGED <<running, shutdown, down, step, holder, server, signal>>
    BY DEF Round, At, Thread, Worker
  <1>3. /\ pc' \in [Thread -> Location] /\ Started' /\ Joined' /\ Closed'
        /\ pc'[t] = loc /\ \A u \in Thread \ {t} : pc'[u] = pc[u]
    BY <1>1, <1>2, MovesOn DEF Location
  <1>4. \A u \in Thread : holder' = u <=> pc'[u] = "log"
    BY <1>1, <1>2, <1>3, LockKept
  <1>5. TypeOK'
    BY <1>1, <1>2, <1>3, <1>4 DEF IInv, TypeOK, Thread, Worker, server, signal, Script
  <1> QED BY <1>3, <1>5 DEF IInv

\* The API thread, the thread that stops the server, and the server.
LEMMA ServerIInv ==
  ASSUME IInv, ApiSetup \/ Bind \/ Listen \/ Serve \/ ApiJoin \/ StopRound \/ StopServer
  PROVE  IInv'
  <1> USE DEF At
  <1>1. "api" \in Thread /\ "stop" \in Thread
    BY DEF Thread
  <1>2. UNCHANGED <<running, shutdown, down, step, holder, signal>>
    BY DEF ApiSetup, Bind, Listen, Serve, ApiJoin, StopRound, StopServer, server
  <1>3. CASE ApiSetup
    <2>1. pc["api"] = "setup" /\ pc' = [pc EXCEPT !["api"] = "bind", !["stop"] = "loop"]
      BY <1>3 DEF ApiSetup
    <2>2. /\ pc' \in [Thread -> Location] /\ pc'["api"] = "bind" /\ pc'["stop"] = "loop"
          /\ \A u \in Thread \ {"api", "stop"} : pc'[u] = pc[u]
      BY <1>1, <2>1 DEF IInv, Location
    <2>3. /\ pc'["data"] = pc["data"] /\ pc'["fanout"] = pc["fanout"]
          /\ pc'["strategy"] = pc["strategy"] /\ pc'["engine"] = pc["engine"]
          /\ pc'["pnl"] = pc["pnl"] /\ pc'["ui"] = pc["ui"]
      BY <2>2 DEF Thread, Worker
    <2>4. Started' /\ Joined' /\ Closed'
      BY <1>2, <2>1, <2>2, <2>3 DEF IInv, Started, Joined, Closed
    <2>5. \A u \in Thread : holder' = u <=> pc'[u] = "log"
      <3>1. pc["stop"] # "log"
        BY DEF IInv, TypeOK
      <3> QED BY <1>1, <1>2, <2>1, <2>2, <3>1 DEF IInv, TypeOK
    <2>6. UNCHANGED server
      BY <1>3 DEF ApiSetup
    <2>7. TypeOK'
      BY <1>2, <2>2, <2>5, <2>6 DEF IInv, TypeOK, Thread, Worker, server, signal, Script
    <2> QED BY <2>2, <2>4, <2>7 DEF IInv
  <1>4. CASE Bind \/ Listen \/ Serve \/ ApiJoin
    <2>1. PICK loc \in {"listen", "serve", "join", "done"} : Goto("api", loc)
      BY <1>4 DEF Bind, Listen, Serve, ApiJoin
    <2>2. /\ pc["api"] \in {"bind", "listen", "serve", "join"}
          /\ svr_sock' \in BOOLEAN /\ is_running' \in BOOLEAN
      <3>1. pc["api"] \in {"bind", "listen", "serve", "join"}
        BY <1>4 DEF Bind, Listen, Serve, ApiJoin
      <3>2. svr_sock' = TRUE \/ svr_sock' = svr_sock
        BY <1>4 DEF Bind, Listen, Serve, ApiJoin, server
      <3>3. is_running' = TRUE \/ is_running' = FALSE \/ is_running' = is_running
        BY <1>4 DEF Bind, Listen, Serve, ApiJoin, server
      <3> QED BY <3>1, <3>2, <3>3 DEF IInv, TypeOK
    <2>3. loc = "done" => pc["stop"] = "done"
      <3>1. CASE ApiJoin
        BY <3>1 DEF ApiJoin
      <3>2. CASE Bind \/ Listen \/ Serve
        <4>1. pc'["api"] # "done" /\ pc'["api"] = loc
          BY <1>1, <2>1, <3>2 DEF Bind, Listen, Serve, Goto, IInv
        <4> QED BY <4>1
      <3> QED BY <1>4, <3>1, <3>2
    <2>4. /\ pc' \in [Thread -> Location] /\ Started' /\ Joined' /\ Closed'
          /\ pc'["api"] = loc /\ \A u \in Thread \ {"api"} : pc'[u] = pc[u]
      BY <1>1, <1>2, <2>1, <2>2, <2>3, MovesOn DEF Location
    <2>5. \A u \in Thread : holder' = u <=> pc'[u] = "log"
      BY <1>1, <1>2, <2>1, <2>2, <2>4, LockKept
    <2>6. TypeOK'
      BY <1>2, <2>1, <2>2, <2>4, <2>5 DEF IInv, TypeOK, Thread, Worker, signal, Script
    <2> QED BY <2>4, <2>6 DEF IInv
  <1>5. CASE StopRound \/ StopServer
    <2>1. PICK loc \in {"stop", "done"} : Goto("stop", loc)
      BY <1>5 DEF StopRound, StopServer
    <2>2. /\ pc["stop"] \in {"loop", "stop"}
          /\ svr_sock' \in BOOLEAN /\ is_running' \in BOOLEAN
      BY <1>5 DEF StopRound, StopServer, server, IInv, TypeOK
    <2>3. /\ pc' \in [Thread -> Location] /\ Started' /\ Joined' /\ Closed'
          /\ pc'["stop"] = loc /\ \A u \in Thread \ {"stop"} : pc'[u] = pc[u]
      BY <1>1, <1>2, <2>1, <2>2, MovesOn DEF Location
    <2>4. \A u \in Thread : holder' = u <=> pc'[u] = "log"
      BY <1>1, <1>2, <2>1, <2>2, <2>3, LockKept
    <2>5. TypeOK'
      BY <1>2, <2>1, <2>2, <2>3, <2>4 DEF IInv, TypeOK, Thread, Worker, signal, Script
    <2> QED BY <2>3, <2>5 DEF IInv
  <1> QED BY <1>3, <1>4, <1>5

\* The signal handler moves no thread.
LEMMA SignalIInv ==
  ASSUME IInv, (\E t \in Thread : Deliver(t)) \/ HandlerFlag \/ HandlerLog
  PROVE  IInv'
  <1>1. UNCHANGED <<shutdown, down, pc, step, holder, server>>
    BY DEF Deliver, HandlerFlag, HandlerLog
  <1>2. running' \in BOOLEAN /\ handler' \in {"none", "flag", "log"}
    BY DEF Deliver, HandlerFlag, HandlerLog, IInv, TypeOK
  <1>3. interrupted' \in Thread \cup {"none"}
    BY DEF Deliver, HandlerFlag, HandlerLog, IInv, TypeOK
  <1>4. signals' \in 0..MaxSignals
    <2>1. signals \in 0..MaxSignals /\ MaxSignals \in Nat
      BY LifecycleAssumption DEF IInv, TypeOK
    <2>2. signals' = signals \/ (signals < MaxSignals /\ signals' = signals + 1)
      BY DEF Deliver, HandlerFlag, HandlerLog
    <2> QED BY <2>1, <2>2
  <1>5. ready' \in BOOLEAN /\ safe' \in BOOLEAN
    <2>1. CASE \E t \in Thread : Deliver(t)
      <3>1. PICK t \in Thread : Deliver(t)
        BY <2>1
      <3>2. ready' = (pc["api"] \in {"serve", "join", "done"}) /\ safe' = (holder # t)
        BY <3>1 DEF Deliver
      <3> QED BY <3>2
    <2>2. CASE HandlerFlag \/ HandlerLog
      <3>1. UNCHANGED <<ready, safe>>
        BY <2>2 DEF HandlerFlag, HandlerLog
      <3> QED BY <3>1 DEF IInv, TypeOK
    <2> QED BY <2>1, <2>2
  <1>6. Started' /\ Joined' /\ Closed'
    BY <1>1 DEF IInv, Started, Joined, Closed
  <1>7. TypeOK'
    BY <1>1, <1>2, <1>3, <1>4, <1>5 DEF IInv, TypeOK, server
  <1> QED BY <1>1, <1>6, <1>7 DEF IInv

-----------------------------------------------------------------------------
(* main() *)

\* Where main() goes after a step of its script.
LEMMA MainGoes ==
  ASSUME IInv, MainStep
  PROVE  /\ step \in 1..18 /\ step' = step + 1
         /\ pc["main"] = "loop" /\ pc'["main"] \in {"loop", "lock"}
         /\ UNCHANGED <<running, holder, server, signal>>
         /\ \/ /\ Script[step].op = "start"
               /\ pc' = [pc EXCEPT !["main"] = pc'["main"],
                                   ![Script[step].on] = IF Script[step].on = "api"
                                                        THEN "setup" ELSE "loop"]
               /\ UNCHANGED <<shutdown, down>>
            \/ /\ Script[step].op = "join" /\ pc[Script[step].on] = "done"
               /\ Goto("main", pc'["main"])
               /\ UNCHANGED <<shutdown, down>>
            \/ /\ Script[step].op = "close" /\ down' = down \cup {Script[step].on}
               /\ Goto("main", pc'["main"])
               /\ UNCHANGED shutdown
            \/ /\ Script[step].op = "stop" /\ shutdown' = TRUE
               /\ Goto("main", pc'["main"])
               /\ UNCHANGED down
  <1>1. step \in 1..18
    BY ScriptIs DEF MainStep, Over, IInv, TypeOK
  <1>2. step' = step + 1 /\ pc["main"] = "loop"
    BY DEF MainStep, At
  <1>3. UNCHANGED <<running, holder, server, signal>>
    BY DEF MainStep
  <1>4. Script[step].on # "main"
    BY <1>1, ScriptIs DEF Op
  <1>5. "main" \in Thread
    BY DEF Thread
  <1>6. PICK loc \in {"loop", "lock"} :
            \/ /\ Script[step].op = "start"
               /\ pc' = [pc EXCEPT !["main"] = loc,
                                   ![Script[step].on] = IF Script[step].on = "api"
                                                        THEN "setup" ELSE "loop"]
               /\ UNCHANGED <<shutdown, down>>
            \/ /\ Script[step].op = "join" /\ pc[Script[step].on] = "done"
               /\ Goto("main", loc)
               /\ UNCHANGED <<shutdown, down>>
            \/ /\ Script[step].op = "close" /\ down' = down \cup {Script[step].on}
               /\ Goto("main", loc)
               /\ UNCHANGED shutdown
            \/ /\ Script[step].op = "stop" /\ shutdown' = TRUE
               /\ Goto("main", loc)
               /\ UNCHANGED down
    BY DEF MainStep, Onward
  <1>7. pc'["main"] = loc
    BY <1>4, <1>5, <1>6 DEF Goto, IInv
  <1> QED BY <1>1, <1>2, <1>3, <1>6, <1>7

\* A step of main() that starts no thread.
LEMMA MainMoves ==
  ASSUME IInv, MainStep, Script[step].op # "start"
  PROVE  /\ pc' \in [Thread -> Location] /\ pc'["main"] \in {"loop", "lock"}
         /\ \A u \in Thread \ {"main"} : pc'[u] = pc[u]
         /\ \A u \in Thread : holder' = u <=> pc'[u] = "log"
  <1>1. /\ pc["main"] = "loop" /\ pc'["main"] \in {"loop", "lock"}
        /\ Goto("main", pc'["main"]) /\ holder' = holder
    BY MainGoes
  <1>2. "main" \in Thread
    BY DEF Thread
  <1>3. /\ pc' \in [Thread -> Location]
        /\ \A u \in Thread \ {"main"} : pc'[u] = pc[u]
    BY <1>1, <1>2 DEF Goto, IInv, Location
  <1> QED BY <1>1, <1>2, <1>3, LockKept
\* main() starts a thread.
LEMMA StartIInv ==
  ASSUME IInv, MainStep, Script[step].op = "start"
  PROVE  IInv'
  <1> DEFINE on == Script[step].on
             loc == IF on = "api" THEN "setup" ELSE "loop"
  <1>1. /\ step \in 1..18 /\ step' = step + 1
        /\ pc["main"] = "loop" /\ pc'["main"] \in {"loop", "lock"}
        /\ UNCHANGED <<running, holder, server, signal, shutdown, down>>
        /\ pc' = [pc EXCEPT !["main"] = pc'["main"], ![on] = loc]
    <2> HIDE DEF on, loc
    <2> QED BY MainGoes DEF on, loc
  <1>2. step \in 1..7
    BY <1>1, ScriptIs DEF Op
  <1>3. /\ step = 1 => on = "data"
        /\ step = 2 => on = "fanout"
        /\ step = 3 => on = "strategy"
        /\ step = 4 => on = "engine"
        /\ step = 5 => on = "pnl"
        /\ step = 6 => on = "ui"
        /\ step = 7 => on = "api"
    BY ScriptIs DEF Op
  <1>4. /\ on \in {"data", "fanout", "strategy", "engine", "pnl", "ui", "api"}
        /\ on \in Thread /\ on # "main" /\ "main" \in Thread
    BY <1>2, <1>3 DEF Thread, Worker
  <1>5. pc[on] = "new"
    BY <1>2, <1>3 DEF IInv, Started
  <1>6. loc \in {"loop", "setup"}
    OBVIOUS
  <1>7. on = "api" => loc = "setup"
    OBVIOUS
  <1>8. on # "api" => loc = "loop"
    OBVIOUS
  <1> HIDE DEF on, loc
  <1>9. /\ pc' \in [Thread -> Location] /\ pc'[on] = loc
        /\ \A u \in Thread \ {"main", on} : pc'[u] = pc[u]
    BY <1>1, <1>4, <1>6 DEF IInv, Location
  <1>10. Started'
    <2>1. /\ on # "data" => pc'["data"] = pc["data"]
          /\ on # "fanout" => pc'["fanout"] = pc["fanout"]
          /\ on # "strategy" => pc'["strategy"] = pc["strategy"]
          /\ on # "engine" => pc'["engine"] = pc["engine"]
          /\ on # "pnl" => pc'["pnl"] = pc["pnl"]
          /\ on # "ui" => pc'["ui"] = pc["ui"]
          /\ on # "api" => pc'["api"] = pc["api"]
      BY <1>9 DEF Thread, Worker
    <2>2. Started
      BY DEF IInv
    <2> QED BY ONLY <1>1, <1>2, <1>3, <2>1, <2>2 DEF Started
  <1>11. Joined'
    <2>1. pc'["api"] = "done" => pc["api"] = "done"
      <3>1. CASE on = "api"
        BY <1>6, <1>9, <3>1
      <3>2. CASE on # "api"
        BY <1>9, <3>2 DEF Thread
      <3> QED BY <3>1, <3>2
    <2>2. pc'["stop"] = pc["stop"]
      BY <1>4, <1>9 DEF Thread
    <2>3. Joined
      BY DEF IInv
    <2> QED BY ONLY <1>1, <1>2, <2>1, <2>2, <2>3 DEF Joined
  <1>12. Closed'
    BY ONLY <1>1, IInv DEF Closed, IInv
  <1>13. TypeOK'
    <2>1. \A u \in Thread : holder' = u <=> pc'[u] = "log"
      <3>1. \A u \in Thread : holder = u <=> pc[u] = "log"
        BY DEF IInv, TypeOK
      <3>2. holder # on /\ holder # "main" /\ holder' = holder
        BY <1>1, <1>4, <1>5, <3>1
      <3> QED BY <1>1, <1>6, <1>9, <3>1, <3>2
    <2>2. \A u \in Worker : pc'[u] \in {"new", "loop", "lock", "log", "done"}
      <3> SUFFICES ASSUME NEW u \in Worker
                   PROVE  pc'[u] \in {"new", "loop", "lock", "log", "done"}
        OBVIOUS
      <3>1. CASE u = on
        BY <1>8, <1>9, <3>1 DEF Worker
      <3>2. CASE u # on
        <4>1. u # "main" /\ u \in Thread
          BY DEF Thread, Worker
        <4> QED BY <1>9, <3>2, <4>1 DEF IInv, TypeOK
      <3> QED BY <3>1, <3>2
    <2>3. pc'["api"] \in {"new", "setup", "bind", "listen", "serve", "join", "done"}
      <3>1. CASE on = "api"
        BY <1>7, <1>9, <3>1
      <3>2. CASE on # "api"
        BY <1>9, <3>2 DEF Thread, IInv, TypeOK
      <3> QED BY <3>1, <3>2
    <2>4. pc'["stop"] = pc["stop"]
      BY <1>4, <1>9 DEF Thread
    <2>5. step' \in 1..(Len(Script) + 1)
      BY <1>1, <1>2, ScriptIs
    <2> QED BY <1>1, <2>1, <2>2, <2>3, <2>4, <2>5 DEF IInv, TypeOK, server, signal
  <1> QED BY <1>9, <1>10, <1>11, <1>12, <1>13 DEF IInv

\* main() joins a thread, closes a queue or stops the engine.
LEMMA ScriptIInv ==
  ASSUME IInv, MainStep, Script[step].op # "start"
  PROVE  IInv'
  <1>1. /\ step \in 8..18 /\ step' = step + 1
        /\ UNCHANGED <<running, holder, server, signal>>
    BY MainGoes, ScriptIs DEF Op
  <1>2. /\ pc' \in [Thread -> Location] /\ pc'["main"] \in {"loop", "lock"}
        /\ \A u \in Thread \ {"main"} : pc'[u] = pc[u]
        /\ \A u \in Thread : holder' = u <=> pc'[u] = "log"
    BY MainMoves
  <1>3. /\ pc'["data"] = pc["data"] /\ pc'["fanout"] = pc["fanout"]
        /\ pc'["strategy"] = pc["strategy"] /\ pc'["engine"] = pc["engine"]
        /\ pc'["pnl"] = pc["pnl"] /\ pc'["ui"] = pc["ui"]
        /\ pc'["api"] = pc["api"] /\ pc'["stop"] = pc["stop"]
    BY <1>2 DEF Thread, Worker
  <1>4. \/ /\ Script[step].op = "join" /\ pc[Script[step].on] = "done"
           /\ UNCHANGED <<shutdown, down>>
        \/ /\ Script[step].op = "close" /\ down' = down \cup {Script[step].on}
           /\ UNCHANGED shutdown
        \/ /\ Script[step].op = "stop" /\ shutdown' = TRUE /\ UNCHANGED down
    BY MainGoes
  <1>5. Started'
    BY ONLY <1>1 DEF Started
  <1>6. /\ step = 8 => pc["data"] = "done"
        /\ step = 9 => pc["fanout"] = "done"
        /\ step = 11 => pc["strategy"] = "done"
        /\ step = 14 => pc["engine"] = "done"
        /\ step = 16 => pc["pnl"] = "done"
        /\ step = 17 => pc["ui"] = "done"
        /\ step = 18 => pc["api"] = "done"
    BY <1>4, ScriptIs DEF Op
  <1>7. Joined'
    <2>1. Joined
      BY DEF IInv
    <2> QED BY ONLY <1>1, <1>3, <1>6, <2>1 DEF Joined
  <1>8. /\ "market_queue_display" \in down' => "market_queue_display" \in down \/ step = 10
        /\ "order_queue" \in down' => "order_queue" \in down \/ step = 12
        /\ "trade_queue" \in down' => "trade_queue" \in down \/ step = 15
        /\ down' \subseteq {"market_queue_display", "order_queue", "trade_queue"}
    <2>1. down \subseteq {"market_queue_display", "order_queue", "trade_queue"}
      BY DEF IInv, TypeOK
    <2>2. CASE down' = down
      BY <2>1, <2>2
    <2>3. CASE Script[step].op = "close" /\ down' = down \cup {Script[step].on}
      <3>1. \/ step = 10 /\ Script[step].on = "market_queue_display"
            \/ step = 12 /\ Script[step].on = "order_queue"
            \/ step = 15 /\ Script[step].on = "trade_queue"
        BY <1>1, <2>3, ScriptIs DEF Op
      <3> QED BY <2>1, <2>3, <3>1
    <2> QED BY <1>4, <2>2, <2>3
  <1>9. Closed'
    <2>1. Closed
      BY DEF IInv
    <2> QED BY ONLY <1>1, <1>8, <2>1 DEF Closed
  <1>10. TypeOK'
    <2>1. \A u \in Worker : u # "main" /\ u \in Thread
      BY DEF Thread, Worker
    <2>2. shutdown' \in BOOLEAN
      <3>1. shutdown' = TRUE \/ shutdown' = shutdown
        BY <1>4
      <3> QED BY <3>1 DEF IInv, TypeOK
    <2>3. step' \in 1..(Len(Script) + 1)
      BY <1>1, ScriptIs
    <2>4. \A u \in Worker : pc'[u] = pc[u]
      BY <1>2, <2>1
    <2> QED BY <1>1, <1>2, <1>3, <1>8, <2>2, <2>3, <2>4 DEF IInv, TypeOK, server, signal
  <1> QED BY <1>2, <1>5, <1>7, <1>9, <1>10 DEF IInv

-----------------------------------------------------------------------------
(* The theorems *)

LEMMA StepIInv == IInv /\ [Next]_vars => IInv'
  <1> SUFFICES ASSUME IInv, [Next]_vars PROVE IInv'
    OBVIOUS
  <1>1. CASE \E t \in Thread : Lock(t) \/ Unlock(t)
    BY <1>1, MutexIInv
  <1>2. CASE (\E t \in Thread : Deliver(t)) \/ HandlerFlag \/ HandlerLog
    BY <1>2, SignalIInv
  <1>3. CASE \E t \in Worker : Round(t)
    BY <1>3, RoundIInv
  <1>4. CASE MainStep
    BY <1>4, StartIInv, ScriptIInv
  <1>5. CASE ApiSetup \/ Bind \/ Listen \/ Serve \/ ApiJoin \/ StopRound \/ StopServer
    BY <1>5, ServerIInv
  <1>6. CASE UNCHANGED vars
    BY <1>6 DEF IInv, Started, Joined, Closed, TypeOK, vars, server, signal
  <1> QED BY <1>1, <1>2, <1>3, <1>4, <1>5, <1>6 DEF Next

\* Every queue that main() has shut down had lost its producer before, however
\* many threads log and whenever signals come (main.cpp:194-217).
THEOREM QueuesClosedInOrder == Spec => []QueuesOutliveProducers
  <1>1. IInv => QueuesOutliveProducers
    <2> SUFFICES ASSUME IInv PROVE QueuesOutliveProducers
      OBVIOUS
    <2>1. Closed /\ Joined /\ step \in Nat
      BY ScriptIs DEF IInv, TypeOK
    <2> QED BY ONLY <2>1 DEF Closed, Joined, QueuesOutliveProducers
  <1> QED BY <1>1, InitIInv, StepIInv, PTL DEF Spec

\* main() returns only when every thread that uses its locals has ended, the API's
\* stop_thread included (main.cpp:194-217, ApiServer.cpp:253-266).
THEOREM MainLeavesLast == Spec => []NoThreadLeft
  <1>1. IInv => NoThreadLeft
    <2> SUFFICES ASSUME IInv, Over PROVE \A t \in Thread \ {"main", "logger"} : pc[t] = "done"
      BY DEF NoThreadLeft
    <2>1. step = 19
      BY ScriptIs DEF Over, IInv, TypeOK
    <2>2. Joined
      BY DEF IInv
    <2>3. /\ pc["data"] = "done" /\ pc["fanout"] = "done" /\ pc["strategy"] = "done"
          /\ pc["engine"] = "done" /\ pc["pnl"] = "done" /\ pc["ui"] = "done"
          /\ pc["api"] = "done" /\ pc["stop"] = "done"
      BY ONLY <2>1, <2>2 DEF Joined
    <2> QED BY <2>3 DEF Thread, Worker
  <1> QED BY <1>1, InitIInv, StepIInv, PTL DEF Spec

-----------------------------------------------------------------------------
(* Lists of fills *)

Places(list, n) == {i \in DOMAIN list : list[i].n = n}

LEMMA PlacesFinite ==
  ASSUME NEW list \in Seq(Fill), NEW n
  PROVE  IsFiniteSet(Places(list, n)) /\ Copies(list, n) \in Nat
  <1>1. DOMAIN list = 1..Len(list) /\ Len(list) \in Nat
    OBVIOUS
  <1>2. IsFiniteSet(1..Len(list))
    BY <1>1, FS_Interval
  <1>3. Places(list, n) \in SUBSET (1..Len(list))
    BY <1>1 DEF Places
  <1>4. IsFiniteSet(Places(list, n))
    BY <1>2, <1>3, FS_Subset
  <1> QED BY <1>4, FS_CardinalityType DEF Copies, Places

\* A list that has no n-th fill.
LEMMA CopiesNone ==
  ASSUME NEW list \in Seq(Fill), NEW n, \A e \in Range(list) : e.n # n
  PROVE  Copies(list, n) = 0
  <1>1. {i \in DOMAIN list : list[i].n = n} = {}
    BY DEF Range
  <1> QED BY <1>1, FS_EmptySet DEF Copies

\* And one that has.
LEMMA CopiesSome ==
  ASSUME NEW list \in Seq(Fill), NEW n, Copies(list, n) = 0
  PROVE  \A e \in Range(list) : e.n # n
  <1>1. IsFiniteSet(Places(list, n))
    BY PlacesFinite
  <1>2. Places(list, n) = {}
    BY <1>1, FS_EmptySet DEF Copies, Places
  <1> QED BY <1>2 DEF Places, Range

LEMMA CopiesAppend ==
  ASSUME NEW list \in Seq(Fill), NEW e \in Fill, NEW n
  PROVE  /\ Append(list, e) \in Seq(Fill)
         /\ Range(Append(list, e)) = Range(list) \cup {e}
         /\ Copies(Append(list, e), n) = Copies(list, n) + (IF e.n = n THEN 1 ELSE 0)
  <1> DEFINE more == Append(list, e)
             last == Len(list) + 1
  <1>1. /\ more \in Seq(Fill) /\ Len(list) \in Nat /\ DOMAIN list = 1..Len(list)
        /\ DOMAIN more = 1..last /\ more[last] = e
        /\ \A i \in 1..Len(list) : more[i] = list[i]
    OBVIOUS
  <1>2. 1..last = (1..Len(list)) \cup {last} /\ last \notin 1..Len(list)
    BY <1>1
  <1>3. Range(more) = Range(list) \cup {e}
    <2> HIDE DEF more, last
    <2> QED BY <1>1, <1>2 DEF Range
  <1>4. Places(more, n) = Places(list, n) \cup (IF e.n = n THEN {last} ELSE {})
    <2> HIDE DEF more, last
    <2> QED BY <1>1, <1>2 DEF Places
  <1>5. IsFiniteSet(Places(list, n)) /\ Copies(list, n) \in Nat /\ last \notin Places(list, n)
    BY <1>1, <1>2, PlacesFinite DEF Places
  <1>6. Copies(more, n) = Copies(list, n) + (IF e.n = n THEN 1 ELSE 0)
    <2> HIDE DEF more, last
    <2>1. CASE e.n = n
      <3>1. Cardinality(Places(list, n) \cup {last}) = Cardinality(Places(list, n)) + 1
        BY <1>5, FS_AddElement, Zenon
      <3> QED BY <2>1, <3>1, <1>4 DEF Copies, Places
    <2>2. CASE e.n # n
      <3>1. Places(more, n) = Places(list, n)
        BY <1>4, <2>2
      <3>2. Copies(more, n) = Copies(list, n)
        BY <3>1 DEF Copies, Places
      <3> QED BY <2>2, <3>2, <1>5
    <2> QED BY <2>1, <2>2
  <1> QED BY <1>1, <1>3, <1>6

\* Of two lists in a row, at most the copies of both.
LEMMA CopiesJoin ==
  ASSUME NEW a \in Seq(Fill), NEW b \in Seq(Fill), NEW n
  PROVE  /\ a \o b \in Seq(Fill)
         /\ Range(a \o b) = Range(a) \cup Range(b)
         /\ Copies(a \o b, n) <= Copies(a, n) + Copies(b, n)
  <1> DEFINE ab == a \o b
             m == Len(a)
  <1>1. /\ ab \in Seq(Fill) /\ Len(a) \in Nat /\ Len(b) \in Nat
        /\ DOMAIN a = 1..m /\ DOMAIN b = 1..Len(b) /\ DOMAIN ab = 1..(m + Len(b))
        /\ \A i \in 1..m : ab[i] = a[i]
        /\ \A i \in 1..(m + Len(b)) : i > m => ab[i] = b[i - m]
    OBVIOUS
  <1>2. \A j \in 1..Len(b) : j + m \in 1..(m + Len(b)) /\ ab[j + m] = b[j]
    BY <1>1
  <1>3. Range(ab) = Range(a) \cup Range(b)
    <2>1. Range(ab) \subseteq Range(a) \cup Range(b)
      <3> SUFFICES ASSUME NEW i \in 1..(m + Len(b))
                   PROVE  ab[i] \in Range(a) \cup Range(b)
        BY <1>1 DEF Range
      <3>1. i \in 1..m \/ (i > m /\ i - m \in 1..Len(b))
        BY <1>1
      <3> HIDE DEF ab, m
      <3> QED BY <3>1, <1>1 DEF Range
    <2>2. Range(a) \subseteq Range(ab)
      <3>1. \A i \in 1..m : i \in 1..(m + Len(b))
        BY <1>1
      <3> HIDE DEF ab, m
      <3> QED BY <3>1, <1>1 DEF Range
    <2>3. Range(b) \subseteq Range(ab)
      <3> HIDE DEF ab, m
      <3> QED BY <1>1, <1>2 DEF Range
    <2> QED BY <2>1, <2>2, <2>3
  <1> DEFINE shift == [i \in Places(b, n) |-> i + m]
             moved == {i + m : i \in Places(b, n)}
  <1>4. Places(ab, n) \subseteq Places(a, n) \cup moved
    <2> SUFFICES ASSUME NEW i \in 1..(m + Len(b)), ab[i].n = n
                 PROVE  i \in Places(a, n) \cup moved
      BY <1>1 DEF Places
    <2>1. CASE i \in 1..m
      BY <2>1, <1>1 DEF Places
    <2>2. CASE i > m
      <3>1. i - m \in 1..Len(b) /\ b[i - m].n = n /\ i = (i - m) + m
        BY <2>2, <1>1
      <3>2. i - m \in Places(b, n)
        BY <3>1, <1>1 DEF Places
      <3> QED BY <3>1, <3>2
    <2> QED BY <1>1, <2>1, <2>2
  <1>5. /\ IsFiniteSet(Places(a, n)) /\ Copies(a, n) \in Nat
        /\ IsFiniteSet(Places(b, n)) /\ Copies(b, n) \in Nat
        /\ IsFiniteSet(Places(ab, n)) /\ Copies(ab, n) \in Nat
    BY <1>1, PlacesFinite
  <1>6. IsFiniteSet(moved) /\ Cardinality(moved) <= Cardinality(Places(b, n))
    <2>1. shift \in Surjection(Places(b, n), moved)
      BY DEF Surjection
    <2> HIDE DEF shift, moved
    <2> QED BY <1>5, <2>1, FS_Surjection
  <1>7. /\ IsFiniteSet(Places(a, n) \cup moved)
        /\ Cardinality(Places(a, n) \cup moved) <= Cardinality(Places(a, n)) + Cardinality(moved)
    <2> HIDE DEF moved
    <2>1. /\ IsFiniteSet(Places(a, n) \cup moved) /\ IsFiniteSet(Places(a, n) \cap moved)
          /\ Cardinality(Places(a, n) \cup moved)
             = Cardinality(Places(a, n)) + Cardinality(moved)
               - Cardinality(Places(a, n) \cap moved)
      <3>1. IsFiniteSet(Places(a, n) \cap moved)
        BY <1>5, FS_Subset
      <3> QED BY <3>1, <1>5, <1>6, FS_Union
    <2>2. /\ Cardinality(Places(a, n) \cap moved) \in Nat
          /\ Cardinality(Places(a, n)) \in Nat /\ Cardinality(moved) \in Nat
      BY <2>1, <1>5, <1>6, FS_CardinalityType
    <2> QED BY <2>1, <2>2
  <1>8. Cardinality(Places(ab, n)) <= Cardinality(Places(a, n) \cup moved)
    <2> HIDE DEF moved, ab
    <2> QED BY <1>4, <1>7, FS_Subset
  <1>9. /\ Copies(ab, n) = Cardinality(Places(ab, n))
        /\ Copies(a, n) = Cardinality(Places(a, n))
        /\ Copies(b, n) = Cardinality(Places(b, n))
    BY DEF Copies, Places
  <1>10. Copies(ab, n) <= Copies(a, n) + Copies(b, n)
    <2>1. Cardinality(moved) \in Nat /\ Cardinality(Places(a, n) \cup moved) \in Nat
      BY <1>6, <1>7, FS_CardinalityType
    <2> HIDE DEF moved, ab
    <2> QED BY <2>1, <1>5, <1>6, <1>7, <1>8, <1>9
  <1> QED BY <1>1, <1>3, <1>10

\* What is cut off a list takes copies with it and adds none.
LEMMA CopiesShorter ==
  ASSUME NEW list \in Seq(Fill), NEW length \in Nat, NEW n
  PROVE  /\ Shorter(list, length) \in Seq(Fill)
         /\ Len(Shorter(list, length)) <= length
         /\ Range(Shorter(list, length)) \subseteq Range(list)
         /\ Copies(Shorter(list, length), n) <= Copies(list, n)
  <1> DEFINE m == IF Len(list) < length THEN Len(list) ELSE length
             cut == SubSeq(list, 1, m)
  <1>1. Shorter(list, length) = cut
    BY DEF Shorter
  <1>2. Len(list) \in Nat /\ m \in Nat /\ m <= Len(list) /\ m <= length
    OBVIOUS
  <1> HIDE DEF m
  <1>3. /\ cut \in Seq(Fill) /\ Len(cut) = m /\ DOMAIN cut = 1..m
        /\ \A i \in 1..m : cut[i] = list[i]
    BY <1>2
  <1>4. 1..m \subseteq 1..Len(list) /\ DOMAIN list = 1..Len(list)
    BY <1>2
  <1> HIDE DEF cut
  <1>5. Range(cut) \subseteq Range(list)
    BY <1>3, <1>4 DEF Range
  <1>6. Places(cut, n) \in SUBSET Places(list, n)
    BY <1>3, <1>4 DEF Places
  <1>7. IsFiniteSet(Places(list, n))
    BY PlacesFinite
  <1>8. Cardinality(Places(cut, n)) <= Cardinality(Places(list, n))
    BY <1>6, <1>7, FS_Subset
  <1>9. Copies(cut, n) <= Copies(list, n)
    BY <1>8 DEF Copies, Places
  <1> QED BY <1>1, <1>2, <1>3, <1>5, <1>9

-----------------------------------------------------------------------------
(* The filter *)

\* g is the recursion of Filtered on the first m entries.
Keeps(g, list, m) ==
    g = [i \in 0..m |->
           IF i = 0 THEN <<>>
           ELSE IF Unseen(list[i]) THEN Append(g[i - 1], list[i]) ELSE g[i - 1]]

LEMMA KeepsExists ==
  ASSUME NEW list, NEW m \in Nat
  PROVE  \E g : Keeps(g, list, m)
  <1> DEFINE P == {k \in Nat : \E g : Keeps(g, list, k)}
  <1>1. 0 \in P
    <2>1. Keeps([i \in 0..0 |-> <<>>], list, 0)
      BY DEF Keeps
    <2> QED BY <2>1
  <1>2. ASSUME NEW k \in Nat, k \in P PROVE k + 1 \in P
    <2>1. PICK g : Keeps(g, list, k)
      BY <1>2
    <2> DEFINE Step(h, i) == IF i = 0 THEN <<>>
                             ELSE IF Unseen(list[i]) THEN Append(h[i - 1], list[i])
                                  ELSE h[i - 1]
               h == [i \in 0..(k + 1) |-> IF i = k + 1 THEN Step(g, i) ELSE g[i]]
    <2>2. ASSUME NEW i \in 0..(k + 1) PROVE h[i] = Step(h, i)
      <3>1. i # 0 => i - 1 \in 0..k /\ i - 1 \in 0..(k + 1) /\ i - 1 # k + 1
        OBVIOUS
      <3>2. i # 0 => h[i - 1] = g[i - 1]
        BY <3>1
      <3>3. Step(h, i) = Step(g, i)
        <4> HIDE DEF h
        <4> QED BY <3>2
      <3>4. CASE i = k + 1
        <4>1. h[i] = Step(g, i)
          BY <3>4
        <4> HIDE DEF h, Step
        <4> QED BY <4>1, <3>3
      <3>5. CASE i # k + 1
        <4>1. i \in 0..k /\ h[i] = g[i]
          BY <3>5
        <4>2. g[i] = Step(g, i)
          BY <2>1, <4>1 DEF Keeps
        <4> HIDE DEF h, Step
        <4> QED BY <4>1, <4>2, <3>3
      <3> QED BY <3>4, <3>5
    <2>3. h = [i \in 0..(k + 1) |-> h[i]]
      OBVIOUS
    <2> HIDE DEF h
    <2>4. h = [i \in 0..(k + 1) |-> Step(h, i)]
      <3> HIDE DEF Step
      <3> QED BY <2>2, <2>3
    <2>5. Keeps(h, list, k + 1)
      BY <2>4 DEF Keeps
    <2> QED BY <2>5
  <1> HIDE DEF P
  <1>3. m \in P
    BY <1>1, <1>2, NaturalInduction
  <1> QED BY <1>3 DEF P

\* What the filter keeps is unseen, and it adds no copies.
LEMMA FilteredCopies ==
  ASSUME NEW list \in Seq(Fill), NEW n
  PROVE  /\ Filtered(list) \in Seq(Fill)
         /\ \A e \in Range(Filtered(list)) : e \in Range(list) /\ Unseen(e)
         /\ Copies(Filtered(list), n) <= Copies(list, n)
  <1> DEFINE m == Len(list)
             g == CHOOSE h : Keeps(h, list, m)
             first(i) == SubSeq(list, 1, i)
  <1>1. m \in Nat /\ DOMAIN list = 1..m /\ first(m) = list
    OBVIOUS
  <1>2. Keeps(g, list, m)
    <2> HIDE DEF m
    <2> QED BY <1>1, KeepsExists
  <1>3. Filtered(list) = g[m]
    BY DEF Filtered, Keeps
  <1> HIDE DEF g
  <1>4. g[0] = <<>>
    BY <1>1, <1>2 DEF Keeps
  <1>5. ASSUME NEW i \in Nat, i + 1 <= m
        PROVE  g[i + 1] = IF Unseen(list[i + 1]) THEN Append(g[i], list[i + 1]) ELSE g[i]
    <2>1. i + 1 \in 0..m /\ i + 1 # 0 /\ (i + 1) - 1 = i
      BY <1>1, <1>5
    <2> HIDE DEF m
    <2> QED BY <1>2, <2>1 DEF Keeps
  <1> DEFINE Good(k) == /\ g[k] \in Seq(Fill)
                        /\ \A e \in Range(g[k]) : e \in Range(list) /\ Unseen(e)
                        /\ Copies(g[k], n) <= Copies(first(k), n)
             P == {k \in Nat : k <= m => Good(k)}
  <1>6. 0 \in P
    <2>1. first(0) = <<>> /\ <<>> \in Seq(Fill)
      OBVIOUS
    <2>2. Range(<<>>) = {}
      BY DEF Range
    <2>3. Copies(<<>>, n) = 0
      BY <2>1, <2>2, CopiesNone
    <2>4. Good(0)
      <3> HIDE DEF first
      <3> QED BY <1>4, <2>1, <2>2, <2>3
    <2> HIDE DEF Good
    <2> QED BY <2>4
  <1>7. ASSUME NEW k \in Nat, k \in P PROVE k + 1 \in P
    <2> SUFFICES ASSUME k + 1 <= m PROVE Good(k + 1)
      <3> HIDE DEF Good
      <3> QED OBVIOUS
    <2>1. Good(k)
      <3> HIDE DEF Good
      <3>1. k <= m
        BY <1>1
      <3> QED BY <1>7, <3>1
    <2> DEFINE e == list[k + 1]
    <2>2. e \in Fill /\ e \in Range(list)
      <3>1. k + 1 \in DOMAIN list
        BY <1>1
      <3> QED BY <3>1 DEF Range
    <2>3. first(k) \in Seq(Fill) /\ first(k + 1) = Append(first(k), e)
      BY <1>1
    <2>4. g[k + 1] = IF Unseen(e) THEN Append(g[k], e) ELSE g[k]
      BY <1>5
    <2> HIDE DEF first, e
    <2>5. Copies(first(k + 1), n) = Copies(first(k), n) + (IF e.n = n THEN 1 ELSE 0)
      <3>1. Copies(Append(first(k), e), n)
            = Copies(first(k), n) + (IF e.n = n THEN 1 ELSE 0)
        BY <2>2, <2>3, CopiesAppend
      <3>2. Copies(first(k + 1), n) = Copies(Append(first(k), e), n)
        BY <2>3
      <3> HIDE DEF Good, P
      <3> QED BY <3>1, <3>2, Zenon
    <2>6. Copies(first(k), n) \in Nat /\ Copies(g[k], n) \in Nat
      BY <2>1, <2>3, PlacesFinite
    <2>7. CASE Unseen(e)
      <3>1. g[k + 1] = Append(g[k], e)
        BY <2>4, <2>7
      <3>2. /\ g[k + 1] \in Seq(Fill)
            /\ Range(g[k + 1]) = Range(g[k]) \cup {e}
            /\ Copies(g[k + 1], n) = Copies(g[k], n) + (IF e.n = n THEN 1 ELSE 0)
        BY <2>1, <2>2, <3>1, CopiesAppend
      <3>3. Copies(g[k + 1], n) <= Copies(first(k + 1), n)
        BY <2>1, <2>5, <2>6, <3>2
      <3> QED BY <2>1, <2>2, <2>7, <3>2, <3>3
    <2>8. CASE ~Unseen(e)
      <3>1. g[k + 1] = g[k]
        BY <2>4, <2>8
      <3>2. Copies(g[k + 1], n) <= Copies(first(k + 1), n)
        BY <2>1, <2>5, <2>6, <3>1
      <3> QED BY <2>1, <3>1, <3>2
    <2> QED BY <2>7, <2>8
  <1>8. m \in P
    <2> HIDE DEF P
    <2> QED BY <1>1, <1>6, <1>7, NaturalInduction
  <1>9. Good(m)
    <2> HIDE DEF Good
    <2> QED BY <1>1, <1>8
  <1> HIDE DEF m
  <1> QED BY <1>1, <1>3, <1>9

-----------------------------------------------------------------------------
(* The feed *)

Lists == {recent_trades, allFills} \cup {trades[k].reply : k \in Polls}
Entries == UNION {Range(list) : list \in Lists}

FeedType ==
    /\ recent_trades \in Seq(Fill) /\ Len(recent_trades) <= max_trades
    /\ fills \in 0..MaxFills /\ again \in BOOLEAN
    /\ connected \in BOOLEAN
    /\ trades \in [Polls -> [at : {"none", "sent", "answered"}, reply : Seq(Fill)]]
    /\ seenTradeIds \subseteq Id
    /\ allFills \in Seq(Fill) /\ Len(allFills) <= FeedLength

\* No list has a fill that is yet to come, or has it more often than it was booked,
\* and one fill is of one order.
FeedInv ==
    /\ FeedType
    /\ again => recent_trades # <<>> /\ recent_trades[1].n = fills
    /\ \A e \in Entries : e.n <= fills
    /\ \A e, f \in Entries : e.n = f.n => e.id = f.id
    /\ \A e \in Range(allFills) : e.id \in seenTradeIds
    /\ \A list \in Lists, n \in 1..MaxFills : Copies(list, n) <= TimesBooked(n)

LEMMA ListsType == FeedType => Lists \subseteq Seq(Fill) /\ Entries \subseteq Fill
  <1> SUFFICES ASSUME FeedType PROVE Lists \subseteq Seq(Fill) /\ Entries \subseteq Fill
    OBVIOUS
  <1>1. \A k \in Polls : trades[k].reply \in Seq(Fill)
    BY DEF FeedType
  <1>2. Lists \subseteq Seq(Fill)
    BY <1>1 DEF FeedType, Lists
  <1>3. \A list \in Seq(Fill) : Range(list) \subseteq Fill
    BY DEF Range
  <1> QED BY <1>2, <1>3 DEF Entries

LEMMA InitFeed == PageInit => FeedInv
  <1> SUFFICES ASSUME PageInit PROVE FeedInv
    OBVIOUS
  <1>1. <<>> \in Seq(Fill) /\ Len(<<>>) = 0
    OBVIOUS
  <1>2. FeedType
    <2>1. NoRequest \in [at : {"none", "sent", "answered"}, reply : Seq(Fill)]
      BY <1>1 DEF NoRequest
    <2>2. trades \in [Polls -> [at : {"none", "sent", "answered"}, reply : Seq(Fill)]]
      BY <2>1 DEF PageInit
    <2>3. 0 \in 0..MaxFills /\ 0 <= max_trades /\ 0 <= FeedLength
      BY DashboardAssumption
    <2> QED BY <1>1, <2>2, <2>3 DEF PageInit, FeedType
  <1>3. \A list \in Lists : list = <<>>
    BY DEF PageInit, Lists, NoRequest
  <1>4. Range(<<>>) = {}
    BY DEF Range
  <1>5. Entries = {} /\ Range(allFills) = {}
    BY <1>3, <1>4 DEF Entries, PageInit
  <1>6. ASSUME NEW list \in Lists, NEW n \in 1..MaxFills
        PROVE  Copies(list, n) <= TimesBooked(n)
    <2>1. Copies(list, n) = 0
      BY <1>1, <1>3, <1>4, CopiesNone
    <2>2. TimesBooked(n) = 0
      BY DashboardAssumption DEF TimesBooked, PageInit
    <2> QED BY <2>1, <2>2
  <1>7. again = FALSE
    BY DEF PageInit
  <1> QED BY <1>2, <1>5, <1>6, <1>7 DEF FeedInv

\* Lists come and go; nothing is booked or listed.
LEMMA ListsStay ==
  ASSUME FeedInv, FeedType', UNCHANGED <<display, seenTradeIds, allFills>>,
         Lists' \subseteq Lists \cup {<<>>}
  PROVE  FeedInv'
  <1>1. Range(<<>>) = {} /\ <<>> \in Seq(Fill)
    BY DEF Range
  <1>2. Entries' \subseteq Entries
    BY <1>1 DEF Entries
  <1>3. /\ fills' = fills /\ again' = again /\ recent_trades' = recent_trades
        /\ seenTradeIds' = seenTradeIds /\ allFills' = allFills
    BY DEF display
  <1>4. ASSUME NEW list \in Lists', NEW n \in 1..MaxFills
        PROVE  Copies(list, n) <= TimesBooked(n)'
    <2>1. TimesBooked(n)' = TimesBooked(n)
      BY <1>3 DEF TimesBooked
    <2>2. CASE list \in Lists
      BY <2>1, <2>2 DEF FeedInv
    <2>3. CASE list = <<>>
      <3>1. Copies(list, n) = 0
        BY <1>1, <2>3, CopiesNone
      <3>2. TimesBooked(n) \in Nat
        BY DEF TimesBooked
      <3> QED BY <2>1, <3>1, <3>2
    <2> QED BY <2>2, <2>3
  <1>5. /\ (again => recent_trades # <<>> /\ recent_trades[1].n = fills)'
        /\ (\A e \in Range(allFills) : e.id \in seenTradeIds)'
    BY <1>3 DEF FeedInv
  <1>6. /\ (\A e \in Entries : e.n <= fills)'
        /\ (\A e, f \in Entries : e.n = f.n => e.id = f.id)'
    BY <1>2, <1>3 DEF FeedInv
  <1> QED BY <1>4, <1>5, <1>6 DEF FeedInv

\* One trade is shown: the first of a fill that is new, or the second of the last.
LEMMA BookedInv ==
  ASSUME FeedInv, NEW e \in Fill, OnTrade(e), e.n = fills', fills <= fills',
         fills' \in 0..MaxFills, again' \in BOOLEAN,
         UNCHANGED <<connected, feed>>,
         \A f \in Entries : f.n = e.n => f.id = e.id,
         \A n \in 1..MaxFills :
            TimesBooked(n)' = TimesBooked(n) + (IF n = e.n THEN 1 ELSE 0)
  PROVE  FeedInv'
  <1> DEFINE all == <<e>> \o recent_trades
  <1>1. /\ recent_trades' = Shorter(all, max_trades)
        /\ trades' = trades /\ seenTradeIds' = seenTradeIds
        /\ allFills' = allFills /\ connected' = connected
    BY DEF OnTrade, feed
  <1>2. /\ recent_trades \in Seq(Fill) /\ <<e>> \in Seq(Fill) /\ Range(<<e>>) = {e}
        /\ max_trades \in Nat /\ max_trades # 0
    BY DashboardAssumption DEF FeedInv, FeedType, Range
  <1>3. all \in Seq(Fill) /\ Range(all) = {e} \cup Range(recent_trades)
    BY <1>2, CopiesJoin
  <1>4. /\ recent_trades' \in Seq(Fill) /\ Len(recent_trades') <= max_trades
        /\ Range(recent_trades') \subseteq {e} \cup Range(recent_trades)
    <2> HIDE DEF all
    <2> QED BY <1>1, <1>2, <1>3, CopiesShorter
  <1>5. recent_trades' # <<>> /\ recent_trades'[1] = e
    <2>1. Len(all) \in Nat /\ Len(all) >= 1 /\ all[1] = e
      BY <1>2
    <2> HIDE DEF all
    <2>2. /\ SubSeq(all, 1, IF Len(all) < max_trades THEN Len(all) ELSE max_trades) # <<>>
          /\ SubSeq(all, 1, IF Len(all) < max_trades THEN Len(all) ELSE max_trades)[1] = e
      BY <1>2, <1>3, <2>1
    <2> QED BY <1>1, <2>2 DEF Shorter
  <1> HIDE DEF all
  <1>6. FeedType'
    BY <1>1, <1>4 DEF FeedInv, FeedType
  <1>7. Lists' \subseteq Lists \cup {recent_trades'}
    BY <1>1 DEF Lists
  <1>8. recent_trades \in Lists /\ Range(recent_trades) \subseteq Entries
    BY DEF Lists, Entries
  <1>9. Entries' \subseteq Entries \cup {e}
    BY <1>4, <1>7, <1>8 DEF Entries
  <1>10. Entries \subseteq Fill
    BY ListsType DEF FeedInv
  <1>11. ASSUME NEW f \in Entries' PROVE f.n <= fills'
    <2>1. CASE f = e
      BY <2>1 DEF FeedType
    <2>2. CASE f \in Entries
      <3>1. f.n <= fills /\ f.n \in Nat /\ fills \in Nat
        BY <1>10, <2>2, DashboardAssumption DEF FeedInv, FeedType, Fill
      <3> QED BY <3>1
    <2> QED BY <1>9, <2>1, <2>2
  <1>12. ASSUME NEW f \in Entries', NEW g \in Entries', f.n = g.n PROVE f.id = g.id
    BY <1>9, <1>12 DEF FeedInv
  <1>13. ASSUME NEW list \in Lists', NEW n \in 1..MaxFills
         PROVE  Copies(list, n) <= TimesBooked(n)'
    <2>1. TimesBooked(n) \in Nat
      BY DEF TimesBooked
    <2>2. CASE list \in Lists
      <3>1. Copies(list, n) \in Nat /\ Copies(list, n) <= TimesBooked(n)
        BY <2>2, ListsType, PlacesFinite DEF FeedInv
      <3> QED BY <2>1, <3>1
    <2>3. CASE list = recent_trades'
      <3>1. Copies(list, n) <= Copies(all, n)
        BY <1>1, <1>2, <1>3, <2>3, CopiesShorter
      <3>2. Copies(all, n) <= Copies(<<e>>, n) + Copies(recent_trades, n)
        BY <1>2, CopiesJoin DEF all
      <3>3. Copies(<<e>>, n) = IF n = e.n THEN 1 ELSE 0
        <4>1. Append(<<>>, e) = <<e>> /\ <<>> \in Seq(Fill) /\ Range(<<>>) = {}
          BY DEF Range
        <4>2. Copies(<<>>, n) = 0
          BY <4>1, CopiesNone
        <4>3. Copies(Append(<<>>, e), n) = Copies(<<>>, n) + (IF e.n = n THEN 1 ELSE 0)
          BY <4>1, CopiesAppend
        <4> QED BY <4>1, <4>2, <4>3
      <3>4. Copies(recent_trades, n) <= TimesBooked(n)
        BY <1>8 DEF FeedInv
      <3>5. /\ Copies(list, n) \in Nat /\ Copies(all, n) \in Nat
            /\ Copies(recent_trades, n) \in Nat
        BY <1>2, <1>3, <1>4, <2>3, PlacesFinite
      <3>6. TimesBooked(n)' = TimesBooked(n) + (IF n = e.n THEN 1 ELSE 0)
        OBVIOUS
      <3> QED BY <2>1, <3>1, <3>2, <3>3, <3>4, <3>5, <3>6
    <2> QED BY <1>7, <2>2, <2>3
  <1>14. (\A f \in Range(allFills) : f.id \in seenTradeIds)'
    BY <1>1 DEF FeedInv
  <1>15. (again => recent_trades # <<>> /\ recent_trades[1].n = fills)'
    BY <1>5
  <1>16. /\ (\A f \in Entries : f.n <= fills)'
         /\ (\A f, g \in Entries : f.n = g.n => f.id = g.id)'
         /\ (\A list \in Lists, n \in 1..MaxFills : Copies(list, n) <= TimesBooked(n))'
    BY <1>11, <1>12, <1>13
  <1> QED BY <1>6, <1>14, <1>15, <1>16 DEF FeedInv

LEMMA BookFillInv == ASSUME FeedInv, NEW id \in Id, BookFill(id) PROVE FeedInv'
  <1> DEFINE e == [id |-> id, n |-> fills + 1]
  <1>1. /\ ~again /\ fills < MaxFills /\ fills' = fills + 1 /\ again' = TRUE
        /\ UNCHANGED <<connected, feed>>
    BY DEF BookFill
  <1>2. OnTrade(e)
    BY <1>1 DEF BookFill, OnTrade
  <1>3. fills \in Nat /\ MaxFills \in Nat /\ fills + 1 \in 1..MaxFills
    BY <1>1, DashboardAssumption DEF FeedInv, FeedType
  <1>4. e \in Fill /\ e.n = fills'
    BY <1>1, <1>3 DEF Fill
  <1>5. \A f \in Entries : f.n <= fills /\ f.n \in Nat
    BY <1>3, ListsType DEF FeedInv, Fill
  <1>6. \A f \in Entries : f.n # e.n
    BY <1>1, <1>3, <1>4, <1>5
  <1>7. \A n \in 1..MaxFills :
           TimesBooked(n)' = TimesBooked(n) + (IF n = e.n THEN 1 ELSE 0)
    BY <1>1, <1>3, <1>4 DEF TimesBooked
  <1>8. fills' \in 0..MaxFills /\ fills <= fills'
    BY <1>1, <1>3
  <1> HIDE DEF e
  <1> QED BY <1>1, <1>2, <1>4, <1>6, <1>7, <1>8, BookedInv

LEMMA BookAgainInv == FeedInv /\ BookAgain => FeedInv'
  <1> SUFFICES ASSUME FeedInv, BookAgain PROVE FeedInv'
    OBVIOUS
  <1> DEFINE e == recent_trades[1]
  <1>1. /\ again /\ again' = FALSE /\ fills' = fills /\ OnTrade(e)
        /\ UNCHANGED <<connected, feed>>
    BY DEF BookAgain
  <1>2. recent_trades \in Seq(Fill) /\ recent_trades # <<>> /\ e.n = fills
    BY <1>1 DEF FeedInv, FeedType
  <1>3. 1 \in DOMAIN recent_trades /\ e \in Fill
    BY <1>2
  <1>4. e \in Entries
    BY <1>3 DEF Entries, Lists, Range
  <1>5. fills \in Nat /\ MaxFills \in Nat /\ fills \in 0..MaxFills
    BY DashboardAssumption DEF FeedInv, FeedType
  <1>6. \A n \in 1..MaxFills :
           TimesBooked(n)' = TimesBooked(n) + (IF n = e.n THEN 1 ELSE 0)
    BY <1>1, <1>2, <1>5 DEF TimesBooked
  <1>7. \A f \in Entries : f.n = e.n => f.id = e.id
    BY <1>4 DEF FeedInv
  <1>8. e.n = fills' /\ fills <= fills' /\ fills' \in 0..MaxFills
    BY <1>1, <1>2, <1>5
  <1> HIDE DEF e
  <1> QED BY <1>1, <1>3, <1>6, <1>7, <1>8, BookedInv

\* The entries of a reply that are new get into the feed: of a fill either all that
\* the reply has or none, and all only when the feed has none.
LEMMA ReceiveInv == ASSUME FeedInv, NEW k \in Polls, ReceiveTrades(k) PROVE FeedInv'
  <1> DEFINE reply == trades[k].reply
             new == Filtered(reply)
             both == new \o allFills
  <1>1. /\ trades' = [trades EXCEPT ![k] = NoRequest]
        /\ seenTradeIds' = seenTradeIds \cup {new[i].id : i \in DOMAIN new}
        /\ allFills' = Shorter(both, FeedLength)
        /\ UNCHANGED <<display, connected>>
    BY DEF ReceiveTrades, ListFills, EndTrades
  <1>2. /\ reply \in Seq(Fill) /\ allFills \in Seq(Fill) /\ FeedLength \in Nat
        /\ reply \in Lists /\ allFills \in Lists
    BY DashboardAssumption DEF FeedInv, FeedType, Lists
  <1> HIDE DEF reply
  <1>3. /\ new \in Seq(Fill)
        /\ \A e \in Range(new) : e \in Range(reply) /\ Unseen(e)
        /\ \A n : Copies(new, n) <= Copies(reply, n)
    BY <1>2, FilteredCopies
  <1> HIDE DEF new
  <1>4. /\ both \in Seq(Fill) /\ Range(both) = Range(new) \cup Range(allFills)
        /\ \A n : Copies(both, n) <= Copies(new, n) + Copies(allFills, n)
    BY <1>2, <1>3, CopiesJoin
  <1> HIDE DEF both
  <1>5. /\ allFills' \in Seq(Fill) /\ Len(allFills') <= FeedLength
        /\ Range(allFills') \subseteq Range(both)
        /\ \A n : Copies(allFills', n) <= Copies(both, n)
    BY <1>1, <1>2, <1>4, CopiesShorter
  <1>6. {new[i].id : i \in DOMAIN new} = {e.id : e \in Range(new)}
    BY DEF Range
  <1>7. /\ fills' = fills /\ again' = again /\ recent_trades' = recent_trades
        /\ connected' = connected
    BY <1>1 DEF display
  <1>8. FeedType'
    <2>1. seenTradeIds' \subseteq Id
      <3>1. Range(new) \subseteq Fill
        BY <1>3 DEF Range
      <3>2. {e.id : e \in Range(new)} \subseteq Id
        BY <3>1 DEF Fill
      <3> QED BY <1>1, <1>6, <3>2 DEF FeedInv, FeedType
    <2>2. NoRequest \in [at : {"none", "sent", "answered"}, reply : Seq(Fill)]
      BY DEF NoRequest
    <2>3. trades' \in [Polls -> [at : {"none", "sent", "answered"}, reply : Seq(Fill)]]
      BY <1>1, <2>2 DEF FeedInv, FeedType
    <2> QED BY <1>5, <1>7, <2>1, <2>3 DEF FeedInv, FeedType
  <1>9. Lists' \subseteq Lists \cup {<<>>, allFills'}
    <2>1. \A j \in Polls : trades'[j].reply \in {trades[j].reply, <<>>}
      BY <1>1 DEF FeedInv, FeedType, NoRequest
    <2> QED BY <1>7, <2>1 DEF Lists
  <1>10. Entries' \subseteq Entries
    <2>1. Range(reply) \subseteq Entries /\ Range(allFills) \subseteq Entries
      BY <1>2 DEF Entries
    <2>2. Range(allFills') \subseteq Entries
      BY <1>3, <1>4, <1>5, <2>1
    <2>3. Range(<<>>) = {}
      BY DEF Range
    <2> QED BY <1>9, <2>2, <2>3 DEF Entries
  <1>11. (\A e \in Range(allFills) : e.id \in seenTradeIds)'
    BY <1>1, <1>4, <1>5, <1>6 DEF FeedInv
  <1>12. ASSUME NEW n \in 1..MaxFills PROVE Copies(allFills', n) <= TimesBooked(n)
    <2>1. /\ Copies(allFills', n) \in Nat /\ Copies(both, n) \in Nat
          /\ Copies(new, n) \in Nat /\ Copies(allFills, n) \in Nat
          /\ Copies(reply, n) \in Nat
      BY <1>2, <1>3, <1>4, <1>5, PlacesFinite
    <2>2. TimesBooked(n) \in Nat
      BY DEF TimesBooked
    <2>3. Copies(reply, n) <= TimesBooked(n) /\ Copies(allFills, n) <= TimesBooked(n)
      BY <1>2 DEF FeedInv
    <2>4. Copies(new, n) = 0 \/ Copies(allFills, n) = 0
      <3>1. SUFFICES ASSUME NEW e \in Range(new), NEW f \in Range(allFills),
                            e.n = n, f.n = n
                     PROVE  FALSE
        BY <1>2, <1>3, CopiesNone
      <3>2. e \in Entries /\ f \in Entries
        BY <1>2, <1>3 DEF Entries
      <3>3. e.id = f.id
        BY <3>1, <3>2 DEF FeedInv
      <3>4. f.id \in seenTradeIds /\ e.id \notin seenTradeIds
        BY <1>3 DEF FeedInv, Unseen
      <3> QED BY <3>3, <3>4
    <2>5. /\ Copies(allFills', n) <= Copies(both, n)
          /\ Copies(both, n) <= Copies(new, n) + Copies(allFills, n)
          /\ Copies(new, n) <= Copies(reply, n)
      BY <1>3, <1>4, <1>5
    <2> QED BY <2>1, <2>2, <2>3, <2>4, <2>5
  <1>13. ASSUME NEW list \in Lists', NEW n \in 1..MaxFills
         PROVE  Copies(list, n) <= TimesBooked(n)'
    <2>1. TimesBooked(n)' = TimesBooked(n)
      BY <1>7 DEF TimesBooked
    <2>2. CASE list \in Lists
      BY <2>1, <2>2 DEF FeedInv
    <2>3. CASE list = allFills'
      BY <1>12, <2>1, <2>3
    <2>4. CASE list = <<>>
      <3>1. <<>> \in Seq(Fill) /\ Range(<<>>) = {}
        BY DEF Range
      <3>2. Copies(list, n) = 0
        BY <2>4, <3>1, CopiesNone
      <3>3. TimesBooked(n) \in Nat
        BY DEF TimesBooked
      <3> QED BY <2>1, <3>2, <3>3
    <2> QED BY <1>9, <2>2, <2>3, <2>4
  <1>14. (again => recent_trades # <<>> /\ recent_trades[1].n = fills)'
    BY <1>7 DEF FeedInv
  <1>15. /\ (\A e \in Entries : e.n <= fills)'
         /\ (\A e, f \in Entries : e.n = f.n => e.id = f.id)'
    BY <1>7, <1>10 DEF FeedInv
  <1>16. (\A list \in Lists, n \in 1..MaxFills : Copies(list, n) <= TimesBooked(n))'
    BY <1>13
  <1> QED BY <1>8, <1>11, <1>14, <1>15, <1>16 DEF FeedInv

LEMMA StepFeed == FeedInv /\ [PageNext]_pageVars => FeedInv'
  <1> SUFFICES ASSUME FeedInv, [PageNext]_pageVars PROVE FeedInv'
    OBVIOUS
  <1>1. CASE \E id \in Id : BookFill(id)
    BY <1>1, BookFillInv
  <1>2. CASE BookAgain
    BY <1>2, BookAgainInv
  <1>3. ASSUME NEW k \in Polls, ReceiveTrades(k) PROVE FeedInv'
    BY <1>3, ReceiveInv
  <1>4. CASE \/ Connect \/ PlaceOrder \/ PostArrives \/ ReceivePost \/ LosePost
             \/ AdriftArrives \/ ShutdownQueue \/ StopServing
    <2>1. UNCHANGED <<display, feed>> /\ connected' \in BOOLEAN
      BY <1>4 DEF Connect, PlaceOrder, PostArrives, ReceivePost, LosePost, GiveUp,
                  AdriftArrives, ServeOrder, ShutdownQueue, StopServing, FeedInv, FeedType
    <2>2. FeedType' /\ Lists' = Lists
      BY <2>1 DEF display, feed, FeedInv, FeedType, Lists
    <2> QED BY <2>1, <2>2, ListsStay DEF feed
  <1>5. ASSUME NEW k \in Polls, Poll(k) \/ AnswerTrades(k) \/ LoseTrades(k)
        PROVE  FeedInv'
    <2>1. UNCHANGED <<display, connected, seenTradeIds, allFills>>
      BY <1>5 DEF Poll, AnswerTrades, LoseTrades
    <2>2. \E request \in [at : {"none", "sent", "answered"}, reply : Seq(Fill)] :
            /\ trades' = [trades EXCEPT ![k] = request]
            /\ request.reply \in {trades[k].reply, recent_trades, <<>>}
      <3>1. CASE Poll(k)
        <4> DEFINE request == [trades[k] EXCEPT !.at = "sent"]
        <4>1. /\ request \in [at : {"none", "sent", "answered"}, reply : Seq(Fill)]
              /\ request.reply = trades[k].reply
          BY DEF FeedInv, FeedType
        <4>2. trades' = [trades EXCEPT ![k] = request]
          BY <3>1 DEF Poll
        <4> HIDE DEF request
        <4> QED BY <4>1, <4>2
      <3>2. CASE AnswerTrades(k)
        <4> DEFINE request == [at |-> "answered", reply |-> recent_trades]
        <4>1. /\ request \in [at : {"none", "sent", "answered"}, reply : Seq(Fill)]
              /\ request.reply = recent_trades
          BY DEF FeedInv, FeedType
        <4>2. trades' = [trades EXCEPT ![k] = request]
          BY <3>2 DEF AnswerTrades
        <4> HIDE DEF request
        <4> QED BY <4>1, <4>2
      <3>3. CASE LoseTrades(k)
        <4>1. /\ NoRequest \in [at : {"none", "sent", "answered"}, reply : Seq(Fill)]
              /\ NoRequest.reply = <<>>
          BY DEF NoRequest
        <4>2. trades' = [trades EXCEPT ![k] = NoRequest]
          BY <3>3 DEF LoseTrades, EndTrades
        <4> QED BY <4>1, <4>2
      <3> QED BY <1>5, <3>1, <3>2, <3>3
    <2>3. FeedType'
      BY <2>1, <2>2 DEF display, FeedInv, FeedType
    <2>4. \A j \in Polls : trades'[j].reply \in {trades[j].reply, recent_trades, <<>>}
      BY <2>2 DEF FeedInv, FeedType
    <2>5. Lists' \subseteq Lists \cup {<<>>}
      BY <2>1, <2>4 DEF Lists, display
    <2> QED BY <2>1, <2>3, <2>5, ListsStay
  <1>6. CASE UNCHANGED pageVars
    <2>1. UNCHANGED <<display, feed, connected>>
      BY <1>6 DEF pageVars
    <2>2. FeedType' /\ Lists' = Lists
      BY <2>1 DEF display, feed, FeedInv, FeedType, Lists
    <2> QED BY <2>1, <2>2, ListsStay DEF feed
  <1> QED BY <1>1, <1>2, <1>3, <1>4, <1>5, <1>6 DEF PageNext

\* However the replies of overlapping polls are ordered, the page lists a fill at
\* most as often as the PnL thread booked it, and none that was not booked
\* (app.js:294-299).
THEOREM FeedIsBooked == PageSpec => []FeedWithinBooked
  <1>1. PageInit => FeedInv
    BY InitFeed
  <1>2. FeedInv /\ [PageNext]_pageVars => FeedInv'
    BY StepFeed
  <1>3. FeedInv => FeedWithinBooked
    BY DEF FeedInv, FeedWithinBooked, Lists
  <1> QED BY <1>1, <1>2, <1>3, PTL DEF PageSpec

-----------------------------------------------------------------------------
(* The order form *)

OnItsWay == IF post = "answered" THEN 1 ELSE 0

\* Every click is accounted for, and so is every request that the server got or will
\* get.  Nothing is dropped before the queue is shut down.
FormInv ==
    /\ post \in {"none", "sent", "answered"}
    /\ {adrift, queued, dropped, clicks, accepted, unreachable} \subseteq Nat
    /\ queue_down \in BOOLEAN /\ serving \in BOOLEAN
    /\ clicks <= MaxClicks
    /\ clicks = accepted + unreachable + (IF post = "none" THEN 0 ELSE 1)
    /\ queued + dropped + adrift = accepted + unreachable + OnItsWay
    /\ accepted + OnItsWay <= queued + dropped
    /\ ~queue_down => dropped = 0

\* The initial state: no order, no request.
LEMMA InitForm == PageInit => FormInv
  <1> SUFFICES ASSUME PageInit PROVE FormInv
    OBVIOUS
  <1>1. /\ adrift = 0 /\ queued = 0 /\ dropped = 0 /\ clicks = 0
        /\ accepted = 0 /\ unreachable = 0 /\ post = "none"
    BY DEF PageInit
  <1>2. {adrift, queued, dropped, clicks, accepted, unreachable} \subseteq Nat
    BY <1>1
  <1>3. queue_down \in BOOLEAN /\ serving \in BOOLEAN
    BY DEF PageInit
  <1>4. clicks <= MaxClicks
    BY <1>1, DashboardAssumption
  <1>5. /\ clicks = accepted + unreachable + (IF post = "none" THEN 0 ELSE 1)
        /\ queued + dropped + adrift = accepted + unreachable + OnItsWay
        /\ accepted + OnItsWay <= queued + dropped
    BY <1>1 DEF OnItsWay
  <1> QED BY <1>1, <1>2, <1>3, <1>4, <1>5 DEF FormInv

\* A request that is served is pushed or dropped, and dropped only when the queue is
\* shut down.
LEMMA ServeOrderCounts ==
  ASSUME FormInv, ServeOrder
  PROVE  /\ queued' \in Nat /\ dropped' \in Nat
         /\ queued' + dropped' = queued + dropped + 1
         /\ ~queue_down' => dropped' = 0
         /\ UNCHANGED <<clicks, accepted, unreachable, queue_down, serving>>
  <1>1. queued \in Nat /\ dropped \in Nat
    BY DEF FormInv
  <1>2. UNCHANGED <<clicks, accepted, unreachable, queue_down, serving>>
    BY DEF ServeOrder, backend
  <1>3. \/ queue_down /\ dropped' = dropped + 1 /\ queued' = queued
        \/ ~queue_down /\ queued' = queued + 1 /\ dropped' = dropped
    BY DEF ServeOrder
  <1> QED BY <1>1, <1>2, <1>3 DEF FormInv

\* Every step keeps the accounts of the form.
LEMMA StepForm == FormInv /\ [PageNext]_pageVars => FormInv'
  <1> SUFFICES ASSUME FormInv, [PageNext]_pageVars PROVE FormInv'
    OBVIOUS
  <1>1. /\ adrift \in Nat /\ queued \in Nat /\ dropped \in Nat /\ clicks \in Nat
        /\ accepted \in Nat /\ unreachable \in Nat /\ MaxClicks \in Nat
    BY DashboardAssumption DEF FormInv
  <1>2. CASE UNCHANGED <<form, backend>>
    BY <1>2 DEF form, backend, FormInv, OnItsWay
  <1>3. CASE PlaceOrder
    BY <1>1, <1>3 DEF PlaceOrder, backend, FormInv, OnItsWay
  <1>4. CASE PostArrives
    BY <1>1, <1>4, ServeOrderCounts DEF PostArrives, FormInv, OnItsWay
  <1>5. CASE ReceivePost
    BY <1>1, <1>5 DEF ReceivePost, backend, FormInv, OnItsWay
  <1>6. CASE LosePost
    BY <1>1, <1>6 DEF LosePost, GiveUp, backend, FormInv, OnItsWay
  <1>7. CASE AdriftArrives
    BY <1>1, <1>7, ServeOrderCounts DEF AdriftArrives, FormInv, OnItsWay
  <1>8. CASE ShutdownQueue \/ StopServing
    BY <1>8 DEF ShutdownQueue, StopServing, form, FormInv, OnItsWay
  <1>9. CASE \/ \E id \in Id : BookFill(id)
             \/ BookAgain \/ Connect
             \/ \E k \in Polls : \/ Poll(k) \/ AnswerTrades(k)
                                 \/ ReceiveTrades(k) \/ LoseTrades(k)
    <2>1. UNCHANGED <<form, backend>>
      BY <1>9 DEF BookFill, BookAgain, Connect, Poll, AnswerTrades, ReceiveTrades,
                  LoseTrades
    <2> QED BY <1>2, <2>1
  <1>10. CASE UNCHANGED pageVars
    BY <1>2, <1>10 DEF pageVars
  <1> QED BY <1>3, <1>4, <1>5, <1>6, <1>7, <1>8, <1>9, <1>10 DEF PageNext

\* However requests and answers are lost or late, no more orders reach push() than the
\* page has reported or is about to; what it has reported as accepted is missing from
\* the queue only when push() dropped it after the shutdown (app.js:163-190,
\* ApiServer.cpp:230, ThreadSafeQueue.hpp:28, main.cpp:204).
THEOREM OrdersAreAccountedFor == PageSpec => []OrdersAccountedFor
  <1>1. PageInit => FormInv
    BY InitForm
  <1>2. FormInv /\ [PageNext]_pageVars => FormInv'
    BY StepForm
  <1>3. FormInv => OrdersAccountedFor
    BY DEF FormInv, OnItsWay, OrdersAccountedFor
  <1> QED BY <1>1, <1>2, <1>3, PTL DEF PageSpec

\* The types of Dashboard's variables; its counters stay within MaxClicks, and its
\* lists within their lengths.
THEOREM PageTypeCorrect == PageSpec => []PageTypeOK
  <1>1. PageInit => FeedInv /\ FormInv
    BY InitFeed, InitForm
  <1>2. FeedInv /\ FormInv /\ [PageNext]_pageVars => (FeedInv /\ FormInv)'
    BY StepFeed, StepForm
  <1>3. FeedInv /\ FormInv => PageTypeOK
    <2> SUFFICES ASSUME FeedInv, FormInv PROVE PageTypeOK
      OBVIOUS
    <2>1. {adrift, queued, dropped, clicks, accepted, unreachable} \subseteq 0..MaxClicks
      BY DashboardAssumption DEF FormInv, OnItsWay
    <2> QED BY <2>1 DEF FeedInv, FeedType, FormInv, PageTypeOK
  <1> QED BY <1>1, <1>2, <1>3, PTL DEF PageSpec
=============================================================================
