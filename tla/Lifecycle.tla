------------------------------ MODULE Lifecycle ------------------------------
(***************************************************************************)
(* How the program starts and ends: main.cpp creates the threads, joins    *)
(* them after a signal and shuts the queues down in between; ApiServer.cpp *)
(* runs the HTTP server and a thread that stops it.                        *)
(*                                                                         *)
(* A round of a thread's loop is one step: every call in it returns in     *)
(* bounded time (a pop with its timeout, a sleep, a request).  What does   *)
(* not is the mutex of the Logger's queue, which log() takes; and the      *)
(* signal handler logs, on whatever thread it interrupts.                  *)
(***************************************************************************)
EXTENDS Naturals, Sequences

CONSTANTS Logging,      \* threads that log in their rounds
          MaxSignals    \* bound: signals

\* The threads that loop on a flag, all but the logger's worker joined by main().
Worker == {"data", "fanout", "strategy", "engine", "pnl", "ui", "logger"}
Thread == Worker \cup {"api", "stop", "main"}

ASSUME LifecycleAssumption ==
    /\ Logging \subseteq Worker \cup {"main"}
    /\ MaxSignals \in Nat

VARIABLES running,     \* g_running
          shutdown,    \* shutdown_ of the engine
          down,        \* the queues that are shut down
          pc,          \* where each thread is
          step,        \* the next step of main()'s script
          holder,      \* who holds the mutex of the Logger's queue
          svr_sock, is_running,   \* httplib::Server: socket open, listening
          handler, interrupted,   \* signal_handler: flag, log or none; on which thread
          signals,     \* signals so far
          ready, safe  \* history: when the signal came, the server was past its
                       \* start, and the interrupted thread did not hold the mutex

server == <<svr_sock, is_running>>
signal == <<handler, interrupted, signals, ready, safe>>
vars == <<running, shutdown, down, pc, step, holder, server, signal>>

Op(op, on) == [op |-> op, on |-> on]

\* Mutant: order_queue is shut down before its producer is joined.
ScriptEager ==
    <<Op("start", "data"), Op("start", "fanout"), Op("start", "strategy"),
      Op("start", "engine"), Op("start", "pnl"), Op("start", "ui"), Op("start", "api"),
      Op("join", "data"), Op("join", "fanout"),
      Op("close", "market_queue_display"), Op("close", "order_queue"),
      Op("join", "strategy"), Op("stop", "engine"), Op("join", "engine"),
      Op("close", "trade_queue"), Op("join", "pnl"),
      Op("join", "ui"), Op("join", "api")>>

\* Mutant: the engine's queue is shut down and the engine itself is not stopped.
ScriptNoStop ==
    <<Op("start", "data"), Op("start", "fanout"), Op("start", "strategy"),
      Op("start", "engine"), Op("start", "pnl"), Op("start", "ui"), Op("start", "api"),
      Op("join", "data"), Op("join", "fanout"),
      Op("close", "market_queue_display"), Op("join", "strategy"),
      Op("close", "order_queue"), Op("join", "engine"),
      Op("close", "trade_queue"), Op("join", "pnl"),
      Op("join", "ui"), Op("join", "api")>>

\* Mutant: the display thread is not joined.
ScriptDetached ==
    <<Op("start", "data"), Op("start", "fanout"), Op("start", "strategy"),
      Op("start", "engine"), Op("start", "pnl"), Op("start", "ui"), Op("start", "api"),
      Op("join", "data"), Op("join", "fanout"),
      Op("close", "market_queue_display"), Op("join", "strategy"),
      Op("close", "order_queue"), Op("stop", "engine"), Op("join", "engine"),
      Op("close", "trade_queue"), Op("join", "pnl"), Op("join", "api")>>

\* What main() does after its initialisation.
Script ==
    <<Op("start", "data"), Op("start", "fanout"), Op("start", "strategy"),
      Op("start", "engine"), Op("start", "pnl"), Op("start", "ui"), Op("start", "api"),
      Op("join", "data"), Op("join", "fanout"),
      Op("close", "market_queue_display"), Op("join", "strategy"),
      Op("close", "order_queue"), Op("stop", "engine"), Op("join", "engine"),
      Op("close", "trade_queue"), Op("join", "pnl"),
      Op("join", "ui"), Op("join", "api")>>

Over == step > Len(Script)

TypeOK ==
    /\ running \in BOOLEAN /\ shutdown \in BOOLEAN
    /\ down \subseteq {"market_queue_display", "order_queue", "trade_queue"}
    /\ \A t \in Worker : pc[t] \in {"new", "loop", "lock", "log", "done"}
    /\ pc["main"] \in {"loop", "lock", "log"}
    /\ pc["api"] \in {"new", "setup", "bind", "listen", "serve", "join", "done"}
    /\ pc["stop"] \in {"new", "loop", "stop", "done"}
    /\ step \in 1..(Len(Script) + 1)
    /\ svr_sock \in BOOLEAN /\ is_running \in BOOLEAN
    /\ handler \in {"none", "flag", "log"}
    /\ interrupted \in Thread \cup {"none"}
    /\ signals \in 0..MaxSignals
    /\ ready \in BOOLEAN /\ safe \in BOOLEAN
    /\ \A t \in Thread : holder = t <=> pc[t] = "log"

Init ==
    /\ running = TRUE
    /\ shutdown = FALSE
    /\ down = {}
    /\ pc = [t \in Thread |-> IF t \in {"main", "logger"} THEN "loop" ELSE "new"]
    /\ step = 1
    /\ holder = "none"
    /\ svr_sock = FALSE /\ is_running = FALSE
    /\ handler = "none" /\ interrupted = "none" /\ signals = 0
    /\ ready = FALSE /\ safe = FALSE

\* Thread t executes its own code.
At(t, loc) == pc[t] = loc /\ interrupted # t

Goto(t, loc) == pc' = [pc EXCEPT ![t] = loc]

-----------------------------------------------------------------------------
(* log(): the critical section of push(), or of pop() in the logger's worker *)

Lock(t) ==
    /\ At(t, "lock")
    /\ holder = "none"
    /\ holder' = t
    /\ Goto(t, "log")
    /\ UNCHANGED <<running, shutdown, down, step, server, signal>>

Unlock(t) ==
    /\ At(t, "log")
    /\ holder' = "none"
    /\ Goto(t, "loop")
    /\ UNCHANGED <<running, shutdown, down, step, server, signal>>

\* Where a thread is after a step of its loop: it may have to log first.
Onward(t) == {"loop"} \cup (IF t \in Logging THEN {"lock"} ELSE {})

-----------------------------------------------------------------------------
(* The loops of the workers *)

Goes(t) ==
    CASE t = "engine" -> ~shutdown
      [] t = "logger" -> TRUE
      [] OTHER        -> running

Round(t) ==
    /\ At(t, "loop")
    /\ \E loc \in IF Goes(t) THEN Onward(t) ELSE {"done"} : Goto(t, loc)
    /\ UNCHANGED <<running, shutdown, down, step, holder, server, signal>>

-----------------------------------------------------------------------------
(* main() *)

MainStep ==
    /\ At("main", "loop")
    /\ ~Over
    /\ step' = step + 1
    /\ LET next == Script[step]
           on == next.on
       IN \E loc \in Onward("main") :
            \/ /\ next.op = "start"
               /\ pc' = [pc EXCEPT !["main"] = loc,
                                   ![on] = IF on = "api" THEN "setup" ELSE "loop"]
               /\ UNCHANGED <<shutdown, down>>
            \/ /\ next.op = "join" /\ pc[on] = "done"
               /\ Goto("main", loc)
               /\ UNCHANGED <<shutdown, down>>
            \/ /\ next.op = "close"
               /\ down' = down \cup {on}
               /\ Goto("main", loc)
               /\ UNCHANGED shutdown
            \/ /\ next.op = "stop"
               /\ shutdown' = TRUE
               /\ Goto("main", loc)
               /\ UNCHANGED down
    /\ UNCHANGED <<running, holder, server, signal>>

-----------------------------------------------------------------------------
(* ApiServer::run(), its stop_thread, and what httplib::Server does for them *)

ApiSetup ==
    /\ At("api", "setup")
    /\ pc' = [pc EXCEPT !["api"] = "bind", !["stop"] = "loop"]
    /\ UNCHANGED <<running, shutdown, down, step, holder, server, signal>>

\* listen() binds, or returns when it cannot.
Bind ==
    /\ At("api", "bind")
    /\ \/ svr_sock' = TRUE /\ Goto("api", "listen")
       \/ Goto("api", "join") /\ UNCHANGED svr_sock
    /\ UNCHANGED <<running, shutdown, down, step, holder, is_running, signal>>

Listen ==
    /\ At("api", "listen")
    /\ is_running' = TRUE
    /\ Goto("api", "serve")
    /\ UNCHANGED <<running, shutdown, down, step, holder, svr_sock, signal>>

\* listen() returns when the socket was closed.
Serve ==
    /\ At("api", "serve")
    /\ ~svr_sock
    /\ is_running' = FALSE
    /\ Goto("api", "join")
    /\ UNCHANGED <<running, shutdown, down, step, holder, svr_sock, signal>>

ApiJoin ==
    /\ At("api", "join")
    /\ pc["stop"] = "done"
    /\ Goto("api", "done")
    /\ UNCHANGED <<running, shutdown, down, step, holder, server, signal>>

\* It polls the running flag every 200 ms.
StopRound ==
    /\ At("stop", "loop")
    /\ ~running
    /\ Goto("stop", "stop")
    /\ UNCHANGED <<running, shutdown, down, step, holder, server, signal>>

\* svr.stop() closes the socket of a server that is listening already.
StopServer ==
    /\ At("stop", "stop")
    /\ svr_sock' = (svr_sock /\ ~is_running)
    /\ Goto("stop", "done")
    /\ UNCHANGED <<running, shutdown, down, step, holder, is_running, signal>>

-----------------------------------------------------------------------------
(* signal_handler(), on top of any thread *)

Deliver(t) ==
    /\ handler = "none"
    /\ signals < MaxSignals
    /\ pc[t] \notin {"new", "done"} /\ ~Over
    /\ handler' = "flag" /\ interrupted' = t
    /\ signals' = signals + 1
    /\ ready' = (pc["api"] \in {"serve", "join", "done"})
    /\ safe' = (holder # t)
    /\ UNCHANGED <<running, shutdown, down, pc, step, holder, server>>

HandlerFlag ==
    /\ handler = "flag"
    /\ running' = FALSE
    /\ handler' = "log"
    /\ UNCHANGED <<shutdown, down, pc, step, holder, server, interrupted, signals,
                   ready, safe>>

\* It logs, takes the mutex for a moment, and returns.
HandlerLog ==
    /\ handler = "log"
    /\ holder = "none"
    /\ handler' = "none" /\ interrupted' = "none"
    /\ UNCHANGED <<running, shutdown, down, pc, step, holder, server, signals, ready, safe>>

-----------------------------------------------------------------------------

Next ==
    \/ \E t \in Thread : Lock(t) \/ Unlock(t) \/ Deliver(t)
    \/ \E t \in Worker : Round(t)
    \/ MainStep
    \/ ApiSetup \/ Bind \/ Listen \/ Serve \/ ApiJoin
    \/ StopRound \/ StopServer
    \/ HandlerFlag \/ HandlerLog

Spec == Init /\ [][Next]_vars

\* What thread t can always do, whatever the others do.
OwnStep(t) ==
    \/ Unlock(t)
    \/ t \in Worker /\ Round(t)
    \/ t = "main" /\ MainStep
    \/ t = "api" /\ (ApiSetup \/ Bind \/ Listen \/ Serve \/ ApiJoin)
    \/ t = "stop" /\ (StopRound \/ StopServer)

\* Every thread that can go on does, the handler as well.  A mutex that is free
\* again and again is got in the end: hence strong fairness.  Signals are not fair.
FairSpec ==
    /\ Spec
    /\ \A t \in Thread : WF_vars(OwnStep(t))
    /\ \A t \in Logging : SF_vars(Lock(t))
    /\ WF_vars(HandlerFlag)
    /\ SF_vars(HandlerLog)

-----------------------------------------------------------------------------
(* Properties *)

\* main() shuts a queue down only when the thread that feeds it has ended, so
\* that none of its pushes is dropped.  (The API also feeds order_queue, and is
\* joined later: see OrderMatchingEngine.)
QueuesOutliveProducers ==
    /\ "market_queue_display" \in down => pc["fanout"] = "done"
    /\ "order_queue" \in down => pc["strategy"] = "done"
    /\ "trade_queue" \in down => pc["engine"] = "done"

\* When main() is over, no thread that uses its local queues and engine is left.
NoThreadLeft == Over => \A t \in Thread \ {"main", "logger"} : pc[t] = "done"

\* A signal stops the program, wherever its threads are, if the server is past its
\* start and the interrupted thread is not inside the logger's lock.
SafeSignalStops == (~running /\ ready /\ safe) ~> Over

-----------------------------------------------------------------------------
(* What the documentation says and the code does not do *)

\* "Blocks until running becomes false" (ApiServer.hpp:28): run() returns then.  If
\* stop_thread sees the flag before listen() has set is_running_, svr.stop() does
\* nothing and listen() serves for ever.
ApiReturns == (~running /\ pc["api"] # "new") ~> pc["api"] = "done"

\* "Running (Ctrl+C to stop)..." (main.cpp:191), with a "Shutdown signal (no mutex
\* needed)" (README.md:147): a signal that comes when the server is up stops the
\* program.  The handler takes a mutex, for ever if it interrupts its holder.
CtrlCStops == (~running /\ ready) ~> Over
=============================================================================
