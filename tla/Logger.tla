-------------------------------- MODULE Logger --------------------------------
(***************************************************************************)
(* src/common/Logger.cpp: any thread logs, by pushing an entry to queue_,  *)
(* and one worker writes what it pops.  main() starts and ends it.         *)
(*                                                                         *)
(* queue_ is a FifoQueue.  log() tests initialized_ and then pushes, the   *)
(* worker pops and then, if it got nothing, asks whether queue_ is shut    *)
(* down: the steps in between belong to other threads.                     *)
(***************************************************************************)
EXTENDS Naturals, Sequences

CONSTANTS Thread,     \* the threads that log
          Level,      \* LogLevel
          min_level,  \* min_level_
          MaxCalls    \* bound: calls of log() by each thread

ASSUME LoggerAssumption == Level \subseteq Nat /\ min_level \in Nat /\ MaxCalls \in Nat

\* The nr-th call of log() by a thread.
LogEntry == [by : Thread, nr : Nat, level : Level]

VARIABLES sent, received, closed,   \* queue_
          initialized,              \* initialized_
          is_open,                  \* ofs_.is_open(): init() opened the file
          calls,                    \* calls of log() by each thread
          pushing,                  \* threads in log() that are about to push
          worker,                   \* worker_: none, pop, empty, write, done
          main,                     \* main(): start, run, join, over
          written,                  \* what this run appended to the log file
          seen                      \* history: Len(sent) when the worker last
                                    \* found the queue empty

Queue == INSTANCE FifoQueue WITH Item <- LogEntry

queue == <<sent, received, closed>>
vars == <<queue, initialized, is_open, calls, pushing, worker, main, written, seen>>

\* The worker is done writing whatever it has popped, except for one entry while
\* it is in "write"; with no open file nothing is written.
TypeOK ==
    /\ sent \in Seq(LogEntry)
    /\ received \in Seq(LogEntry)
    /\ closed \in BOOLEAN
    /\ initialized \in BOOLEAN /\ is_open \in BOOLEAN
    /\ calls \in [Thread -> Nat]
    /\ pushing \subseteq LogEntry
    /\ worker \in {"none", "pop", "empty", "write", "done"}
    /\ main \in {"start", "run", "join", "over"}
    /\ worker = "none" <=> main = "start"
    /\ written \in Seq(LogEntry)
    /\ seen \in Nat
    /\ (~is_open \/ worker = "none") => written = <<>>
    /\ (is_open \/ worker = "none")
          => Len(received) = Len(written) + (IF worker = "write" THEN 1 ELSE 0)

Init ==
    /\ Queue!Init
    /\ initialized = FALSE /\ is_open = FALSE
    /\ calls = [t \in Thread |-> 0]
    /\ pushing = {}
    /\ worker = "none"
    /\ main = "start"
    /\ written = <<>>
    /\ seen = 0

-----------------------------------------------------------------------------
(* log(), by any thread *)

Calling(t) == \E e \in pushing : e.by = t

\* log() returns early when the logger is not running or the level is below the
\* configured one.
Log(t, level) ==
    /\ ~Calling(t)
    /\ calls[t] < MaxCalls
    /\ calls' = [calls EXCEPT ![t] = @ + 1]
    /\ pushing' = IF initialized /\ level >= min_level
                  THEN pushing \cup {[by |-> t, nr |-> calls'[t], level |-> level]}
                  ELSE pushing
    /\ UNCHANGED <<queue, initialized, is_open, worker, main, written, seen>>

\* push() drops the entry when queue_ is shut down.
Push(entry) ==
    /\ entry \in pushing
    /\ pushing' = pushing \ {entry}
    /\ IF closed THEN UNCHANGED queue ELSE Queue!Send(entry)
    /\ UNCHANGED <<initialized, is_open, calls, worker, main, written, seen>>

-----------------------------------------------------------------------------
(* flush_loop() *)

PopEntry ==
    /\ worker = "pop"
    /\ Queue!Receive
    /\ worker' = "write"
    /\ UNCHANGED <<initialized, is_open, calls, pushing, main, written, seen>>

\* The timeout, or a queue that is shut down and empty.
PopNothing ==
    /\ worker = "pop"
    /\ received = sent
    /\ worker' = "empty"
    /\ seen' = Len(sent)
    /\ UNCHANGED <<queue, initialized, is_open, calls, pushing, main, written>>

\* Mutant: a timeout ends the loop.
TestNothing ==
    /\ worker = "empty"
    /\ worker' = "done"
    /\ UNCHANGED <<queue, initialized, is_open, calls, pushing, main, written, seen>>

\* Mutant: the loop ends when initialized_ is cleared, which shutdown() does after
\* the join.
TestInitialized ==
    /\ worker = "empty"
    /\ worker' = IF initialized THEN "pop" ELSE "done"
    /\ UNCHANGED <<queue, initialized, is_open, calls, pushing, main, written, seen>>

TestShutdown ==
    /\ worker = "empty"
    /\ worker' = IF closed THEN "done" ELSE "pop"
    /\ UNCHANGED <<queue, initialized, is_open, calls, pushing, main, written, seen>>

\* Mutant: the loop is "while (!queue_.is_shutdown())".
WriteEntryQuits ==
    /\ worker = "write"
    /\ written' = IF is_open THEN Append(written, received[Len(received)]) ELSE written
    /\ worker' = IF closed THEN "done" ELSE "pop"
    /\ UNCHANGED <<queue, initialized, is_open, calls, pushing, main, seen>>

\* Mutant: the entry popped first is written over and over.
WriteEntryFirst ==
    /\ worker = "write"
    /\ written' = IF is_open THEN Append(written, received[1]) ELSE written
    /\ worker' = "pop"
    /\ UNCHANGED <<queue, initialized, is_open, calls, pushing, main, seen>>

\* To the console, which is left out, and to the file if it is open.
WriteEntry ==
    /\ worker = "write"
    /\ written' = IF is_open THEN Append(written, received[Len(received)]) ELSE written
    /\ worker' = "pop"
    /\ UNCHANGED <<queue, initialized, is_open, calls, pushing, main, seen>>

-----------------------------------------------------------------------------
(* init() and shutdown(), by main() *)

\* The log file may fail to open, and nobody looks.
Start ==
    /\ main = "start"
    /\ is_open' \in BOOLEAN
    /\ initialized' = TRUE
    /\ worker' = "pop"
    /\ main' = "run"
    /\ UNCHANGED <<queue, calls, pushing, written, seen>>

Shutdown ==
    /\ main = "run"
    /\ Queue!Close
    /\ main' = "join"
    /\ UNCHANGED <<initialized, is_open, calls, pushing, worker, written, seen>>

\* worker_.join() returns.  The destructor then finds initialized_ cleared.
Join ==
    /\ main = "join"
    /\ worker = "done"
    /\ initialized' = FALSE
    /\ main' = "over"
    /\ UNCHANGED <<queue, is_open, calls, pushing, worker, written, seen>>

-----------------------------------------------------------------------------

WorkerStep == PopEntry \/ PopNothing \/ TestShutdown \/ WriteEntry

Next ==
    \/ \E t \in Thread, level \in Level : Log(t, level)
    \/ \E entry \in pushing : Push(entry)
    \/ WorkerStep
    \/ Start \/ Shutdown \/ Join

Spec == Init /\ [][Next]_vars

\* The worker runs, its pop() returns within 200 ms, and a join returns when the
\* thread has ended.
FairSpec == Spec /\ WF_vars(WorkerStep) /\ WF_vars(Join)

-----------------------------------------------------------------------------
(* Properties *)

\* However the pushes of threads interleave, the file has the entries of each
\* thread once and in the order of its calls, and none below min_level_.
WrittenInOrder ==
    /\ \A i \in DOMAIN written : written[i].level >= min_level
    /\ \A i, j \in DOMAIN written :
          (i < j /\ written[i].by = written[j].by) => written[i].nr < written[j].nr

\* The file is a prefix of what was accepted, and when the worker has ended, a file
\* that was opened holds all that was accepted before the worker last looked: only
\* an entry pushed between that look and the test of is_shutdown() can be lost.
LossIsLate ==
    /\ \A i \in DOMAIN written : i <= Len(sent) /\ written[i] = sent[i]
    /\ (worker = "done" /\ is_open) => Len(written) = seen

\* Until the shutdown every accepted entry gets written to a file that was opened.
EntriesGetWritten ==
    \A n \in 1..MaxCalls :
        (is_open /\ Len(sent) >= n) ~> (Len(written) >= n \/ closed)

\* shutdown() returns, although the worker may be anywhere in its loop, and
\* threads go on logging.
ShutdownReturns == main = "join" ~> main = "over"
=============================================================================
