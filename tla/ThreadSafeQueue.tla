--------------------------- MODULE ThreadSafeQueue ---------------------------
(***************************************************************************)
(* include/common/ThreadSafeQueue.hpp: the queue on every thread boundary  *)
(* of the program (ticks, orders, trades, log entries).                    *)
(*                                                                         *)
(* Every critical section of mutex_ is one step: nothing outside it        *)
(* touches queue_ or shutdown_.  What stays visible is the protocol of the *)
(* condition variable: producers notify after they have released the       *)
(* mutex, a waiter that leaves the wait set has to take the mutex again,   *)
(* and a wait ends by a notification, by its timeout or spuriously.        *)
(***************************************************************************)
EXTENDS Naturals, Sequences, FiniteSets

CONSTANTS Item,      \* the values pushed
          Producer,  \* threads that call push()
          Consumer,  \* threads that call pop() and try_pop()
          Closer,    \* threads that call shutdown() and reset()
          MaxItems   \* bound: items accepted and not reset, over a behaviour

Thread == Producer \cup Consumer \cup Closer

ASSUME QueueAssumption ==
    /\ MaxItems \in Nat
    /\ IsFiniteSet(Thread)
    /\ Producer \cap Consumer = {}
    /\ Producer \cap Closer = {}
    /\ Consumer \cap Closer = {}

VARIABLES queue,     \* queue_
          shutdown,  \* shutdown_
          pc,        \* where each thread is, see Location
          received   \* history: the items pop() and try_pop() returned

vars == <<queue, shutdown, pc, received>>

\* idle: outside the queue.  notify / notifyAll: past the critical section of
\* push / shutdown, before its notification.  waiting: in the wait set of cv_.
\* woken / expired: out of the wait set, before taking the mutex again.
Location == {"idle", "notify", "notifyAll", "waiting", "woken", "expired"}

At(loc) == {t \in Thread : pc[t] = loc}

TypeOK ==
    /\ queue \in Seq(Item)
    /\ received \in Seq(Item)
    /\ shutdown \in BOOLEAN
    /\ pc \in [Thread -> Location]

Init ==
    /\ queue = <<>>
    /\ received = <<>>
    /\ shutdown = FALSE
    /\ pc = [t \in Thread |-> "idle"]

-----------------------------------------------------------------------------
(* push.  On a queue that is shut down it returns early, without           *)
(* notifying: no variable changes, so that case is a stuttering step.      *)

\* Mutant: the early return on shutdown_ is missing.
PushUnchecked(p, item) ==
    /\ pc[p] = "idle"
    /\ Len(received) + Len(queue) < MaxItems
    /\ queue' = Append(queue, item)
    /\ pc' = [pc EXCEPT ![p] = "notify"]
    /\ UNCHANGED <<shutdown, received>>

\* Mutant: notify_one is forgotten.
PushSilently(p, item) ==
    /\ pc[p] = "idle"
    /\ ~shutdown
    /\ Len(received) + Len(queue) < MaxItems
    /\ queue' = Append(queue, item)
    /\ UNCHANGED <<pc, shutdown, received>>

Push(p, item) ==
    /\ pc[p] = "idle"
    /\ ~shutdown
    /\ Len(received) + Len(queue) < MaxItems
    /\ queue' = Append(queue, item)
    /\ pc' = [pc EXCEPT ![p] = "notify"]
    /\ UNCHANGED <<shutdown, received>>

\* cv_.notify_one() after the lock is released: any one waiter is woken.
NotifyOne(p) ==
    /\ pc[p] = "notify"
    /\ \/ /\ At("waiting") = {}
          /\ pc' = [pc EXCEPT ![p] = "idle"]
       \/ \E c \in At("waiting") :
             pc' = [pc EXCEPT ![p] = "idle", ![c] = "woken"]
    /\ UNCHANGED <<queue, shutdown, received>>

-----------------------------------------------------------------------------
(* pop and try_pop *)

\* The predicate of wait_for.
Ready == queue # <<>> \/ shutdown

\* What follows the wait: the front item, or nullopt when there is none.
Return(c) ==
    /\ pc' = [pc EXCEPT ![c] = "idle"]
    /\ IF queue = <<>>
       THEN UNCHANGED <<queue, received>>
       ELSE /\ received' = Append(received, Head(queue))
            /\ queue' = Tail(queue)

Block(c) ==
    /\ pc' = [pc EXCEPT ![c] = "waiting"]
    /\ UNCHANGED <<queue, received>>

\* pop() takes the mutex and evaluates the predicate before it waits.
Pop(c) ==
    /\ pc[c] = "idle"
    /\ IF Ready THEN Return(c) ELSE Block(c)
    /\ UNCHANGED shutdown

\* try_pop() never waits; on an empty queue it is a stuttering step.
TryPop(c) ==
    /\ pc[c] = "idle"
    /\ queue # <<>>
    /\ Return(c)
    /\ UNCHANGED shutdown

\* The timeout of wait_for passes.
Expire(c) ==
    /\ pc[c] = "waiting"
    /\ pc' = [pc EXCEPT ![c] = "expired"]
    /\ UNCHANGED <<queue, shutdown, received>>

\* A condition variable may wake without a notification.
WakeSpuriously(c) ==
    /\ pc[c] = "waiting"
    /\ pc' = [pc EXCEPT ![c] = "woken"]
    /\ UNCHANGED <<queue, shutdown, received>>

\* The waiter has the mutex again: it goes on when the predicate holds or its
\* time is up (wait_for then evaluates the predicate once more, and pop() looks
\* at the queue either way), and waits again otherwise.
Resume(c) ==
    /\ pc[c] \in {"woken", "expired"}
    /\ IF Ready \/ pc[c] = "expired" THEN Return(c) ELSE Block(c)
    /\ UNCHANGED shutdown

-----------------------------------------------------------------------------
(* shutdown and reset *)

\* Mutant: notify_all is forgotten.
ShutdownSilently(m) ==
    /\ pc[m] = "idle"
    /\ shutdown' = TRUE
    /\ UNCHANGED <<pc, queue, received>>

Shutdown(m) ==
    /\ pc[m] = "idle"
    /\ shutdown' = TRUE
    /\ pc' = [pc EXCEPT ![m] = "notifyAll"]
    /\ UNCHANGED <<queue, received>>

NotifyAll(m) ==
    /\ pc[m] = "notifyAll"
    /\ pc' = [t \in Thread |-> IF t = m THEN "idle"
                               ELSE IF pc[t] = "waiting" THEN "woken"
                               ELSE pc[t]]
    /\ UNCHANGED <<queue, shutdown, received>>

\* reset() empties and reopens the queue.  It notifies nobody.
Reset(m) ==
    /\ pc[m] = "idle"
    /\ queue' = <<>>
    /\ shutdown' = FALSE
    /\ UNCHANGED <<pc, received>>

-----------------------------------------------------------------------------
Next ==
    \/ \E p \in Producer : (\E item \in Item : Push(p, item)) \/ NotifyOne(p)
    \/ \E c \in Consumer : \/ Pop(c) \/ TryPop(c) \/ Resume(c)
                           \/ Expire(c) \/ WakeSpuriously(c)
    \/ \E m \in Closer : Shutdown(m) \/ NotifyAll(m) \/ Reset(m)

Spec == Init /\ [][Next]_vars

\* A thread that has entered a call goes on with it: the operating system runs
\* every runnable thread.  Nothing obliges a caller to make a call, and neither
\* the timeout nor spurious wakeups are fair: what is shown below rests on the
\* notifications alone.
Fairness ==
    /\ \A p \in Producer : WF_vars(NotifyOne(p))
    /\ \A c \in Consumer : WF_vars(Resume(c))
    /\ \A m \in Closer   : WF_vars(NotifyAll(m))

FairSpec == Spec /\ Fairness

-----------------------------------------------------------------------------
(* Properties *)

\* Threads that will look at the queue, or make another thread look, without
\* waiting for anything but the mutex.
Awake == At("notify") \cup At("woken") \cup At("expired")

\* No wakeup is lost: while some consumer waits, every queued item is matched
\* by a thread on its way to it, although notify_one is called after the mutex
\* is released and may find the wait set already changed; and a waiter that
\* missed shutdown_ has its notify_all still to come.
NoLostWakeup ==
    At("waiting") # {} =>
        /\ Len(queue) <= Cardinality(Awake)
        /\ shutdown => At("notifyAll") # {}

\* shutdown() releases every consumer blocked in pop(), however long its
\* timeout (tests/test_thread_safe_queue.cpp, test 4), unless reset() undoes it.
ShutdownReleases ==
    \A c \in Consumer :
        (pc[c] = "waiting" /\ shutdown) ~> (pc[c] # "waiting" \/ ~shutdown)

\* With a consumer blocked in pop(), every accepted item is handed out without
\* any help from the timeout, unless reset() discards it.
WaitersGetItems ==
    \A n \in 1..MaxItems :
        (At("waiting") # {} /\ Len(received \o queue) >= n)
            ~> \/ Len(received) >= n
               \/ At("waiting") = {}
               \/ Len(received \o queue) < n

\* The queue is a FIFO: items come out once each and in acceptance order,
\* whichever threads push and pop them.
Fifo == INSTANCE FifoQueue
            WITH sent <- received \o queue, closed <- shutdown

ImplementsFifo == Fifo!Spec
=============================================================================
