----------------------------- MODULE FifoQueue -----------------------------
(***************************************************************************)
(* What include/common/ThreadSafeQueue.hpp promises to its callers, with   *)
(* no thread, mutex or condition variable in sight: the items accepted so  *)
(* far, how many of them have been handed out, and whether the queue is    *)
(* shut down.  ThreadSafeQueue is shown to implement this specification,   *)
(* and the modules of the pipeline use a queue at this level.              *)
(***************************************************************************)
EXTENDS Naturals, Sequences

CONSTANT Item       \* what the queue carries (its template parameter T)

VARIABLES sent,     \* every item accepted by push(), in acceptance order
          received, \* every item returned by pop() or try_pop(), in order
          closed    \* shutdown_

vars == <<sent, received, closed>>

Init == sent = <<>> /\ received = <<>> /\ closed = FALSE

\* push() on an open queue.  On a closed one it has no effect.
Send(item) ==
    /\ ~closed
    /\ sent' = Append(sent, item)
    /\ UNCHANGED <<received, closed>>

\* pop() and try_pop() return the oldest undelivered item, also after
\* shutdown(); with nothing to deliver they return nullopt and change nothing.
Receive ==
    /\ Len(received) < Len(sent)
    /\ received' = Append(received, sent[Len(received) + 1])
    /\ UNCHANGED <<sent, closed>>

Close == closed' = TRUE /\ UNCHANGED <<sent, received>>

\* reset() forgets what was accepted and not delivered, and reopens.
Reset ==
    /\ sent' = received
    /\ closed' = FALSE
    /\ UNCHANGED received

Next == (\E item \in Item : Send(item)) \/ Receive \/ Close \/ Reset

Spec == Init /\ [][Next]_vars
=============================================================================
