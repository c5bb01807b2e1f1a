----------------------- MODULE ThreadSafeQueueProofs -----------------------
(***************************************************************************)
(* Theorems about ThreadSafeQueue, for every set of items, producers,      *)
(* consumers and closers and every bound MaxItems.                         *)
(***************************************************************************)
EXTENDS ThreadSafeQueue, FiniteSetTheorems, SequenceTheorems, TLAPS

-----------------------------------------------------------------------------
(* Type correctness *)

\* The queue starts with the right types.
LEMMA TypeInit == Init => TypeOK
  BY EmptySeq DEF Init, TypeOK, Location

\* What comes back from a pop keeps the types: used for each of its callers.
LEMMA ReturnType ==
  ASSUME TypeOK, NEW c \in Consumer, Return(c)
  PROVE  /\ pc' = [pc EXCEPT ![c] = "idle"]
         /\ queue' \in Seq(Item)
         /\ received' \in Seq(Item)
  <1>1. CASE queue = <<>>
    BY <1>1 DEF TypeOK, Return
  <1>2. CASE queue # <<>>
    <2>1. Head(queue) \in Item /\ Tail(queue) \in Seq(Item)
      BY <1>2, HeadTailProperties DEF TypeOK
    <2>2. Append(received, Head(queue)) \in Seq(Item)
      BY <2>1, AppendProperties DEF TypeOK
    <2> QED BY <1>2, <2>1, <2>2 DEF Return
  <1> QED BY <1>1, <1>2

\* Every step keeps the types.
LEMMA TypeStep == TypeOK /\ [Next]_vars => TypeOK'
  <1> SUFFICES ASSUME TypeOK, [Next]_vars PROVE TypeOK'
    OBVIOUS
  <1> USE DEF TypeOK, Location
  <1>1. ASSUME NEW p \in Producer, NEW item \in Item, Push(p, item)
        PROVE  TypeOK'
    BY <1>1 DEF Push, Thread
  <1>2. ASSUME NEW p \in Producer, NotifyOne(p) PROVE TypeOK'
    <2>1. CASE At("waiting") = {}
      BY <1>2, <2>1 DEF NotifyOne, Thread
    <2>2. ASSUME NEW c \in At("waiting"),
                 pc' = [pc EXCEPT ![p] = "idle", ![c] = "woken"]
          PROVE  TypeOK'
      BY <1>2, <2>2 DEF NotifyOne, Thread, At
    <2> QED BY <1>2, <2>1, <2>2 DEF NotifyOne
  <1>3. ASSUME NEW c \in Consumer, Pop(c) PROVE TypeOK'
    <2>1. CASE Ready
      BY <1>3, <2>1, ReturnType DEF Pop, Thread
    <2>2. CASE ~Ready
      BY <1>3, <2>2 DEF Pop, Block, Thread
    <2> QED BY <2>1, <2>2
  <1>4. ASSUME NEW c \in Consumer, TryPop(c) PROVE TypeOK'
    BY <1>4, ReturnType DEF TryPop, Thread
  <1>5. ASSUME NEW c \in Consumer, Resume(c) PROVE TypeOK'
    <2>1. CASE Return(c)
      BY <1>5, <2>1, ReturnType DEF Resume, Thread
    <2>2. CASE Block(c)
      BY <1>5, <2>2 DEF Resume, Block, Thread
    <2> QED BY <1>5, <2>1, <2>2 DEF Resume
  <1>6. ASSUME NEW c \in Consumer, Expire(c) PROVE TypeOK'
    BY <1>6 DEF Expire, Thread
  <1>7. ASSUME NEW c \in Consumer, WakeSpuriously(c) PROVE TypeOK'
    BY <1>7 DEF WakeSpuriously, Thread
  <1>8. ASSUME NEW m \in Closer, Shutdown(m) PROVE TypeOK'
    BY <1>8 DEF Shutdown, Thread
  <1>9. ASSUME NEW m \in Closer, NotifyAll(m) PROVE TypeOK'
    BY <1>9 DEF NotifyAll
  <1>10. ASSUME NEW m \in Closer, Reset(m) PROVE TypeOK'
    BY <1>10, EmptySeq DEF Reset
  <1>11. CASE UNCHANGED vars
    BY <1>11 DEF vars
  <1> QED
    BY <1>1, <1>2, <1>3, <1>4, <1>5, <1>6, <1>7, <1>8, <1>9, <1>10, <1>11
       DEF Next

\* The queue holds items, and each thread is at a place of its own code.
THEOREM TypeCorrect == Spec => []TypeOK
  BY TypeInit, TypeStep, PTL DEF Spec

-----------------------------------------------------------------------------
(* No lost wakeup *)

\* The awake threads are finitely many: they can be counted.
LEMMA AwakeFinite == IsFiniteSet(Awake) /\ Cardinality(Awake) \in Nat
  <1>1. Awake \in SUBSET Thread
    BY DEF Awake, At
  <1>2. IsFiniteSet(Awake)
    BY <1>1, QueueAssumption, FS_Subset
  <1> QED BY <1>2, FS_CardinalityType

\* Every step keeps the promise that no wakeup is lost: NoLostWakeup is
\* inductive once the types are known.
LEMMA NoLostWakeupStep ==
  TypeOK /\ NoLostWakeup /\ [Next]_vars => NoLostWakeup'
  <1> SUFFICES ASSUME TypeOK, NoLostWakeup, [Next]_vars,
                      At("waiting")' # {}
               PROVE  /\ Len(queue') <= Cardinality(Awake')
                      /\ shutdown' => At("notifyAll")' # {}
    BY DEF NoLostWakeup
  <1>n. /\ IsFiniteSet(Awake) /\ Cardinality(Awake) \in Nat
        /\ Len(queue) \in Nat
    BY AwakeFinite DEF TypeOK
  <1>t. TypeOK'
    BY TypeStep
  <1> USE DEF TypeOK, Location
  \* A step that wakes t, or makes it notify, adds t to the threads awake.
  <1>a. ASSUME NEW t \in Thread, t \notin Awake, Awake' = Awake \cup {t}
        PROVE  Cardinality(Awake') = Cardinality(Awake) + 1
    BY <1>a, <1>n, FS_AddElement
  <1>1. ASSUME NEW p \in Producer, NEW item \in Item, Push(p, item)
        PROVE  /\ Len(queue') <= Cardinality(Awake')
               /\ shutdown' => At("notifyAll")' # {}
    <2>1. pc[p] = "idle" /\ pc' = [pc EXCEPT ![p] = "notify"] /\ p \in Thread
      BY <1>1 DEF Push, Thread
    <2>2. At("waiting") # {}
      BY <2>1 DEF At
    <2>3. p \notin Awake /\ Awake' = Awake \cup {p}
      BY <2>1 DEF Awake, At
    <2>4. Len(queue') = Len(queue) + 1
      BY <1>1 DEF Push
    <2>5. Len(queue) <= Cardinality(Awake)
      BY <2>2 DEF NoLostWakeup
    <2>6. At("notifyAll")' = At("notifyAll") /\ shutdown' = shutdown
      BY <1>1, <2>1 DEF At, Push
    <2>7. Cardinality(Awake') = Cardinality(Awake) + 1
      BY <1>a, <2>1, <2>3
    <2> QED BY <1>n, <2>2, <2>4, <2>5, <2>6, <2>7 DEF NoLostWakeup
  <1>2. ASSUME NEW p \in Producer, NotifyOne(p)
        PROVE  /\ Len(queue') <= Cardinality(Awake')
               /\ shutdown' => At("notifyAll")' # {}
    <2>1. p \in Thread /\ pc[p] = "notify" /\ UNCHANGED <<queue, shutdown>>
      BY <1>2 DEF NotifyOne, Thread
    <2>2. At("waiting") # {}
      BY <1>2, <2>1 DEF NotifyOne, At
    <2>3. PICK c \in At("waiting") :
             pc' = [pc EXCEPT ![p] = "idle", ![c] = "woken"]
      BY <1>2, <2>2 DEF NotifyOne
    <2>4. c \in Thread /\ pc[c] = "waiting" /\ c # p
      BY <2>1 DEF At
    <2>5. /\ Awake' = (Awake \ {p}) \cup {c}
          /\ p \in Awake
          /\ c \notin Awake
      BY <2>1, <2>3, <2>4 DEF Awake, At
    <2>6. Cardinality(Awake') = Cardinality(Awake)
      <3>1. /\ IsFiniteSet(Awake \ {p})
            /\ Cardinality(Awake \ {p}) = Cardinality(Awake) - 1
        BY <1>n, <2>5, FS_RemoveElement
      <3>2. Cardinality(Awake') = Cardinality(Awake \ {p}) + 1
        BY <2>5, <3>1, FS_AddElement
      <3> QED BY <1>n, <3>1, <3>2
    <2>7. At("notifyAll")' = At("notifyAll")
      BY <2>1, <2>3, <2>4 DEF At
    <2> QED BY <2>1, <2>2, <2>6, <2>7 DEF NoLostWakeup
  \* What a consumer does once it has the mutex: it goes on only when the
  \* predicate holds or it is out of the wait set, and waits only otherwise.
  <1>3. ASSUME NEW c \in Consumer, Block(c), ~Ready, UNCHANGED shutdown
        PROVE  /\ Len(queue') <= Cardinality(Awake')
               /\ shutdown' => At("notifyAll")' # {}
    <2>1. IsFiniteSet(Awake)' /\ Cardinality(Awake') \in Nat
      <3>1. Awake' \in SUBSET Thread
        BY DEF Awake, At
      <3> QED BY <3>1, QueueAssumption, FS_Subset, FS_CardinalityType
    <2> QED BY <1>3, <2>1 DEF Block, Ready
  <1>4. ASSUME NEW c \in Consumer, Return(c), pc[c] = "idle",
               UNCHANGED shutdown
        PROVE  /\ Len(queue') <= Cardinality(Awake')
               /\ shutdown' => At("notifyAll")' # {}
    <2>1. pc' = pc
      BY <1>4 DEF Return, Thread
    <2>2. Awake' = Awake /\ At("waiting")' = At("waiting")
          /\ At("notifyAll")' = At("notifyAll")
      BY <2>1 DEF Awake, At
    <2>3. Len(queue') \in Nat /\ Len(queue') <= Len(queue)
      BY <1>4, HeadTailProperties DEF Return
    <2> QED BY <1>4, <1>n, <2>2, <2>3 DEF NoLostWakeup
  <1>5. ASSUME NEW c \in Consumer, Return(c), pc[c] \in {"woken", "expired"},
               UNCHANGED shutdown
        PROVE  /\ Len(queue') <= Cardinality(Awake')
               /\ shutdown' => At("notifyAll")' # {}
    <2>1. pc' = [pc EXCEPT ![c] = "idle"] /\ c \in Thread
      BY <1>5 DEF Return, Thread
    <2>2. /\ c \in Awake
          /\ Awake' = Awake \ {c}
          /\ At("waiting")' = At("waiting")
          /\ At("notifyAll")' = At("notifyAll")
      BY <1>5, <2>1 DEF Awake, At
    <2>3. Cardinality(Awake') = Cardinality(Awake) - 1
      BY <1>n, <2>2, FS_RemoveElement
    <2>4. Cardinality(Awake') \in Nat
      BY <1>n, <2>2, FS_RemoveElement, FS_CardinalityType
    <2>5. IF queue = <<>> THEN Len(queue') = 0 ELSE Len(queue') = Len(queue) - 1
      BY <1>5, HeadTailProperties DEF Return
    <2>6. Len(queue) <= Cardinality(Awake)
      BY <2>2 DEF NoLostWakeup
    <2> QED BY <1>5, <1>n, <2>2, <2>3, <2>4, <2>5, <2>6 DEF NoLostWakeup
  <1>6. ASSUME NEW c \in Consumer, Pop(c) \/ TryPop(c) \/ Resume(c)
        PROVE  /\ Len(queue') <= Cardinality(Awake')
               /\ shutdown' => At("notifyAll")' # {}
    <2>1. CASE Pop(c)
      BY <2>1, <1>3, <1>4 DEF Pop
    <2>2. CASE TryPop(c)
      BY <2>2, <1>4 DEF TryPop
    <2>3. CASE Resume(c)
      BY <2>3, <1>3, <1>5 DEF Resume
    <2> QED BY <1>6, <2>1, <2>2, <2>3
  <1>7. ASSUME NEW c \in Consumer, Expire(c) \/ WakeSpuriously(c)
        PROVE  /\ Len(queue') <= Cardinality(Awake')
               /\ shutdown' => At("notifyAll")' # {}
    <2>1. /\ pc[c] = "waiting" /\ c \in Thread
          /\ \/ pc' = [pc EXCEPT ![c] = "expired"]
             \/ pc' = [pc EXCEPT ![c] = "woken"]
          /\ UNCHANGED <<queue, shutdown>>
      BY <1>7 DEF Expire, WakeSpuriously, Thread
    <2>2. /\ At("waiting") # {}
          /\ c \notin Awake
          /\ Awake' = Awake \cup {c}
          /\ At("notifyAll")' = At("notifyAll")
      BY <2>1 DEF Awake, At
    <2>3. Cardinality(Awake') = Cardinality(Awake) + 1
      BY <1>a, <2>1, <2>2
    <2> QED BY <1>n, <2>1, <2>2, <2>3 DEF NoLostWakeup
  <1>8. ASSUME NEW m \in Closer, Shutdown(m)
        PROVE  /\ Len(queue') <= Cardinality(Awake')
               /\ shutdown' => At("notifyAll")' # {}
    <2>1. /\ pc[m] = "idle" /\ m \in Thread
          /\ pc' = [pc EXCEPT ![m] = "notifyAll"]
          /\ queue' = queue
      BY <1>8 DEF Shutdown, Thread
    <2>2. /\ At("waiting") # {}
          /\ Awake' = Awake
          /\ m \in At("notifyAll")'
      BY <2>1 DEF Awake, At
    <2> QED BY <2>1, <2>2 DEF NoLostWakeup
  <1>9. ASSUME NEW m \in Closer, NotifyAll(m)
        PROVE  FALSE
    BY <1>9 DEF NotifyAll, At
  <1>10. ASSUME NEW m \in Closer, Reset(m)
         PROVE  /\ Len(queue') <= Cardinality(Awake')
                /\ shutdown' => At("notifyAll")' # {}
    BY <1>10, <1>n DEF Reset, Awake, At
  <1>11. CASE UNCHANGED vars
    BY <1>11 DEF vars, NoLostWakeup, Awake, At
  <1> QED
    BY <1>1, <1>2, <1>6, <1>7, <1>8, <1>9, <1>10, <1>11 DEF Next

\* Notifying after the mutex is released loses no wakeup: while a consumer
\* waits, the queued items are outnumbered by the threads on their way to them,
\* and no consumer sleeps through shutdown().
THEOREM NoWakeupLost == Spec => []NoLostWakeup
  <1>1. Init => NoLostWakeup
    BY DEF Init, NoLostWakeup, At
  <1> QED BY <1>1, NoLostWakeupStep, TypeCorrect, PTL DEF Spec

-----------------------------------------------------------------------------
(* Refinement of FifoQueue *)

\* Handing out the head of the queue delivers the next undelivered item.
LEMMA DeliverHead ==
  ASSUME NEW S, NEW r \in Seq(S), NEW q \in Seq(S), q # <<>>
  PROVE  /\ Append(r, Head(q)) \o Tail(q) = r \o q
         /\ Len(r) < Len(r \o q)
         /\ (r \o q)[Len(r) + 1] = Head(q)
  <1>1. /\ Head(q) \in S /\ Tail(q) \in Seq(S)
        /\ Len(q) > 0 /\ Len(Tail(q)) = Len(q) - 1
        /\ Head(q) = q[1]
        /\ \A i \in 1..Len(Tail(q)) : Tail(q)[i] = q[i + 1]
    BY HeadTailProperties
  <1>2. /\ r \o q \in Seq(S)
        /\ Len(r \o q) = Len(r) + Len(q)
        /\ \A i \in 1..Len(r) + Len(q) :
              (r \o q)[i] = IF i <= Len(r) THEN r[i] ELSE q[i - Len(r)]
    OBVIOUS
  <1>3. Append(r, Head(q)) \o Tail(q) \in Seq(S)
    BY <1>1
  <1>4. Len(Append(r, Head(q)) \o Tail(q)) = Len(r) + Len(q)
    BY <1>1
  <1>5. ASSUME NEW i \in 1..Len(r) + Len(q)
        PROVE  (Append(r, Head(q)) \o Tail(q))[i] = (r \o q)[i]
    BY <1>1, <1>2
  <1>6. Append(r, Head(q)) \o Tail(q) = r \o q
    BY <1>2, <1>3, <1>4, <1>5, SeqEqual
  <1> QED BY <1>1, <1>2, <1>6

\* What Return does is nothing or a Receive of the abstract queue.
LEMMA ReturnReceives ==
  ASSUME TypeOK, NEW c \in Consumer, Return(c), UNCHANGED shutdown
  PROVE  Fifo!Receive \/ UNCHANGED Fifo!vars
  <1>1. CASE queue = <<>>
    BY <1>1 DEF Return, Fifo!vars
  <1>2. CASE queue # <<>>
    <2>1. /\ Append(received, Head(queue)) \o Tail(queue) = received \o queue
          /\ Len(received) < Len(received \o queue)
          /\ (received \o queue)[Len(received) + 1] = Head(queue)
      BY <1>2, DeliverHead DEF TypeOK
    <2> QED BY <1>2, <2>1 DEF Return, Fifo!Receive
  <1> QED BY <1>1, <1>2

\* Every step of the queue is one of the abstract queue or leaves it alone.
LEMMA FifoStep == TypeOK /\ [Next]_vars => [Fifo!Next]_Fifo!vars
  <1> SUFFICES ASSUME TypeOK, [Next]_vars PROVE [Fifo!Next]_Fifo!vars
    OBVIOUS
  <1>1. ASSUME NEW p \in Producer, NEW item \in Item, Push(p, item)
        PROVE  Fifo!Send(item)
    <2>1. received \o Append(queue, item) = Append(received \o queue, item)
      BY DEF TypeOK
    <2> QED BY <1>1, <2>1 DEF Push, Fifo!Send
  <1>2. ASSUME NEW c \in Consumer, Pop(c) \/ TryPop(c) \/ Resume(c)
        PROVE  Fifo!Receive \/ UNCHANGED Fifo!vars
    <2>1. (Return(c) \/ Block(c)) /\ UNCHANGED shutdown
      BY <1>2 DEF Pop, TryPop, Resume
    <2> QED BY <2>1, ReturnReceives DEF Block, Fifo!vars
  <1>3. ASSUME NEW m \in Closer, Shutdown(m) PROVE Fifo!Close
    BY <1>3 DEF Shutdown, Fifo!Close
  <1>4. ASSUME NEW m \in Closer, Reset(m) PROVE Fifo!Reset
    BY <1>4 DEF Reset, Fifo!Reset, TypeOK
  <1>5. ASSUME \/ \E p \in Producer : NotifyOne(p)
               \/ \E c \in Consumer : Expire(c) \/ WakeSpuriously(c)
               \/ \E m \in Closer : NotifyAll(m)
               \/ UNCHANGED vars
        PROVE  UNCHANGED Fifo!vars
    BY <1>5
       DEF NotifyOne, Expire, WakeSpuriously, NotifyAll, vars, Fifo!vars
  <1> QED BY <1>1, <1>2, <1>3, <1>4, <1>5 DEF Next, Fifo!Next

\* Mutex, condition variable, timeouts and all, the queue implements the
\* specification its callers rely on.
THEOREM Refinement == Spec => ImplementsFifo
  <1>1. Init => Fifo!Init
    BY DEF Init, Fifo!Init
  <1> QED BY <1>1, FifoStep, TypeCorrect, PTL DEF Spec, ImplementsFifo, Fifo!Spec
=============================================================================
