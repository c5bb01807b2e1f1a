----------------------------- MODULE LoggerProofs -----------------------------
(***************************************************************************)
(* Theorems about Logger, for any number of threads and calls: types, what *)
(* can be lost, and the order of the file.                                 *)
(***************************************************************************)
EXTENDS Logger, SequenceTheorems, TLAPS

-----------------------------------------------------------------------------
(* Types *)

\* The initial state is well-typed.
LEMMA InitTypeOK == Init => TypeOK
  <1> SUFFICES ASSUME Init PROVE TypeOK
    OBVIOUS
  <1>1. sent = <<>> /\ received = <<>> /\ written = <<>> /\ closed = FALSE
    BY DEF Init, Queue!Init
  <1>2. Len(received) = 0 /\ Len(written) = 0 /\ <<>> \in Seq(LogEntry)
    BY <1>1, EmptySeq
  <1>3. Len(received) = Len(written) + (IF worker = "write" THEN 1 ELSE 0)
    BY <1>2 DEF Init
  <1>4. calls \in [Thread -> Nat] /\ seen \in Nat /\ is_open = FALSE
    BY DEF Init
  <1>5. /\ sent \in Seq(LogEntry) /\ received \in Seq(LogEntry)
        /\ written \in Seq(LogEntry) /\ closed \in BOOLEAN
    BY <1>1, <1>2
  <1> QED BY <1>1, <1>3, <1>4, <1>5 DEF Init, TypeOK

\* So is every next one.
LEMMA StepTypeOK == TypeOK /\ [Next]_vars => TypeOK'
  <1> SUFFICES ASSUME TypeOK, [Next]_vars PROVE TypeOK'
    OBVIOUS
  <1> USE DEF queue
  <1>1. ASSUME NEW t \in Thread, NEW level \in Level, Log(t, level) PROVE TypeOK'
    <2>1. calls' \in [Thread -> Nat] /\ calls'[t] \in Nat
      BY <1>1 DEF Log, TypeOK
    <2>2. [by |-> t, nr |-> calls'[t], level |-> level] \in LogEntry
      BY <2>1 DEF LogEntry
    <2>3. pushing' \subseteq LogEntry
      BY <1>1, <2>2 DEF Log, TypeOK
    <2> QED BY <1>1, <2>1, <2>3 DEF Log, TypeOK
  <1>2. ASSUME NEW entry \in pushing, Push(entry) PROVE TypeOK'
    <2>1. entry \in LogEntry
      BY DEF TypeOK
    <2>2. sent' \in Seq(LogEntry) /\ received' = received /\ closed' = closed
      <3>1. CASE closed
        BY <1>2, <3>1 DEF Push, TypeOK
      <3>2. CASE ~closed
        <4>1. Queue!Send(entry)
          BY <1>2, <3>2 DEF Push
        <4> QED BY <2>1, <4>1 DEF Queue!Send, TypeOK
      <3> QED BY <3>1, <3>2
    <2> QED BY <1>2, <2>2 DEF Push, TypeOK
  <1>3. CASE PopEntry
    <2>1. /\ Len(received) \in Nat /\ Len(sent) \in Nat /\ Len(received) < Len(sent)
          /\ received' = Append(received, sent[Len(received) + 1])
          /\ sent' = sent /\ closed' = closed
      BY <1>3 DEF PopEntry, Queue!Receive, TypeOK
    <2>2. sent[Len(received) + 1] \in LogEntry
      BY <2>1 DEF TypeOK
    <2>3. received' \in Seq(LogEntry) /\ Len(received') = Len(received) + 1
      BY <2>1, <2>2 DEF TypeOK
    <2> QED BY <1>3, <2>1, <2>3 DEF PopEntry, TypeOK
  <1>4. CASE PopNothing
    BY <1>4 DEF PopNothing, TypeOK
  <1>5. CASE TestShutdown
    BY <1>5 DEF TestShutdown, TypeOK
  <1>6. CASE WriteEntry
    <2>1. CASE is_open
      <3>1. Len(received) = Len(written) + 1 /\ Len(written) \in Nat
        BY <1>6, <2>1 DEF WriteEntry, TypeOK
      <3>2. received[Len(received)] \in LogEntry
        BY <3>1 DEF TypeOK
      <3>3. written' \in Seq(LogEntry) /\ Len(written') = Len(written) + 1
        BY <1>6, <2>1, <3>2 DEF WriteEntry, TypeOK
      <3> QED BY <1>6, <2>1, <3>1, <3>3 DEF WriteEntry, TypeOK
    <2>2. CASE ~is_open
      <3>1. /\ written' = written /\ worker = "write" /\ worker' = "pop"
            /\ UNCHANGED <<sent, received, closed, initialized, is_open, calls, pushing>>
            /\ UNCHANGED <<main, seen>>
        BY <1>6, <2>2 DEF WriteEntry
      <3>2. main # "start"
        BY <3>1 DEF TypeOK
      <3> QED BY <2>2, <3>1, <3>2 DEF TypeOK
    <2> QED BY <2>1, <2>2
  <1>7. CASE Start
    <2>1. /\ worker' = "pop" /\ main' = "run" /\ initialized' = TRUE
          /\ is_open' \in BOOLEAN
          /\ UNCHANGED <<sent, received, closed, calls, pushing, written, seen>>
      BY <1>7 DEF Start
    <2>2. worker = "none" /\ Len(received) = Len(written) + 0
      BY <1>7 DEF Start, TypeOK
    <2>3. written = <<>>
      BY <2>2 DEF TypeOK
    <2> QED BY <2>1, <2>2, <2>3 DEF TypeOK
  <1>8. CASE Shutdown
    BY <1>8 DEF Shutdown, Queue!Close, TypeOK
  <1>9. CASE Join
    BY <1>9 DEF Join, TypeOK
  <1>10. CASE UNCHANGED vars
    BY <1>10 DEF vars, TypeOK
  <1> QED
    BY <1>1, <1>2, <1>3, <1>4, <1>5, <1>6, <1>7, <1>8, <1>9, <1>10 DEF Next, WorkerStep

\* Types are kept, and the worker holds at most one entry that is not in the file.
THEOREM TypeCorrect == Spec => []TypeOK
  BY InitTypeOK, StepTypeOK, PTL DEF Spec

-----------------------------------------------------------------------------
(* What can be lost *)

\* What was popped is a prefix of what was accepted, the file is a prefix of what
\* was popped, and a worker that has found the queue empty had popped all of it.
PrefixInv ==
    /\ Len(written) <= Len(received)
    /\ Len(received) <= Len(sent)
    /\ \A i \in 1..Len(received) : received[i] = sent[i]
    /\ \A i \in 1..Len(written) : written[i] = received[i]
    /\ worker \in {"empty", "done"} => Len(received) = seen

\* Each queue operation appends at an end.
LEMMA StepPrefix == TypeOK /\ PrefixInv /\ [Next]_vars => PrefixInv'
  <1> SUFFICES ASSUME TypeOK, PrefixInv, [Next]_vars PROVE PrefixInv'
    OBVIOUS
  <1> USE DEF queue
  <1>1. CASE UNCHANGED <<sent, received, written, worker, seen>>
    BY <1>1 DEF PrefixInv
  <1>2. ASSUME NEW entry \in pushing, Push(entry) PROVE PrefixInv'
    <2>1. CASE closed
      BY <1>2, <2>1 DEF Push, PrefixInv
    <2>2. CASE ~closed
      <3>1. /\ sent' = Append(sent, entry)
            /\ UNCHANGED <<received, written, worker, seen>>
        BY <1>2, <2>2 DEF Push, Queue!Send
      <3>2. /\ Len(sent') = Len(sent) + 1 /\ Len(sent) \in Nat /\ Len(received) \in Nat
            /\ \A i \in 1..Len(sent) : sent'[i] = sent[i]
        BY <3>1 DEF TypeOK
      <3> QED BY <3>1, <3>2 DEF PrefixInv
    <2> QED BY <2>1, <2>2
  <1>3. CASE PopEntry
    <2>1. /\ received' = Append(received, sent[Len(received) + 1])
          /\ Len(received) < Len(sent)
          /\ worker' = "write" /\ UNCHANGED <<sent, written, seen>>
      BY <1>3 DEF PopEntry, Queue!Receive
    <2>2. /\ Len(received') = Len(received) + 1
          /\ Len(received) \in Nat /\ Len(sent) \in Nat
          /\ Len(written) \in Nat
          /\ \A i \in 1..Len(received) : received'[i] = received[i]
          /\ received'[Len(received) + 1] = sent[Len(received) + 1]
      BY <1>3, <2>1 DEF TypeOK
    <2> QED BY <2>1, <2>2 DEF PrefixInv
  <1>4. CASE PopNothing
    <2>1. received = sent /\ seen' = Len(sent)
      BY <1>4 DEF PopNothing
    <2> QED BY <1>4, <2>1 DEF PopNothing, PrefixInv
  <1>5. CASE TestShutdown
    BY <1>5 DEF TestShutdown, PrefixInv
  <1>6. CASE WriteEntry
    <2>1. worker = "write" /\ worker' = "pop" /\ UNCHANGED <<sent, received, seen>>
      BY <1>6 DEF WriteEntry
    <2>2. CASE is_open
      <3>1. /\ written' = Append(written, received[Len(received)])
            /\ Len(received) = Len(written) + 1 /\ Len(written) \in Nat
        BY <1>6, <2>2 DEF WriteEntry, TypeOK
      <3>2. /\ Len(written') = Len(written) + 1
            /\ \A i \in 1..Len(written) : written'[i] = written[i]
            /\ written'[Len(written) + 1] = received[Len(written) + 1]
        BY <3>1 DEF TypeOK
      <3> QED BY <2>1, <3>1, <3>2 DEF PrefixInv
    <2>3. CASE ~is_open
      BY <1>6, <2>1, <2>3 DEF WriteEntry, PrefixInv
    <2> QED BY <2>2, <2>3
  <1>7. CASE Start
    BY <1>7 DEF Start, PrefixInv
  <1>8. CASE Shutdown
    BY <1>8 DEF Shutdown, Queue!Close, PrefixInv
  <1> QED
    BY <1>1, <1>2, <1>3, <1>4, <1>5, <1>6, <1>7, <1>8
    DEF Next, WorkerStep, vars, Log, Join

\* Only an entry accepted after the worker's last look at the queue can be missing
\* from a file that was opened (Logger.cpp:66-72, 92).
THEOREM LossOnlyLate == Spec => []LossIsLate
  <1>1. Init => PrefixInv
    <2> SUFFICES ASSUME Init PROVE PrefixInv
      OBVIOUS
    <2>1. Len(sent) = 0 /\ Len(received) = 0 /\ Len(written) = 0 /\ worker = "none"
      BY EmptySeq DEF Init, Queue!Init
    <2> QED BY <2>1 DEF PrefixInv
  <1>2. TypeOK /\ PrefixInv => LossIsLate
    <2> SUFFICES ASSUME TypeOK, PrefixInv PROVE LossIsLate
      OBVIOUS
    <2>1. /\ DOMAIN written = 1..Len(written) /\ Len(written) \in Nat
          /\ Len(written) <= Len(received) /\ Len(received) \in Nat
          /\ Len(received) <= Len(sent) /\ Len(sent) \in Nat
      BY DEF TypeOK, PrefixInv
    <2>2. (worker = "done" /\ is_open) => Len(written) = Len(received)
      BY <2>1 DEF TypeOK
    <2> QED BY <2>1, <2>2 DEF PrefixInv, LossIsLate
  <1> QED BY TypeCorrect, <1>1, StepPrefix, <1>2, PTL DEF Spec

-----------------------------------------------------------------------------
(* The order of the file *)

\* A thread's entries are accepted in the order of its calls: what it is about to
\* push is its latest call, later than all it has pushed.
OrderInv ==
    /\ \A i \in 1..Len(sent) :
          sent[i].level >= min_level /\ sent[i].nr <= calls[sent[i].by]
    /\ \A i, j \in 1..Len(sent) :
          (i < j /\ sent[i].by = sent[j].by) => sent[i].nr < sent[j].nr
    /\ \A e \in pushing :
          /\ e.level >= min_level /\ e.nr <= calls[e.by]
          /\ \A f \in pushing : f.by = e.by => f = e
          /\ \A i \in 1..Len(sent) : sent[i].by = e.by => sent[i].nr < e.nr

\* A thread is in one call at a time, and every call has a higher number.
LEMMA StepOrder == TypeOK /\ OrderInv /\ [Next]_vars => OrderInv'
  <1> SUFFICES ASSUME TypeOK, OrderInv, [Next]_vars PROVE OrderInv'
    OBVIOUS
  <1> USE DEF queue
  <1>0. /\ Len(sent) \in Nat
        /\ \A i \in 1..Len(sent) : sent[i] \in LogEntry
    BY DEF TypeOK
  <1>1. CASE UNCHANGED <<sent, calls, pushing>>
    BY <1>1 DEF OrderInv
  <1>2. ASSUME NEW t \in Thread, NEW level \in Level, Log(t, level) PROVE OrderInv'
    <2> DEFINE new == [by |-> t, nr |-> calls[t] + 1, level |-> level]
    <2>1. /\ sent' = sent
          /\ calls' = [calls EXCEPT ![t] = @ + 1]
          /\ \A e \in pushing : e.by # t
      BY <1>2 DEF Log, Calling
    <2>2. calls[t] \in Nat /\ calls'[t] = calls[t] + 1
      BY <2>1 DEF TypeOK
    <2>3. \/ pushing' = pushing
          \/ pushing' = pushing \cup {new} /\ level >= min_level
      BY <1>2, <2>2 DEF Log
    <2>4. \A x \in Thread : /\ calls[x] \in Nat /\ calls'[x] \in Nat
                            /\ calls[x] <= calls'[x]
      BY <2>1 DEF TypeOK
    <2>5. new.by = t /\ new.nr = calls[t] + 1 /\ new.level = level
      OBVIOUS
    <2> HIDE DEF new
    <2>6. ASSUME NEW i \in 1..Len(sent)
          PROVE  /\ sent[i].by \in Thread /\ sent[i].nr \in Nat
                 /\ sent[i].level >= min_level /\ sent[i].nr <= calls'[sent[i].by]
      BY <1>0, <2>4 DEF OrderInv, LogEntry
    <2>7. \A i \in 1..Len(sent) : sent[i].by = t => sent[i].nr < new.nr
      BY <1>0, <2>2, <2>5, <2>6 DEF OrderInv, LogEntry
    <2>8. ASSUME NEW e \in pushing
          PROVE  e.by \in Thread /\ e.level >= min_level /\ e.nr <= calls'[e.by]
      <3>1. e.by \in Thread /\ e.nr \in Nat /\ e.nr <= calls[e.by]
        BY DEF TypeOK, LogEntry, OrderInv
      <3> QED BY <2>4, <3>1 DEF OrderInv
    <2>9. ASSUME NEW e \in pushing'
          PROVE  /\ e.level >= min_level /\ e.nr <= calls'[e.by]
                 /\ \A f \in pushing' : f.by = e.by => f = e
                 /\ \A i \in 1..Len(sent) : sent[i].by = e.by => sent[i].nr < e.nr
      <3>1. CASE e \in pushing
        <4>1. e.by # t
          BY <2>1, <3>1
        <4> QED BY <2>3, <2>5, <2>8, <3>1, <4>1 DEF OrderInv
      <3>2. CASE e = new /\ level >= min_level
        BY <2>1, <2>2, <2>3, <2>5, <2>7, <3>2
      <3> QED BY <2>3, <3>1, <3>2
    <2> QED BY <2>1, <2>6, <2>9 DEF OrderInv
  <1>3. ASSUME NEW entry \in pushing, Push(entry) PROVE OrderInv'
    <2>1. pushing' = pushing \ {entry} /\ calls' = calls
      BY <1>3 DEF Push
    <2>2. CASE closed
      BY <1>3, <2>1, <2>2 DEF Push, OrderInv
    <2>3. CASE ~closed
      <3>1. sent' = Append(sent, entry)
        BY <1>3, <2>3 DEF Push, Queue!Send
      <3>2. /\ Len(sent') = Len(sent) + 1
            /\ \A i \in 1..Len(sent) : sent'[i] = sent[i]
            /\ sent'[Len(sent) + 1] = entry
        BY <1>0, <3>1 DEF TypeOK
      <3>3. \A i \in 1..Len(sent') :
               sent'[i].level >= min_level /\ sent'[i].nr <= calls'[sent'[i].by]
        BY <1>0, <2>1, <3>2 DEF OrderInv
      <3>4. \A i, j \in 1..Len(sent') :
               (i < j /\ sent'[i].by = sent'[j].by) => sent'[i].nr < sent'[j].nr
        BY <1>0, <3>2 DEF OrderInv
      <3>5. ASSUME NEW e \in pushing'
            PROVE  \A i \in 1..Len(sent') : sent'[i].by = e.by => sent'[i].nr < e.nr
        <4>1. e \in pushing /\ e # entry /\ e.by # entry.by
          BY <2>1 DEF OrderInv
        <4> QED BY <1>0, <3>2, <4>1 DEF OrderInv
      <3> QED BY <2>1, <3>3, <3>4, <3>5 DEF OrderInv
    <2> QED BY <2>2, <2>3
  <1>4. CASE PopEntry
    BY <1>4 DEF PopEntry, Queue!Receive, OrderInv
  <1>5. CASE Shutdown
    BY <1>5 DEF Shutdown, Queue!Close, OrderInv
  <1> QED
    BY <1>1, <1>2, <1>3, <1>4, <1>5
    DEF Next, WorkerStep, vars, PopNothing, TestShutdown, WriteEntry, Start, Join

\* The file has each thread's entries once, in the order of its calls, and none
\* below min_level_ (Logger.cpp:29-32).
THEOREM FileInOrder == Spec => []WrittenInOrder
  <1>1. Init => OrderInv
    <2> SUFFICES ASSUME Init PROVE OrderInv
      OBVIOUS
    <2>1. Len(sent) = 0 /\ pushing = {}
      BY EmptySeq DEF Init, Queue!Init
    <2> QED BY <2>1 DEF OrderInv
  <1>2. TypeOK /\ LossIsLate /\ OrderInv => WrittenInOrder
    <2> SUFFICES ASSUME TypeOK, LossIsLate, OrderInv PROVE WrittenInOrder
      OBVIOUS
    <2>1. \A i \in DOMAIN written : i \in 1..Len(sent) /\ written[i] = sent[i]
      BY DEF TypeOK, LossIsLate
    <2> QED BY <2>1 DEF OrderInv, WrittenInOrder
  <1> QED BY TypeCorrect, LossOnlyLate, <1>1, StepOrder, <1>2, PTL DEF Spec
=============================================================================
