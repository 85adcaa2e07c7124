-------------------------- MODULE AccumulatorProofs --------------------------
(***************************************************************************)
(* Proofs about Accumulator and the two states of the SecAgg server that   *)
(* use it, for any finite set of tasks, any set of observers and of        *)
(* clients.                                                                *)
(*   - IInv of Accumulator is inductive (IInvInit, IInvStep), one lemma    *)
(*     per kind of step.                                                   *)
(*   - MaskedInputCollection: CollectionInv is inductive, and the          *)
(*     collection implements InputSum.  A step of the collection is a step *)
(*     of the accumulator or leaves it alone, so that IInv carries over;   *)
(*     what is left concerns the queue and the batches.                    *)
(*   - PrngRunning: PrngInv is inductive, with IInv in the same way.       *)
(***************************************************************************)
EXTENDS MaskedInputCollection, PrngRunning, Counting, SequenceTheorems

\* The counters of an accumulator as counts in the vocabulary of Counting.
LEMMA CountersAreCounts ==
  /\ Unfinished = Having(Tasks, task, TaskState \ {"new", "reduced"})
  /\ Working = Having(Tasks, task, {"generating", "reducing"})
BY DEF Unfinished, Working, In, Having

\* The initial state satisfies the invariant: nothing is scheduled or counted.
LEMMA IInvInit == Init => IInv
<1> SUFFICES ASSUME Init PROVE IInv
  OBVIOUS
<1>1. TypeOK
  <2>1. isCancelled \in BOOLEAN /\ unobserved \in BOOLEAN
    BY ZenonT(60) DEF Init
  <2>2. remaining \in Nat /\ active \in Nat
    BY DEF Init
  <2> QED
    BY <2>1, <2>2
    DEF Init, TypeOK, TaskState, CancelState, ObserverState
<1>2. Unfinished = {} /\ Working = {}
  BY DEF Init, Unfinished, Working, In, TaskState
<1>3. CountersExact
  BY <1>2, FS_EmptySet DEF Init, CountersExact
<1>4. QueueSound
  BY NamesDistinct DEF Init, QueueSound
<1>5. CancelSound /\ ValueSound
  BY DEF Init, CancelSound, ValueSound, In
<1> QED
  BY <1>1, <1>3, <1>4, <1>5 DEF IInv

\* What moving one task, from state f[t] to state g[t], does to the two counts.
LEMMA MoveCounts ==
  ASSUME NEW f, NEW g, NEW t \in Tasks,
         \A u \in Tasks \ {t} : g[u] = f[u], NEW S
  PROVE  /\ f[t] \notin S /\ g[t] \in S
              => Cardinality(Having(Tasks, g, S))
                   = Cardinality(Having(Tasks, f, S)) + 1
         /\ f[t] \in S /\ g[t] \notin S
              => Cardinality(Having(Tasks, g, S))
                   = Cardinality(Having(Tasks, f, S)) - 1
         /\ (f[t] \in S <=> g[t] \in S)
              => Having(Tasks, g, S) = Having(Tasks, f, S)
<1>1. ASSUME f[t] \notin S, g[t] \in S
      PROVE  Cardinality(Having(Tasks, g, S))
               = Cardinality(Having(Tasks, f, S)) + 1
  BY <1>1, HavingEnter, TasksFinite
<1>2. ASSUME f[t] \in S, g[t] \notin S
      PROVE  Cardinality(Having(Tasks, g, S))
               = Cardinality(Having(Tasks, f, S)) - 1
  BY <1>2, HavingLeave, TasksFinite
<1>3. ASSUME f[t] \in S <=> g[t] \in S
      PROVE  Having(Tasks, g, S) = Having(Tasks, f, S)
  BY <1>3, HavingStay
<1> QED
  BY <1>1, <1>2, <1>3

\* The same for the variable task, whatever else the step does.
LEMMA MoveTask ==
  ASSUME NEW t \in Tasks,
         \A u \in Tasks \ {t} : task'[u] = task[u]
  PROVE  LET U == TaskState \ {"new", "reduced"}
             W == {"generating", "reducing"}
         IN  /\ task[t] \notin U /\ task'[t] \in U
                  => Cardinality(Unfinished') = Cardinality(Unfinished) + 1
             /\ task[t] \in U /\ task'[t] \notin U
                  => Cardinality(Unfinished') = Cardinality(Unfinished) - 1
             /\ (task[t] \in U <=> task'[t] \in U) => Unfinished' = Unfinished
             /\ task[t] \notin W /\ task'[t] \in W
                  => Cardinality(Working') = Cardinality(Working) + 1
             /\ task[t] \in W /\ task'[t] \notin W
                  => Cardinality(Working') = Cardinality(Working) - 1
             /\ (task[t] \in W <=> task'[t] \in W) => Working' = Working
<1> DEFINE U == TaskState \ {"new", "reduced"}
           W == {"generating", "reducing"}
<1>1. /\ Unfinished = Having(Tasks, task, U)
      /\ Working = Having(Tasks, task, W)
      /\ Unfinished' = Having(Tasks, task', U)
      /\ Working' = Having(Tasks, task', W)
  BY DEF Unfinished, Working, In, Having
<1> HIDE DEF U, W
<1> QED
  BY <1>1, MoveCounts, SMTT(60) DEF U, W

\* Counts are natural numbers, also after a step.
LEMMA CountsNatural ==
  /\ Cardinality(Unfinished) \in Nat /\ Cardinality(Working) \in Nat
  /\ Cardinality(Unfinished') \in Nat /\ Cardinality(Working') \in Nat
<1>1. /\ Cardinality(Unfinished) \in Nat /\ Cardinality(Working) \in Nat
  BY CountersAreCounts, HavingFinite, TasksFinite
<1>2. /\ Unfinished' = Having(Tasks, task', TaskState \ {"new", "reduced"})
      /\ Working' = Having(Tasks, task', {"generating", "reducing"})
  BY DEF Unfinished, Working, In, Having
<1> QED
  BY <1>1, <1>2, HavingFinite, TasksFinite

\* The owner's operations preserve the invariant.
LEMMA OwnerStep == IInv /\ Owner => IInv'
<1> SUFFICES ASSUME IInv, Owner PROVE IInv'
  OBVIOUS
<1> USE DEF TaskState, CancelState, ObserverState
<1>1. ASSUME NEW t \in Tasks, Schedule(t) PROVE IInv'
  <2> USE <1>1 DEF Schedule
  <2>1. /\ Cardinality(Unfinished') = Cardinality(Unfinished) + 1
        /\ Working' = Working
    BY MoveTask DEF IInv, TypeOK
  <2>2. CountersExact'
    BY <2>1 DEF IInv, CountersExact
  <2>3. TypeOK' /\ QueueSound' /\ CancelSound' /\ ValueSound'
    BY DEF IInv, TypeOK, QueueSound, CancelSound, ValueSound, In
  <2> QED
    BY <2>2, <2>3 DEF IInv
<1>2. ASSUME NEW o \in Observers, SetAsyncObserver(o) PROVE IInv'
  <2> USE <1>2 DEF SetAsyncObserver, counters
  <2>1. CountersExact' /\ CancelSound' /\ ValueSound'
    BY DEF IInv, CountersExact, CancelSound, ValueSound, In, Unfinished,
           Working, RefuseObserver, QueueObserver, StoreObserver
  <2>2. CASE RefuseObserver(o) \/ StoreObserver(o)
    <3>1. TypeOK' /\ QueueSound'
      BY <2>2 DEF IInv, TypeOK, QueueSound, RefuseObserver, StoreObserver
    <3> QED
      BY <2>1, <3>1 DEF IInv
  <2>3. CASE QueueObserver(o)
    <3> USE <2>3 DEF QueueObserver
    <3>1. unobserved' \in BOOLEAN /\ isCancelled' \in BOOLEAN
      BY ZenonT(60) DEF IInv, TypeOK
    <3>2. /\ seqQueue' \in Seq(Tasks \cup Observers)
          /\ Len(seqQueue') = Len(seqQueue) + 1
          /\ \A k \in 1..Len(seqQueue) : seqQueue'[k] = seqQueue[k]
          /\ seqQueue'[Len(seqQueue) + 1] = o
      BY AppendProperties DEF IInv, TypeOK
    <3>3. TypeOK'
      BY <3>1, <3>2 DEF IInv, TypeOK
    <3>4. QueueSound'
      BY <3>2, NamesDistinct, LenProperties DEF IInv, TypeOK, QueueSound
    <3> QED
      BY <2>1, <3>3, <3>4 DEF IInv
  <2> QED
    BY <2>2, <2>3
<1>3. CASE GetResultAndCancel
  BY <1>3 DEF GetResultAndCancel, IInv, TypeOK, CountersExact, QueueSound,
              CancelSound, ValueSound, Unfinished, Working, In, OwnerRuns
<1>4. CASE CancelCall
  <2>1. TypeOK'
    BY <1>4 DEF CancelCall, IInv, TypeOK
  <2>2. CancelSound' /\ ValueSound'
    BY <1>4 DEF CancelCall, IInv, TypeOK, CancelSound, ValueSound
  <2>3. CountersExact' /\ QueueSound'
    BY <1>4 DEF CancelCall, IInv, CountersExact, QueueSound, Unfinished,
                Working, In
  <2> QED
    BY <2>1, <2>2, <2>3 DEF IInv
<1>5. CASE CancelWake
  BY <1>5 DEF CancelWake, counters, IInv, TypeOK, CountersExact,
              QueueSound, CancelSound, ValueSound, Unfinished, Working, In
<1> QED
  BY <1>1, <1>2, <1>3, <1>4, <1>5 DEF Owner

\* The steps of the pool's threads preserve the invariant.
LEMMA PoolStep ==
  ASSUME IInv, NEW t \in Tasks, PoolThread(t)
  PROVE  IInv'
<1> USE DEF TaskState, CancelState, ObserverState
<1>1. CASE StartGenerator(t)
  <2> USE <1>1 DEF StartGenerator
  <2>1. TypeOK' /\ QueueSound' /\ ValueSound'
    BY DEF IInv, TypeOK, QueueSound, ValueSound, In
  <2>2. CASE isCancelled
    <3>1. Unfinished' = Unfinished /\ Working' = Working
      BY <2>2, MoveTask DEF IInv, TypeOK
    <3> QED
      BY <2>1, <2>2, <3>1 DEF IInv, CountersExact, CancelSound
  <2>3. CASE ~isCancelled
    <3>1. /\ Unfinished' = Unfinished
          /\ Cardinality(Working') = Cardinality(Working) + 1
      BY <2>3, MoveTask DEF IInv, TypeOK
    <3> QED
      BY <2>1, <2>3, <3>1 DEF IInv, CountersExact, CancelSound
  <2> QED
    BY <2>2, <2>3
<1>2. CASE FinishGenerator(t)
  <2> USE <1>2 DEF FinishGenerator, DecrementActive
  <2>1. /\ Unfinished' = Unfinished
        /\ Cardinality(Working') = Cardinality(Working) - 1
    BY MoveTask DEF IInv, TypeOK
  <2>2. CountersExact' /\ active' \in Nat
    BY <2>1, CountsNatural DEF IInv, CountersExact
  <2>3. TypeOK' /\ QueueSound' /\ ValueSound'
    BY <2>2 DEF IInv, TypeOK, QueueSound, ValueSound, In
  <2>4. CancelSound'
    BY <2>2 DEF IInv, TypeOK, CancelSound
  <2> QED
    BY <2>2, <2>3, <2>4 DEF IInv
<1>3. CASE ScheduleReduce(t)
  <2> USE <1>3 DEF ScheduleReduce, counters
  <2>1. PICK s \in {"skipped", "queued"} : task' = [task EXCEPT ![t] = s]
    OBVIOUS
  <2>2. Unfinished' = Unfinished /\ Working' = Working
    BY <2>1, MoveTask DEF IInv, TypeOK
  <2>3. CountersExact' /\ CancelSound'
    BY <2>2 DEF IInv, CountersExact, CancelSound
  <2>4. ValueSound'
    BY DEF IInv, TypeOK, ValueSound, In
  <2>5. CASE isCancelled
    <3>1. TypeOK' /\ QueueSound'
      BY <2>5 DEF IInv, TypeOK, QueueSound
    <3> QED
      BY <2>3, <2>4, <3>1 DEF IInv
  <2>6. CASE ~isCancelled
    <3>1. /\ seqQueue' \in Seq(Tasks \cup Observers)
          /\ Len(seqQueue') = Len(seqQueue) + 1
          /\ \A k \in 1..Len(seqQueue) : seqQueue'[k] = seqQueue[k]
          /\ seqQueue'[Len(seqQueue) + 1] = t
      <4>1. /\ seqQueue' = Append(seqQueue, t)
            /\ seqQueue \in Seq(Tasks \cup Observers)
            /\ t \in Tasks \cup Observers
        BY <2>6 DEF IInv, TypeOK
      <4> HIDE <1>3 DEF ScheduleReduce
      <4> QED
        BY <4>1, AppendProperties
    <3>2. TypeOK'
      BY <2>6, <3>1 DEF IInv, TypeOK
    <3>3. \A k \in 1..Len(seqQueue) : seqQueue[k] # t
      <4>1. task[t] # "queued"
        OBVIOUS
      <4>2. \A k \in 1..Len(seqQueue) :
              seqQueue[k] \in Tasks => task[seqQueue[k]] = "queued"
        BY DEF IInv, QueueSound
      <4> QED
        BY <4>1, <4>2
    <3>4. QueueSound'
      <4>1. task'[t] = "queued" /\ \A u \in Tasks \ {t} : task'[u] = task[u]
        BY <2>6 DEF IInv, TypeOK
      <4>2. seqRun' = seqRun /\ seqRun # t /\ Len(seqQueue) \in Nat
        BY LenProperties DEF IInv, TypeOK, QueueSound
      <4>3. \A k \in 1..Len(seqQueue') :
              seqQueue'[k] \in Tasks => task'[seqQueue'[k]] = "queued"
        BY <3>1, <3>3, <4>1, <4>2 DEF IInv, QueueSound
      <4>4. \A k, l \in 1..Len(seqQueue') :
              seqQueue'[k] \in Tasks /\ seqQueue'[k] = seqQueue'[l] => k = l
        BY <3>1, <3>3, <4>2 DEF IInv, QueueSound
      <4>5. seqRun' \in Tasks => task'[seqRun'] = "reducing"
        BY <4>1, <4>2 DEF IInv, QueueSound
      <4> QED
        BY <4>3, <4>4, <4>5 DEF QueueSound
    <3> QED
      BY <2>3, <2>4, <3>2, <3>4 DEF IInv
  <2> QED
    BY <2>5, <2>6
<1> QED
  BY <1>1, <1>2, <1>3 DEF PoolThread

\* Taking the head off the sequential queue keeps what QueueSound says of the
\* rest: the head was there once.
LEMMA TailFacts ==
  ASSUME IInv, seqQueue # << >>, seqQueue' = Tail(seqQueue)
  PROVE  /\ Head(seqQueue) \in Tasks => task[Head(seqQueue)] = "queued"
         /\ seqQueue' \in Seq(Tasks \cup Observers)
         /\ \A k \in 1..Len(seqQueue') :
              /\ k + 1 \in 1..Len(seqQueue)
              /\ seqQueue'[k] = seqQueue[k + 1]
              /\ seqQueue[k + 1] \in Tasks => seqQueue[k + 1] # Head(seqQueue)
<1>1. /\ Len(seqQueue) \in Nat \ {0}
      /\ Head(seqQueue) = seqQueue[1]
      /\ Len(seqQueue') = Len(seqQueue) - 1
      /\ seqQueue' \in Seq(Tasks \cup Observers)
      /\ \A k \in 1..Len(seqQueue') : seqQueue'[k] = seqQueue[k + 1]
  BY HeadTailProperties, EmptySeq DEF IInv, TypeOK
<1> QED
  BY <1>1 DEF IInv, QueueSound

\* The steps of the sequential thread preserve the invariant.
LEMMA SequentialStep == IInv /\ SequentialThread => IInv'
<1> SUFFICES ASSUME IInv, SequentialThread PROVE IInv'
  OBVIOUS
<1> USE DEF TaskState, CancelState, ObserverState
<1>1. ASSUME NEW t \in Tasks, StartReduce(t) PROVE IInv'
  <2> USE <1>1 DEF StartReduce
  <2>1. PICK s \in {"skipped", "reducing"} : task' = [task EXCEPT ![t] = s]
    OBVIOUS
  <2>2. task[t] = "queued" /\ seqRun \notin Tasks
    BY TailFacts, NamesDistinct
  <2>3. task'[t] = s /\ \A u \in Tasks \ {t} : task'[u] = task[u]
    BY <2>1 DEF IInv, TypeOK
  <2>4. Unfinished' = Unfinished
    BY <2>2, <2>3, MoveTask
  <2>5. ValueSound'
    BY <2>2, <2>3 DEF IInv, ValueSound, In
  <2>6. /\ \A k \in 1..Len(seqQueue') :
             seqQueue'[k] \in Tasks => task'[seqQueue'[k]] = "queued"
        /\ \A k, l \in 1..Len(seqQueue') :
             seqQueue'[k] \in Tasks /\ seqQueue'[k] = seqQueue'[l] => k = l
    BY <2>3, TailFacts DEF IInv, QueueSound
  <2>7. CASE isCancelled
    <3>1. Working' = Working
      BY <2>2, <2>3, <2>7, MoveTask, SMTT(60) DEF IInv, TypeOK
    <3>2. TypeOK'
      BY <2>7, TailFacts DEF IInv, TypeOK
    <3>3. CountersExact' /\ CancelSound'
      BY <2>4, <2>7, <3>1 DEF IInv, CountersExact, CancelSound
    <3>4. QueueSound'
      BY <2>2, <2>6, <2>7, SMTT(60) DEF QueueSound
    <3> QED
      BY <2>5, <3>2, <3>3, <3>4 DEF IInv
  <2>8. CASE ~isCancelled
    <3>1. Cardinality(Working') = Cardinality(Working) + 1
      BY <2>2, <2>3, <2>8, MoveTask, SMTT(60) DEF IInv, TypeOK
    <3>2. TypeOK'
      BY <2>8, TailFacts DEF IInv, TypeOK
    <3>3. CountersExact' /\ CancelSound'
      BY <2>4, <2>8, <3>1 DEF IInv, CountersExact, CancelSound
    <3>4. seqRun' = t /\ task'[t] = "reducing"
      BY <2>8 DEF IInv, TypeOK
    <3>5. QueueSound'
      BY <2>6, <3>4, ZenonT(60) DEF QueueSound
    <3> QED
      BY <2>5, <3>2, <3>3, <3>5 DEF IInv
  <2> QED
    BY <2>7, <2>8
<1>2. ASSUME NEW t \in Tasks, FinishReduce(t) PROVE IInv'
  <2> USE <1>2 DEF FinishReduce, UpdateCounts, DecrementActive
  <2>1. task[t] = "reducing"
    BY DEF IInv, QueueSound
  <2>2. task'[t] = "reduced" /\ \A u \in Tasks \ {t} : task'[u] = task[u]
    BY DEF IInv, TypeOK
  <2>3. /\ Cardinality(Unfinished') = Cardinality(Unfinished) - 1
        /\ Cardinality(Working') = Cardinality(Working) - 1
    BY <2>1, <2>2, MoveTask
  <2>4. CountersExact' /\ remaining' \in Nat /\ active' \in Nat
    BY <2>3, CountsNatural DEF IInv, CountersExact
  <2>5. seqRun' \in Observers \cup {None}
    BY DEF IInv, TypeOK
  <2>6. unobserved' \in BOOLEAN /\ isCancelled' \in BOOLEAN
    BY ZenonT(60) DEF IInv, TypeOK
  <2>7. TypeOK'
    BY <2>4, <2>5, <2>6 DEF IInv, TypeOK
  <2>8. QueueSound'
    BY <2>1, <2>2, <2>5, NamesDistinct DEF IInv, QueueSound
  <2>9. CancelSound'
    BY <2>4 DEF IInv, TypeOK, CancelSound
  <2>10. ValueSound'
    BY <2>2 DEF IInv, ValueSound, In
  <2> QED
    BY <2>4, <2>7, <2>8, <2>9, <2>10, SMTT(60) DEF IInv
<1>3. ASSUME NEW o \in Observers, StartCallback(o) PROVE IInv'
  <2> USE <1>3 DEF StartCallback, counters
  <2>1. TypeOK'
    BY TailFacts DEF IInv, TypeOK
  <2>2. QueueSound'
    BY TailFacts, NamesDistinct DEF IInv, QueueSound
  <2> QED
    BY <2>1, <2>2 DEF IInv, CountersExact, CancelSound, ValueSound, Unfinished,
                      Working, In
<1>4. ASSUME NEW o \in Observers, FinishCallback(o) PROVE IInv'
  BY <1>4, NamesDistinct
  DEF FinishCallback, counters, IInv, TypeOK, QueueSound, CountersExact,
      CancelSound, ValueSound, Unfinished, Working, In
<1> QED
  BY <1>1, <1>2, <1>3, <1>4 DEF SequentialThread

\* Every step preserves the invariant.
LEMMA IInvStep == IInv /\ [Next]_vars => IInv'
<1>1. IInv /\ UNCHANGED vars => IInv'
  BY DEF vars, counters, IInv, TypeOK, QueueSound, CountersExact, CancelSound,
         ValueSound, Unfinished, Working, In
<1> QED
  BY <1>1, OwnerStep, PoolStep, SequentialStep, SMTT(60) DEF Next

\* The inductive invariant holds in every reachable state.
THEOREM Invariance == Spec => []IInv
BY IInvInit, IInvStep, PTL DEF Spec

\* remaining_sequential_tasks_count_ and active_count_ are exact, for any
\* number of generators, whatever the interleaving and the cancellation.
THEOREM CountersAlwaysExact == Spec => []CountersExact
<1>1. IInv => CountersExact
  BY DEF IInv
<1> QED
  BY <1>1, Invariance, PTL

\* The FCP_CHECK(active_count_ == 0) in GetResultAndCancel never fails for a
\* caller that saw IsIdle().
THEOREM IdleAlwaysInactive == Spec => []IdleIsInactive
<1>1. IInv => IdleIsInactive
  <2> SUFFICES ASSUME IInv, IsIdle PROVE active = 0
    BY DEF IdleIsInactive
  <2>1. IsFiniteSet(Unfinished) /\ Working \in SUBSET Unfinished
    BY CountersAreCounts, HavingFinite, TasksFinite
    DEF Unfinished, Working, In, TaskState
  <2>2. Cardinality(Working) <= Cardinality(Unfinished)
    BY <2>1, FS_Subset
  <2> QED
    BY <2>2, CountsNatural DEF IInv, CountersExact, IsIdle
<1> QED
  BY <1>1, Invariance, PTL

\* After Cancel() has returned no generator and no reduction is running.
THEOREM CancelAlwaysStopsTasks == Spec => []CancelStopsTasks
<1>1. IInv => CancelStopsTasks
  <2> SUFFICES ASSUME IInv, cancel = "returned" PROVE Working = {}
    BY DEF CancelStopsTasks
  <2>1. Cardinality(Working) = 0 /\ IsFiniteSet(Working)
    BY CountersAreCounts, HavingFinite, TasksFinite
    DEF IInv, CancelSound, CountersExact
  <2> QED
    BY <2>1, FS_EmptySet
<1> QED
  BY <1>1, Invariance, PTL

\* The value moved out by GetResultAndCancel contains every scheduled generator.
THEOREM ResultAlwaysComplete == Spec => ResultComplete
<1>1. IInv /\ [Next]_vars
        => [taken' # taken => taken' = In(TaskState \ {"new"})]_vars
  <2> SUFFICES ASSUME IInv, Next, taken' # taken
               PROVE  taken' = In(TaskState \ {"new"})
    BY DEF vars
  <2>1. GetResultAndCancel
    BY DEF Next, Owner, PoolThread, SequentialThread, Schedule, SetAsyncObserver,
           CancelCall, CancelWake, StartGenerator, FinishGenerator,
           ScheduleReduce, StartReduce, FinishReduce, StartCallback,
           FinishCallback
  <2>2. Unfinished = {}
    <3>1. Cardinality(Unfinished) = 0 /\ IsFiniteSet(Unfinished)
      BY <2>1, CountersAreCounts, HavingFinite, TasksFinite
      DEF GetResultAndCancel, IsIdle, IInv, CountersExact
    <3> QED
      BY <3>1, FS_EmptySet
  <2>3. In({"reduced"}) = In(TaskState \ {"new"})
    BY <2>2 DEF Unfinished, In, TaskState
  <2> QED
    BY <2>1, <2>3 DEF GetResultAndCancel, IInv, ValueSound
<1> QED
  BY <1>1, Invariance, PTL DEF Spec, ResultComplete

-----------------------------------------------------------------------------
(* MaskedInputCollection *)

\* What CollectionInv says of the queue, the batches and the phase.
Sound == BatchesSound /\ TakerSound /\ BatchPlaced /\ PhaseSound

\* Every step of the collection is one of the accumulator, or leaves it alone.
LEMMA StepsOfAccumulator == CollectionNext => [Next]_vars
BY DEF CollectionNext, ServerThread, Enqueue, SetAsyncCallback, Finalize, HandleAbort,
       CollectionWake, ScheduleTask, Pool, TakeMaskedInputQueue, Next, Owner, PoolThread

\* At the start nothing is queued and no task has a batch.
LEMMA CollectionInvInit == CollectionInit => CollectionInv
<1> SUFFICES ASSUME CollectionInit PROVE CollectionInv
  OBVIOUS
<1>1. IInv
  BY IInvInit DEF CollectionInit
<1>2. BatchesSound
  BY NoneIsNoBatch, ZenonT(60) DEF CollectionInit, BatchesSound, CollectionTypeOK
<1>3. Takers = {}
  BY DEF CollectionInit, Init, Takers
<1>4. TakerSound /\ BatchPlaced /\ PhaseSound
  BY <1>3 DEF CollectionInit, Init, TakerSound, BatchPlaced, PhaseSound, InputsOf
<1> QED
  BY <1>1, <1>2, <1>4 DEF CollectionInv

\* An input that is queued: the server's thread schedules a task if and only if
\* the queue was empty, hence if and only if nobody else is going to take it.
LEMMA EnqueueSound ==
  ASSUME CollectionInv, NEW c \in Clients, Enqueue(c)
  PROVE  Sound'
<1> USE DEF CollectionInv
<1>1. UNCHANGED <<task, batch, isCancelled, cancel, phase>> /\ phase = "open" /\ ~toSchedule
  BY DEF Enqueue, vars, counters, ServerIdle
<1>2. /\ c \notin accepted /\ accepted' = accepted \cup {c} /\ queue' = queue \cup {c}
      /\ toSchedule' = (queue = {})
  BY DEF Enqueue
<1>3. \A t \in Tasks : batch[t] # None => batch[t] \subseteq accepted
  BY DEF BatchesSound, CollectionTypeOK
<1>4. BatchesSound'
  BY <1>1, <1>2, <1>3 DEF BatchesSound, CollectionTypeOK
<1>5. Takers' = Takers
  BY <1>1 DEF Takers
<1>6. TakerSound'
  BY <1>1, <1>2, <1>5, ZenonT(60) DEF TakerSound
<1>7. InputsOf(Tasks)' = InputsOf(Tasks)
  BY <1>1 DEF InputsOf
<1>8. BatchPlaced'
  BY <1>1, <1>2, <1>3, <1>7 DEF BatchPlaced
<1>9. PhaseSound'
  BY <1>1 DEF PhaseSound
<1> QED
  BY <1>4, <1>6, <1>8, <1>9 DEF Sound

\* The task that is scheduled for the queue is the one that will take it.
LEMMA ScheduleTaskSound ==
  ASSUME CollectionInv, ScheduleTask
  PROVE  Sound'
<1> USE DEF CollectionInv
<1>1. PICK t \in Tasks : Schedule(t)
  BY DEF ScheduleTask
<1>2. /\ UNCHANGED <<accepted, queue, batch, phase, isCancelled, cancel>>
      /\ toSchedule /\ toSchedule' = FALSE
  <2>1. UNCHANGED <<accepted, queue, batch, phase>> /\ toSchedule /\ toSchedule' = FALSE
    BY DEF ScheduleTask
  <2>2. UNCHANGED <<isCancelled, cancel>>
    BY <1>1 DEF Schedule
  <2> QED
    BY <2>1, <2>2
<1>3. /\ task[t] = "new" /\ task'[t] = "scheduled"
      /\ \A u \in Tasks \ {t} : task'[u] = task[u]
  BY <1>1 DEF Schedule, IInv, TypeOK
<1>4. BatchesSound'
  BY <1>2, ZenonT(60) DEF BatchesSound, CollectionTypeOK
<1>5. batch[t] = None
  BY <1>3 DEF BatchPlaced
<1>6. Takers = {} /\ queue # {} /\ phase = "open"
  BY <1>2 DEF TakerSound
<1>7. Takers' = {t}
  BY <1>2, <1>3, <1>5, <1>6 DEF Takers
<1>8. TakerSound'
  BY <1>2, <1>6, <1>7 DEF TakerSound
<1>9. BatchPlaced'
  <2>1. InputsOf(Tasks)' = InputsOf(Tasks)
    BY <1>2 DEF InputsOf
  <2> QED
    BY <1>2, <1>3, <1>5, <2>1 DEF BatchPlaced
<1>10. PhaseSound'
  BY <1>2, <1>6 DEF PhaseSound
<1> QED
  BY <1>4, <1>8, <1>9, <1>10 DEF Sound

\* The generator takes the queue, which is not empty: it is the only taker.
LEMMA TakeSound ==
  ASSUME CollectionInv, NEW t \in Tasks, TakeMaskedInputQueue(t)
  PROVE  Sound'
<1> USE DEF CollectionInv
<1>1. /\ UNCHANGED <<task, isCancelled, cancel, accepted, toSchedule, phase>>
      /\ task[t] = "generating" /\ batch[t] = None /\ queue' = {}
  BY DEF TakeMaskedInputQueue, vars, counters
<1>2. batch'[t] = queue /\ \A u \in Tasks \ {t} : batch'[u] = batch[u]
  BY DEF TakeMaskedInputQueue, BatchesSound, CollectionTypeOK
<1>3. t \in Takers
  BY <1>1 DEF Takers
<1>4. queue # {} /\ ~toSchedule /\ \A u \in Takers : u = t
  BY <1>3 DEF TakerSound
<1>5. queue \in SUBSET accepted /\ queue # None
  BY NoneIsNoBatch DEF BatchesSound, CollectionTypeOK
<1>6. BatchesSound'
  <2>1. CollectionTypeOK'
    BY <1>1, <1>5 DEF TakeMaskedInputQueue, BatchesSound, CollectionTypeOK
  <2>2. \A u \in Tasks : batch'[u] # {}
    BY <1>2, <1>4 DEF BatchesSound
  <2>3. \A u \in Tasks \ {t} : batch[u] # None => batch[u] \cap queue = {}
    BY DEF BatchPlaced
  <2>4. \A u, v \in Tasks : u # v /\ batch'[u] # None /\ batch'[v] # None
                              => batch'[u] \cap batch'[v] = {}
    BY <1>2, <2>3 DEF BatchesSound
  <2> QED
    BY <2>1, <2>2, <2>4 DEF BatchesSound
<1>7. Takers' = {}
  BY <1>1, <1>2, <1>4, <1>5 DEF Takers
<1>8. TakerSound'
  BY <1>1, <1>4, <1>7 DEF TakerSound
<1>9. BatchPlaced'
  <2>1. \A c \in Clients : c \in queue \/ c \in InputsOf(Tasks) => c \in InputsOf(Tasks)'
    BY <1>1, <1>2, <1>5 DEF InputsOf
  <2>2. accepted' \subseteq queue' \cup InputsOf(Tasks)'
    BY <1>1, <2>1 DEF BatchPlaced, BatchesSound, CollectionTypeOK
  <2> QED
    BY <1>1, <1>2, <1>5, <2>2 DEF BatchPlaced
<1>10. PhaseSound'
  <2>1. Unfinished' = Unfinished
    BY <1>1 DEF Unfinished, In
  <2> QED
    BY <1>1, <2>1 DEF PhaseSound
<1> QED
  BY <1>6, <1>8, <1>9, <1>10 DEF Sound

\* A step of the accumulator that moves one task and leaves the queue, the
\* batches and the cancellation alone.
LEMMA MoveSound ==
  ASSUME CollectionInv, NEW t \in Tasks, UNCHANGED <<inputVars, isCancelled>>,
         cancel = "none" => cancel' = "none",
         task[t] # "new", task'[t] \notin {"new", "scheduled"},
         phase = "final" => Unfinished' = {},
         \A u \in Tasks \ {t} : task'[u] = task[u],
         task'[t] \in {"generated", "queued", "reducing", "reduced"} => batch[t] # None,
         \/ t \in Takers' <=> t \in Takers
         \/ isCancelled /\ t \notin Takers'
  PROVE  Sound'
<1> USE DEF CollectionInv, inputVars
<1>1. BatchesSound'
  BY DEF BatchesSound, CollectionTypeOK
<1>2. Takers' = Takers \/ (isCancelled /\ Takers' \in SUBSET Takers)
  BY DEF Takers
<1>3. TakerSound'
  BY <1>2 DEF TakerSound
<1>4. BatchPlaced'
  <2>1. InputsOf(Tasks)' = InputsOf(Tasks)
    BY DEF InputsOf
  <2> QED
    BY <2>1 DEF BatchPlaced
<1>5. PhaseSound'
  BY DEF PhaseSound
<1> QED
  BY <1>1, <1>3, <1>4, <1>5 DEF Sound

\* A generator that takes nothing: it starts, ends with its batch, or is skipped.
LEMMA PoolSound ==
  ASSUME CollectionInv, NEW t \in Tasks, Pool(t)
  PROVE  Sound'
<1> USE DEF CollectionInv, TaskState
<1>1. UNCHANGED <<inputVars, isCancelled>> /\ (cancel = "none" => cancel' = "none")
  BY DEF Pool, StartGenerator, ScheduleReduce, FinishGenerator, DecrementActive, counters
<1>2. /\ task[t] \in {"scheduled", "generating", "generated"}
      /\ \A u \in Tasks \ {t} : task'[u] = task[u]
  BY DEF Pool, StartGenerator, ScheduleReduce, FinishGenerator, IInv, TypeOK
<1>3. phase # "final"
  BY <1>2 DEF PhaseSound, Unfinished, In
<1>4. CASE StartGenerator(t)
  <2>1. /\ task[t] = "scheduled" /\ batch' = batch
        /\ IF isCancelled THEN task'[t] = "skipped" ELSE task'[t] = "generating"
    BY <1>1, <1>4 DEF StartGenerator, IInv, TypeOK, inputVars
  <2>2. (t \in Takers' <=> t \in Takers) \/ (isCancelled /\ t \notin Takers')
    BY <2>1 DEF Takers
  <2> QED
    BY <1>1, <1>2, <1>3, <2>1, <2>2, MoveSound, SMTT(60)
<1>5. CASE ScheduleReduce(t)
  <2>1. task[t] = "generated" /\ task'[t] \in {"skipped", "queued"} /\ batch' = batch
    BY <1>1, <1>5 DEF ScheduleReduce, IInv, TypeOK, inputVars
  <2>2. batch[t] # None /\ t \notin Takers /\ t \notin Takers'
    BY <2>1 DEF BatchPlaced, Takers
  <2> QED
    BY <1>1, <1>2, <1>3, <2>1, <2>2, MoveSound, SMTT(60)
<1>6. CASE batch[t] # None /\ FinishGenerator(t)
  <2>1. task[t] = "generating" /\ task'[t] = "generated" /\ batch' = batch
    BY <1>1, <1>6 DEF FinishGenerator, IInv, TypeOK, inputVars
  <2>2. t \notin Takers /\ t \notin Takers'
    BY <1>6, <2>1 DEF Takers
  <2> QED
    BY <1>1, <1>2, <1>3, <1>6, <2>1, <2>2, MoveSound, SMTT(60)
<1> QED
  BY <1>4, <1>5, <1>6 DEF Pool

\* A step that moves no task, such as that of an observer.
LEMMA StillSound ==
  ASSUME CollectionInv, UNCHANGED <<inputVars, task, isCancelled>>,
         cancel = "none" => cancel' = "none"
  PROVE  Sound'
<1>1. BatchesSound'
  BY DEF CollectionInv, inputVars, BatchesSound, CollectionTypeOK
<1>2. Takers' = Takers /\ InputsOf(Tasks)' = InputsOf(Tasks) /\ Unfinished' = Unfinished
  BY DEF inputVars, Takers, InputsOf, Unfinished, In
<1>3. TakerSound' /\ BatchPlaced' /\ PhaseSound'
  BY <1>2 DEF CollectionInv, inputVars, TakerSound, BatchPlaced, PhaseSound
<1> QED
  BY <1>1, <1>3 DEF Sound

\* The sequential thread only adds batches that were taken.
LEMMA SequentialSound ==
  ASSUME CollectionInv, SequentialThread, UNCHANGED inputVars
  PROVE  Sound'
<1> USE DEF CollectionInv, TaskState
<1>1. ASSUME NEW t \in Tasks, StartReduce(t) PROVE Sound'
  <2>1. task[t] = "queued"
    BY <1>1, TailFacts DEF StartReduce
  <2>2. /\ UNCHANGED <<isCancelled, cancel, batch>> /\ task'[t] \in {"skipped", "reducing"}
        /\ \A u \in Tasks \ {t} : task'[u] = task[u]
    BY <1>1 DEF StartReduce, IInv, TypeOK, inputVars
  <2>3. batch[t] # None /\ t \notin Takers /\ t \notin Takers'
    BY <2>1, <2>2 DEF BatchPlaced, Takers
  <2>4. phase # "final"
    BY <2>1 DEF PhaseSound, Unfinished, In
  <2> QED
    BY <2>1, <2>2, <2>3, <2>4, MoveSound
<1>2. ASSUME NEW t \in Tasks, FinishReduce(t) PROVE Sound'
  <2>1. task[t] = "reducing"
    BY <1>2 DEF FinishReduce, IInv, QueueSound
  <2>2. /\ UNCHANGED <<isCancelled, batch>> /\ task'[t] = "reduced"
        /\ \A u \in Tasks \ {t} : task'[u] = task[u]
        /\ cancel = "none" => cancel' = "none"
    BY <1>2 DEF FinishReduce, UpdateCounts, DecrementActive, IInv, TypeOK, inputVars
  <2>3. batch[t] # None /\ t \notin Takers /\ t \notin Takers'
    BY <2>1, <2>2 DEF BatchPlaced, Takers
  <2>4. phase # "final"
    BY <2>1 DEF PhaseSound, Unfinished, In
  <2> QED
    BY <2>1, <2>2, <2>3, <2>4, MoveSound, SMTT(60)
<1>3. ASSUME NEW o \in Observers, StartCallback(o) \/ FinishCallback(o) PROVE Sound'
  <2>1. UNCHANGED <<inputVars, task, isCancelled, cancel>>
    BY <1>3 DEF StartCallback, FinishCallback, counters
  <2> QED
    BY <2>1, StillSound
<1> QED
  BY <1>1, <1>2, <1>3 DEF SequentialThread

\* The idle accumulator that Finalize has seen has no task left to do.
LEMMA IdleUnfinished ==
  ASSUME IInv, IsIdle
  PROVE  Unfinished = {}
<1>1. Cardinality(Unfinished) = 0 /\ IsFiniteSet(Unfinished)
  BY CountersAreCounts, HavingFinite, TasksFinite DEF IsIdle, IInv, CountersExact
<1> QED
  BY <1>1, FS_EmptySet

\* The end of round 2: the result is taken, or the collection is cancelled.
LEMMA EndSound ==
  ASSUME CollectionInv, Finalize \/ HandleAbort
  PROVE  Sound'
<1> USE DEF CollectionInv
<1>1. /\ UNCHANGED <<task, accepted, queue, batch, toSchedule>> /\ ~toSchedule
      /\ isCancelled'
  BY DEF Finalize, HandleAbort, GetResultAndCancel, CancelCall, ServerIdle
<1>2. /\ phase' \in {"final", "cancelled"}
      /\ phase' = "final" => Unfinished = {}
  BY IdleUnfinished DEF Finalize, HandleAbort, GetResultAndCancel
<1>3. BatchesSound'
  BY <1>1, <1>2 DEF BatchesSound, CollectionTypeOK
<1>4. Takers' = Takers /\ InputsOf(Tasks)' = InputsOf(Tasks) /\ Unfinished' = Unfinished
  BY <1>1 DEF Takers, InputsOf, Unfinished, In
<1>5. TakerSound' /\ BatchPlaced' /\ PhaseSound'
  BY <1>1, <1>2, <1>4 DEF TakerSound, BatchPlaced, PhaseSound
<1> QED
  BY <1>3, <1>5 DEF Sound

\* Every step preserves the invariant.
LEMMA CollectionInvStep == CollectionInv /\ [CollectionNext]_allVars => CollectionInv'
<1> SUFFICES ASSUME CollectionInv, [CollectionNext]_allVars PROVE CollectionInv'
  OBVIOUS
<1>1. IInv'
  BY StepsOfAccumulator, IInvStep DEF CollectionInv, allVars
<1>2. ASSUME NEW o \in Observers, SetAsyncCallback(o) PROVE Sound'
  <2>1. UNCHANGED <<inputVars, task, isCancelled, cancel>>
    BY <1>2 DEF SetAsyncCallback, SetAsyncObserver, RefuseObserver, QueueObserver,
                StoreObserver, counters
  <2> QED
    BY <2>1, StillSound
<1>3. ASSUME CollectionWake PROVE Sound'
  <2>1. UNCHANGED <<inputVars, task, isCancelled>> /\ cancel # "none"
    BY <1>3 DEF CollectionWake, CancelWake, counters
  <2>2. cancel = "none" => cancel' = "none"
    BY <2>1
  <2> QED
    BY <2>1, <2>2, StillSound
<1>4. ASSUME UNCHANGED allVars PROVE Sound'
  <2>1. UNCHANGED <<inputVars, task, isCancelled, cancel>>
    BY <1>4 DEF allVars, vars, counters
  <2>2. cancel = "none" => cancel' = "none"
    BY <2>1
  <2> QED
    BY <2>1, <2>2, StillSound
<1>5. ASSUME ServerThread PROVE Sound'
  <2>1. CASE \E c \in Clients : Enqueue(c)
    BY <2>1, EnqueueSound
  <2>2. CASE Finalize \/ HandleAbort
    BY <2>2, EndSound
  <2> QED
    BY <1>2, <1>3, <1>5, <2>1, <2>2 DEF ServerThread
<1>6. ASSUME ScheduleTask PROVE Sound'
  BY <1>6, ScheduleTaskSound
<1>7. ASSUME NEW t \in Tasks, Pool(t) \/ TakeMaskedInputQueue(t) PROVE Sound'
  BY <1>7, PoolSound, TakeSound
<1>8. ASSUME SequentialThread /\ UNCHANGED inputVars PROVE Sound'
  BY <1>8, SequentialSound
<1>9. Sound'
  BY <1>4, <1>5, <1>6, <1>7, <1>8 DEF CollectionNext
<1> QED
  BY <1>1, <1>9 DEF CollectionInv, Sound

\* The inductive invariant holds in every reachable state.
THEOREM CollectionInvariance == CollectionSpec => []CollectionInv
BY CollectionInvInit, CollectionInvStep, PTL DEF CollectionSpec

\* AddReduce's FCP_CHECK cannot fail: every task finds something in the queue, and
\* no input is added twice.
THEOREM BatchesAlwaysSound == CollectionSpec => []BatchesSound
<1>1. CollectionInv => BatchesSound
  BY DEF CollectionInv
<1> QED
  BY <1>1, CollectionInvariance, PTL

\* Once the abort has returned, no task touches the queue or a batch.
THEOREM QueueAlwaysLeftAlone == CollectionSpec => QueueLeftAlone
<1>1. CollectionInv /\ [CollectionNext]_allVars
        => [phase = "cancelled" /\ cancel = "returned" => UNCHANGED <<queue, batch>>]_allVars
  <2> SUFFICES ASSUME CollectionInv, CollectionNext, phase = "cancelled", cancel = "returned"
               PROVE  UNCHANGED <<queue, batch>>
    BY DEF allVars
  <2>1. Working = {}
    <3>1. Cardinality(Working) = 0 /\ IsFiniteSet(Working)
      BY CountersAreCounts, HavingFinite, TasksFinite
      DEF CollectionInv, IInv, CancelSound, CountersExact
    <3> QED
      BY <3>1, FS_EmptySet
  <2>2. \A t \in Tasks : ~TakeMaskedInputQueue(t)
    BY <2>1 DEF TakeMaskedInputQueue, Working, In
  <2>3. \A c \in Clients : ~Enqueue(c)
    BY DEF Enqueue
  <2> QED
    BY <2>2, <2>3 DEF CollectionNext, ServerThread, SetAsyncCallback, Finalize, HandleAbort,
                      CollectionWake, ScheduleTask, Pool, inputVars
<1> QED
  BY <1>1, CollectionInvariance, PTL DEF CollectionSpec, QueueLeftAlone

-----------------------------------------------------------------------------
(* The collection implements InputSum.                                     *)

\* The sum holds accepted inputs, and each is of one task that was reduced.
LEMMA SummedFacts ==
  ASSUME CollectionInv
  PROVE  /\ Summed \in SUBSET accepted
         /\ \A t \in Tasks : task[t] # "reduced" /\ batch[t] # None => batch[t] \cap Summed = {}
<1>1. \A t \in Tasks : batch[t] # None => batch[t] \subseteq accepted
  BY DEF CollectionInv, BatchesSound, CollectionTypeOK
<1> QED
  BY <1>1 DEF CollectionInv, BatchesSound, Summed, InputsOf, In

\* A step that neither accepts an input nor ends a reduction nor changes the phase
\* does not show.
LEMMA NotSeen ==
  ASSUME UNCHANGED <<accepted, phase>>,
         \A t \in Tasks : task'[t] = "reduced" <=> task[t] = "reduced",
         \A t \in Tasks : task[t] = "reduced" => batch'[t] = batch[t]
  PROVE  UNCHANGED Abstract!vars
<1>1. Summed' = Summed
  BY DEF Summed, InputsOf, In
<1> QED
  BY <1>1 DEF Abstract!vars

\* Queueing an input accepts it.
LEMMA EnqueueAccepts ==
  ASSUME CollectionInv, NEW c \in Clients, Enqueue(c)
  PROVE  Abstract!Accept(c)
<1>1. /\ UNCHANGED <<task, batch, phase>> /\ phase = "open"
      /\ c \notin accepted /\ accepted' = accepted \cup {c}
  BY DEF Enqueue, vars
<1>2. Summed' = Summed
  BY <1>1 DEF Summed, InputsOf, In
<1>3. Summed \in SUBSET accepted
  BY SummedFacts
<1> QED
  BY <1>1, <1>2, <1>3 DEF Abstract!Accept

\* The end of a reduction adds the whole batch of its task.
LEMMA ReductionAccumulates ==
  ASSUME CollectionInv, NEW t \in Tasks, FinishReduce(t), UNCHANGED inputVars
  PROVE  Abstract!AccumulateInputs
<1>1. task[t] = "reducing"
  BY DEF CollectionInv, FinishReduce, IInv, QueueSound
<1>2. /\ UNCHANGED <<accepted, batch, phase>> /\ task'[t] = "reduced"
      /\ \A u \in Tasks \ {t} : task'[u] = task[u]
  BY DEF FinishReduce, inputVars, CollectionInv, IInv, TypeOK
<1>3. batch[t] # None /\ batch[t] # {} /\ batch[t] \in SUBSET accepted /\ accepted \in SUBSET Clients
  BY <1>1 DEF CollectionInv, BatchPlaced, BatchesSound, CollectionTypeOK
<1>4. phase # "final"
  BY <1>1 DEF CollectionInv, PhaseSound, Unfinished, In, TaskState
<1>5. Summed' = Summed \cup batch[t]
  BY <1>2, <1>3 DEF Summed, InputsOf, In
<1>6. batch[t] \in SUBSET (accepted \ Summed) /\ accepted' \ Summed' = (accepted \ Summed) \ batch[t]
  BY <1>1, <1>2, <1>3, <1>5, SummedFacts, SMTT(60)
<1> QED
  BY <1>2, <1>3, <1>4, <1>5, <1>6, SMTT(60) DEF Abstract!AccumulateInputs

\* Round 3 begins when every accepted input is in the sum.
LEMMA FinalizeFinalizes ==
  ASSUME CollectionInv, Finalize
  PROVE  Abstract!Finalize
<1>1. /\ UNCHANGED <<task, accepted, batch>> /\ phase = "open" /\ phase' = "final"
      /\ ~toSchedule /\ ~isCancelled /\ IsIdle
  BY DEF Finalize, GetResultAndCancel, ServerIdle
<1>2. Unfinished = {}
  BY <1>1, IdleUnfinished DEF CollectionInv
<1>3. \A t \in Tasks : task[t] \in {"new", "reduced"}
  BY <1>2 DEF Unfinished, In, CollectionInv, IInv, TypeOK
<1>4. queue = {}
  BY <1>1, <1>3, SMTT(60) DEF CollectionInv, TakerSound, Takers, BatchPlaced
<1>5. accepted \subseteq Summed
  BY <1>3, <1>4 DEF CollectionInv, BatchPlaced, Summed, InputsOf, In
<1>6. Summed' = Summed
  BY <1>1 DEF Summed, InputsOf, In
<1> QED
  BY <1>1, <1>5, <1>6 DEF Abstract!Finalize

\* Every step of the collection is a step of InputSum, or does not show there.
LEMMA CollectionRefines ==
  ASSUME CollectionInv, [CollectionNext]_allVars
  PROVE  [Abstract!Next]_(Abstract!vars)
<1> USE DEF CollectionInv
<1>1. ASSUME NEW c \in Clients, Enqueue(c) PROVE Abstract!Next
  BY <1>1, EnqueueAccepts DEF Abstract!Next
<1>2. ASSUME Finalize PROVE Abstract!Next
  BY <1>2, FinalizeFinalizes DEF Abstract!Next
<1>3. ASSUME HandleAbort PROVE Abstract!Next
  <2>1. UNCHANGED <<task, accepted, batch>> /\ phase = "open" /\ phase' = "cancelled"
    BY <1>3 DEF HandleAbort, CancelCall
  <2>2. Summed' = Summed
    BY <2>1 DEF Summed, InputsOf, In
  <2> QED
    BY <2>1, <2>2 DEF Abstract!Next, Abstract!Cancel
<1>4. ASSUME NEW t \in Tasks, FinishReduce(t), UNCHANGED inputVars PROVE Abstract!Next
  BY <1>4, ReductionAccumulates DEF Abstract!Next
<1>5. ASSUME UNCHANGED <<accepted, batch, phase, task>> PROVE UNCHANGED Abstract!vars
  BY <1>5, NotSeen
<1>6. ASSUME NEW o \in Observers, SetAsyncCallback(o) PROVE UNCHANGED Abstract!vars
  BY <1>5, <1>6 DEF SetAsyncCallback, SetAsyncObserver, inputVars
<1>7. ASSUME CollectionWake PROVE UNCHANGED Abstract!vars
  BY <1>5, <1>7 DEF CollectionWake, CancelWake, inputVars
<1>8. ASSUME ScheduleTask PROVE UNCHANGED Abstract!vars
  <2>1. PICK t \in Tasks : Schedule(t)
    BY <1>8 DEF ScheduleTask
  <2>2. \A u \in Tasks : task'[u] = "reduced" <=> task[u] = "reduced"
    BY <2>1 DEF Schedule, IInv, TypeOK
  <2> QED
    BY <1>8, <2>2, NotSeen DEF ScheduleTask
<1>9. ASSUME NEW t \in Tasks, Pool(t) PROVE UNCHANGED Abstract!vars
  <2>1. \A u \in Tasks : task'[u] = "reduced" <=> task[u] = "reduced"
    BY <1>9 DEF Pool, StartGenerator, ScheduleReduce, FinishGenerator, IInv, TypeOK
  <2> QED
    BY <1>9, <2>1, NotSeen, SMTT(60) DEF Pool, inputVars
<1>10. ASSUME NEW t \in Tasks, TakeMaskedInputQueue(t) PROVE UNCHANGED Abstract!vars
  <2>1. UNCHANGED <<accepted, phase, task>> /\ task[t] = "generating"
    BY <1>10 DEF TakeMaskedInputQueue, vars
  <2>2. \A u \in Tasks \ {t} : batch'[u] = batch[u]
    BY <1>10 DEF TakeMaskedInputQueue, BatchesSound, CollectionTypeOK
  <2> QED
    BY <2>1, <2>2, NotSeen
<1>11. ASSUME NEW t \in Tasks, StartReduce(t), UNCHANGED inputVars PROVE UNCHANGED Abstract!vars
  <2>1. task[t] = "queued"
    BY <1>11, TailFacts, SMTT(60) DEF StartReduce
  <2>2. \A u \in Tasks : task'[u] = "reduced" <=> task[u] = "reduced"
    BY <1>11, <2>1 DEF StartReduce, IInv, TypeOK
  <2> QED
    BY <1>11, <2>2, NotSeen, SMTT(60) DEF inputVars
<1>12. ASSUME NEW o \in Observers, StartCallback(o) \/ FinishCallback(o), UNCHANGED inputVars
       PROVE  UNCHANGED Abstract!vars
  BY <1>5, <1>12 DEF StartCallback, FinishCallback, inputVars
<1>13. ASSUME SequentialThread /\ UNCHANGED inputVars PROVE [Abstract!Next]_(Abstract!vars)
  BY <1>4, <1>11, <1>12, <1>13, SMTT(60) DEF SequentialThread
<1>14. ASSUME ServerThread PROVE [Abstract!Next]_(Abstract!vars)
  BY <1>1, <1>2, <1>3, <1>6, <1>7, <1>14, SMTT(60) DEF ServerThread
<1>15. ASSUME UNCHANGED allVars PROVE UNCHANGED Abstract!vars
  BY <1>5, <1>15 DEF allVars, vars, inputVars
<1> QED
  BY <1>8, <1>9, <1>10, <1>13, <1>14, <1>15, SMTT(60) DEF CollectionNext

\* The asynchronous round 2 does what SecAggServer relies on: an accepted input is
\* added once, and round 3 begins only when every accepted input is in the sum.
THEOREM Implementation == CollectionSpec => Implements
<1>1. CollectionInit => Abstract!Init
  BY DEF CollectionInit, Init, Abstract!Init, Summed, InputsOf, In
<1>2. CollectionInv /\ [CollectionNext]_allVars => [Abstract!Next]_(Abstract!vars)
  BY CollectionRefines
<1> QED
  BY <1>1, <1>2, CollectionInvariance, PTL DEF CollectionSpec, Implements, Abstract!Spec

-----------------------------------------------------------------------------
(* PrngRunning *)

\* The queue of the sequential scheduler holds everything once; what it runs and
\* what it holds of the callbacks is marked so; only the observer of StartPrng is
\* ever given to the accumulator.
PrngQueueSound ==
  /\ \A i \in 1..Len(seqQueue) : seqQueue[i] \in Observers => observer[seqQueue[i]] = "queued"
  /\ \A i, j \in 1..Len(seqQueue) : seqQueue[i] = seqQueue[j] => i = j
  /\ \A o \in Observers : seqRun = o <=> observer[o] = "running"
  /\ callback = IF observer[Prng] = "pending" THEN Prng ELSE None

\* How far StartPrng, its observer and an abort have come.
PrngProgress ==
  /\ prngPhase \in {"entering", "scheduling"} =>
       observer[Prng] = "new" /\ completion = None
  /\ token <=> observer[Prng] # "new"
  /\ token => In({"new"}) = {} /\ completion # "error"
  /\ observer[Prng] \in {"queued", "running", "done"} => remaining = 0
  /\ step # "none" => observer[Prng] \in {"running", "done"}
  /\ step = "called" <=> observer[Prng] = "done"
  /\ step \in {"finished", "called"} <=> completion = "ok"
  /\ prngPhase = "aborting" /\ token => cancel # "none"
  /\ prngPhase = "left" /\ token /\ completion = None => cancel # "none"

\* The observer takes the value once, when every batch has been added to it.
PrngValue ==
  IF step = "none" THEN accumulated = In({"reduced"}) ELSE taken = Tasks

\* A callback is called at most once: by PrngRunnerFinished or from the queue.
CallsCounted ==
  /\ \A k \in Callbacks : doneCallback = k \/ toCall = k => observer[k] = "pending"
  /\ step \in {"none", "taken"} => toCall = None
  /\ \A k \in Callbacks :
       calls[k] = IF observer[k] = "done" \/ (step = "called" /\ toCall = k) THEN 1 ELSE 0

PrngTypes ==
  /\ prngPhase \in {"entering", "scheduling", "entered", "aborting", "left"}
  /\ completion \in {None, "ok", "error"}
  /\ doneCallback \in Callbacks \cup {None} /\ toCall \in Callbacks \cup {None}
  /\ token \in BOOLEAN
  /\ step \in {"none", "taken", "finished", "called"}
  /\ calls \in [Callbacks -> Nat]

PrngInv ==
  IInv /\ PrngTypes /\ PrngQueueSound /\ PrngProgress /\ PrngValue /\ CallsCounted

-----------------------------------------------------------------------------
\* An accumulator that was given all its tasks and is idle has reduced them all.
LEMMA IdleAllReduced ==
  ASSUME IInv, In({"new"}) = {}, remaining = 0
  PROVE  In({"reduced"}) = Tasks /\ Unfinished = {} /\ active = 0
<1>1. IsFiniteSet(Unfinished) /\ IsFiniteSet(Working)
  BY CountersAreCounts, HavingFinite, TasksFinite
<1>2. Unfinished = {}
  BY <1>1, FS_EmptySet, ZenonT(60) DEF IInv, CountersExact
<1>3. In({"reduced"}) = Tasks
  BY <1>2 DEF IInv, TypeOK, Unfinished, In
<1>4. Working = {}
  BY <1>2 DEF Working, Unfinished, In, TaskState
<1>5. active = 0
  BY <1>4, FS_EmptySet DEF IInv, CountersExact
<1> QED
  BY <1>2, <1>3, <1>5

\* The initial state satisfies the invariant.
LEMMA PrngInitHolds == PrngInit => PrngInv
<1> SUFFICES ASSUME PrngInit PROVE PrngInv
  OBVIOUS
<1> USE DEF PrngInit
<1>1. IInv
  BY IInvInit
<1>2. PrngTypes
  <2>1. token \in BOOLEAN
    BY ZenonT(60)
  <2> QED
    BY <2>1 DEF PrngTypes
<1>3. PrngQueueSound /\ PrngProgress /\ PrngValue
  BY PrngAssumption, StatusAssumption, NamesDistinct
  DEF PrngQueueSound, PrngProgress, PrngValue, Init, In
<1>4. CallsCounted
  BY NamesDistinct DEF CallsCounted, Callbacks, Init
<1> QED
  BY <1>1, <1>2, <1>3, <1>4 DEF PrngInv

\* What SetAsyncCallback and the observer's GetResultAndCancel do to the
\* accumulator keeps its invariant; every other step is one of its own.
LEMMA PrngKeepsIInv == PrngInv /\ [PrngNext]_prngVars => IInv'
<1> SUFFICES ASSUME PrngInv, [PrngNext]_prngVars PROVE IInv'
  OBVIOUS
<1>1. IInv
  BY DEF PrngInv
<1>2. CASE [Next]_vars
  BY <1>1, <1>2, IInvStep
<1>3. CASE TakeResult
  <2> USE <1>3 DEF TakeResult
  <2>1. isCancelled' \in BOOLEAN /\ unobserved' \in BOOLEAN
    BY <1>1, ZenonT(60) DEF IInv, TypeOK
  <2>2. TypeOK'
    BY <1>1, <2>1 DEF IInv, TypeOK
  <2>3. CountersExact' /\ QueueSound' /\ CancelSound' /\ ValueSound'
    BY <1>1 DEF IInv, CountersExact, QueueSound, CancelSound, ValueSound, In, Unfinished,
                Working
  <2> QED
    BY <2>2, <2>3 DEF IInv
<1>4. ASSUME NEW k \in Callbacks, SetDoneCallback(k) PROVE IInv'
  <2> USE <1>4 DEF SetDoneCallback, counters
  <2>1. CountersExact' /\ CancelSound' /\ ValueSound'
    BY <1>1 DEF IInv, CountersExact, CancelSound, ValueSound, In, Unfinished, Working
  <2>2. isCancelled' \in BOOLEAN /\ unobserved' \in BOOLEAN
    BY <1>1, ZenonT(60) DEF IInv, TypeOK
  <2>3. k \in Observers /\ k \notin Tasks
    BY NamesDistinct DEF Callbacks
  <2>4. TypeOK'
    BY <1>1, <2>2, <2>3 DEF IInv, TypeOK, ObserverState
  <2>5. QueueSound'
    <3>1. CASE seqQueue' = seqQueue
      BY <1>1, <3>1 DEF IInv, QueueSound
    <3>2. CASE seqQueue' = Append(seqQueue, k)
      <4>1. /\ Len(seqQueue) \in Nat /\ Len(seqQueue') = Len(seqQueue) + 1
            /\ \A i \in 1..Len(seqQueue) : seqQueue'[i] = seqQueue[i]
            /\ seqQueue'[Len(seqQueue) + 1] = k
        BY <1>1, <2>3, <3>2, AppendProperties DEF IInv, TypeOK
      <4> QED
        BY <1>1, <2>3, <4>1 DEF IInv, QueueSound
    <3> QED
      BY <3>1, <3>2
  <2> QED
    BY <2>1, <2>4, <2>5 DEF IInv
<1>5. CASE ProceedToNextRound \/ PrngAbort \/ AbortReturns \/ PrngRunnerFinished
           \/ InitializeFails \/ InitializeSucceeds \/ UNCHANGED prngVars
  BY <1>2, <1>5 DEF ProceedToNextRound, PrngAbort, AbortReturns, PrngRunnerFinished,
                    InitializeFails, InitializeSucceeds, prngVars, Next, Owner
<1>6. CASE ScheduleBatch \/ StartPrngEnds \/ Waking
  BY <1>2, <1>6, PrngAssumption DEF ScheduleBatch, StartPrngEnds, Waking, Next, Owner
<1>7. CASE \E t \in Tasks : PoolThread(t)
  BY <1>2, <1>7 DEF Next
<1>8. CASE \/ \E t \in Tasks : StartReduce(t) \/ FinishReduce(t)
           \/ \E o \in Observers : StartCallback(o)
           \/ CallDoneCallback \/ \E k \in Callbacks : RunCallback(k)
  BY <1>2, <1>8, PrngAssumption
  DEF Next, SequentialThread, CallDoneCallback, RunCallback, Callbacks
<1> QED
  BY <1>3, <1>4, <1>5, <1>6, <1>7, <1>8 DEF PrngNext, EnterState, Sequential

\* The types, step by step.
LEMMA PrngKeepsTypes == PrngInv /\ [PrngNext]_prngVars => PrngTypes'
<1> SUFFICES ASSUME PrngInv, [PrngNext]_prngVars PROVE PrngTypes'
  OBVIOUS
<1>0. PrngTypes
  BY DEF PrngInv
<1>1. CASE UNCHANGED stateVars
  BY <1>0, <1>1 DEF PrngTypes, stateVars
<1>2. CASE InitializeFails \/ InitializeSucceeds \/ ProceedToNextRound \/ PrngAbort
           \/ AbortReturns \/ TakeResult \/ PrngRunnerFinished
           \/ \E k \in Callbacks : SetDoneCallback(k)
  BY <1>0, <1>2 DEF PrngTypes, InitializeFails, InitializeSucceeds, ProceedToNextRound,
     PrngAbort, AbortReturns, TakeResult, PrngRunnerFinished, SetDoneCallback
<1>3. CASE StartPrngEnds
  <2>1. token' \in BOOLEAN
    BY <1>3, ZenonT(60) DEF StartPrngEnds
  <2> QED
    BY <1>0, <1>3, <2>1 DEF PrngTypes, StartPrngEnds
<1>4. CASE CallDoneCallback
  BY <1>0, <1>4 DEF PrngTypes, CallDoneCallback
<1>5. CASE \E k \in Callbacks : RunCallback(k)
  BY <1>0, <1>5 DEF PrngTypes, RunCallback
<1> QED
  BY <1>1, <1>2, <1>3, <1>4, <1>5
  DEF PrngNext, EnterState, Sequential, ScheduleBatch, Waking, prngVars

\* A callback put at the end of the queue is there once.
LEMMA AppendSound ==
  ASSUME PrngInv, NEW o \in Observers, observer[o] = "new",
         seqQueue' = Append(seqQueue, o),
         observer' = [observer EXCEPT ![o] = "queued"], UNCHANGED seqRun
  PROVE  /\ \A i \in 1..Len(seqQueue') :
              seqQueue'[i] \in Observers => observer'[seqQueue'[i]] = "queued"
         /\ \A i, j \in 1..Len(seqQueue') : seqQueue'[i] = seqQueue'[j] => i = j
         /\ \A p \in Observers : seqRun' = p <=> observer'[p] = "running"
<1>1. /\ Len(seqQueue) \in Nat /\ Len(seqQueue') = Len(seqQueue) + 1
      /\ \A i \in 1..Len(seqQueue) : seqQueue'[i] = seqQueue[i]
      /\ seqQueue'[Len(seqQueue) + 1] = o
  BY AppendProperties DEF PrngInv, IInv, TypeOK
<1>2. \A p \in Observers : observer'[p] = IF p = o THEN "queued" ELSE observer[p]
  BY DEF PrngInv, IInv, TypeOK
<1>3. \A i \in 1..Len(seqQueue) : seqQueue[i] # o
  BY DEF PrngInv, PrngQueueSound
<1> QED
  BY <1>1, <1>2, <1>3 DEF PrngInv, PrngQueueSound

\* The sequential thread takes the head of the queue.
LEMMA TakeHead ==
  ASSUME PrngInv, seqQueue # << >>, seqQueue' = Tail(seqQueue)
  PROVE  /\ Head(seqQueue) \in Observers => observer[Head(seqQueue)] = "queued"
         /\ \A i \in 1..Len(seqQueue') : i + 1 \in 1..Len(seqQueue)
                                          /\ seqQueue'[i] = seqQueue[i + 1]
                                          /\ seqQueue'[i] # Head(seqQueue)
         /\ \A i, j \in 1..Len(seqQueue') : seqQueue'[i] = seqQueue'[j] => i = j
<1>1. /\ Len(seqQueue) \in Nat \ {0}
      /\ Head(seqQueue) = seqQueue[1]
      /\ Len(seqQueue') = Len(seqQueue) - 1
      /\ \A k \in 1..Len(seqQueue') : seqQueue'[k] = seqQueue[k + 1]
  BY HeadTailProperties, EmptySeq DEF PrngInv, IInv, TypeOK
<1>2. \A i, j \in 1..Len(seqQueue) : seqQueue[i] = seqQueue[j] => i = j
  BY DEF PrngInv, PrngQueueSound
<1>3. \A i \in 1..Len(seqQueue') : i \in Nat /\ i + 1 \in 1..Len(seqQueue) /\ i + 1 # 1
  BY <1>1
<1> QED
  BY <1>1, <1>2, <1>3 DEF PrngInv, PrngQueueSound

\* The queue stays sound: the observer is the only one given to the accumulator.
LEMMA PrngKeepsQueue == PrngInv /\ [PrngNext]_prngVars => PrngQueueSound'
<1> SUFFICES ASSUME PrngInv, [PrngNext]_prngVars PROVE PrngQueueSound'
  OBVIOUS
<1> USE PrngAssumption, NamesDistinct
<1>0. PrngQueueSound /\ TypeOK
  BY DEF PrngInv, IInv
<1>1. CASE UNCHANGED <<seqQueue, observer, seqRun, callback>>
  BY <1>0, <1>1 DEF PrngQueueSound
<1>2. ASSUME NEW k \in Callbacks, SetDoneCallback(k) PROVE PrngQueueSound'
  <2> USE <1>2 DEF SetDoneCallback, counters
  <2>1. k \in Observers /\ k # Prng
    BY DEF Callbacks
  <2>2. callback' = IF observer'[Prng] = "pending" THEN Prng ELSE None
    BY <1>0, <2>1 DEF PrngQueueSound, TypeOK
  <2>3. CASE completion # None
    BY <2>1, <2>2, <2>3, AppendSound DEF PrngQueueSound
  <2>4. CASE completion = None
    <3>1. \A p \in Observers : observer'[p] = IF p = k THEN "pending" ELSE observer[p]
      BY <1>0, <2>1, <2>4 DEF TypeOK
    <3> QED
      BY <1>0, <2>1, <2>2, <2>4, <3>1 DEF PrngQueueSound
  <2> QED
    BY <2>3, <2>4
<1>3. CASE StartPrngEnds
  <2> USE <1>3 DEF StartPrngEnds, SetAsyncObserver, counters
  <2>1. observer[Prng] = "new" /\ callback = None
    BY <1>0 DEF PrngQueueSound
  <2>2. CASE QueueObserver(Prng)
    BY <1>0, <2>1, <2>2, AppendSound DEF PrngQueueSound, QueueObserver, TypeOK
  <2>3. CASE RefuseObserver(Prng) \/ StoreObserver(Prng)
    BY <1>0, <2>1, <2>3 DEF PrngQueueSound, RefuseObserver, StoreObserver, TypeOK
  <2> QED
    BY <2>2, <2>3
<1>4. ASSUME NEW t \in Tasks, PoolThread(t) PROVE PrngQueueSound'
  <2>1. CASE UNCHANGED seqQueue
    BY <1>1, <1>4, <2>1 DEF PoolThread, StartGenerator, FinishGenerator, ScheduleReduce,
                            counters
  <2>2. CASE seqQueue' = Append(seqQueue, t) /\ task[t] = "generated"
    <3>1. /\ Len(seqQueue) \in Nat /\ Len(seqQueue') = Len(seqQueue) + 1
          /\ \A i \in 1..Len(seqQueue) : seqQueue'[i] = seqQueue[i]
          /\ seqQueue'[Len(seqQueue) + 1] = t
      BY <1>0, <2>2, AppendProperties DEF TypeOK
    <3>2. \A i \in 1..Len(seqQueue) : seqQueue[i] # t
      BY <2>2 DEF PrngInv, IInv, QueueSound
    <3>3. UNCHANGED <<observer, seqRun, callback>>
      BY <1>4 DEF PoolThread, StartGenerator, FinishGenerator, ScheduleReduce, counters
    <3> QED
      BY <1>0, <3>1, <3>2, <3>3 DEF PrngQueueSound
  <2> QED
    BY <1>4, <2>1, <2>2 DEF PoolThread, StartGenerator, FinishGenerator, ScheduleReduce
<1>5. ASSUME NEW t \in Tasks, StartReduce(t) PROVE PrngQueueSound'
  <2> USE <1>5 DEF StartReduce
  <2>1. seqRun' \notin Observers /\ seqRun \notin Observers
    OBVIOUS
  <2> QED
    BY <1>0, <2>1, TakeHead DEF PrngQueueSound
<1>6. ASSUME NEW t \in Tasks, FinishReduce(t) PROVE PrngQueueSound'
  <2> USE <1>6 DEF FinishReduce, UpdateCounts
  <2>1. CASE observer' = observer
    BY <1>0, <2>1 DEF PrngQueueSound, TypeOK
  <2>2. CASE callback = Prng /\ seqRun' = Prng /\ callback' = None
             /\ observer' = [observer EXCEPT ![Prng] = "running"]
    BY <1>0, <2>2 DEF PrngQueueSound, TypeOK
  <2> QED
    BY <1>0, <2>1, <2>2 DEF PrngQueueSound
<1>7. ASSUME NEW o \in Observers, StartCallback(o) PROVE PrngQueueSound'
  <2> USE <1>7 DEF StartCallback, counters
  <2>1. observer[o] = "queued"
    BY TakeHead
  <2>2. \A p \in Observers : observer'[p] = IF p = o THEN "running" ELSE observer[p]
    BY <1>0 DEF TypeOK
  <2> QED
    BY <1>0, <2>1, <2>2, TakeHead DEF PrngQueueSound
<1>8. ASSUME NEW o \in Observers, FinishCallback(o) PROVE PrngQueueSound'
  <2> USE <1>8 DEF FinishCallback, counters
  <2>1. observer[o] = "running"
    BY <1>0 DEF PrngQueueSound
  <2>2. \A p \in Observers : observer'[p] = IF p = o THEN "done" ELSE observer[p]
    BY <1>0 DEF TypeOK
  <2> QED
    BY <1>0, <2>1, <2>2 DEF PrngQueueSound
<1>9. CASE InitializeFails \/ InitializeSucceeds \/ ProceedToNextRound \/ PrngAbort
           \/ AbortReturns \/ TakeResult \/ PrngRunnerFinished \/ ScheduleBatch
           \/ Waking \/ UNCHANGED prngVars
  BY <1>1, <1>9 DEF InitializeFails, InitializeSucceeds, ProceedToNextRound, PrngAbort,
     AbortReturns, TakeResult, PrngRunnerFinished, ScheduleBatch, Schedule, Waking,
     CancelWake, CancelCall, prngVars, vars, counters
<1> QED
  BY <1>2, <1>3, <1>4, <1>5, <1>6, <1>7, <1>8, <1>9
  DEF PrngNext, EnterState, Sequential, CallDoneCallback, RunCallback, Callbacks

\* StartPrng, the observer and an abort keep to their order.
LEMMA PrngKeepsProgress == PrngInv /\ [PrngNext]_prngVars => PrngProgress'
<1> SUFFICES ASSUME PrngInv, [PrngNext]_prngVars PROVE PrngProgress'
  OBVIOUS
<1> USE PrngAssumption, StatusAssumption, NamesDistinct
<1>0. PrngProgress /\ PrngTypes /\ PrngQueueSound /\ TypeOK
  BY DEF PrngInv, IInv
<1>1. CASE UNCHANGED stateVars /\ UNCHANGED <<task, observer, remaining, cancel>>
  BY <1>0, <1>1 DEF PrngProgress, stateVars, In
<1>2. CASE InitializeFails \/ InitializeSucceeds \/ ProceedToNextRound
           \/ PrngAbort \/ AbortReturns
  <2>1. UNCHANGED <<task, observer, remaining, token, step>>
    BY <1>2 DEF InitializeFails, InitializeSucceeds, ProceedToNextRound, PrngAbort,
                AbortReturns, CancelCall, vars, counters
  <2>2. In({"new"})' = In({"new"})
    BY <2>1 DEF In
  <2> HIDE DEF In
  <2>3. CASE InitializeFails \/ InitializeSucceeds
    BY <1>0, <2>1, <2>2, <2>3
    DEF PrngProgress, PrngTypes, InitializeFails, InitializeSucceeds, vars
  <2>4. CASE ProceedToNextRound \/ AbortReturns
    BY <1>0, <2>1, <2>2, <2>4
    DEF PrngProgress, PrngTypes, ProceedToNextRound, AbortReturns, vars
  <2>5. CASE PrngAbort
    BY <1>0, <2>1, <2>2, <2>5 DEF PrngProgress, PrngTypes, PrngAbort, CancelCall, vars
  <2> QED
    BY <1>2, <2>3, <2>4, <2>5
<1>3. CASE ScheduleBatch
  BY <1>0, <1>3 DEF PrngProgress, ScheduleBatch, Schedule, stateVars
<1>4. CASE StartPrngEnds
  <2> USE <1>4 DEF StartPrngEnds, SetAsyncObserver, counters
  <2>1. observer'[Prng] \in {"refused", "queued", "pending"}
        /\ (observer'[Prng] = "queued" => remaining' = 0)
    BY <1>0 DEF RefuseObserver, QueueObserver, StoreObserver, IsIdle, TypeOK
  <2>2. In({"new"})' = {}
    BY DEF In
  <2> HIDE DEF In
  <2> QED
    BY <1>0, <2>1, <2>2 DEF PrngProgress
<1>5. ASSUME NEW k \in Callbacks, SetDoneCallback(k) PROVE PrngProgress'
  <2> USE <1>5 DEF SetDoneCallback, counters
  <2>1. observer'[Prng] = observer[Prng]
    BY <1>0 DEF TypeOK, Callbacks
  <2> QED
    BY <1>0, <2>1 DEF PrngProgress, In
<1>6. CASE Waking
  BY <1>0, <1>6 DEF PrngProgress, Waking, CancelWake, In, stateVars, counters
<1>7. ASSUME NEW t \in Tasks, PoolThread(t), UNCHANGED stateVars PROVE PrngProgress'
  <2>1. UNCHANGED <<observer, remaining>> /\ (cancel # "none" => cancel' # "none")
    BY <1>7 DEF PoolThread, StartGenerator, FinishGenerator, ScheduleReduce,
                DecrementActive, counters
  <2>2. In({"new"})' \subseteq In({"new"})
    BY <1>0, <1>7 DEF PoolThread, StartGenerator, FinishGenerator, ScheduleReduce, In, TypeOK
  <2> HIDE DEF In
  <2> QED
    BY <1>0, <1>7, <2>1, <2>2 DEF PrngProgress, stateVars
<1>8. ASSUME NEW t \in Tasks, StartReduce(t), UNCHANGED stateVars PROVE PrngProgress'
  <2>1. In({"new"})' \subseteq In({"new"})
    BY <1>0, <1>8 DEF StartReduce, In, TypeOK
  <2> QED
    BY <1>0, <1>8, <2>1 DEF PrngProgress, stateVars, StartReduce
<1>9. ASSUME NEW t \in Tasks, FinishReduce(t), UNCHANGED stateVars PROVE PrngProgress'
  <2> USE <1>9 DEF FinishReduce, UpdateCounts, DecrementActive
  <2>1. In({"new"})' \subseteq In({"new"})
    BY <1>0 DEF In, TypeOK
  <2>2. cancel # "none" => cancel' # "none"
    OBVIOUS
  <2>3. t \in Unfinished
    BY <1>0 DEF PrngInv, IInv, QueueSound, Unfinished, In, TaskState
  <2>4. remaining # 0
    BY <2>3, FS_EmptySet, CountersAreCounts, HavingFinite, TasksFinite
    DEF PrngInv, IInv, CountersExact
  <2>5. observer[Prng] \notin {"queued", "running", "done"} /\ step = "none"
    BY <1>0, <2>4 DEF PrngProgress
  <2>6. \/ observer'[Prng] = observer[Prng]
        \/ observer[Prng] = "pending" /\ observer'[Prng] = "running" /\ remaining' = 0
    BY <1>0 DEF PrngQueueSound, TypeOK
  <2> HIDE DEF In
  <2> QED
    BY <1>0, <2>1, <2>2, <2>5, <2>6 DEF PrngProgress, stateVars
<1>10. ASSUME NEW o \in Observers, StartCallback(o), UNCHANGED stateVars
       PROVE PrngProgress'
  <2> USE <1>10 DEF StartCallback, counters
  <2>1. observer[o] = "queued"
    BY TakeHead
  <2>2. observer'[Prng] = IF o = Prng THEN "running" ELSE observer[Prng]
    BY <1>0 DEF TypeOK
  <2>3. In({"new"})' = In({"new"}) /\ remaining' = remaining /\ cancel' = cancel
    BY DEF In
  <2>4. UNCHANGED <<prngPhase, completion, token, step>>
    BY DEF stateVars
  <2> HIDE <1>10
  <2> HIDE DEF In, StartCallback
  <2>5. \/ observer'[Prng] = observer[Prng]
        \/ observer[Prng] = "queued" /\ observer'[Prng] = "running"
    BY <2>1, <2>2
  <2> QED
    BY <1>0, <2>3, <2>4, <2>5, SMTT(60) DEF PrngProgress
<1>11. CASE TakeResult \/ PrngRunnerFinished
  <2>1. observer[Prng] = "running"
    BY <1>0, <1>11 DEF PrngQueueSound, TakeResult, PrngRunnerFinished
  <2>2. UNCHANGED <<task, observer, remaining, cancel, prngPhase, token>>
    BY <1>11 DEF TakeResult, PrngRunnerFinished, vars, counters
  <2>3. In({"new"})' = In({"new"})
    BY <2>2 DEF In
  <2> QED
    BY <1>0, <1>11, <2>1, <2>2, <2>3 DEF PrngProgress, TakeResult, PrngRunnerFinished
<1>12. CASE CallDoneCallback
  <2> USE <1>12 DEF CallDoneCallback, FinishCallback, counters
  <2>1. observer[Prng] = "running" /\ observer'[Prng] = "done"
    BY <1>0 DEF PrngQueueSound, TypeOK
  <2>2. In({"new"})' = In({"new"})
    BY DEF In
  <2> QED
    BY <1>0, <2>1, <2>2 DEF PrngProgress
<1>13. ASSUME NEW k \in Callbacks, RunCallback(k) PROVE PrngProgress'
  <2> USE <1>13 DEF RunCallback, FinishCallback, counters
  <2>1. observer'[Prng] = observer[Prng]
    BY <1>0 DEF TypeOK, Callbacks
  <2>2. In({"new"})' = In({"new"})
    BY DEF In
  <2> QED
    BY <1>0, <2>1, <2>2 DEF PrngProgress
<1>14. CASE UNCHANGED prngVars
  BY <1>1, <1>14 DEF prngVars, vars, counters
<1> QED
  BY <1>2, <1>3, <1>4, <1>5, <1>6, <1>7, <1>8, <1>9, <1>10, <1>11, <1>12, <1>13, <1>14
  DEF PrngNext, EnterState, Sequential

\* The observer takes the value when the last batch has been added.
LEMMA PrngKeepsValue == PrngInv /\ [PrngNext]_prngVars => PrngValue'
<1> SUFFICES ASSUME PrngInv, [PrngNext]_prngVars PROVE PrngValue'
  OBVIOUS
<1>0. PrngValue /\ PrngProgress /\ PrngTypes /\ TypeOK
  BY DEF PrngInv, IInv
<1>1. CASE UNCHANGED <<task, accumulated, taken, step>>
  BY <1>0, <1>1 DEF PrngValue, In
<1>2. ASSUME NEW t \in Tasks, task[t] \notin {"reduced"}, task'[t] \notin {"reduced"},
             \A u \in Tasks \ {t} : task'[u] = task[u],
             UNCHANGED <<accumulated, taken, step>>
      PROVE  PrngValue'
  BY <1>0, <1>2 DEF PrngValue, In
<1>3. CASE ScheduleBatch
  BY <1>0, <1>2, <1>3 DEF ScheduleBatch, Schedule, TypeOK, stateVars
<1>4. ASSUME NEW t \in Tasks, PoolThread(t), UNCHANGED stateVars PROVE PrngValue'
  BY <1>0, <1>2, <1>4
  DEF PoolThread, StartGenerator, FinishGenerator, ScheduleReduce, TypeOK, stateVars
<1>5. ASSUME NEW t \in Tasks, StartReduce(t), UNCHANGED stateVars PROVE PrngValue'
  <2>1. task[t] = "queued"
    BY <1>5, TailFacts DEF StartReduce, PrngInv
  <2> QED
    BY <1>0, <1>2, <1>5, <2>1 DEF StartReduce, TypeOK, stateVars
<1>6. ASSUME NEW t \in Tasks, FinishReduce(t), UNCHANGED stateVars PROVE PrngValue'
  BY <1>0, <1>6 DEF FinishReduce, PrngValue, In, TypeOK, stateVars
<1>7. CASE TakeResult
  <2> USE <1>7 DEF TakeResult
  <2>1. observer[Prng] = "running" /\ token
    BY <1>0, PrngAssumption DEF PrngInv, PrngQueueSound, PrngProgress
  <2>2. In({"new"}) = {} /\ remaining = 0
    BY <1>0, <2>1 DEF PrngProgress
  <2> QED
    BY <1>0, <2>2, IdleAllReduced DEF PrngInv, PrngValue
<1>8. CASE PrngRunnerFinished \/ CallDoneCallback
  BY <1>0, <1>8 DEF PrngRunnerFinished, CallDoneCallback, FinishCallback, PrngValue, vars
<1>9. CASE \/ InitializeFails \/ InitializeSucceeds \/ ProceedToNextRound \/ PrngAbort
           \/ AbortReturns \/ Waking \/ UNCHANGED prngVars
           \/ \E k \in Callbacks : SetDoneCallback(k) \/ RunCallback(k)
  BY <1>1, <1>9 DEF InitializeFails, InitializeSucceeds, ProceedToNextRound, PrngAbort,
     AbortReturns, SetDoneCallback, RunCallback, FinishCallback, Waking, CancelWake,
     CancelCall, prngVars, stateVars, vars
<1>10. CASE StartPrngEnds \/ (UNCHANGED stateVars /\ \E o \in Observers : StartCallback(o))
  BY <1>1, <1>10 DEF StartPrngEnds, SetAsyncObserver, StartCallback, stateVars
<1> QED
  BY <1>3, <1>4, <1>5, <1>6, <1>7, <1>8, <1>9, <1>10 DEF PrngNext, EnterState, Sequential

\* No callback is called twice.
LEMMA PrngKeepsCalls == PrngInv /\ [PrngNext]_prngVars => CallsCounted'
<1> SUFFICES ASSUME PrngInv, [PrngNext]_prngVars PROVE CallsCounted'
  OBVIOUS
<1> USE PrngAssumption, StatusAssumption, NamesDistinct
<1>0. CallsCounted /\ PrngProgress /\ PrngTypes /\ PrngQueueSound /\ TypeOK
  BY DEF PrngInv, IInv
<1>00. \A k \in Callbacks : k \in Observers /\ k # Prng /\ k # None
  BY DEF Callbacks
<1>1. ASSUME \A k \in Callbacks : \/ observer'[k] = observer[k]
                                  \/ /\ observer[k] \in {"new", "queued"}
                                     /\ observer'[k] \in {"queued", "running"},
             UNCHANGED <<doneCallback, toCall, calls, step>>
      PROVE  CallsCounted'
  BY <1>0, <1>1 DEF CallsCounted
<1>2. CASE TakeResult
  BY <1>0, <1>2 DEF CallsCounted, TakeResult
<1>3. CASE PrngRunnerFinished
  BY <1>0, <1>00, <1>3 DEF CallsCounted, PrngRunnerFinished, vars, PrngTypes
<1>4. CASE CallDoneCallback
  <2> USE <1>4 DEF CallDoneCallback, FinishCallback
  <2>1. \A k \in Callbacks : observer'[k] = observer[k]
    BY <1>0, <1>00 DEF TypeOK
  <2>2. \A k \in Callbacks : calls[k] = IF observer[k] = "done" THEN 1 ELSE 0
    BY <1>0 DEF CallsCounted
  <2>3. \A k \in Callbacks : calls'[k] = IF k = toCall THEN calls[k] + 1 ELSE calls[k]
    BY <1>0, <1>00 DEF PrngTypes
  <2> QED
    BY <1>0, <2>1, <2>2, <2>3 DEF CallsCounted
<1>5. ASSUME NEW k \in Callbacks, RunCallback(k) PROVE CallsCounted'
  <2> USE <1>5 DEF RunCallback, FinishCallback
  <2>1. observer[k] = "running"
    BY <1>0, <1>00 DEF PrngQueueSound
  <2>2. \A j \in Callbacks : observer'[j] = IF j = k THEN "done" ELSE observer[j]
    BY <1>0, <1>00 DEF TypeOK
  <2>3. \A j \in Callbacks : calls'[j] = IF j = k THEN calls[j] + 1 ELSE calls[j]
    BY <1>0 DEF PrngTypes
  <2> QED
    BY <1>0, <2>1, <2>2, <2>3 DEF CallsCounted
<1>6. ASSUME NEW k \in Callbacks, SetDoneCallback(k) PROVE CallsCounted'
  <2> USE <1>6 DEF SetDoneCallback
  <2>1. \A j \in Callbacks : observer'[j] =
          IF j = k THEN IF completion # None THEN "queued" ELSE "pending"
                   ELSE observer[j]
    BY <1>0, <1>00 DEF TypeOK
  <2> QED
    BY <1>0, <1>00, <2>1 DEF CallsCounted
<1>7. CASE StartPrngEnds
  <2>1. \A k \in Callbacks : observer'[k] = observer[k]
    BY <1>0, <1>00, <1>7 DEF StartPrngEnds, SetAsyncObserver, RefuseObserver, QueueObserver,
                             StoreObserver, TypeOK
  <2> QED
    BY <1>1, <1>7, <2>1 DEF StartPrngEnds
<1>8. ASSUME NEW o \in Observers, StartCallback(o), UNCHANGED stateVars PROVE CallsCounted'
  <2>1. observer[o] = "queued"
    BY <1>8, TakeHead DEF StartCallback
  <2>2. \A k \in Callbacks : observer'[k] = IF k = o THEN "running" ELSE observer[k]
    BY <1>0, <1>00, <1>8 DEF StartCallback, TypeOK
  <2> QED
    BY <1>1, <1>8, <2>1, <2>2 DEF stateVars
<1>9. ASSUME NEW t \in Tasks, FinishReduce(t), UNCHANGED stateVars PROVE CallsCounted'
  <2>1. \A k \in Callbacks : observer'[k] = observer[k]
    BY <1>0, <1>00, <1>9 DEF FinishReduce, UpdateCounts, PrngQueueSound, TypeOK
  <2> QED
    BY <1>1, <1>9, <2>1 DEF stateVars
<1>10. CASE \/ InitializeFails \/ InitializeSucceeds \/ ProceedToNextRound \/ PrngAbort
            \/ AbortReturns \/ Waking \/ UNCHANGED prngVars \/ ScheduleBatch
            \/ \E t \in Tasks : (PoolThread(t) \/ StartReduce(t)) /\ UNCHANGED stateVars
  <2>1. UNCHANGED <<observer, doneCallback, toCall, calls, step>>
    BY <1>10 DEF InitializeFails, InitializeSucceeds, ProceedToNextRound, PrngAbort,
       AbortReturns, Waking, CancelWake, CancelCall, ScheduleBatch, Schedule, PoolThread,
       StartGenerator, FinishGenerator, ScheduleReduce, StartReduce, prngVars, stateVars,
       vars
  <2> QED
    BY <1>1, <2>1
<1> QED
  BY <1>2, <1>3, <1>4, <1>5, <1>6, <1>7, <1>8, <1>9, <1>10
  DEF PrngNext, EnterState, Sequential

\* The invariant of PRNG_RUNNING is inductive.
THEOREM PrngInvariance == PrngSpec => []PrngInv
<1>1. PrngInv /\ [PrngNext]_prngVars => PrngInv'
  BY PrngKeepsIInv, PrngKeepsTypes, PrngKeepsQueue, PrngKeepsProgress, PrngKeepsValue,
     PrngKeepsCalls DEF PrngInv
<1> QED
  BY <1>1, PrngInitHolds, PTL DEF PrngSpec

\* The sum is complete when PRNG_RUNNING reports success, the FCP_CHECK of
\* GetResultAndCancel holds, and ProceedToNextRound never takes the state from
\* under its observer, for any number of batches and callbacks and any order of
\* the three threads.
THEOREM ResultAlwaysHasAllMasks == PrngSpec => []ResultHasAllMasks
<1>1. PrngInv => ResultHasAllMasks
  <2> SUFFICES ASSUME PrngInv PROVE ResultHasAllMasks
    OBVIOUS
  <2> USE StatusAssumption, PrngAssumption
  <2>1. PrngTypeOK
    BY DEF PrngInv, PrngTypes, PrngTypeOK, CallsCounted
  <2>2. completion = "ok" => taken = Tasks
    BY DEF PrngInv, PrngProgress, PrngValue
  <2>3. ASSUME seqRun = Prng PROVE token /\ In({"new"}) = {} /\ remaining = 0
    BY <2>3 DEF PrngInv, PrngProgress, PrngQueueSound
  <2>4. seqRun = Prng => active = 0
    BY <2>3, IdleAllReduced DEF PrngInv
  <2>5. ObserverUsesState /\ prngPhase = "left" => cancel # "none"
    BY <2>3 DEF ObserverUsesState, PrngInv, PrngProgress, PrngTypes
  <2> QED
    BY <2>1, <2>2, <2>4, <2>5 DEF ResultHasAllMasks
<1> QED
  BY <1>1, PrngInvariance, PTL

=============================================================================
