----------------------------- MODULE Accumulator -----------------------------
(***************************************************************************)
(* The Accumulator of src/fcp/secagg/server/secagg_scheduler.h: generators *)
(* run in parallel on a thread pool, their results are folded into one     *)
(* value by tasks of a sequential scheduler, an observer is told when the  *)
(* accumulator falls idle, and Cancel() waits for the tasks in progress.   *)
(*                                                                         *)
(* Every critical section of mutex_ is one step.  Three kinds of thread    *)
(* interleave: the owner (Schedule, SetAsyncObserver, GetResultAndCancel,  *)
(* Cancel), the pool's threads (one per generator) and the one thread of   *)
(* the sequential scheduler, which takes its queue in FIFO order.          *)
(***************************************************************************)
EXTENDS Naturals, Sequences, FiniteSets

CONSTANTS Tasks,       \* the generators that may be scheduled
          Observers,   \* the callbacks that may be passed to SetAsyncObserver
          None         \* neither: an empty std::function, an idle thread

ASSUME TasksFinite == IsFiniteSet(Tasks)
ASSUME NamesDistinct == /\ Tasks \cap Observers = {}
                        /\ None \notin Tasks \cup Observers

VARIABLES
  task,        \* where each generator is on its way to the accumulated value
  seqQueue,    \* queue of sequential_scheduler_: tasks and idle callbacks
  seqRun,      \* what the sequential thread runs now, None when idle
  remaining,   \* remaining_sequential_tasks_count_
  active,      \* active_count_
  isCancelled, \* is_cancelled_
  unobserved,  \* has_unobserved_work_
  callback,    \* async_callback_, None when empty
  accumulated, \* accumulated_value_: the generators folded into it so far
  taken,       \* the value GetResultAndCancel moved out, {} before
  cancel,      \* the owner's call of Cancel(): none, blocked, woken, returned
  observer     \* what became of each observer

counters == <<remaining, active, isCancelled, unobserved, callback>>
vars == <<task, seqQueue, seqRun, counters, accumulated, taken, cancel, observer>>

TaskState == {"new", "scheduled", "generating", "generated", "queued",
              "reducing", "reduced", "skipped"}
ObserverState == {"new", "refused", "pending", "queued", "running", "done"}
CancelState == {"none", "blocked", "woken", "returned"}

In(S) == {t \in Tasks : task[t] \in S}

TypeOK ==
  /\ task \in [Tasks -> TaskState]
  /\ seqQueue \in Seq(Tasks \cup Observers)
  /\ seqRun \in Tasks \cup Observers \cup {None}
  /\ remaining \in Nat
  /\ active \in Nat
  /\ isCancelled \in BOOLEAN
  /\ unobserved \in BOOLEAN
  /\ callback \in Observers \cup {None}
  /\ accumulated \in SUBSET Tasks
  /\ taken \in SUBSET Tasks
  /\ cancel \in CancelState
  /\ observer \in [Observers -> ObserverState]

Init ==
  /\ task = [t \in Tasks |-> "new"]
  /\ seqQueue = << >>
  /\ seqRun = None
  /\ remaining = 0
  /\ active = 0
  /\ isCancelled = FALSE
  /\ unobserved = FALSE
  /\ callback = None
  /\ accumulated = {}
  /\ taken = {}
  /\ cancel = "none"
  /\ observer = [o \in Observers |-> "new"]

\* The owner's thread is not inside Cancel().
OwnerRuns == cancel \in {"none", "returned"}

-----------------------------------------------------------------------------
(* The owner *)

Schedule(t) ==
  /\ OwnerRuns
  /\ task[t] = "new"
  /\ unobserved' = (unobserved \/ remaining = 0)
  /\ remaining' = remaining + 1
  /\ task' = [task EXCEPT ![t] = "scheduled"]
  /\ UNCHANGED <<seqQueue, seqRun, active, isCancelled, callback, accumulated,
                 taken, cancel, observer>>

IsIdle == remaining = 0

\* SetAsyncObserver has three outcomes: false, a callback scheduled at once,
\* and a callback stored for UpdateCountsAndGetCallback.
RefuseObserver(o) ==
  /\ ~unobserved
  /\ observer' = [observer EXCEPT ![o] = "refused"]
  /\ UNCHANGED <<seqQueue, counters>>

QueueObserver(o) ==
  /\ unobserved /\ IsIdle
  /\ unobserved' = FALSE
  /\ seqQueue' = Append(seqQueue, o)
  /\ observer' = [observer EXCEPT ![o] = "queued"]
  /\ UNCHANGED <<remaining, active, isCancelled, callback>>

StoreObserver(o) ==
  /\ unobserved /\ ~IsIdle
  /\ callback' = o
  /\ observer' = [observer EXCEPT ![o] = "pending"]
  /\ UNCHANGED <<seqQueue, remaining, active, isCancelled, unobserved>>

SetAsyncObserver(o) ==
  /\ OwnerRuns
  /\ observer[o] = "new"
  /\ RefuseObserver(o) \/ QueueObserver(o) \/ StoreObserver(o)
  /\ UNCHANGED <<task, seqRun, accumulated, taken, cancel>>

\* Mutant: the result is taken without waiting for the accumulator to fall idle.
GetResultAndCancelEarly ==
  /\ OwnerRuns
  /\ ~isCancelled
  /\ isCancelled' = TRUE
  /\ taken' = accumulated
  /\ accumulated' = {}
  /\ UNCHANGED <<task, seqQueue, seqRun, remaining, active, unobserved,
                 callback, cancel, observer>>

\* The owner takes the result once it has seen IsIdle().
GetResultAndCancel ==
  /\ OwnerRuns
  /\ IsIdle /\ ~isCancelled
  /\ isCancelled' = TRUE
  /\ taken' = accumulated
  /\ accumulated' = {}
  /\ UNCHANGED <<task, seqQueue, seqRun, remaining, active, unobserved,
                 callback, cancel, observer>>

\* Cancel() raises the flag and waits on inactive_cv_ while a task is active.
CancelCall ==
  /\ cancel = "none"
  /\ isCancelled' = TRUE
  /\ cancel' = IF active > 0 THEN "blocked" ELSE "returned"
  /\ UNCHANGED <<task, seqQueue, seqRun, remaining, active, unobserved,
                 callback, accumulated, taken, observer>>

CancelWake ==
  /\ cancel = "woken"
  /\ cancel' = IF active > 0 THEN "blocked" ELSE "returned"
  /\ UNCHANGED <<task, seqQueue, seqRun, counters, accumulated, taken, observer>>

-----------------------------------------------------------------------------
(* The pool's threads *)

\* Mutant: inactive_cv_ is not signalled.
DecrementActiveSilent == active' = active - 1 /\ UNCHANGED cancel

\* --active_count_ and, at zero of a cancelled accumulator, SignalAll().
DecrementActive ==
  /\ active' = active - 1
  /\ cancel' = IF active' = 0 /\ isCancelled /\ cancel = "blocked"
                 THEN "woken" ELSE cancel

StartGenerator(t) ==
  /\ task[t] = "scheduled"
  /\ IF isCancelled
       THEN task' = [task EXCEPT ![t] = "skipped"] /\ UNCHANGED active
       ELSE task' = [task EXCEPT ![t] = "generating"] /\ active' = active + 1
  /\ UNCHANGED <<seqQueue, seqRun, remaining, isCancelled, unobserved, callback,
                 accumulated, taken, cancel, observer>>

FinishGenerator(t) ==
  /\ task[t] = "generating"
  /\ task' = [task EXCEPT ![t] = "generated"]
  /\ DecrementActive
  /\ UNCHANGED <<seqQueue, seqRun, remaining, isCancelled, unobserved, callback,
                 accumulated, taken, observer>>

\* A cancellation after the check leaves a queued task, which skips itself.
ScheduleReduce(t) ==
  /\ task[t] = "generated"
  /\ IF isCancelled
       THEN task' = [task EXCEPT ![t] = "skipped"] /\ UNCHANGED seqQueue
       ELSE /\ task' = [task EXCEPT ![t] = "queued"]
            /\ seqQueue' = Append(seqQueue, t)
  /\ UNCHANGED <<seqRun, counters, accumulated, taken, cancel, observer>>

-----------------------------------------------------------------------------
(* The sequential scheduler's thread *)

StartReduce(t) ==
  /\ seqRun = None
  /\ seqQueue # << >> /\ Head(seqQueue) = t
  /\ seqQueue' = Tail(seqQueue)
  /\ IF isCancelled
       THEN /\ task' = [task EXCEPT ![t] = "skipped"]
            /\ UNCHANGED <<active, seqRun>>
       ELSE /\ task' = [task EXCEPT ![t] = "reducing"]
            /\ active' = active + 1
            /\ seqRun' = t
  /\ UNCHANGED <<remaining, isCancelled, unobserved, callback, accumulated,
                 taken, cancel, observer>>

\* Mutant: the callback is handed out while tasks remain.
UpdateCountsEager ==
  /\ DecrementActive
  /\ remaining' = remaining - 1
  /\ IF callback # None
       THEN /\ unobserved' = FALSE
            /\ callback' = None
            /\ seqRun' = callback
            /\ observer' = [observer EXCEPT ![callback] = "running"]
       ELSE /\ seqRun' = None
            /\ UNCHANGED <<unobserved, callback, observer>>

\* UpdateCountsAndGetCallback: the callback leaves the critical section with
\* the sequential thread, which runs it next.
UpdateCounts ==
  /\ DecrementActive
  /\ remaining' = remaining - 1
  /\ IF remaining' = 0 /\ callback # None
       THEN /\ unobserved' = FALSE
            /\ callback' = None
            /\ seqRun' = callback
            /\ observer' = [observer EXCEPT ![callback] = "running"]
       ELSE /\ seqRun' = None
            /\ UNCHANGED <<unobserved, callback, observer>>

FinishReduce(t) ==
  /\ seqRun = t
  /\ accumulated' = accumulated \cup {t}
  /\ task' = [task EXCEPT ![t] = "reduced"]
  /\ UpdateCounts
  /\ UNCHANGED <<seqQueue, isCancelled, taken>>

\* A callback that SetAsyncObserver scheduled itself.
StartCallback(o) ==
  /\ seqRun = None
  /\ seqQueue # << >> /\ Head(seqQueue) = o
  /\ seqQueue' = Tail(seqQueue)
  /\ seqRun' = o
  /\ observer' = [observer EXCEPT ![o] = "running"]
  /\ UNCHANGED <<task, counters, accumulated, taken, cancel>>

FinishCallback(o) ==
  /\ seqRun = o
  /\ seqRun' = None
  /\ observer' = [observer EXCEPT ![o] = "done"]
  /\ UNCHANGED <<task, seqQueue, counters, accumulated, taken, cancel>>

-----------------------------------------------------------------------------
Owner == \/ \E t \in Tasks : Schedule(t)
         \/ \E o \in Observers : SetAsyncObserver(o)
         \/ GetResultAndCancel
         \/ CancelCall
         \/ CancelWake

PoolThread(t) == StartGenerator(t) \/ FinishGenerator(t) \/ ScheduleReduce(t)

SequentialThread == \/ \E t \in Tasks : StartReduce(t) \/ FinishReduce(t)
                    \/ \E o \in Observers : StartCallback(o) \/ FinishCallback(o)

Next == Owner \/ (\E t \in Tasks : PoolThread(t)) \/ SequentialThread

\* Both schedulers run what they are given, and a woken thread runs.  The
\* owner need not call anything.
Fairness == /\ \A t \in Tasks : WF_vars(PoolThread(t))
            /\ WF_vars(SequentialThread)
            /\ WF_vars(CancelWake)

Spec == Init /\ [][Next]_vars
FairSpec == Spec /\ Fairness

-----------------------------------------------------------------------------
(* Properties *)

Unfinished == In(TaskState \ {"new", "reduced"})
Working == In({"generating", "reducing"})

\* The two counters of secagg_scheduler.h count what their comments say: a
\* task remains from Schedule() until its reduction (for ever when cancelled),
\* and is active only inside its generator or its reduction.
CountersExact == /\ remaining = Cardinality(Unfinished)
                 /\ active = Cardinality(Working)

\* GetResultAndCancel's FCP_CHECK(active_count_ == 0) cannot fail for a caller
\* that saw IsIdle(): an accumulator without remaining tasks runs none.
IdleIsInactive == IsIdle => active = 0

\* The value GetResultAndCancel moves out contains every generator scheduled
\* so far, whatever the order in which the pool ran them.
ResultComplete ==
  [][taken' # taken => taken' = In(TaskState \ {"new"})]_vars

\* Once Cancel() has returned, no generator and no reduction runs or starts:
\* what their closures point to may be destroyed.
CancelStopsTasks == cancel = "returned" => Working = {}

\* Cancel() never blocks for ever: the last active task signals inactive_cv_.
CancelReturns == cancel = "blocked" ~> cancel = "returned"

\* The facts the counters rest on: a task in the sequential queue waits there
\* once, the task the sequential thread runs is being reduced, and until a
\* cancellation the value holds exactly the reduced tasks.
QueueSound ==
  /\ \A k \in 1..Len(seqQueue) :
       seqQueue[k] \in Tasks => task[seqQueue[k]] = "queued"
  /\ \A k, l \in 1..Len(seqQueue) :
       seqQueue[k] \in Tasks /\ seqQueue[k] = seqQueue[l] => k = l
  /\ seqRun \in Tasks => task[seqRun] = "reducing"
CancelSound == /\ cancel # "none" => isCancelled
               /\ cancel = "returned" => active = 0
ValueSound == ~isCancelled => accumulated = In({"reduced"})

\* The inductive invariant.
IInv == TypeOK /\ CountersExact /\ QueueSound /\ CancelSound /\ ValueSound
=============================================================================
