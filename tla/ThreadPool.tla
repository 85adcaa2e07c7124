----------------------------- MODULE ThreadPool ------------------------------
(***************************************************************************)
(* ThreadPoolScheduler, WorkerImpl and ScheduleFuture of src/fcp/base: a   *)
(* pool of threads, workers that run their tasks one after the other on    *)
(* the pool, and a future that a task sets.  An owner thread schedules the *)
(* tasks of its Plan, takes the future, waits until the pool is idle and   *)
(* then destroys the workers and the pool; a task may schedule another.    *)
(***************************************************************************)
EXTENDS Integers, Sequences, FiniteSets

CONSTANTS Threads,
          Workers,
          Plan,      \* what the owner schedules: [task, on], on a worker or on "pool"
          Child      \* by task: what its body schedules, [task, on] or NoChild

NoChild == [task |-> 0, on |-> "pool"]
PoolTasks == DOMAIN Child
FutureTask == Plan[1].task    \* the body of the first task sets the promise

Places == Workers \cup {"pool"}
Closures == [task : PoolTasks, on : Places]

ASSUME PoolHasThreads == Threads # {} /\ IsFiniteSet(Threads) /\ "pool" \notin Workers
ASSUME ClosuresKnown == /\ Plan \in Seq(Closures) /\ Len(Plan) > 0
                        /\ \A p \in PoolTasks : Child[p] \in Closures \cup {NoChild}

\* The promise is captured by one closure.
ASSUME PromiseHeldOnce ==
  /\ \A i \in 2..Len(Plan) : Plan[i].task # FutureTask
  /\ \A p \in PoolTasks : Child[p] # NoChild => Child[p].task # FutureTask

VARIABLES
  todo,     \* todo_: the closures that wait for a thread
  thread,   \* by thread: [at, run]: where in PerThreadActivity, and its closure
  activeThreads,   \* active_count_
  joining,  \* threads_should_join_
  worker,   \* by worker: [alive, running, steps]: marker, running_, steps_
  owner,    \* [at, next]: what the owner does next
  future,   \* state_ of the FutureState: "kNotSet", "kSet", "kTaken"
  ran,      \* by place: the tasks whose bodies have begun, in order
  failed    \* the FCP_CHECKs that failed

poolVars == <<todo, thread, activeThreads, joining, worker, owner, future, ran, failed>>

PoolInit ==
  /\ todo = <<>> /\ thread = [t \in Threads |-> [at |-> "enter", run |-> NoChild]]
  /\ activeThreads = Cardinality(Threads) /\ joining = FALSE
  /\ worker = [w \in Workers |-> [alive |-> TRUE, running |-> FALSE, steps |-> <<>>]]
  /\ owner = [at |-> "schedule", next |-> 1]
  /\ future = "kNotSet"
  /\ ran = [p \in Places |-> <<>>] /\ failed = {}

-----------------------------------------------------------------------------
(* Schedule, of the pool and of a worker.                                  *)

Waiting(th) == {t \in Threads : th[t].at = "wait"}

\* Mutant: nobody is told of the new closure.
PoolScheduleSilent(c, th) ==
  /\ todo' = Append(todo, c)
  /\ thread' = th

\* The closure is queued and one thread that waits is woken, if there is one.
\* th is what has become of the threads before.
PoolSchedule(c, th) ==
  /\ todo' = Append(todo, c)
  /\ IF Waiting(th) = {} THEN thread' = th
     ELSE \E t \in Waiting(th) : thread' = [th EXCEPT ![t].at = "woken"]

\* Mutant: the worker does not wait for the task that runs.
MaybeRunNextAlways(w, steps, running, th) ==
  IF steps = <<>>
  THEN /\ worker' = [worker EXCEPT ![w].steps = steps, ![w].running = running]
       /\ thread' = th /\ UNCHANGED todo
  ELSE /\ worker' = [worker EXCEPT ![w].steps = Tail(steps), ![w].running = TRUE]
       /\ PoolSchedule(Head(steps), th)

\* MaybeRunNext of worker w, given its members and the threads.
MaybeRunNext(w, steps, running, th) ==
  IF running \/ steps = <<>>
  THEN /\ worker' = [worker EXCEPT ![w].steps = steps, ![w].running = running]
       /\ thread' = th /\ UNCHANGED todo
  ELSE /\ worker' = [worker EXCEPT ![w].steps = Tail(steps), ![w].running = TRUE]
       /\ PoolSchedule(Head(steps), th)

ScheduleClosure(c, th) ==
  IF c.on = "pool" THEN PoolSchedule(c, th) /\ UNCHANGED worker
  ELSE MaybeRunNext(c.on, Append(worker[c.on].steps, c), worker[c.on].running, th)

-----------------------------------------------------------------------------
(* PerThreadActivity.                                                      *)

\* The critical section, from the top or after a wait: count is active_count_.
TakeOrWait(t, count) ==
  /\ IF todo # <<>>
     THEN /\ thread' = [thread EXCEPT ![t] = [at |-> "task", run |-> Head(todo)]]
          /\ todo' = Tail(todo) /\ activeThreads' = count + 1
          /\ failed' = IF joining THEN failed \cup {"join"} ELSE failed
     ELSE /\ thread' = [thread EXCEPT ![t].at = IF joining THEN "exited" ELSE "wait"]
          /\ activeThreads' = count /\ UNCHANGED <<todo, failed>>
  /\ UNCHANGED <<joining, worker, owner, future, ran>>

Enter(t) == thread[t].at = "enter" /\ TakeOrWait(t, activeThreads - 1)

Wake(t) == thread[t].at = "woken" /\ TakeOrWait(t, activeThreads)

\* Set of the promise, which checks that it is the first.
SetFuture(task) ==
  /\ future' = IF task = FutureTask THEN "kSet" ELSE future
  /\ failed' = IF task = FutureTask /\ future # "kNotSet" THEN failed \cup {"set"} ELSE failed

\* The body of a task: it sets the promise, or schedules its child.
Body(t) ==
  LET c == thread[t].run
      done == [thread EXCEPT ![t].at = IF c.on = "pool" THEN "enter" ELSE "check"] IN
  /\ thread[t].at = "task"
  /\ ran' = [ran EXCEPT ![c.on] = Append(@, c.task)]
  /\ SetFuture(c.task)
  /\ IF Child[c.task] = NoChild THEN thread' = done /\ UNCHANGED <<todo, worker>>
     ELSE ScheduleClosure(Child[c.task], done)
  /\ UNCHANGED <<activeThreads, joining, owner>>

\* The closure of a worker checks that the worker still exists ...
CheckMarker(t) ==
  /\ thread[t].at = "check"
  /\ failed' = IF worker[thread[t].run.on].alive THEN failed ELSE failed \cup {"worker"}
  /\ thread' = [thread EXCEPT ![t].at = "next"]
  /\ UNCHANGED <<todo, activeThreads, joining, worker, owner, future, ran>>

\* ... and runs its next task.
RunNext(t) ==
  LET w == thread[t].run.on IN
  /\ thread[t].at = "next"
  /\ MaybeRunNext(w, worker[w].steps, FALSE, [thread EXCEPT ![t].at = "enter"])
  /\ UNCHANGED <<activeThreads, joining, owner, future, ran, failed>>

ThreadSteps(t) == Enter(t) \/ Wake(t) \/ Body(t) \/ CheckMarker(t) \/ RunNext(t)

\* A wait may return without a signal.
SpuriousWakeup(t) ==
  /\ thread[t].at = "wait" /\ thread' = [thread EXCEPT ![t].at = "woken"]
  /\ UNCHANGED <<todo, activeThreads, joining, worker, owner, future, ran, failed>>

-----------------------------------------------------------------------------
(* The owner.                                                              *)

IdleCondition == todo = <<>> /\ activeThreads = 0

OwnerSchedules ==
  /\ owner.at = "schedule"
  /\ ScheduleClosure(Plan[owner.next], thread)
  /\ owner' = IF owner.next = Len(Plan) THEN [at |-> "take", next |-> 0]
              ELSE [owner EXCEPT !.next = @ + 1]
  /\ UNCHANGED <<activeThreads, joining, future, ran, failed>>

\* Future::Take waits for the notification.
Take ==
  /\ owner.at = "take" /\ future # "kNotSet"
  /\ future' = "kTaken" /\ owner' = [owner EXCEPT !.at = "idle"]
  /\ failed' = IF future = "kTaken" THEN failed \cup {"take"} ELSE failed
  /\ UNCHANGED <<todo, thread, activeThreads, joining, worker, ran>>

WaitUntilIdle ==
  /\ owner.at = "idle" /\ IdleCondition
  /\ owner' = [owner EXCEPT !.at = "destroy"]
  /\ UNCHANGED <<todo, thread, activeThreads, joining, worker, future, ran, failed>>

DestroyWorkers ==
  /\ owner.at = "destroy"
  /\ worker' = [w \in Workers |-> [worker[w] EXCEPT !.alive = FALSE]]
  /\ owner' = [owner EXCEPT !.at = "pool"]
  /\ UNCHANGED <<todo, thread, activeThreads, joining, future, ran, failed>>

\* ~ThreadPoolScheduler up to the joins.
DestroyPool ==
  /\ owner.at = "pool"
  /\ failed' = IF IdleCondition THEN failed ELSE failed \cup {"idle"}
  /\ joining' = TRUE
  /\ thread' = [t \in Threads |-> IF thread[t].at = "wait" THEN [thread[t] EXCEPT !.at = "woken"]
                                  ELSE thread[t]]
  /\ owner' = [owner EXCEPT !.at = "join"]
  /\ UNCHANGED <<todo, activeThreads, worker, future, ran>>

Join ==
  /\ owner.at = "join" /\ \A t \in Threads : thread[t].at = "exited"
  /\ owner' = [owner EXCEPT !.at = "done"]
  /\ UNCHANGED <<todo, thread, activeThreads, joining, worker, future, ran, failed>>

OwnerNext == OwnerSchedules \/ Take \/ WaitUntilIdle \/ DestroyWorkers \/ DestroyPool \/ Join

PoolNext == OwnerNext \/ \E t \in Threads : ThreadSteps(t) \/ SpuriousWakeup(t)

\* The operating system runs every thread.
PoolFairness == WF_poolVars(OwnerNext) /\ \A t \in Threads : WF_poolVars(ThreadSteps(t))

PoolSpec == PoolInit /\ [][PoolNext]_poolVars /\ PoolFairness

-----------------------------------------------------------------------------
(* Properties.                                                             *)

Busy(t) == thread[t].at \in {"task", "check", "next"}

\* A worker runs one task at a time: between the body of a task and the lock that
\* ends its closure, no other thread is in a closure of the worker.  And no
\* FCP_CHECK fails if the owner waits until the pool is idle: no closure of a
\* worker finds its worker destroyed, the pool is idle when it goes, no thread
\* finds a task while the threads are joined, and the future is set once.
OneTaskPerWorker ==
  /\ failed = {}
  /\ \A t, u \in Threads : Busy(t) /\ Busy(u) /\ thread[t].run.on = thread[u].run.on
                             /\ thread[t].run.on # "pool" => t = u

\* Once the owner has scheduled its tasks, all of them and the tasks they
\* schedule run, the future is taken and the owner gets to the end: no wake-up
\* is lost though a Schedule signals a single thread.
PoolFinishes ==
  owner.at = "take" ~>
    owner.at = "done" /\ PoolTasks = UNION {{ran[p][i] : i \in DOMAIN ran[p]} : p \in Places}
=============================================================================
