--------------------------- MODULE ThreadPoolProofs ---------------------------
(***************************************************************************)
(* Proofs about ThreadPool, for any number of threads, workers and tasks:  *)
(* a worker runs one task at a time, and no FCP_CHECK of the pool, of its  *)
(* workers or of the future fails (OneTaskPerWorker).  The facts about the *)
(* closures are stated for any queue, threads and workers, because a       *)
(* schedule is the second half of most steps.                              *)
(***************************************************************************)
EXTENDS ThreadPool, Counting, SequenceTheorems

ThreadType == [Threads -> [at : {"enter", "wait", "woken", "task", "check", "next", "exited"},
                           run : Closures \cup {NoChild}]]
WorkerType == [Workers -> [alive : BOOLEAN, running : BOOLEAN, steps : Seq(Closures)]]
OwnerType == [at : {"schedule", "take", "idle", "destroy", "pool", "join", "done"}, next : Nat]

PoolTypeOK ==
  /\ todo \in Seq(Closures)
  /\ thread \in ThreadType
  /\ worker \in WorkerType
  /\ owner \in OwnerType
  /\ owner.at = "schedule" => owner.next \in 1..Len(Plan)
  /\ future \in {"kNotSet", "kSet", "kTaken"}
  /\ joining \in BOOLEAN

Live(th, t) == th[t].at \in {"task", "check", "next"}
On(th, t, w) == Live(th, t) /\ th[t].run.on = w

\* Thread t is in a closure, which is one of a worker once the body has run.
RunsClosure(th) ==
  \A t \in Threads : /\ Live(th, t) => th[t].run \in Closures
                     /\ th[t].at \in {"check", "next"} => th[t].run.on \in Workers

\* The steps of a worker are its own.
StepsOwn(wk) == \A w \in Workers : \A i \in 1..Len(wk[w].steps) : wk[w].steps[i].on = w

\* Of each worker at most one closure is in the hands of the pool, and none while
\* running_ is false.
Exclusive(td, th, wk) ==
  \A w \in Workers :
    /\ \A k, l \in 1..Len(td) : td[k].on = w /\ td[l].on = w => k = l
    /\ \A t, u \in Threads : On(th, t, w) /\ On(th, u, w) => t = u
    /\ \A k \in 1..Len(td), t \in Threads : ~(td[k].on = w /\ On(th, t, w))
    /\ ~wk[w].running => /\ \A k \in 1..Len(td) : td[k].on # w
                         /\ \A t \in Threads : ~On(th, t, w)

\* The closure with the promise is in one place at most.
Has(th, t) == th[t].at = "task" /\ th[t].run.task = FutureTask
PromiseOnce(td, th, wk) ==
  /\ \A k, l \in 1..Len(td) : td[k].task = FutureTask /\ td[l].task = FutureTask => k = l
  /\ \A t, u \in Threads : Has(th, t) /\ Has(th, u) => t = u
  /\ \A w, v \in Workers : \A i \in 1..Len(wk[w].steps), j \in 1..Len(wk[v].steps) :
       wk[w].steps[i].task = FutureTask /\ wk[v].steps[j].task = FutureTask => w = v /\ i = j
  /\ \A k \in 1..Len(td), t \in Threads : ~(td[k].task = FutureTask /\ Has(th, t))
  /\ \A k \in 1..Len(td), w \in Workers : \A i \in 1..Len(wk[w].steps) :
       ~(td[k].task = FutureTask /\ wk[w].steps[i].task = FutureTask)
  /\ \A t \in Threads, w \in Workers : \A i \in 1..Len(wk[w].steps) :
       ~(Has(th, t) /\ wk[w].steps[i].task = FutureTask)

NoPromise(td, th, wk) ==
  /\ \A k \in 1..Len(td) : td[k].task # FutureTask
  /\ \A t \in Threads : ~Has(th, t)
  /\ \A w \in Workers : \A i \in 1..Len(wk[w].steps) : wk[w].steps[i].task # FutureTask

\* active_count_ counts the threads outside the wait, and once the owner has seen
\* the pool idle nothing is left in it.
ActiveStates == {"enter", "task", "check", "next"}
ActiveThreads(th) == {t \in Threads : th[t].at \in ActiveStates}
Quiet == owner.at \in {"destroy", "pool", "join", "done"}

PoolInv ==
  /\ PoolTypeOK
  /\ RunsClosure(thread) /\ StepsOwn(worker)
  /\ Exclusive(todo, thread, worker)
  /\ PromiseOnce(todo, thread, worker)
  /\ (owner.at = "schedule" /\ owner.next = 1) \/ future # "kNotSet" => NoPromise(todo, thread, worker)
  /\ owner.at = "schedule" /\ owner.next = 1 => future = "kNotSet"
  /\ future = "kTaken" => owner.at \notin {"schedule", "take"}
  /\ activeThreads = Cardinality(ActiveThreads(thread))
  /\ Quiet => todo = <<>> /\ activeThreads = 0
  /\ owner.at \notin {"pool", "join", "done"} => \A w \in Workers : worker[w].alive
  /\ joining => owner.at \in {"join", "done"}
  /\ failed = {}

-----------------------------------------------------------------------------
(* Schedule, of the pool and of a worker.                                  *)

\* The threads th2 are those of th, some of which were woken.
SameHands(th, th2) ==
  \A t \in Threads : /\ th2[t].run = th[t].run
                     /\ th2[t].at = th[t].at \/ (th[t].at = "wait" /\ th2[t].at = "woken")

\* A closure that is queued wakes at most one waiting thread.
LEMMA WakeOne ==
  ASSUME NEW th \in ThreadType, NEW c \in Closures, todo \in Seq(Closures), PoolSchedule(c, th)
  PROVE  /\ thread' \in ThreadType /\ SameHands(th, thread')
         /\ todo' \in Seq(Closures) /\ Len(todo') = Len(todo) + 1 /\ todo'[Len(todo) + 1] = c
         /\ \A k \in 1..Len(todo) : todo'[k] = todo[k]
<1>1. todo' = Append(todo, c)
  BY DEF PoolSchedule
<1>2. CASE Waiting(th) = {}
  BY <1>1, <1>2, AppendProperties DEF PoolSchedule, SameHands
<1>3. CASE Waiting(th) # {}
  <2>1. PICK t \in Waiting(th) : thread' = [th EXCEPT ![t].at = "woken"]
    BY <1>3 DEF PoolSchedule
  <2>2. thread' \in ThreadType /\ SameHands(th, thread')
    BY <2>1 DEF Waiting, ThreadType, SameHands
  <2> QED
    BY <1>1, <2>2, AppendProperties
<1> QED
  BY <1>2, <1>3

\* A thread that is woken holds no closure.
LEMMA HandsKeep ==
  ASSUME NEW th, NEW th2, SameHands(th, th2)
  PROVE  /\ \A t \in Threads : Live(th2, t) <=> Live(th, t)
         /\ \A t \in Threads, w \in Workers : On(th2, t, w) <=> On(th, t, w)
         /\ \A t \in Threads : Has(th2, t) <=> Has(th, t)
         /\ RunsClosure(th) => RunsClosure(th2)
         /\ ActiveThreads(th2) = ActiveThreads(th)
<1>1. \A t \in Threads : Live(th2, t) <=> Live(th, t)
  BY DEF SameHands, Live
<1>2. \A t \in Threads, w \in Workers : On(th2, t, w) <=> On(th, t, w)
  BY <1>1 DEF SameHands, On
<1>3. \A t \in Threads : Has(th2, t) <=> Has(th, t)
  BY DEF SameHands, Has
<1>4. RunsClosure(th) => RunsClosure(th2)
  BY <1>1 DEF SameHands, RunsClosure
<1>5. ActiveThreads(th2) = ActiveThreads(th)
  BY DEF SameHands, ActiveThreads, ActiveStates
<1> QED
  BY <1>1, <1>2, <1>3, <1>4, <1>5

\* Queueing a closure of the pool, or one of a worker that has none in the pool.
LEMMA PushExclusive ==
  ASSUME NEW td \in Seq(Closures), NEW td2 \in Seq(Closures), NEW th, NEW th2, NEW wk, NEW wk2,
         NEW c \in Closures,
         SameHands(th, th2), Exclusive(td, th, wk),
         Len(td2) = Len(td) + 1, td2[Len(td) + 1] = c, \A k \in 1..Len(td) : td2[k] = td[k],
         \A w \in Workers \ {c.on} : wk2[w].running = wk[w].running,
         c.on \in Workers => ~wk[c.on].running /\ wk2[c.on].running
  PROVE  Exclusive(td2, th2, wk2)
<1> SUFFICES ASSUME NEW w \in Workers
             PROVE  /\ \A k, l \in 1..Len(td2) : td2[k].on = w /\ td2[l].on = w => k = l
                    /\ \A t, u \in Threads : On(th2, t, w) /\ On(th2, u, w) => t = u
                    /\ \A k \in 1..Len(td2), t \in Threads : ~(td2[k].on = w /\ On(th2, t, w))
                    /\ ~wk2[w].running => /\ \A k \in 1..Len(td2) : td2[k].on # w
                                          /\ \A t \in Threads : ~On(th2, t, w)
  BY DEF Exclusive
<1>1. \A t \in Threads : On(th2, t, w) <=> On(th, t, w)
  BY HandsKeep
<1>2. Len(td) \in Nat
  BY LenProperties
<1>3. /\ \A k, l \in 1..Len(td) : td[k].on = w /\ td[l].on = w => k = l
      /\ \A t, u \in Threads : On(th, t, w) /\ On(th, u, w) => t = u
      /\ \A k \in 1..Len(td), t \in Threads : ~(td[k].on = w /\ On(th, t, w))
      /\ ~wk[w].running => /\ \A k \in 1..Len(td) : td[k].on # w
                           /\ \A t \in Threads : ~On(th, t, w)
  BY SMTT(60) DEF Exclusive
<1>4. CASE c.on = w
  BY <1>1, <1>2, <1>3, <1>4, SMTT(60)
<1>5. CASE c.on # w
  BY <1>1, <1>2, <1>3, <1>5, SMTT(60)
<1> QED
  BY <1>4, <1>5

\* Queueing the closure with the promise, or another one.
LEMMA PushPromise ==
  ASSUME NEW td \in Seq(Closures), NEW td2 \in Seq(Closures), NEW th, NEW th2, NEW wk,
         NEW c \in Closures, SameHands(th, th2), PromiseOnce(td, th, wk),
         Len(td2) = Len(td) + 1, td2[Len(td) + 1] = c, \A k \in 1..Len(td) : td2[k] = td[k],
         c.task = FutureTask => NoPromise(td, th, wk)
  PROVE  /\ PromiseOnce(td2, th2, wk)
         /\ c.task # FutureTask /\ NoPromise(td, th, wk) => NoPromise(td2, th2, wk)
<1>1. \A t \in Threads : Has(th2, t) <=> Has(th, t)
  BY HandsKeep
<1>2. Len(td) \in Nat
  BY LenProperties
<1>3. ASSUME c.task # FutureTask
      PROVE  /\ PromiseOnce(td2, th2, wk)
             /\ NoPromise(td, th, wk) => NoPromise(td2, th2, wk)
  <2>1. \A k \in 1..Len(td2) : td2[k].task = FutureTask => k \in 1..Len(td) /\ td[k].task = FutureTask
    BY <1>2, <1>3
  <2>2. PromiseOnce(td2, th2, wk)
    BY <1>1, <2>1 DEF PromiseOnce
  <2>3. NoPromise(td, th, wk) => NoPromise(td2, th2, wk)
    BY <1>1, <2>1, SMTT(60) DEF NoPromise
  <2> QED
    BY <2>2, <2>3
<1>4. ASSUME c.task = FutureTask PROVE PromiseOnce(td2, th2, wk)
  <2>1. NoPromise(td, th, wk)
    BY <1>4
  <2>2. \A k \in 1..Len(td2) : td2[k].task = FutureTask => k = Len(td) + 1
    BY <1>2, <2>1 DEF NoPromise
  <2> QED
    BY <1>1, <2>1, <2>2 DEF PromiseOnce, NoPromise
<1> QED
  BY <1>3, <1>4

\* The first step of worker w is gone.
Popped(w, wk, wk2) ==
  /\ wk[w].steps # <<>> /\ wk2[w].steps = Tail(wk[w].steps)
  /\ \A v \in Workers \ {w} : wk2[v].steps = wk[v].steps

\* The worker's first step goes to the pool.
LEMMA PopPromise ==
  ASSUME NEW td, NEW th, NEW wk \in WorkerType, NEW wk2, NEW w \in Workers,
         Popped(w, wk, wk2), PromiseOnce(td, th, wk)
  PROVE  /\ PromiseOnce(td, th, wk2)
         /\ Head(wk[w].steps).task = FutureTask => NoPromise(td, th, wk2)
         /\ NoPromise(td, th, wk) => NoPromise(td, th, wk2)
         /\ StepsOwn(wk) => StepsOwn(wk2) /\ Head(wk[w].steps).on = w
         /\ wk2[w].steps \in Seq(Closures) /\ Head(wk[w].steps) \in Closures
<1>1. wk[w].steps \in Seq(Closures)
  BY DEF WorkerType
<1>2. /\ Head(wk[w].steps) = wk[w].steps[1] /\ 1 \in 1..Len(wk[w].steps)
      /\ \A i \in 1..Len(wk2[w].steps) : i + 1 \in 1..Len(wk[w].steps)
                                         /\ wk2[w].steps[i] = wk[w].steps[i + 1]
      /\ wk2[w].steps \in Seq(Closures) /\ Head(wk[w].steps) \in Closures
  <2>1. Len(wk[w].steps) \in Nat \ {0}
    BY <1>1, EmptySeq, LenProperties DEF Popped
  <2>2. /\ Head(wk[w].steps) = wk[w].steps[1] /\ Tail(wk[w].steps) \in Seq(Closures)
        /\ Len(Tail(wk[w].steps)) = Len(wk[w].steps) - 1
        /\ \A i \in 1..Len(Tail(wk[w].steps)) : Tail(wk[w].steps)[i] = wk[w].steps[i + 1]
    BY <1>1, HeadTailProperties DEF Popped
  <2>3. wk[w].steps[1] \in Closures
    BY <1>1, <2>1, ElementOfSeq
  <2> QED
    BY <2>1, <2>2, <2>3 DEF Popped
<1>3. \A v \in Workers : \A i \in 1..Len(wk2[v].steps) :
        \E j \in 1..Len(wk[v].steps) :
          /\ wk2[v].steps[i] = wk[v].steps[j]
          /\ IF v = w THEN j = i + 1 ELSE j = i
  BY <1>2, ZenonT(60) DEF Popped
<1>4. PromiseOnce(td, th, wk2)
  <2>1. ASSUME NEW u \in Workers, NEW v \in Workers, NEW i \in 1..Len(wk2[u].steps), NEW j \in 1..Len(wk2[v].steps),
               wk2[u].steps[i].task = FutureTask, wk2[v].steps[j].task = FutureTask
        PROVE  u = v /\ i = j
    <3>1. PICK a \in 1..Len(wk[u].steps) : wk2[u].steps[i] = wk[u].steps[a] /\ IF u = w THEN a = i + 1 ELSE a = i
      BY <1>3
    <3>2. PICK b \in 1..Len(wk[v].steps) : wk2[v].steps[j] = wk[v].steps[b] /\ IF v = w THEN b = j + 1 ELSE b = j
      BY <1>3
    <3>3. u = v /\ a = b
      BY <2>1, <3>1, <3>2, SMTT(60) DEF PromiseOnce
    <3>4. i \in Int /\ j \in Int
      BY <1>3
    <3> QED
      BY <3>1, <3>2, <3>3, <3>4
  <2>2. \A v \in Workers : \A i \in 1..Len(wk2[v].steps) :
          wk2[v].steps[i].task = FutureTask => \E j \in 1..Len(wk[v].steps) : wk[v].steps[j].task = FutureTask
    <3> SUFFICES ASSUME NEW v \in Workers, NEW i \in 1..Len(wk2[v].steps), wk2[v].steps[i].task = FutureTask
                 PROVE  \E j \in 1..Len(wk[v].steps) : wk[v].steps[j].task = FutureTask
      OBVIOUS
    <3>1. PICK j \in 1..Len(wk[v].steps) : wk2[v].steps[i] = wk[v].steps[j]
      BY <1>3
    <3> QED
      BY <3>1
  <2> QED
    BY <2>1, <2>2, SMTT(60) DEF PromiseOnce
<1>5. ASSUME Head(wk[w].steps).task = FutureTask PROVE NoPromise(td, th, wk2)
  <2>1. wk[w].steps[1].task = FutureTask
    BY <1>2, <1>5
  <2>2. ASSUME NEW v \in Workers, NEW i \in 1..Len(wk2[v].steps), wk2[v].steps[i].task = FutureTask
        PROVE FALSE
    <3>1. PICK b \in 1..Len(wk[v].steps) : wk2[v].steps[i] = wk[v].steps[b] /\ IF v = w THEN b = i + 1 ELSE b = i
      BY <1>3
    <3>2. v = w /\ b = 1
      BY <1>2, <2>1, <2>2, <3>1 DEF PromiseOnce
    <3> QED
      BY <3>1, <3>2
  <2> QED
    BY <1>2, <2>1, <2>2 DEF PromiseOnce, NoPromise
<1>6. ASSUME NoPromise(td, th, wk) PROVE NoPromise(td, th, wk2)
  <2>1. ASSUME NEW v \in Workers, NEW i \in 1..Len(wk2[v].steps)
        PROVE  wk2[v].steps[i].task # FutureTask
    <3>1. PICK j \in 1..Len(wk[v].steps) : wk2[v].steps[i] = wk[v].steps[j]
      BY <1>3
    <3>2. wk[v].steps[j].task # FutureTask
      BY <1>6 DEF NoPromise
    <3> QED
      BY <3>1, <3>2
  <2> QED
    BY <1>6, <2>1 DEF NoPromise
<1>7. ASSUME StepsOwn(wk) PROVE StepsOwn(wk2) /\ Head(wk[w].steps).on = w
  <2>1. Head(wk[w].steps).on = w
    BY <1>2, <1>7 DEF StepsOwn
  <2>2. ASSUME NEW v \in Workers, NEW i \in 1..Len(wk2[v].steps)
        PROVE  wk2[v].steps[i].on = v
    <3>1. PICK j \in 1..Len(wk[v].steps) : wk2[v].steps[i] = wk[v].steps[j]
      BY <1>3
    <3>2. wk[v].steps[j].on = v
      BY <1>7 DEF StepsOwn
    <3> QED
      BY <3>1, <3>2
  <2>3. StepsOwn(wk2)
    BY <2>2 DEF StepsOwn
  <2> QED
    BY <2>1, <2>3
<1> QED
  BY <1>2, <1>4, <1>5, <1>6, <1>7

\* Workers whose steps hold the promise only where others had it.
NoNewPromise(wk, wk2) ==
  \A v \in Workers : \A i \in 1..Len(wk2[v].steps) :
    wk2[v].steps[i].task = FutureTask => i \in 1..Len(wk[v].steps) /\ wk[v].steps[i].task = FutureTask

LEMMA NoNewPromiseKeeps ==
  ASSUME NEW td, NEW th, NEW wk, NEW wk2, PromiseOnce(td, th, wk), NoNewPromise(wk, wk2)
  PROVE  PromiseOnce(td, th, wk2)
<1>1. ASSUME NEW w \in Workers, NEW v \in Workers,
             NEW i \in 1..Len(wk2[w].steps), NEW j \in 1..Len(wk2[v].steps),
             wk2[w].steps[i].task = FutureTask, wk2[v].steps[j].task = FutureTask
      PROVE  w = v /\ i = j
  <2>1. /\ i \in 1..Len(wk[w].steps) /\ wk[w].steps[i].task = FutureTask
        /\ j \in 1..Len(wk[v].steps) /\ wk[v].steps[j].task = FutureTask
    BY <1>1 DEF NoNewPromise
  <2> QED
    BY <2>1 DEF PromiseOnce
<1>2. ASSUME NEW w \in Workers, NEW i \in 1..Len(wk2[w].steps), wk2[w].steps[i].task = FutureTask
      PROVE  /\ \A k \in 1..Len(td) : td[k].task # FutureTask
             /\ \A t \in Threads : ~Has(th, t)
  <2>1. i \in 1..Len(wk[w].steps) /\ wk[w].steps[i].task = FutureTask
    BY <1>2 DEF NoNewPromise
  <2> QED
    BY <2>1 DEF PromiseOnce
<1> QED
  BY <1>1, <1>2 DEF PromiseOnce

\* A step is added to those of a worker.
LEMMA StepPromise ==
  ASSUME NEW td, NEW th, NEW wk \in WorkerType, NEW wk2, NEW w \in Workers, NEW c \in Closures,
         wk2[w].steps = Append(wk[w].steps, c), c.on = w,
         \A v \in Workers \ {w} : wk2[v].steps = wk[v].steps,
         PromiseOnce(td, th, wk), StepsOwn(wk),
         c.task = FutureTask => NoPromise(td, th, wk)
  PROVE  /\ PromiseOnce(td, th, wk2) /\ StepsOwn(wk2)
         /\ c.task # FutureTask /\ NoPromise(td, th, wk) => NoPromise(td, th, wk2)
<1> DEFINE n == Len(wk[w].steps)
<1>1. /\ n \in Nat /\ Len(wk2[w].steps) = n + 1 /\ wk2[w].steps[n + 1] = c
      /\ \A i \in 1..n : wk2[w].steps[i] = wk[w].steps[i]
  BY AppendProperties, LenProperties DEF WorkerType
<1> HIDE DEF n
<1>2. \A v \in Workers : \A i \in 1..Len(wk2[v].steps) :
        \/ i \in 1..Len(wk[v].steps) /\ wk2[v].steps[i] = wk[v].steps[i]
        \/ v = w /\ i = n + 1 /\ wk2[v].steps[i] = c
  <2>1. \A i \in 1..(n + 1) : i \in 1..n \/ i = n + 1
    BY <1>1
  <2>2. n = Len(wk[w].steps)
    BY DEF n
  <2>3. \A i \in 1..Len(wk2[w].steps) :
          \/ i \in 1..Len(wk[w].steps) /\ wk2[w].steps[i] = wk[w].steps[i]
          \/ i = n + 1 /\ wk2[w].steps[i] = c
    BY <1>1, <2>1, <2>2
  <2>4. \A v \in Workers \ {w} : \A i \in 1..Len(wk2[v].steps) :
          i \in 1..Len(wk[v].steps) /\ wk2[v].steps[i] = wk[v].steps[i]
    OBVIOUS
  <2> QED
    BY <2>3, <2>4, SMTT(60)
<1>3. StepsOwn(wk2)
  BY <1>2, SMTT(60) DEF StepsOwn
<1>4. ASSUME c.task # FutureTask
      PROVE  /\ PromiseOnce(td, th, wk2)
             /\ NoPromise(td, th, wk) => NoPromise(td, th, wk2)
  <2>1. \A v \in Workers : \A i \in 1..Len(wk2[v].steps) :
          wk2[v].steps[i].task = FutureTask => i \in 1..Len(wk[v].steps) /\ wk[v].steps[i].task = FutureTask
    <3> SUFFICES ASSUME NEW v \in Workers, NEW i \in 1..Len(wk2[v].steps), wk2[v].steps[i].task = FutureTask
                 PROVE  i \in 1..Len(wk[v].steps) /\ wk[v].steps[i].task = FutureTask
      OBVIOUS
    <3>1. \/ i \in 1..Len(wk[v].steps) /\ wk2[v].steps[i] = wk[v].steps[i]
          \/ wk2[v].steps[i] = c
      BY <1>2
    <3> QED
      BY <1>4, <3>1
  <2>2. PromiseOnce(td, th, wk2)
    BY <2>1, NoNewPromiseKeeps, SMTT(60) DEF NoNewPromise
  <2>3. NoPromise(td, th, wk) => NoPromise(td, th, wk2)
    BY <2>1, SMTT(60) DEF NoPromise
  <2> QED
    BY <2>2, <2>3
<1>5. ASSUME c.task = FutureTask PROVE PromiseOnce(td, th, wk2)
  <2>1. NoPromise(td, th, wk)
    BY <1>5
  <2>2. \A v \in Workers : \A i \in 1..Len(wk2[v].steps) :
          wk2[v].steps[i].task = FutureTask => v = w /\ i = n + 1
    BY <1>2, <2>1, SMTT(60) DEF NoPromise
  <2> QED
    BY <2>1, <2>2 DEF PromiseOnce, NoPromise
<1> QED
  BY <1>3, <1>4, <1>5

\* What a schedule leaves behind, from the threads th on.
Kept(th) ==
  /\ todo' \in Seq(Closures) /\ thread' \in ThreadType /\ worker' \in WorkerType
  /\ SameHands(th, thread') /\ StepsOwn(worker')
  /\ Exclusive(todo', thread', worker') /\ PromiseOnce(todo', thread', worker')
  /\ \A w \in Workers : worker'[w].alive = worker[w].alive

\* The worker's first step is queued, and the worker runs from then on.
LEMMA HandOver ==
  ASSUME NEW w \in Workers, NEW th \in ThreadType, NEW wk \in WorkerType,
         todo \in Seq(Closures), wk[w].steps # <<>>, wk[w].running = FALSE,
         worker'[w].steps = Tail(wk[w].steps), worker'[w].running = TRUE,
         \A v \in Workers \ {w} : worker'[v] = wk[v],
         PoolSchedule(Head(wk[w].steps), th),
         StepsOwn(wk), Exclusive(todo, th, wk), PromiseOnce(todo, th, wk)
  PROVE  /\ worker'[w].steps \in Seq(Closures)
         /\ todo' \in Seq(Closures) /\ thread' \in ThreadType
         /\ SameHands(th, thread') /\ StepsOwn(worker')
         /\ Exclusive(todo', thread', worker') /\ PromiseOnce(todo', thread', worker')
         /\ NoPromise(todo, th, wk) => NoPromise(todo', thread', worker')
<1> DEFINE c == Head(wk[w].steps)
<1>1. /\ PromiseOnce(todo, th, worker')
      /\ c.task = FutureTask => NoPromise(todo, th, worker')
      /\ NoPromise(todo, th, wk) => NoPromise(todo, th, worker')
      /\ StepsOwn(worker') /\ c.on = w
      /\ worker'[w].steps \in Seq(Closures) /\ c \in Closures
  <2>1. Popped(w, wk, worker')
    BY DEF Popped
  <2>2. PromiseOnce(todo, th, worker')
    BY <2>1, PopPromise, SMTT(60)
  <2>3. c.task = FutureTask => NoPromise(todo, th, worker')
    BY <2>1, PopPromise, SMTT(60)
  <2>4. NoPromise(todo, th, wk) => NoPromise(todo, th, worker')
    BY <2>1, PopPromise, SMTT(60)
  <2>5. StepsOwn(worker') /\ c.on = w
    BY <2>1, PopPromise, SMTT(60)
  <2>6. worker'[w].steps \in Seq(Closures) /\ c \in Closures
    BY <2>1, PopPromise, ZenonT(60)
  <2> QED
    BY <2>2, <2>3, <2>4, <2>5, <2>6, SMTT(60)
<1>2. NoPromise(todo, th, wk) => c.task # FutureTask
  <2>1. wk[w].steps \in Seq(Closures)
    BY DEF WorkerType
  <2>2. 1 \in 1..Len(wk[w].steps) /\ c = wk[w].steps[1]
    BY <2>1, EmptySeq, LenProperties, HeadTailProperties, SMTT(60)
  <2> QED
    BY <2>2 DEF NoPromise
<1> HIDE DEF c
<1>3. /\ thread' \in ThreadType /\ SameHands(th, thread')
      /\ todo' \in Seq(Closures) /\ Len(todo') = Len(todo) + 1 /\ todo'[Len(todo) + 1] = c
      /\ \A k \in 1..Len(todo) : todo'[k] = todo[k]
  <2>1. PoolSchedule(c, th)
    BY DEF c
  <2> QED
    BY <1>1, <2>1, WakeOne
<1>4. Exclusive(todo', thread', worker')
  <2>1. /\ \A v \in Workers \ {c.on} : worker'[v].running = wk[v].running
        /\ ~wk[c.on].running /\ worker'[c.on].running
    BY <1>1
  <2> QED
    BY <1>1, <1>3, <2>1, PushExclusive, SMTT(60)
<1>5. /\ PromiseOnce(todo', thread', worker')
      /\ c.task # FutureTask /\ NoPromise(todo, th, worker') => NoPromise(todo', thread', worker')
  BY <1>1, <1>3, PushPromise, SMTT(60)
<1> QED
  BY <1>1, <1>2, <1>3, <1>4, <1>5, SMTT(60)

\* MaybeRunNext hands the worker's next closure to the pool if none of them is there.
LEMMA MaybeRunNextKeeps ==
  ASSUME NEW w \in Workers, NEW steps \in Seq(Closures), NEW running \in BOOLEAN,
         NEW th \in ThreadType, NEW wk,
         todo \in Seq(Closures), worker \in WorkerType,
         wk = [worker EXCEPT ![w].steps = steps, ![w].running = running],
         StepsOwn(wk), Exclusive(todo, th, wk), PromiseOnce(todo, th, wk),
         MaybeRunNext(w, steps, running, th)
  PROVE  /\ Kept(th)
         /\ NoPromise(todo, th, wk) => NoPromise(todo', thread', worker')
<1>1. /\ wk \in WorkerType /\ wk[w].steps = steps /\ wk[w].running = running
      /\ \A v \in Workers \ {w} : wk[v] = worker[v]
      /\ \A v \in Workers : wk[v].alive = worker[v].alive
  BY ZenonT(60) DEF WorkerType
<1>2. CASE running \/ steps = <<>>
  <2>1. worker' = wk /\ thread' = th /\ todo' = todo
    BY <1>2 DEF MaybeRunNext
  <2>2. SameHands(th, thread')
    BY <2>1 DEF SameHands
  <2> QED
    BY <1>1, <2>1, <2>2, ZenonT(60) DEF Kept
<1>3. CASE ~running /\ steps # <<>>
  <2>1. /\ worker' = [worker EXCEPT ![w].steps = Tail(steps), ![w].running = TRUE]
        /\ PoolSchedule(Head(steps), th)
    BY <1>3, ZenonT(60) DEF MaybeRunNext
  <2>2. /\ worker'[w].steps = Tail(steps) /\ worker'[w].running = TRUE
        /\ \A v \in Workers \ {w} : worker'[v] = worker[v]
        /\ \A v \in Workers : worker'[v].alive = worker[v].alive
    BY <2>1 DEF WorkerType
  <2>3. /\ wk[w].steps # <<>> /\ wk[w].running = FALSE
        /\ worker'[w].steps = Tail(wk[w].steps) /\ PoolSchedule(Head(wk[w].steps), th)
        /\ \A v \in Workers \ {w} : worker'[v] = wk[v]
    BY <1>1, <1>3, <2>1, <2>2, ZenonT(60)
  <2>4. /\ worker'[w].steps \in Seq(Closures)
        /\ todo' \in Seq(Closures) /\ thread' \in ThreadType
        /\ SameHands(th, thread') /\ StepsOwn(worker')
        /\ Exclusive(todo', thread', worker') /\ PromiseOnce(todo', thread', worker')
        /\ NoPromise(todo, th, wk) => NoPromise(todo', thread', worker')
    BY <1>1, <2>2, <2>3, HandOver, ZenonT(60)
  <2>5. worker' \in WorkerType
    BY <2>1, <2>2, <2>4, ZenonT(60) DEF WorkerType
  <2> QED
    BY <2>2, <2>4, <2>5 DEF Kept
<1> QED
  BY <1>2, <1>3

\* Schedule, of the pool or of a worker.
LEMMA ScheduleKeeps ==
  ASSUME NEW c \in Closures, NEW th \in ThreadType,
         todo \in Seq(Closures), worker \in WorkerType,
         StepsOwn(worker), Exclusive(todo, th, worker), PromiseOnce(todo, th, worker),
         ScheduleClosure(c, th),
         c.task = FutureTask => NoPromise(todo, th, worker)
  PROVE  /\ Kept(th)
         /\ c.task # FutureTask /\ NoPromise(todo, th, worker) => NoPromise(todo', thread', worker')
<1>1. CASE c.on = "pool"
  <2>1. PoolSchedule(c, th) /\ worker' = worker
    BY <1>1 DEF ScheduleClosure
  <2>2. c.on \notin Workers
    BY <1>1, PoolHasThreads
  <2>3. /\ thread' \in ThreadType /\ SameHands(th, thread')
        /\ todo' \in Seq(Closures) /\ Len(todo') = Len(todo) + 1 /\ todo'[Len(todo) + 1] = c
        /\ \A k \in 1..Len(todo) : todo'[k] = todo[k]
    BY <2>1, WakeOne, SMTT(60)
  <2>4. Exclusive(todo', thread', worker')
    BY <2>1, <2>2, <2>3, PushExclusive, SMTT(60)
  <2>5. /\ PromiseOnce(todo', thread', worker')
        /\ c.task # FutureTask /\ NoPromise(todo, th, worker) => NoPromise(todo', thread', worker')
    BY <2>1, <2>3, PushPromise, SMTT(60)
  <2> QED
    BY <2>1, <2>3, <2>4, <2>5, SMTT(60) DEF Kept
<1>2. CASE c.on # "pool"
  <2> DEFINE w == c.on
             steps == Append(worker[w].steps, c)
             running == worker[w].running
             wk == [worker EXCEPT ![w].steps = steps, ![w].running = running]
  <2>1. w \in Workers /\ running \in BOOLEAN /\ worker[w].steps \in Seq(Closures)
    BY <1>2, ZenonT(60) DEF Closures, Places, WorkerType
  <2>2. steps \in Seq(Closures) /\ MaybeRunNext(w, steps, running, th)
    BY <1>2, <2>1, AppendProperties, SMTT(60) DEF ScheduleClosure
  <2>3. /\ wk[w].steps = steps /\ wk[w].running = running
        /\ \A v \in Workers \ {w} : wk[v] = worker[v]
    BY <2>1, SMTT(60) DEF WorkerType
  <2>4. /\ PromiseOnce(todo, th, wk) /\ StepsOwn(wk)
        /\ c.task # FutureTask /\ NoPromise(todo, th, worker) => NoPromise(todo, th, wk)
    <3>1. wk[w].steps = Append(worker[w].steps, c) /\ \A v \in Workers \ {w} : wk[v].steps = worker[v].steps
      BY <2>3, ZenonT(60)
    <3> HIDE DEF wk
    <3> QED
      BY <2>1, <3>1, StepPromise, SMTT(60)
  <2>5. Exclusive(todo, th, wk)
    <3>1. \A v \in Workers : wk[v].running = worker[v].running
      BY <2>1, <2>3, ZenonT(60)
    <3> HIDE DEF wk
    <3> QED
      BY <3>1 DEF Exclusive
  <2>6. wk = [worker EXCEPT ![w].steps = steps, ![w].running = running]
    OBVIOUS
  <2> HIDE DEF wk, steps, running, w
  <2> QED
    BY <2>1, <2>2, <2>4, <2>5, <2>6, MaybeRunNextKeeps, ZenonT(60)
<1> QED
  BY <1>1, <1>2
-----------------------------------------------------------------------------
(* Closures that threads take, and threads that let go of them.            *)

\* Thread t takes the closure at the head of the queue.
LEMMA DequeueHands ==
  ASSUME NEW td \in Seq(Closures), td # <<>>, NEW th, NEW th2, NEW wk, NEW t \in Threads, ~Live(th, t),
         th2[t] = [at |-> "task", run |-> Head(td)], \A u \in Threads \ {t} : th2[u] = th[u],
         RunsClosure(th), Exclusive(td, th, wk), PromiseOnce(td, th, wk)
  PROVE  /\ Tail(td) \in Seq(Closures) /\ RunsClosure(th2)
         /\ Exclusive(Tail(td), th2, wk) /\ PromiseOnce(Tail(td), th2, wk)
         /\ NoPromise(td, th, wk) => NoPromise(Tail(td), th2, wk)
<1> DEFINE rest == Tail(td)
<1>1. /\ 1 \in 1..Len(td) /\ Head(td) = td[1] /\ td[1] \in Closures /\ rest \in Seq(Closures)
      /\ \A k \in 1..Len(rest) : k \in Int /\ k + 1 \in 1..Len(td) /\ k + 1 # 1 /\ rest[k] = td[k + 1]
  <2>1. Len(td) \in Nat \ {0}
    BY EmptySeq, LenProperties
  <2>2. /\ Head(td) = td[1] /\ rest \in Seq(Closures) /\ Len(rest) = Len(td) - 1
        /\ \A k \in 1..Len(rest) : rest[k] = td[k + 1]
    BY HeadTailProperties
  <2>3. td[1] \in Closures
    BY <2>1, ElementOfSeq
  <2> QED
    BY <2>1, <2>2, <2>3
<1> HIDE DEF rest
<1>2. /\ th2[t].at = "task" /\ th2[t].run = td[1]
      /\ \A u \in Threads \ {t} : th2[u].at = th[u].at /\ th2[u].run = th[u].run
  BY <1>1
<1>3. RunsClosure(th2)
  <2>1. \A u \in Threads \ {t} : /\ Live(th2, u) => th2[u].run \in Closures
                                 /\ th2[u].at \in {"check", "next"} => th2[u].run.on \in Workers
    BY <1>2, SMTT(60) DEF RunsClosure, Live
  <2>2. th2[t].run \in Closures /\ th2[t].at \notin {"check", "next"}
    BY <1>1, <1>2, SMTT(60)
  <2> QED
    BY <2>1, <2>2, SMTT(60) DEF RunsClosure
<1>4. /\ \A u \in Threads, w \in Workers : On(th2, u, w) <=> IF u = t THEN td[1].on = w ELSE On(th, u, w)
      /\ \A u \in Threads : Has(th2, u) <=> IF u = t THEN td[1].task = FutureTask ELSE Has(th, u)
  BY <1>2, SMTT(60) DEF On, Live, Has
<1>5. Exclusive(rest, th2, wk)
  <2> SUFFICES ASSUME NEW w \in Workers
               PROVE  /\ \A k, l \in 1..Len(rest) : rest[k].on = w /\ rest[l].on = w => k = l
                      /\ \A u, v \in Threads : On(th2, u, w) /\ On(th2, v, w) => u = v
                      /\ \A k \in 1..Len(rest), u \in Threads : ~(rest[k].on = w /\ On(th2, u, w))
                      /\ ~wk[w].running => /\ \A k \in 1..Len(rest) : rest[k].on # w
                                           /\ \A u \in Threads : ~On(th2, u, w)
    BY DEF Exclusive
  <2>1. /\ \A k, l \in 1..Len(td) : td[k].on = w /\ td[l].on = w => k = l
        /\ \A u, v \in Threads : On(th, u, w) /\ On(th, v, w) => u = v
        /\ \A k \in 1..Len(td), u \in Threads : ~(td[k].on = w /\ On(th, u, w))
        /\ ~wk[w].running => /\ \A k \in 1..Len(td) : td[k].on # w
                             /\ \A u \in Threads : ~On(th, u, w)
    BY DEF Exclusive
  <2>2. \A k, l \in 1..Len(rest) : rest[k].on = w /\ rest[l].on = w => k = l
    <3> SUFFICES ASSUME NEW k \in 1..Len(rest), NEW l \in 1..Len(rest), rest[k].on = w, rest[l].on = w
                 PROVE  k = l
      OBVIOUS
    <3>1. /\ k + 1 \in 1..Len(td) /\ l + 1 \in 1..Len(td)
          /\ td[k + 1].on = w /\ td[l + 1].on = w
      BY <1>1, SMTT(60)
    <3>2. k + 1 = l + 1
      BY <2>1, <3>1, SMTT(60)
    <3> QED
      BY <1>1, <3>2, SMTT(60)
  <2>3. \A u, v \in Threads : On(th2, u, w) /\ On(th2, v, w) => u = v
    BY <1>1, <1>4, <2>1, SMTT(60)
  <2>4. \A k \in 1..Len(rest), u \in Threads : ~(rest[k].on = w /\ On(th2, u, w))
    BY <1>1, <1>4, <2>1, SMTT(60)
  <2>5. ~wk[w].running => /\ \A k \in 1..Len(rest) : rest[k].on # w
                          /\ \A u \in Threads : ~On(th2, u, w)
    <3> SUFFICES ASSUME ~wk[w].running
                 PROVE  /\ \A k \in 1..Len(rest) : rest[k].on # w
                        /\ \A u \in Threads : ~On(th2, u, w)
      OBVIOUS
    <3>1. /\ \A k \in 1..Len(td) : td[k].on # w
          /\ \A u \in Threads : ~On(th, u, w)
      BY <2>1
    <3>2. \A k \in 1..Len(rest) : rest[k].on # w
      BY <1>1, <3>1, SMTT(60)
    <3>3. \A u \in Threads : ~On(th2, u, w)
      BY <1>1, <1>4, <3>1, SMTT(60)
    <3> QED
      BY <3>2, <3>3, SMTT(60)
  <2> QED
    BY <2>2, <2>3, <2>4, <2>5, SMTT(60)
<1>6. PromiseOnce(rest, th2, wk)
  <2>1. \A k, l \in 1..Len(rest) : rest[k].task = FutureTask /\ rest[l].task = FutureTask => k = l
    <3> SUFFICES ASSUME NEW k \in 1..Len(rest), NEW l \in 1..Len(rest),
                        rest[k].task = FutureTask, rest[l].task = FutureTask
                 PROVE  k = l
      BY SMTT(60)
    <3>1. k + 1 = l + 1
      BY <1>1, SMTT(60) DEF PromiseOnce
    <3> QED
      BY <1>1, <3>1, SMTT(60)
  <2>2. \A u, v \in Threads : Has(th2, u) /\ Has(th2, v) => u = v
    BY <1>1, <1>4, SMTT(60) DEF PromiseOnce
  <2>3. \A k \in 1..Len(rest), u \in Threads : ~(rest[k].task = FutureTask /\ Has(th2, u))
    BY <1>1, <1>4, SMTT(60) DEF PromiseOnce
  <2>4. \A k \in 1..Len(rest), w \in Workers : \A i \in 1..Len(wk[w].steps) :
          ~(rest[k].task = FutureTask /\ wk[w].steps[i].task = FutureTask)
    BY <1>1, SMTT(60) DEF PromiseOnce
  <2>5. \A u \in Threads, w \in Workers : \A i \in 1..Len(wk[w].steps) :
          ~(Has(th2, u) /\ wk[w].steps[i].task = FutureTask)
    BY <1>1, <1>4, SMTT(60) DEF PromiseOnce
  <2> QED
    BY <2>1, <2>2, <2>3, <2>4, <2>5, SMTT(60) DEF PromiseOnce
<1>7. NoPromise(td, th, wk) => NoPromise(rest, th2, wk)
  BY <1>1, <1>4 DEF NoPromise
<1> QED
  BY <1>1, <1>3, <1>5, <1>6, <1>7, SMTT(60) DEF rest

\* Letting go of a closure disturbs nothing.
LEMMA FewerHands ==
  ASSUME NEW td, NEW th, NEW th2, NEW wk,
         \A u \in Threads, w \in Workers : On(th2, u, w) => On(th, u, w),
         \A u \in Threads : Has(th2, u) => Has(th, u),
         Exclusive(td, th, wk), PromiseOnce(td, th, wk)
  PROVE  /\ Exclusive(td, th2, wk) /\ PromiseOnce(td, th2, wk)
         /\ NoPromise(td, th, wk) => NoPromise(td, th2, wk)
<1>1. Exclusive(td, th2, wk)
  BY SMTT(60) DEF Exclusive
<1>2. PromiseOnce(td, th2, wk)
  BY SMTT(60) DEF PromiseOnce
<1>3. NoPromise(td, th, wk) => NoPromise(td, th2, wk)
  BY DEF NoPromise
<1> QED
  BY <1>1, <1>2, <1>3, SMTT(60)

\* active_count_ is a number, and not zero while a thread is outside the wait.
LEMMA ActiveCount ==
  ASSUME NEW th
  PROVE  /\ IsFiniteSet(ActiveThreads(th)) /\ Cardinality(ActiveThreads(th)) \in Nat
         /\ \A t \in ActiveThreads(th) :
              Cardinality(ActiveThreads(th) \ {t}) = Cardinality(ActiveThreads(th)) - 1
         /\ Cardinality(ActiveThreads(th)) = 0 <=> ActiveThreads(th) = {}
<1>1. IsFiniteSet(ActiveThreads(th))
  <2>1. ActiveThreads(th) \subseteq Threads
    BY DEF ActiveThreads
  <2> QED
    BY <2>1, PoolHasThreads, FS_Subset
<1> QED
  BY <1>1, FS_CardinalityType, FS_EmptySet, FS_RemoveElement, SMTT(60)
-----------------------------------------------------------------------------
(* The steps.                                                              *)

\* While a thread is outside the wait, the owner has not seen the pool idle.
LEMMA ActiveNotQuiet ==
  ASSUME PoolInv, NEW t \in Threads, thread[t].at \in ActiveStates
  PROVE  ~Quiet /\ \A w \in Workers : worker[w].alive
<1>1. t \in ActiveThreads(thread)
  BY DEF ActiveThreads
<1>2. Cardinality(ActiveThreads(thread)) # 0
  BY <1>1, ActiveCount
<1>3. ~Quiet
  BY <1>2, SMTT(60) DEF PoolInv
<1> QED
  BY <1>3 DEF PoolInv, Quiet

\* Every thread starts outside the wait, and nothing is queued.
LEMMA InitInv == PoolInit => PoolInv
<1> SUFFICES ASSUME PoolInit PROVE PoolInv
  OBVIOUS
<1>1. PoolTypeOK
  <2>1. todo \in Seq(Closures) /\ worker \in WorkerType
    BY EmptySeq DEF PoolInit, WorkerType
  <2>2. thread \in ThreadType /\ owner \in OwnerType
    BY DEF PoolInit, ThreadType, OwnerType
  <2>3. 1 \in 1..Len(Plan)
    BY ClosuresKnown, LenProperties
  <2> QED
    BY <2>1, <2>2, <2>3, ZenonT(60) DEF PoolInit, PoolTypeOK
<1>2. /\ \A t \in Threads : ~Live(thread, t) /\ ~Has(thread, t) /\ thread[t].at = "enter"
      /\ \A w \in Workers : worker[w].steps = <<>> /\ worker[w].alive
      /\ todo = <<>> /\ Len(<<>>) = 0 /\ 1..0 = {}
  BY DEF PoolInit, Live, Has
<1>3. RunsClosure(thread) /\ StepsOwn(worker)
  BY <1>2 DEF RunsClosure, StepsOwn
<1>4. Exclusive(todo, thread, worker)
  BY <1>2 DEF Exclusive, On
<1>5. PromiseOnce(todo, thread, worker) /\ NoPromise(todo, thread, worker)
  BY <1>2 DEF PromiseOnce, NoPromise
<1>6. activeThreads = Cardinality(ActiveThreads(thread))
  <2>1. ActiveThreads(thread) = Threads
    BY <1>2 DEF ActiveThreads, ActiveStates
  <2> QED
    BY <2>1 DEF PoolInit
<1> QED
  BY <1>1, <1>2, <1>3, <1>4, <1>5, <1>6, SMTT(60) DEF PoolInit, PoolInv, Quiet

\* The critical section of PerThreadActivity: count is what active_count_ is
\* without thread t.
LEMMA TakeOrWaitInv ==
  ASSUME PoolInv, NEW t \in Threads, NEW count, thread[t].at \in {"enter", "woken"},
         count = Cardinality(ActiveThreads(thread) \ {t}), TakeOrWait(t, count)
  PROVE  PoolInv'
<1> USE DEF PoolTypeOK
<1>1. /\ todo \in Seq(Closures) /\ thread \in ThreadType /\ ~Live(thread, t) /\ ~Has(thread, t)
      /\ RunsClosure(thread) /\ StepsOwn(worker)
      /\ Exclusive(todo, thread, worker) /\ PromiseOnce(todo, thread, worker)
  BY DEF PoolInv, Live, Has
<1>2. UNCHANGED <<joining, worker, owner, future, ran>>
  BY DEF TakeOrWait
<1>3. IsFiniteSet(ActiveThreads(thread) \ {t})
  BY ActiveCount, FS_Subset, FS_Difference, SMTT(60)
<1>4. CASE todo # <<>>
  <2>1. /\ thread' = [thread EXCEPT ![t] = [at |-> "task", run |-> Head(todo)]]
        /\ todo' = Tail(todo) /\ activeThreads' = count + 1
    BY <1>4, SMTT(60) DEF TakeOrWait
  <2>2. /\ thread'[t] = [at |-> "task", run |-> Head(todo)]
        /\ \A u \in Threads \ {t} : thread'[u] = thread[u]
    BY <1>1, <2>1, SMTT(60) DEF ThreadType
  <2>3. /\ Tail(todo) \in Seq(Closures) /\ RunsClosure(thread')
        /\ Exclusive(Tail(todo), thread', worker) /\ PromiseOnce(Tail(todo), thread', worker)
        /\ NoPromise(todo, thread, worker) => NoPromise(Tail(todo), thread', worker)
    BY <1>1, <1>4, <2>2, DequeueHands, ZenonT(60)
  <2>4. thread' \in ThreadType
    <3>1. Head(todo) \in Closures
      BY <1>1, <1>4, EmptySeq, LenProperties, HeadTailProperties, ElementOfSeq, SMTT(60)
    <3> QED
      BY <1>1, <2>1, <3>1, SMTT(60) DEF ThreadType
  <2>5. ~Quiet /\ failed' = {} /\ ~joining
    <3>1. ~Quiet
      BY <1>4, SMTT(60) DEF PoolInv
    <3>2. ~joining
      BY <3>1 DEF PoolInv, Quiet
    <3> QED
      BY <1>4, <3>1, <3>2, SMTT(60) DEF PoolInv, TakeOrWait
  <2>6. activeThreads' = Cardinality(ActiveThreads(thread'))
    <3>1. ActiveThreads(thread') = (ActiveThreads(thread) \ {t}) \cup {t}
      BY <2>2 DEF ActiveThreads, ActiveStates
    <3>2. Cardinality((ActiveThreads(thread) \ {t}) \cup {t}) = count + 1
      BY <1>3, FS_AddElement, ZenonT(60)
    <3> QED
      BY <2>1, <3>1, <3>2, ZenonT(60)
  <2> QED
    BY <1>2, <2>1, <2>3, <2>4, <2>5, <2>6, SMTT(60) DEF PoolInv, Quiet
<1>5. CASE todo = <<>>
  <2>1. /\ thread' = [thread EXCEPT ![t].at = IF joining THEN "exited" ELSE "wait"]
        /\ activeThreads' = count /\ todo' = todo /\ failed' = failed
    BY <1>5 DEF TakeOrWait
  <2>2. /\ thread'[t].at \in {"exited", "wait"} /\ thread' \in ThreadType
        /\ \A u \in Threads \ {t} : thread'[u] = thread[u]
    BY <1>1, <2>1, SMTT(60) DEF ThreadType
  <2>3. /\ \A u \in Threads, w \in Workers : On(thread', u, w) => On(thread, u, w)
        /\ \A u \in Threads : Has(thread', u) => Has(thread, u)
        /\ RunsClosure(thread')
    <3>1. ~Live(thread', t) /\ ~Has(thread', t) /\ thread'[t].at \notin {"check", "next"}
      BY <2>2 DEF Live, Has
    <3>2. \A u \in Threads \ {t} : (Live(thread', u) <=> Live(thread, u)) /\ (Has(thread', u) <=> Has(thread, u))
      BY <2>2, SMTT(60) DEF Live, Has
    <3> QED
      BY <1>1, <2>2, <3>1, <3>2, SMTT(60) DEF RunsClosure, On
  <2>4. /\ Exclusive(todo, thread', worker) /\ PromiseOnce(todo, thread', worker)
        /\ NoPromise(todo, thread, worker) => NoPromise(todo, thread', worker)
    BY <1>1, <2>3, FewerHands, SMTT(60)
  <2>5. ActiveThreads(thread') = ActiveThreads(thread) \ {t}
    BY <2>2 DEF ActiveThreads, ActiveStates
  <2>6. Quiet => activeThreads' = 0
    <3>1. Quiet => ActiveThreads(thread) = {}
      BY ActiveCount DEF PoolInv
    <3> QED
      BY <2>1, <3>1, FS_EmptySet, SMTT(60)
  <2> QED
    BY <1>2, <1>5, <2>1, <2>2, <2>3, <2>4, <2>5, <2>6, ZenonT(60) DEF PoolInv, Quiet
<1> QED
  BY <1>4, <1>5, SMTT(60)

\* A thread comes back from a closure, or starts.
LEMMA EnterInv ==
  ASSUME PoolInv, NEW t \in Threads, Enter(t)
  PROVE  PoolInv'
<1>1. t \in ActiveThreads(thread) /\ TakeOrWait(t, activeThreads - 1) /\ thread[t].at = "enter"
  BY SMTT(60) DEF Enter, ActiveThreads, ActiveStates
<1>2. activeThreads - 1 = Cardinality(ActiveThreads(thread) \ {t})
  BY <1>1, ActiveCount, SMTT(60) DEF PoolInv
<1> QED
  BY <1>1, <1>2, TakeOrWaitInv, SMTT(60)

\* A thread comes back from the wait.
LEMMA WakeInv ==
  ASSUME PoolInv, NEW t \in Threads, Wake(t)
  PROVE  PoolInv'
<1>1. t \notin ActiveThreads(thread) /\ TakeOrWait(t, activeThreads) /\ thread[t].at = "woken"
  BY DEF Wake, ActiveThreads, ActiveStates
<1>2. ActiveThreads(thread) \ {t} = ActiveThreads(thread)
  BY <1>1
<1>3. activeThreads = Cardinality(ActiveThreads(thread) \ {t})
  BY <1>2, ZenonT(60) DEF PoolInv
<1> QED
  BY <1>1, <1>3, TakeOrWaitInv, SMTT(60)
\* The body of a task sets the promise once, and may schedule another task.
LEMMA BodyInv ==
  ASSUME PoolInv, NEW t \in Threads, Body(t)
  PROVE  PoolInv'
<1> DEFINE c == thread[t].run
           done == [thread EXCEPT ![t].at = IF c.on = "pool" THEN "enter" ELSE "check"]
<1>1. /\ todo \in Seq(Closures) /\ thread \in ThreadType /\ worker \in WorkerType
      /\ RunsClosure(thread) /\ StepsOwn(worker)
      /\ Exclusive(todo, thread, worker) /\ PromiseOnce(todo, thread, worker)
  BY DEF PoolInv, PoolTypeOK
<1>2. /\ thread[t].at = "task" /\ SetFuture(c.task)
      /\ IF Child[c.task] = NoChild THEN thread' = done /\ UNCHANGED <<todo, worker>>
         ELSE ScheduleClosure(Child[c.task], done)
      /\ UNCHANGED <<activeThreads, joining, owner>>
  BY DEF Body
<1>3. c \in Closures /\ c.task \in PoolTasks /\ c.on \in Places
  BY <1>1, <1>2 DEF RunsClosure, Live, Closures
<1>4. /\ done \in ThreadType /\ \A u \in Threads : done[u].run = thread[u].run
      /\ done[t].at = IF c.on = "pool" THEN "enter" ELSE "check"
      /\ \A u \in Threads \ {t} : done[u].at = thread[u].at
  BY <1>1 DEF ThreadType
<1> HIDE DEF done
<1>5. /\ \A u \in Threads, w \in Workers : On(done, u, w) => On(thread, u, w)
      /\ \A u \in Threads : Has(done, u) => Has(thread, u)
      /\ ~Has(done, t) /\ RunsClosure(done) /\ ActiveThreads(done) = ActiveThreads(thread)
  <2>1. \A u \in Threads : Live(done, u) => Live(thread, u)
    BY <1>2, <1>4, SMTT(60) DEF Live
  <2>2. \A u \in Threads, w \in Workers : On(done, u, w) => On(thread, u, w)
    BY <1>4, <2>1, SMTT(60) DEF On
  <2>3. ~Has(done, t) /\ \A u \in Threads : Has(done, u) => Has(thread, u)
    BY <1>4, SMTT(60) DEF Has
  <2>4. RunsClosure(done)
    <3>1. c.on # "pool" => c.on \in Workers
      BY <1>3, SMTT(60) DEF Places
    <3> QED
      BY <1>1, <1>4, <2>1, <3>1, SMTT(60) DEF RunsClosure
  <2>5. ActiveThreads(done) = ActiveThreads(thread)
    BY <1>2, <1>4, SMTT(60) DEF ActiveThreads, ActiveStates
  <2> QED
    BY <2>2, <2>3, <2>4, <2>5, SMTT(60)
<1>6. /\ Exclusive(todo, done, worker) /\ PromiseOnce(todo, done, worker)
      /\ NoPromise(todo, thread, worker) => NoPromise(todo, done, worker)
  BY <1>1, <1>5, FewerHands, SMTT(60)
<1>7. c.task = FutureTask => NoPromise(todo, done, worker) /\ ~NoPromise(todo, thread, worker)
  <2> SUFFICES ASSUME c.task = FutureTask
               PROVE  NoPromise(todo, done, worker) /\ ~NoPromise(todo, thread, worker)
    OBVIOUS
  <2>1. Has(thread, t)
    BY <1>2, SMTT(60) DEF Has
  <2> QED
    BY <1>1, <1>5, <2>1, SMTT(60) DEF PromiseOnce, NoPromise
<1>8. Kept(done) /\ (NoPromise(todo, done, worker) => NoPromise(todo', thread', worker'))
  <2>1. CASE Child[c.task] = NoChild
    <3>1. SameHands(done, done)
      BY SMTT(60) DEF SameHands
    <3> QED
      BY <1>1, <1>2, <1>4, <1>6, <2>1, <3>1, SMTT(60) DEF Kept
  <2>2. CASE Child[c.task] # NoChild
    <3>1. Child[c.task] \in Closures /\ Child[c.task].task # FutureTask
      BY <1>3, <2>2, ClosuresKnown, PromiseHeldOnce, SMTT(60)
    <3> QED
      BY <1>1, <1>2, <1>4, <1>6, <2>2, <3>1, ScheduleKeeps, SMTT(60)
  <2> QED
    BY <2>1, <2>2, SMTT(60)
<1>9. RunsClosure(thread') /\ ActiveThreads(thread') = ActiveThreads(thread)
  BY <1>5, <1>8, HandsKeep, SMTT(60) DEF Kept
<1>10. ~Quiet /\ \A w \in Workers : worker[w].alive
  BY <1>2, ActiveNotQuiet, SMTT(60) DEF ActiveStates
<1>11. /\ failed' = {} /\ future' \in {"kNotSet", "kSet", "kTaken"}
       /\ future' = "kTaken" => future = "kTaken"
       /\ (owner.at = "schedule" /\ owner.next = 1) \/ future' # "kNotSet" => NoPromise(todo', thread', worker')
       /\ owner.at = "schedule" /\ owner.next = 1 => future' = "kNotSet"
  <2>1. CASE c.task = FutureTask
    <3>1. future = "kNotSet" /\ ~(owner.at = "schedule" /\ owner.next = 1)
      BY <1>7, <2>1, SMTT(60) DEF PoolInv
    <3>2. future' = "kSet" /\ failed' = failed
      BY <1>2, <2>1, <3>1, SMTT(60) DEF SetFuture
    <3> QED
      BY <1>7, <1>8, <2>1, <3>1, <3>2, SMTT(60) DEF PoolInv
  <2>2. CASE c.task # FutureTask
    <3>1. future' = future /\ failed' = failed
      BY <1>2, <2>2, SMTT(60) DEF SetFuture
    <3> QED
      BY <1>6, <1>8, <3>1, SMTT(60) DEF PoolInv, PoolTypeOK
  <2> QED
    BY <2>1, <2>2, SMTT(60)
<1>12. PoolTypeOK'
  BY <1>2, <1>8, <1>11, SMTT(60) DEF PoolInv, PoolTypeOK, Kept
<1>13. \A w \in Workers : worker'[w].alive
  BY <1>8, <1>10 DEF Kept
<1> QED
  BY <1>2, <1>8, <1>9, <1>10, <1>11, <1>12, <1>13, SMTT(60) DEF PoolInv, Kept, Quiet

\* A worker exists when its closure looks for it.
LEMMA CheckMarkerInv ==
  ASSUME PoolInv, NEW t \in Threads, CheckMarker(t)
  PROVE  PoolInv'
<1>1. /\ thread[t].at = "check" /\ thread' = [thread EXCEPT ![t].at = "next"]
      /\ UNCHANGED <<todo, activeThreads, joining, worker, owner, future, ran>>
  BY DEF CheckMarker
<1>2. /\ todo \in Seq(Closures) /\ thread \in ThreadType /\ worker \in WorkerType
      /\ RunsClosure(thread) /\ Exclusive(todo, thread, worker) /\ PromiseOnce(todo, thread, worker)
  BY DEF PoolInv, PoolTypeOK
<1>3. /\ thread' \in ThreadType /\ \A u \in Threads : thread'[u].run = thread[u].run
      /\ thread'[t].at = "next" /\ \A u \in Threads \ {t} : thread'[u].at = thread[u].at
  BY <1>1, <1>2 DEF ThreadType
<1>4. \A u \in Threads : /\ Live(thread', u) <=> Live(thread, u)
                         /\ Has(thread', u) <=> Has(thread, u)
                         /\ thread'[u].at \in {"check", "next"} <=> thread[u].at \in {"check", "next"}
                         /\ thread'[u].at \in ActiveStates <=> thread[u].at \in ActiveStates
  BY <1>1, <1>3, SMTT(60) DEF Live, Has, ActiveStates
<1>5. RunsClosure(thread') /\ ActiveThreads(thread') = ActiveThreads(thread)
  BY <1>2, <1>3, <1>4, SMTT(60) DEF RunsClosure, ActiveThreads
<1>6. /\ Exclusive(todo, thread', worker) /\ PromiseOnce(todo, thread', worker)
      /\ NoPromise(todo, thread, worker) => NoPromise(todo, thread', worker)
  <2>1. /\ \A u \in Threads, w \in Workers : On(thread', u, w) => On(thread, u, w)
        /\ \A u \in Threads : Has(thread', u) => Has(thread, u)
    BY <1>3, <1>4, SMTT(60) DEF On
  <2> QED
    BY <1>2, <2>1, FewerHands, SMTT(60)
<1>7. failed' = {}
  <2>1. thread[t].run.on \in Workers
    BY <1>1, <1>2 DEF RunsClosure
  <2>2. worker[thread[t].run.on].alive
    BY <1>1, <2>1, ActiveNotQuiet, SMTT(60) DEF ActiveStates
  <2> QED
    BY <2>2 DEF CheckMarker, PoolInv
<1>8. PoolTypeOK'
  BY <1>1, <1>3, SMTT(60) DEF PoolInv, PoolTypeOK
<1> QED
  BY <1>1, <1>5, <1>6, <1>7, <1>8, SMTT(60) DEF PoolInv, Quiet

\* The end of a worker's closure: running_ is cleared, and the next step queued.
LEMMA RunNextInv ==
  ASSUME PoolInv, NEW t \in Threads, RunNext(t)
  PROVE  PoolInv'
<1> DEFINE w == thread[t].run.on
           th == [thread EXCEPT ![t].at = "enter"]
           wk == [worker EXCEPT ![w].steps = worker[w].steps, ![w].running = FALSE]
<1>1. /\ thread[t].at = "next" /\ MaybeRunNext(w, worker[w].steps, FALSE, th)
      /\ UNCHANGED <<activeThreads, joining, owner, future, ran, failed>>
  BY ZenonT(60) DEF RunNext
<1>2. /\ todo \in Seq(Closures) /\ thread \in ThreadType /\ worker \in WorkerType
      /\ RunsClosure(thread) /\ StepsOwn(worker)
      /\ Exclusive(todo, thread, worker) /\ PromiseOnce(todo, thread, worker)
  BY DEF PoolInv, PoolTypeOK
<1>3. w \in Workers
  BY <1>1, <1>2 DEF RunsClosure
<1>4. /\ th \in ThreadType /\ \A u \in Threads : th[u].run = thread[u].run
      /\ th[t].at = "enter" /\ \A u \in Threads \ {t} : th[u].at = thread[u].at
  BY <1>2 DEF ThreadType
<1>5. /\ \A v \in Workers : wk[v].steps = worker[v].steps
      /\ wk[w].running = FALSE /\ \A v \in Workers \ {w} : wk[v].running = worker[v].running
      /\ worker[w].steps \in Seq(Closures)
  BY <1>2, <1>3, ZenonT(60) DEF WorkerType
<1>6. wk = [worker EXCEPT ![w].steps = worker[w].steps, ![w].running = FALSE]
  OBVIOUS
<1> HIDE DEF th, wk
<1>7. /\ \A u \in Threads : Has(th, u) => Has(thread, u)
      /\ \A u \in Threads : Live(th, u) <=> Live(thread, u) /\ u # t
      /\ RunsClosure(th) /\ ActiveThreads(th) = ActiveThreads(thread)
  <2>1. \A u \in Threads : Live(th, u) <=> Live(thread, u) /\ u # t
    BY <1>4 DEF Live
  <2>2. \A u \in Threads : Has(th, u) => Has(thread, u)
    BY <1>4, SMTT(60) DEF Has
  <2>3. RunsClosure(th)
    BY <1>2, <1>4, <2>1, SMTT(60) DEF RunsClosure
  <2>4. ActiveThreads(th) = ActiveThreads(thread)
    BY <1>1, <1>4, SMTT(60) DEF ActiveThreads, ActiveStates
  <2> QED
    BY <2>1, <2>2, <2>3, <2>4, SMTT(60)
<1>8. Exclusive(todo, th, wk)
  <2>1. On(thread, t, w) /\ \A u \in Threads, v \in Workers : On(th, u, v) <=> On(thread, u, v) /\ u # t
    BY <1>1, <1>4, <1>7, SMTT(60) DEF On, Live
  <2>2. /\ \A k \in 1..Len(todo) : todo[k].on # w
        /\ \A u \in Threads : ~On(th, u, w)
    BY <1>2, <1>3, <2>1, SMTT(60) DEF Exclusive
  <2> QED
    BY <1>2, <1>5, <2>1, <2>2, SMTT(60) DEF Exclusive
<1>9. /\ PromiseOnce(todo, th, wk) /\ StepsOwn(wk)
      /\ NoPromise(todo, thread, worker) => NoPromise(todo, th, wk)
  <2>1. PromiseOnce(todo, th, wk)
    <3>1. PromiseOnce(todo, thread, worker) /\ \A u \in Threads : Has(th, u) => Has(thread, u)
      BY <1>2, <1>7, SMTT(60)
    <3>2. PromiseOnce(todo, th, worker)
      BY <3>1, SMTT(60) DEF PromiseOnce
    <3>3. \A v \in Workers : wk[v].steps = worker[v].steps
      BY <1>5, SMTT(60)
    <3> QED
      BY <3>2, <3>3, NoNewPromiseKeeps, SMTT(60) DEF NoNewPromise
  <2>2. StepsOwn(wk)
    BY <1>2, <1>5, SMTT(60) DEF StepsOwn
  <2>3. NoPromise(todo, thread, worker) => NoPromise(todo, th, wk)
    BY <1>5, <1>7, SMTT(60) DEF NoPromise
  <2> QED
    BY <2>1, <2>2, <2>3, SMTT(60)
<1>10. Kept(th) /\ (NoPromise(todo, th, wk) => NoPromise(todo', thread', worker'))
  <2> DEFINE steps == worker[w].steps
             running == FALSE
  <2>1. /\ steps \in Seq(Closures) /\ running \in BOOLEAN /\ MaybeRunNext(w, steps, running, th)
        /\ wk = [worker EXCEPT ![w].steps = steps, ![w].running = running]
    BY <1>1, <1>5, <1>6, ZenonT(60)
  <2> HIDE DEF w, steps, running
  <2> QED
    BY <1>2, <1>3, <1>4, <1>8, <1>9, <2>1, MaybeRunNextKeeps, ZenonT(60)
<1>11. RunsClosure(thread') /\ ActiveThreads(thread') = ActiveThreads(thread)
  BY <1>7, <1>10, HandsKeep, SMTT(60) DEF Kept
<1>12. ~Quiet /\ \A v \in Workers : worker'[v].alive
  BY <1>1, <1>10, ActiveNotQuiet, SMTT(60) DEF ActiveStates, Kept
<1>13. PoolTypeOK'
  BY <1>1, <1>10, SMTT(60) DEF PoolInv, PoolTypeOK, Kept
<1> QED
  BY <1>1, <1>9, <1>10, <1>11, <1>12, <1>13, SMTT(60) DEF PoolInv, Kept, Quiet
\* A wait that returns, for no reason or when the pool goes, moves no closure.
LEMMA SameHandsKeep ==
  ASSUME PoolInv, thread' \in ThreadType, SameHands(thread, thread'),
         UNCHANGED <<todo, activeThreads, worker, future>>
  PROVE  /\ RunsClosure(thread') /\ activeThreads' = Cardinality(ActiveThreads(thread'))
         /\ Exclusive(todo, thread', worker) /\ PromiseOnce(todo, thread', worker)
         /\ NoPromise(todo, thread, worker) => NoPromise(todo, thread', worker)
<1>1. /\ RunsClosure(thread) /\ activeThreads = Cardinality(ActiveThreads(thread))
      /\ Exclusive(todo, thread, worker) /\ PromiseOnce(todo, thread, worker)
  BY DEF PoolInv
<1>2. /\ \A u \in Threads, w \in Workers : On(thread', u, w) => On(thread, u, w)
      /\ \A u \in Threads : Has(thread', u) => Has(thread, u)
      /\ RunsClosure(thread') /\ ActiveThreads(thread') = ActiveThreads(thread)
  BY <1>1, HandsKeep, SMTT(60)
<1> QED
  BY <1>1, <1>2, FewerHands, SMTT(60)

\* A wait may return without a signal.
LEMMA SpuriousWakeupInv ==
  ASSUME PoolInv, NEW t \in Threads, SpuriousWakeup(t)
  PROVE  PoolInv'
<1>1. thread \in ThreadType
  BY DEF PoolInv, PoolTypeOK
<1>2. thread' \in ThreadType /\ SameHands(thread, thread')
  BY <1>1 DEF SpuriousWakeup, ThreadType, SameHands
<1>3. UNCHANGED <<todo, activeThreads, joining, worker, owner, future, ran, failed>>
  BY DEF SpuriousWakeup
<1>4. /\ RunsClosure(thread') /\ activeThreads' = Cardinality(ActiveThreads(thread'))
      /\ Exclusive(todo, thread', worker) /\ PromiseOnce(todo, thread', worker)
      /\ NoPromise(todo, thread, worker) => NoPromise(todo, thread', worker)
  BY <1>2, <1>3, SameHandsKeep, SMTT(60)
<1> QED
  BY <1>2, <1>3, <1>4, SMTT(60) DEF PoolInv, PoolTypeOK, Quiet

\* The owner schedules: only the first task of its plan holds the promise.
LEMMA OwnerSchedulesInv ==
  ASSUME PoolInv, OwnerSchedules
  PROVE  PoolInv'
<1> DEFINE n == owner.next
<1>1. /\ owner.at = "schedule" /\ ScheduleClosure(Plan[n], thread)
      /\ UNCHANGED <<activeThreads, joining, future, ran, failed>>
  BY SMTT(60) DEF OwnerSchedules
<1>2. /\ todo \in Seq(Closures) /\ thread \in ThreadType /\ worker \in WorkerType /\ owner \in OwnerType
      /\ RunsClosure(thread) /\ StepsOwn(worker) /\ n \in 1..Len(Plan)
      /\ Exclusive(todo, thread, worker) /\ PromiseOnce(todo, thread, worker)
      /\ n = 1 => NoPromise(todo, thread, worker) /\ future = "kNotSet"
      /\ future # "kNotSet" => NoPromise(todo, thread, worker)
  BY <1>1 DEF PoolInv, PoolTypeOK
<1>3. Len(Plan) \in Nat
  BY ClosuresKnown, LenProperties, SMTT(60)
<1>4. Plan[n] \in Closures /\ (Plan[n].task = FutureTask => n = 1)
  <2>1. n = 1 \/ n \in 2..Len(Plan)
    BY <1>2, <1>3, SMTT(60)
  <2> QED
    BY <1>2, <2>1, ClosuresKnown, PromiseHeldOnce, ElementOfSeq, SMTT(60)
<1>5. /\ Kept(thread)
      /\ Plan[n].task # FutureTask /\ NoPromise(todo, thread, worker) => NoPromise(todo', thread', worker')
  <2>1. Plan[n].task = FutureTask => NoPromise(todo, thread, worker)
    BY <1>2, <1>4, SMTT(60)
  <2> QED
    BY <1>1, <1>2, <1>4, <2>1, ScheduleKeeps, SMTT(60)
<1>6. RunsClosure(thread') /\ ActiveThreads(thread') = ActiveThreads(thread)
  BY <1>2, <1>5, HandsKeep, SMTT(60) DEF Kept
<1>7. /\ owner' \in OwnerType /\ owner'.at \in {"schedule", "take"}
      /\ owner'.at = "schedule" => owner'.next \in 1..Len(Plan) /\ owner'.next # 1
  <2>1. CASE n = Len(Plan)
    BY <2>1 DEF OwnerSchedules, OwnerType
  <2>2. CASE n # Len(Plan)
    <3>1. owner' = [owner EXCEPT !.next = n + 1]
      BY <2>2 DEF OwnerSchedules
    <3>2. n + 1 \in 1..Len(Plan) /\ n + 1 # 1 /\ n + 1 \in Nat
      BY <1>2, <1>3, <2>2, SMTT(60)
    <3> QED
      BY <1>1, <1>2, <3>1, <3>2, SMTT(60) DEF OwnerType
  <2> QED
    BY <2>1, <2>2
<1>8. future # "kNotSet" => NoPromise(todo', thread', worker')
  BY <1>2, <1>4, <1>5, SMTT(60)
<1>9. ~joining /\ future # "kTaken" /\ \A w \in Workers : worker'[w].alive
  BY <1>1, <1>5, SMTT(60) DEF PoolInv, Kept
<1>10. PoolTypeOK'
  BY <1>1, <1>5, <1>7, SMTT(60) DEF PoolInv, PoolTypeOK, Kept
<1> QED
  BY <1>1, <1>5, <1>6, <1>7, <1>8, <1>9, <1>10, SMTT(60) DEF PoolInv, Kept, Quiet

\* Exclusive reads nothing of a worker but its running_.
LEMMA SameRunning ==
  ASSUME NEW td, NEW th, NEW wk, NEW wl, Exclusive(td, th, wk),
         \A w \in Workers : wl[w].running = wk[w].running
  PROVE  Exclusive(td, th, wl)
<1> SUFFICES ASSUME NEW w \in Workers
             PROVE  /\ \A k, l \in 1..Len(td) : td[k].on = w /\ td[l].on = w => k = l
                    /\ \A t, u \in Threads : On(th, t, w) /\ On(th, u, w) => t = u
                    /\ \A k \in 1..Len(td), t \in Threads : ~(td[k].on = w /\ On(th, t, w))
                    /\ ~wl[w].running => /\ \A k \in 1..Len(td) : td[k].on # w
                                         /\ \A t \in Threads : ~On(th, t, w)
  BY DEF Exclusive
<1>1. wl[w].running = wk[w].running
  OBVIOUS
<1> QED
  BY <1>1, ZenonT(60) DEF Exclusive

\* The other steps of the owner.
LEMMA OwnerEndsInv ==
  ASSUME PoolInv, Take \/ WaitUntilIdle \/ DestroyWorkers \/ DestroyPool \/ Join
  PROVE  PoolInv'
<1>1. owner \in OwnerType /\ worker \in WorkerType /\ thread \in ThreadType
  BY DEF PoolInv, PoolTypeOK
<1>2. CASE Take
  <2>1. owner' \in OwnerType /\ owner'.at = "idle"
    BY <1>1, <1>2 DEF Take, OwnerType
  <2>2. future # "kTaken" /\ failed' = {}
    BY <1>2 DEF Take, PoolInv
  <2> QED
    BY <1>2, <2>1, <2>2, SMTT(60) DEF Take, PoolInv, PoolTypeOK, Quiet
<1>3. CASE WaitUntilIdle
  <2>1. owner' \in OwnerType /\ owner'.at = "destroy"
    BY <1>1, <1>3, SMTT(60) DEF WaitUntilIdle, OwnerType
  <2> QED
    BY <1>3, <2>1, ZenonT(60) DEF WaitUntilIdle, IdleCondition, PoolInv, PoolTypeOK, Quiet
<1>4. CASE DestroyWorkers
  <2>1. owner' \in OwnerType /\ owner'.at = "pool" /\ owner.at = "destroy"
    BY <1>1, <1>4 DEF DestroyWorkers, OwnerType
  <2>2. /\ worker' \in WorkerType
        /\ \A w \in Workers : worker'[w].steps = worker[w].steps /\ worker'[w].running = worker[w].running
    BY <1>1, <1>4, ZenonT(60) DEF DestroyWorkers, WorkerType
  <2>3. UNCHANGED <<todo, thread, activeThreads, joining, future, ran, failed>>
    BY <1>4 DEF DestroyWorkers
  <2>4. StepsOwn(worker') /\ Exclusive(todo, thread, worker')
    <3>1. StepsOwn(worker) /\ Exclusive(todo, thread, worker)
      BY SMTT(60) DEF PoolInv
    <3>2. StepsOwn(worker')
      BY <2>2, <3>1, SMTT(60) DEF StepsOwn
    <3>3. Exclusive(todo, thread, worker')
      BY <2>2, <3>1, SameRunning
    <3> QED
      BY <3>2, <3>3
  <2>5. /\ PromiseOnce(todo, thread, worker')
        /\ NoPromise(todo, thread, worker) => NoPromise(todo, thread, worker')
    <3>1. PromiseOnce(todo, thread, worker)
      BY SMTT(60) DEF PoolInv
    <3>2. PromiseOnce(todo, thread, worker')
      BY <2>2, <3>1, NoNewPromiseKeeps, SMTT(60) DEF NoNewPromise
    <3>3. NoPromise(todo, thread, worker) => NoPromise(todo, thread, worker')
      BY <2>2, SMTT(60) DEF NoPromise
    <3> QED
      BY <3>2, <3>3, SMTT(60)
  <2> QED
    BY <2>1, <2>2, <2>3, <2>4, <2>5, SMTT(60) DEF PoolInv, PoolTypeOK, Quiet
<1>5. CASE DestroyPool
  <2>1. owner' \in OwnerType /\ owner'.at = "join" /\ owner.at = "pool"
    BY <1>1, <1>5 DEF DestroyPool, OwnerType
  <2>2. thread' \in ThreadType /\ SameHands(thread, thread')
    BY <1>1, <1>5 DEF DestroyPool, ThreadType, SameHands
  <2>3. UNCHANGED <<todo, activeThreads, worker, future, ran>> /\ joining' = TRUE /\ failed' = {}
    BY <1>5, <2>1, SMTT(60) DEF DestroyPool, IdleCondition, PoolInv, Quiet
  <2>4. /\ RunsClosure(thread') /\ activeThreads' = Cardinality(ActiveThreads(thread'))
        /\ Exclusive(todo, thread', worker) /\ PromiseOnce(todo, thread', worker)
        /\ NoPromise(todo, thread, worker) => NoPromise(todo, thread', worker)
    BY <2>2, <2>3, SameHandsKeep, SMTT(60)
  <2> QED
    BY <2>1, <2>2, <2>3, <2>4, SMTT(60) DEF PoolInv, PoolTypeOK, Quiet
<1>6. CASE Join
  <2>1. owner' \in OwnerType /\ owner'.at = "done" /\ owner.at = "join"
    BY <1>1, <1>6 DEF Join, OwnerType
  <2> QED
    BY <1>6, <2>1 DEF Join, PoolInv, PoolTypeOK, Quiet
<1> QED
  BY <1>2, <1>3, <1>4, <1>5, <1>6, SMTT(60)

\* Every step keeps the invariant.
LEMMA PoolStep ==
  ASSUME PoolInv, [PoolNext]_poolVars
  PROVE  PoolInv'
<1>1. CASE UNCHANGED poolVars
  BY <1>1 DEF poolVars, PoolInv, PoolTypeOK, Quiet
<1>2. CASE OwnerNext
  BY <1>2, OwnerSchedulesInv, OwnerEndsInv, SMTT(60) DEF OwnerNext
<1>3. ASSUME NEW t \in Threads, ThreadSteps(t) \/ SpuriousWakeup(t)
      PROVE  PoolInv'
  BY <1>3, EnterInv, WakeInv, BodyInv, CheckMarkerInv, RunNextInv, SpuriousWakeupInv, SMTT(60) DEF ThreadSteps
<1> QED
  BY <1>1, <1>2, <1>3, SMTT(60) DEF PoolNext

-----------------------------------------------------------------------------
(* The theorems.                                                           *)

\* What the pool, its workers and the future keep: active_count_ counts the
\* threads outside the wait, at most one closure of each worker is in the hands
\* of the pool, and none of them while running_ is false.
THEOREM PoolInvariance == PoolSpec => []PoolInv
<1>1. PoolInit => PoolInv
  BY InitInv
<1>2. PoolInv /\ [PoolNext]_poolVars => PoolInv'
  BY PoolStep
<1> QED
  BY <1>1, <1>2, PTL DEF PoolSpec

\* A worker runs one task at a time, and no FCP_CHECK of ThreadPoolScheduler,
\* WorkerImpl or FutureState fails, for any number of threads, workers and tasks.
THEOREM OneTaskAtATime == PoolSpec => []OneTaskPerWorker
<1>1. PoolInv => OneTaskPerWorker
  <2> SUFFICES ASSUME PoolInv, NEW t \in Threads, NEW u \in Threads, Busy(t), Busy(u),
                      thread[t].run.on = thread[u].run.on, thread[t].run.on # "pool"
               PROVE  t = u
    BY SMTT(60) DEF OneTaskPerWorker, PoolInv
  <2>1. Live(thread, t) /\ Live(thread, u) /\ RunsClosure(thread) /\ Exclusive(todo, thread, worker)
    BY SMTT(60) DEF Busy, Live, PoolInv
  <2>2. thread[t].run.on \in Workers
    BY <2>1 DEF RunsClosure, Closures, Places
  <2> QED
    BY <2>1, <2>2, SMTT(60) DEF Exclusive, On
<1> QED
  BY <1>1, PoolInvariance, PTL
=============================================================================
