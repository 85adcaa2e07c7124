-------------------------------- MODULE Clock --------------------------------
(***************************************************************************)
(* Clock of src/fcp/base with its two implementations: RealTimeClock,      *)
(* whose worker thread waits for the next wake-up, and SimulatedClock,     *)
(* whose users move the time; and WallClockStopwatch, which several        *)
(* threads start and stop.  What is modelled is chosen at the start.       *)
(* Time is in half milliseconds: a wake-up is rounded up to whole ones.    *)
(***************************************************************************)
EXTENDS Integers, Sequences, FiniteSets, FiniteSetsExt

CONSTANTS Users,    \* threads that call WakeupWithDeadline, one waiter each
          MaxTime   \* bound on the time and on deadlines

VARIABLES
  kind,      \* "real", "simulated" or "stopwatch"
  time,
  waiters,   \* pending_waiters_: [who, deadline]
  level,     \* dispatch_level_
  at,        \* by thread: where it is in DispatchWakeups, "idle" outside
  wakeupCalls, \* by thread: wakeup_calls
  woken,     \* history: whose WakeUp was called, and when
  nextWakeup, armed, signalled, \* next_wakeup_, the deadline and the signal of the wait
  loop,      \* the worker thread: "wait" or "dispatch"
  started, since, previous,     \* started_count_, latest_start_time_, previous_durations_
  measured   \* history: the time with a handle alive

clockVars == <<kind, time, waiters, level, at, wakeupCalls, woken, nextWakeup, armed, signalled, loop,
               started, since, previous, measured>>
dispatchVars == <<waiters, level, at, wakeupCalls, woken>>
timerVars == <<nextWakeup, armed, signalled, loop>>
stopwatchVars == <<started, since, previous, measured>>

ClockThreads == Users \cup {"timer"}
InfiniteFuture == 2 * MaxTime + 2

ClockInit ==
  /\ kind \in {"real", "simulated", "stopwatch"} /\ time = 0
  /\ waiters = {} /\ level = 0
  /\ at = [d \in ClockThreads |-> "idle"] /\ wakeupCalls = [d \in ClockThreads |-> {}]
  /\ woken = {}
  /\ nextWakeup = InfiniteFuture /\ armed = InfiniteFuture /\ signalled = FALSE /\ loop = "wait"
  /\ started = 0 /\ since = InfiniteFuture /\ previous = 0 /\ measured = 0

-----------------------------------------------------------------------------
(* WakeupWithDeadline and DispatchWakeups.                                 *)

Scheduled(u) == \E w \in waiters \cup woken \cup UNION {wakeupCalls[d] : d \in ClockThreads} : w.who = u

\* The waiter is inserted, and the thread goes on to dispatch.
WakeupWithDeadline(u) ==
  /\ kind # "stopwatch" /\ at[u] = "idle" /\ ~Scheduled(u)
  /\ \E deadline \in 0..MaxTime : waiters' = waiters \cup {[who |-> u, deadline |-> deadline]}
  /\ at' = [at EXCEPT ![u] = "check"]
  /\ UNCHANGED <<kind, time, level, wakeupCalls, woken, timerVars, stopwatchVars>>

\* Only one thread dispatches.
CheckReentrancy(d) ==
  /\ at[d] = "check"
  /\ level' = level + 1
  /\ at' = [at EXCEPT ![d] = IF level > 0 THEN "idle" ELSE "collect"]
  /\ UNCHANGED <<kind, time, waiters, wakeupCalls, woken, timerVars, stopwatchVars>>

GetExpiredWaiters(d) ==
  LET due == {w \in waiters : w.deadline <= time} IN
  /\ at[d] = "collect"
  /\ wakeupCalls' = [wakeupCalls EXCEPT ![d] = due] /\ waiters' = waiters \ due
  /\ at' = [at EXCEPT ![d] = "wake"]
  /\ UNCHANGED <<kind, time, level, woken, timerVars, stopwatchVars>>

\* Mutant: the first call ends the round.
WakeUpFirst(d) ==
  /\ at[d] = "wake" /\ wakeupCalls[d] # {}
  /\ \E w \in wakeupCalls[d] : woken' = woken \cup {w}
  /\ wakeupCalls' = [wakeupCalls EXCEPT ![d] = {}]
  /\ UNCHANGED <<kind, time, waiters, level, at, timerVars, stopwatchVars>>

\* A WakeUp, outside of the lock.
WakeUp(d) ==
  /\ at[d] = "wake" /\ wakeupCalls[d] # {}
  /\ \E w \in wakeupCalls[d] :
       /\ wakeupCalls' = [wakeupCalls EXCEPT ![d] = @ \ {w}]
       /\ woken' = woken \cup {w}
  /\ UNCHANGED <<kind, time, waiters, level, at, timerVars, stopwatchVars>>

RoundedUp(t) == t + (t % 2)

\* The simulated clock has nothing to schedule.
ScheduleWakeup(t) ==
  IF kind = "simulated" \/ RoundedUp(t) = nextWakeup THEN UNCHANGED timerVars
  ELSE nextWakeup' = RoundedUp(t) /\ signalled' = TRUE /\ UNCHANGED <<armed, loop>>

FirstDeadline == Min({w.deadline : w \in waiters})

FinishDispatchAndScheduleNextWakeup(d) ==
  /\ at[d] = "wake" /\ wakeupCalls[d] = {}
  /\ level' = 0
  /\ IF waiters = {} THEN at' = [at EXCEPT ![d] = "idle"] /\ UNCHANGED timerVars
     ELSE IF level > 1 \/ FirstDeadline <= time
     THEN at' = [at EXCEPT ![d] = "check"] /\ UNCHANGED timerVars
     ELSE at' = [at EXCEPT ![d] = "idle"] /\ ScheduleWakeup(FirstDeadline)
  /\ UNCHANGED <<kind, time, waiters, wakeupCalls, woken, stopwatchVars>>

DispatchWakeups(d) ==
  \/ CheckReentrancy(d) \/ GetExpiredWaiters(d) \/ WakeUp(d)
  \/ FinishDispatchAndScheduleNextWakeup(d)

-----------------------------------------------------------------------------
(* RealTimeClock::WorkerLoop, SimulatedClock, and time.                    *)

\* The wait ends; next_wakeup_ is looked at, and the next wait begins, under
\* one lock unless there is something to dispatch.
WorkerLoop ==
  /\ kind = "real"
  /\ \/ /\ loop = "wait" /\ (signalled \/ time >= armed)
        /\ IF time >= nextWakeup
           THEN /\ nextWakeup' = InfiniteFuture /\ loop' = "dispatch"
                /\ at' = [at EXCEPT !["timer"] = "check"]
                /\ UNCHANGED <<armed, signalled>>
           ELSE armed' = nextWakeup /\ signalled' = FALSE /\ UNCHANGED <<nextWakeup, loop, at>>
     \/ /\ loop = "dispatch" /\ at["timer"] = "idle"
        /\ armed' = nextWakeup /\ signalled' = FALSE /\ loop' = "wait"
        /\ UNCHANGED <<nextWakeup, at>>
  /\ UNCHANGED <<kind, time, waiters, level, wakeupCalls, woken, stopwatchVars>>

\* SetTime and AdvanceTime, by one thread.
AdvanceTime ==
  /\ kind = "simulated" /\ at["timer"] = "idle" /\ time < MaxTime
  /\ time' \in time + 1..MaxTime
  /\ at' = [at EXCEPT !["timer"] = "check"]
  /\ UNCHANGED <<kind, waiters, level, wakeupCalls, woken, timerVars, stopwatchVars>>

\* MaxTime is odd: it takes one more to reach the rounded deadline.
Tick ==
  /\ kind # "simulated" /\ time <= MaxTime
  /\ time' = time + 1
  /\ measured' = IF started > 0 THEN measured + 1 ELSE measured
  /\ UNCHANGED <<kind, dispatchVars, timerVars, started, since, previous>>

-----------------------------------------------------------------------------
(* The stopwatch.                                                          *)

Start ==
  /\ kind = "stopwatch" /\ started < Cardinality(Users)
  /\ started' = started + 1
  /\ since' = IF started = 0 THEN time ELSE since
  /\ UNCHANGED <<kind, time, dispatchVars, timerVars, previous, measured>>

Stop ==
  /\ kind = "stopwatch" /\ started > 0
  /\ started' = started - 1
  /\ IF started = 1 THEN previous' = previous + time - since /\ since' = InfiniteFuture
     ELSE UNCHANGED <<previous, since>>
  /\ UNCHANGED <<kind, time, dispatchVars, timerVars, measured>>

GetTotalDuration == IF since = InfiniteFuture THEN previous ELSE previous + time - since

-----------------------------------------------------------------------------
ClockNext ==
  \/ Tick \/ AdvanceTime \/ WorkerLoop \/ Start \/ Stop
  \/ \E u \in Users : WakeupWithDeadline(u)
  \/ \E d \in ClockThreads : DispatchWakeups(d)

\* Threads run and time passes; nobody has to schedule a waiter.
ClockFairness ==
  /\ WF_clockVars(Tick) /\ WF_clockVars(WorkerLoop) /\ WF_clockVars(AdvanceTime)
  /\ \A d \in ClockThreads : WF_clockVars(DispatchWakeups(d))

ClockSpec == ClockInit /\ [][ClockNext]_clockVars /\ ClockFairness

-----------------------------------------------------------------------------
(* Properties.                                                             *)

\* When no thread is dispatching, no waiter is forgotten: those that are due
\* have been called, and the worker of the real clock will be up for the next.
WakeupArmed ==
  (waiters # {} /\ \A d \in ClockThreads : at[d] = "idle") =>
    IF kind = "simulated" THEN FirstDeadline > time
    ELSE /\ nextWakeup = RoundedUp(FirstDeadline)
         /\ signalled \/ loop = "dispatch" \/ armed <= nextWakeup

\* The clocks and the stopwatch keep time for several threads.  Every waiter is
\* called in the end, whichever thread gets to dispatch it and however calls of
\* WakeupWithDeadline overlap, because a wake-up is armed whenever no thread
\* dispatches.  The stopwatch measures the time during which at least one of the
\* threads had it started, and counts no moment twice.
WaitersWoken ==
  /\ []WakeupArmed /\ [](GetTotalDuration = measured)
  /\ \A u \in Users : Scheduled(u) ~> \E w \in woken : w.who = u
=============================================================================
