----------------------------- MODULE PrngRunning -----------------------------
(***************************************************************************)
(* The PRNG_RUNNING state of the SecAgg server,                            *)
(* src/fcp/secagg/server/secagg_server_prng_running_state.cc, on top of    *)
(* the accumulator that StartPrng fills with batches of masks.  Three      *)
(* threads meet: the server's thread (EnterState, SetAsyncCallback,        *)
(* ProceedToNextRound, Abort), the pool and the sequential scheduler,      *)
(* which runs StartPrng's observer and the server's callbacks.             *)
(*                                                                         *)
(* The observer of StartPrng and the callbacks of SetAsyncCallback are the *)
(* Observers of Accumulator; Prng is the former.                           *)
(***************************************************************************)
EXTENDS Accumulator

CONSTANT Prng

ASSUME PrngAssumption == Prng \in Observers
ASSUME StatusAssumption == None \notin {"ok", "error"}
\* Every client whose input is in the sum has a self mask to take off.
ASSUME WorkAssumption == Tasks # {}

Callbacks == Observers \ {Prng}

VARIABLES
  prngPhase,    \* of the server's thread: entering, scheduling, entered, aborting,
                \* left (the state object is destroyed)
  completion,   \* completion_status_
  doneCallback, \* prng_done_callback_
  token,        \* is cancellation_token_ set?
  step,         \* of the observer: what it has done so far
  toCall,       \* the callback PrngRunnerFinished has copied
  calls         \* how often each callback has been called

stateVars == <<prngPhase, completion, doneCallback, token, step, toCall, calls>>
prngVars == <<vars, stateVars>>

PrngInit ==
  /\ Init
  /\ prngPhase = "entering"
  /\ completion = None
  /\ doneCallback = None
  /\ token = FALSE
  /\ step = "none"
  /\ toCall = None
  /\ calls = [k \in Callbacks |-> 0]

-----------------------------------------------------------------------------
(* The server's thread *)

\* EnterState: Initialize fails for want of shares, or StartPrng is called.
InitializeFails ==
  /\ prngPhase = "entering"
  /\ completion' = "error"
  /\ prngPhase' = "entered"
  /\ UNCHANGED <<vars, doneCallback, token, step, toCall, calls>>

InitializeSucceeds ==
  /\ prngPhase = "entering"
  /\ prngPhase' = "scheduling"
  /\ UNCHANGED <<vars, completion, doneCallback, token, step, toCall, calls>>

ScheduleBatch ==
  /\ prngPhase = "scheduling"
  /\ \E t \in Tasks : Schedule(t)
  /\ UNCHANGED stateVars

\* The batches may be done by now, so that the observer is scheduled at once.
StartPrngEnds ==
  /\ prngPhase = "scheduling" /\ In({"new"}) = {}
  /\ SetAsyncObserver(Prng)
  /\ token' = TRUE
  /\ prngPhase' = "entered"
  /\ UNCHANGED <<completion, doneCallback, step, toCall, calls>>

\* Mutant: a computation that has finished is not noticed.
SetDoneCallbackStores(k) ==
  /\ prngPhase = "entered" /\ observer[k] = "new"
  /\ doneCallback' = k
  /\ observer' = [observer EXCEPT ![k] = "pending"]
  /\ UNCHANGED <<task, seqQueue, seqRun, counters, accumulated, taken, cancel,
                 prngPhase, completion, token, step, toCall, calls>>

SetDoneCallback(k) ==
  /\ prngPhase = "entered" /\ observer[k] = "new"
  /\ IF completion # None
       THEN /\ seqQueue' = Append(seqQueue, k)
            /\ observer' = [observer EXCEPT ![k] = "queued"]
            /\ UNCHANGED doneCallback
       ELSE /\ doneCallback' = k
            /\ observer' = [observer EXCEPT ![k] = "pending"]
            /\ UNCHANGED seqQueue
  /\ UNCHANGED <<task, seqRun, counters, accumulated, taken, cancel, prngPhase,
                 completion, token, step, toCall, calls>>

\* The state object is replaced by a COMPLETED or an ABORTED one.
ProceedToNextRound ==
  /\ prngPhase = "entered" /\ completion # None
  /\ prngPhase' = "left"
  /\ UNCHANGED <<vars, completion, doneCallback, token, step, toCall, calls>>

PrngAbort ==
  /\ prngPhase = "entered"
  /\ IF token THEN CancelCall ELSE UNCHANGED vars
  /\ prngPhase' = "aborting"
  /\ UNCHANGED <<completion, doneCallback, token, step, toCall, calls>>

AbortReturns ==
  /\ prngPhase = "aborting" /\ OwnerRuns
  /\ prngPhase' = "left"
  /\ UNCHANGED <<vars, completion, doneCallback, token, step, toCall, calls>>

-----------------------------------------------------------------------------
(* The observer of StartPrng, on the sequential thread *)

\* FCP_CHECK(active_count_ == 0) of GetResultAndCancel is part of ResultHasAllMasks.
TakeResult ==
  /\ seqRun = Prng /\ step = "none"
  /\ isCancelled' = TRUE
  /\ taken' = accumulated
  /\ accumulated' = {}
  /\ step' = "taken"
  /\ UNCHANGED <<task, seqQueue, seqRun, remaining, active, unobserved, callback,
                 cancel, observer, prngPhase, completion, doneCallback, token, toCall,
                 calls>>

\* PrngRunnerFinished, up to the end of its critical section.
PrngRunnerFinished ==
  /\ seqRun = Prng /\ step = "taken"
  /\ completion' = "ok"
  /\ toCall' = doneCallback
  /\ step' = "finished"
  /\ UNCHANGED <<vars, prngPhase, doneCallback, token, calls>>

CallDoneCallback ==
  /\ seqRun = Prng /\ step = "finished"
  /\ calls' = IF toCall = None THEN calls ELSE [calls EXCEPT ![toCall] = @ + 1]
  /\ FinishCallback(Prng)
  /\ step' = "called"
  /\ UNCHANGED <<prngPhase, completion, doneCallback, token, toCall>>

\* A callback that SetAsyncCallback has scheduled.
RunCallback(k) ==
  /\ seqRun = k
  /\ FinishCallback(k)
  /\ calls' = [calls EXCEPT ![k] = @ + 1]
  /\ UNCHANGED <<prngPhase, completion, doneCallback, token, step, toCall>>

Sequential ==
  \/ /\ \/ \E t \in Tasks : StartReduce(t) \/ FinishReduce(t)
        \/ \E o \in Observers : StartCallback(o)
     /\ UNCHANGED stateVars
  \/ TakeResult \/ PrngRunnerFinished \/ CallDoneCallback
  \/ \E k \in Callbacks : RunCallback(k)

EnterState ==
  InitializeFails \/ InitializeSucceeds \/ ScheduleBatch \/ StartPrngEnds

Waking == CancelWake /\ UNCHANGED stateVars

PrngNext ==
  \/ EnterState
  \/ \E k \in Callbacks : SetDoneCallback(k)
  \/ ProceedToNextRound \/ PrngAbort \/ AbortReturns \/ Waking
  \/ \E t \in Tasks : PoolThread(t) /\ UNCHANGED stateVars
  \/ Sequential

PrngSpec == PrngInit /\ [][PrngNext]_prngVars

\* The server's thread finishes the call it is in; the schedulers run what they
\* are given.
PrngFairness ==
  /\ WF_prngVars(EnterState) /\ WF_prngVars(AbortReturns) /\ WF_prngVars(Waking)
  /\ \A t \in Tasks : WF_prngVars(PoolThread(t) /\ UNCHANGED stateVars)
  /\ WF_prngVars(Sequential)

FairPrng == PrngSpec /\ PrngFairness

-----------------------------------------------------------------------------
(* Properties *)

PrngTypeOK ==
  /\ prngPhase \in {"entering", "scheduling", "entered", "aborting", "left"}
  /\ completion \in {None, "ok", "error"}
  /\ doneCallback \in Callbacks \cup {None} /\ toCall \in Callbacks \cup {None}
  /\ step \in {"none", "taken", "finished", "called"}
  /\ calls \in [Callbacks -> 0..1]

\* The observer's next step is PrngRunnerFinished, a method of the state.
ObserverUsesState == seqRun = Prng /\ step = "taken"

\* The sum is complete when the state reports success, and the FCP_CHECK of
\* GetResultAndCancel holds when the observer calls it, also when batches finish
\* while others are still being scheduled.  ProceedToNextRound does not replace
\* the state while the observer has still to call PrngRunnerFinished on it: only
\* an abort does that.
ResultHasAllMasks ==
  /\ PrngTypeOK
  /\ completion = "ok" => taken = Tasks
  /\ seqRun = Prng /\ step = "none" => active = 0
  /\ ObserverUsesState /\ prngPhase = "left" => cancel # "none"

\* The callback set last is called, and finds the state ready to proceed, whether
\* the computation finishes before, while or after it is set, unless the server
\* aborts.
CallbackCalled ==
  /\ [][\A k \in Callbacks : calls'[k] # calls[k] => completion # None]_prngVars
  /\ \A k \in Callbacks :
       /\ doneCallback = k ~> calls[k] = 1 \/ doneCallback # k \/ cancel # "none"
       /\ observer[k] = "queued" ~> calls[k] = 1

\* "Protects this object from being destroyed while StartPrng call is still in
\* progress" (secagg_server_prng_running_state.h), read for the observer that
\* StartPrng leaves behind: it does not find the state destroyed.
StateOutlivesObserver == ObserverUsesState => prngPhase # "left"
=============================================================================
