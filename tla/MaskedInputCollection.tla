------------------------- MODULE MaskedInputCollection -------------------------
(***************************************************************************)
(* The asynchronous round 2 of src/fcp/secagg/server/aes: the server's     *)
(* thread queues a masked input and schedules a task on the accumulator    *)
(* only if it found the queue empty; the task takes the whole queue.  The  *)
(* queue has a mutex of its own, so that the server's thread and the pool  *)
(* interleave between queueing and scheduling.                             *)
(***************************************************************************)
EXTENDS Accumulator

CONSTANT Clients

ASSUME NoneIsNoBatch == \A S \in SUBSET Clients : S # None

VARIABLES
  accepted,   \* the clients whose input HandleMaskedInputCollectionResponse took
  queue,      \* masked_input_queue_
  batch,      \* what TakeMaskedInputQueue returned to each task, None before
  toSchedule, \* the server's thread found the queue empty and must schedule
  phase       \* "open", "final" after FinalizeMaskedInputCollection, "cancelled"

inputVars == <<accepted, queue, batch, toSchedule, phase>>
allVars == <<vars, inputVars>>

CollectionInit ==
  /\ Init
  /\ accepted = {}
  /\ queue = {}
  /\ batch = [t \in Tasks |-> None]
  /\ toSchedule = FALSE
  /\ phase = "open"

\* Between two calls of the server.
ServerIdle == ~toSchedule /\ OwnerRuns

\* Mutant: the queue is looked at after the input has been added.
EnqueueLateLook(c) ==
  /\ phase = "open" /\ ServerIdle /\ c \notin accepted
  /\ accepted' = accepted \cup {c}
  /\ queue' = queue \cup {c}
  /\ toSchedule' = (queue' = {})
  /\ UNCHANGED <<vars, batch, phase>>

Enqueue(c) ==
  /\ phase = "open" /\ ServerIdle /\ c \notin accepted
  /\ accepted' = accepted \cup {c}
  /\ queue' = queue \cup {c}
  /\ toSchedule' = (queue = {})
  /\ UNCHANGED <<vars, batch, phase>>

ScheduleTask ==
  /\ toSchedule
  /\ \E t \in Tasks : Schedule(t)
  /\ toSchedule' = FALSE
  /\ UNCHANGED <<accepted, queue, batch, phase>>

SetAsyncCallback(o) ==
  phase = "open" /\ ServerIdle /\ SetAsyncObserver(o) /\ UNCHANGED inputVars

\* Mutant: round 3 starts while inputs are still being added.
FinalizeEarly ==
  /\ phase = "open" /\ ServerIdle
  /\ active = 0 /\ GetResultAndCancelEarly
  /\ phase' = "final"
  /\ UNCHANGED <<accepted, queue, batch, toSchedule>>

\* ReadyForNextRound has seen the accumulator idle.
Finalize ==
  /\ phase = "open" /\ ServerIdle
  /\ GetResultAndCancel
  /\ phase' = "final"
  /\ UNCHANGED <<accepted, queue, batch, toSchedule>>

\* HandleAbort.  The state and the queue are destroyed once Cancel() returns.
HandleAbort ==
  /\ phase = "open" /\ ServerIdle
  /\ CancelCall
  /\ phase' = "cancelled"
  /\ UNCHANGED <<accepted, queue, batch, toSchedule>>

\* The generator, between its start and its end.
TakeMaskedInputQueue(t) ==
  /\ task[t] = "generating" /\ batch[t] = None
  /\ batch' = [batch EXCEPT ![t] = queue]
  /\ queue' = {}
  /\ UNCHANGED <<vars, accepted, toSchedule, phase>>

Pool(t) ==
  /\ StartGenerator(t) \/ ScheduleReduce(t) \/ (batch[t] # None /\ FinishGenerator(t))
  /\ UNCHANGED inputVars

CollectionWake == CancelWake /\ UNCHANGED inputVars

ServerThread ==
  \/ \E c \in Clients : Enqueue(c)
  \/ \E o \in Observers : SetAsyncCallback(o)
  \/ Finalize
  \/ HandleAbort
  \/ CollectionWake

CollectionNext ==
  \/ ServerThread
  \/ ScheduleTask
  \/ \E t \in Tasks : Pool(t) \/ TakeMaskedInputQueue(t)
  \/ SequentialThread /\ UNCHANGED inputVars

CollectionSpec == CollectionInit /\ [][CollectionNext]_allVars

\* The schedulers run what they are given and the server's thread finishes the
\* call it is in; it need not make another.
CollectionFairness ==
  /\ \A t \in Tasks : WF_allVars(Pool(t) \/ TakeMaskedInputQueue(t))
  /\ WF_allVars(SequentialThread /\ UNCHANGED inputVars)
  /\ WF_allVars(ScheduleTask) /\ WF_allVars(CollectionWake)

FairCollection == CollectionSpec /\ CollectionFairness

-----------------------------------------------------------------------------
(* Properties *)

InputsOf(S) == {c \in Clients : \E t \in S : batch[t] # None /\ c \in batch[t]}
Summed == InputsOf(In({"reduced"}))

CollectionTypeOK ==
  /\ accepted \in SUBSET Clients
  /\ queue \in SUBSET accepted
  /\ batch \in [Tasks -> (SUBSET accepted) \cup {None}]
  /\ toSchedule \in BOOLEAN
  /\ phase \in {"open", "final", "cancelled"}

\* No task finds the queue empty, where AddReduce would fail its FCP_CHECK: one
\* task is scheduled for every queue.  And an input is added once, by one task.
\* Only accepted inputs are queued or taken.
BatchesSound ==
  /\ CollectionTypeOK
  /\ \A t \in Tasks : batch[t] # {}
  /\ \A t, u \in Tasks : t # u /\ batch[t] # None /\ batch[u] # None
                           => batch[t] \cap batch[u] = {}

\* The facts BatchesSound rests on.  One task at most has yet to take the queue,
\* there is one as long as the queue is not empty (or the server's thread is about
\* to schedule it), and it will find something there.
Takers == {t \in Tasks : task[t] \in {"scheduled", "generating"} /\ batch[t] = None}
TakerSound ==
  /\ toSchedule => phase = "open" /\ queue # {} /\ Takers = {}
  /\ Takers # {} => queue # {}
  /\ \A t, u \in Takers : t = u
  /\ queue # {} /\ ~isCancelled => toSchedule \/ Takers # {}

\* A batch belongs to a generator that has run, and every accepted input is in
\* the queue or in a batch, not in both.
BatchPlaced ==
  /\ \A t \in Tasks : task[t] \in {"new", "scheduled"} => batch[t] = None
  /\ \A t \in Tasks : task[t] \in {"generated", "queued", "reducing", "reduced"} => batch[t] # None
  /\ \A t \in Tasks : batch[t] # None => batch[t] \cap queue = {}
  /\ accepted \subseteq queue \cup InputsOf(Tasks)

\* What each phase of round 2 says of the accumulator.
PhaseSound ==
  /\ phase = "open" => ~isCancelled /\ cancel = "none"
  /\ phase = "final" => isCancelled /\ Unfinished = {}
  /\ phase = "cancelled" => isCancelled

\* The inductive invariant.
CollectionInv == IInv /\ BatchesSound /\ TakerSound /\ BatchPlaced /\ PhaseSound

\* The asynchronous collection does what SecAggServer relies on: idleness of the
\* accumulator means that every accepted input is in the sum.
Abstract == INSTANCE InputSum WITH pendingInputs <- accepted \ Summed, sum <- Summed
Implements == Abstract!Spec

\* Every accepted input reaches the sum, unless the collection is cancelled.
InputsReachSum == \A c \in Clients : c \in accepted ~> c \in Summed \/ phase = "cancelled"

\* No task touches the queue once the abort has returned, although tasks may
\* still be scheduled: what the TODO in HandleMaskedInputCollectionResponse
\* ("Abort should handle the situation where `this` has been destructed while
\* the schedule task is still not running") asks for.
QueueLeftAlone ==
  [][phase = "cancelled" /\ cancel = "returned" => UNCHANGED <<queue, batch>>]_allVars
=============================================================================
