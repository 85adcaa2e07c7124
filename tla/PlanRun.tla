------------------------------- MODULE PlanRun -------------------------------
(***************************************************************************)
(* A plan's run in client/engine: TensorFlow or TFLite behind an           *)
(* InterruptibleRunner, or the example query engine, for a local           *)
(* computation (client/lc_runner.cc) or for the federated runner, whose    *)
(* plan is that of the task or of the eligibility evaluation before it.    *)
(* The graph is outside the repository: its threads make iterators through the *)
(* ExternalDataset op and call GetNext as they like, and it ends as it     *)
(* likes.  The iterators of a dataset come from the environment of the     *)
(* task or from Federated Select, which may be disabled, and whose         *)
(* iterator passes its slices through a scratch file.                      *)
(***************************************************************************)
EXTENDS Naturals, Sequences

CONSTANTS
  Datasets,     \* the datasets that the plan reads
  MaxExamples   \* how many examples, or slices, one has at most

ASSUME MaxExamplesNatural == MaxExamples \in Nat

VARIABLES
  planCaller,  \* "local", "eligibility" or "federated"
  engine,      \* "tf", "tflite", "query", or "none" in a build without TF
  provider,    \* by dataset: "env", "select" or "disabled"
  plan,        \* what the engines and their callers read of the plan
  place,       \* of the caller
  session,     \* of the graph: "none", "running", "closed" by an abort, or its status
  iter,        \* by dataset: its DatasetIterator
  scratch,     \* the datasets whose scratch file exists
  iterStatus,  \* ExampleIteratorStatus::status_
  totalCount,  \* total_example_count
  stop,        \* should_abort() is true
  planResult,  \* the PlanOutcome
  phases,      \* what the PhaseLogger is told of
  failures     \* history: the errors of iterators, and the examples they gave

planVars == <<planCaller, engine, provider, plan, place, session, iter, scratch, iterStatus,
              totalCount, stop, planResult, phases, failures>>
planInputs == <<planCaller, engine, provider, plan>>
graphVars == <<session, iter, scratch, iterStatus, totalCount, failures>>

IteratorErrors == {"Cancelled", "Unavailable"}
NoIterator == [state |-> "none", left |-> 0, pending |-> "none"]

\* A plan that runs, and the plans with one thing wrong with them.
Tensors == {"input path", "output path"}
GoodPlan == [readable |-> TRUE, parses |-> TRUE, spec |-> TRUE, resources |-> "fit",
             tensors |-> Tensors, constants |-> "none", graph |-> TRUE, aggregations |-> TRUE]
Plans == {GoodPlan, [GoodPlan EXCEPT !.readable = FALSE], [GoodPlan EXCEPT !.parses = FALSE],
          [GoodPlan EXCEPT !.spec = FALSE], [GoodPlan EXCEPT !.graph = FALSE],
          [GoodPlan EXCEPT !.tensors = {"input path"}], [GoodPlan EXCEPT !.aggregations = FALSE]}
  \cup {[GoodPlan EXCEPT !.resources = r] : r \in {"and a directory", "unknown"}}
  \cup {[GoodPlan EXCEPT !.constants = c] : c \in {"good", "bad", "disabled"}}

PlanInit ==
  /\ planCaller \in {"local", "eligibility", "federated"}
  /\ engine \in {"tf", "tflite", "none"} \cup IF planCaller = "federated" THEN {"query"} ELSE {}
  \* Only the plan of a task has a factory for Federated Select.
  /\ provider \in [Datasets -> IF planCaller = "federated" THEN {"env", "select", "disabled"} ELSE {"env"}]
  /\ plan \in Plans
  /\ place = "start" /\ session = "none"
  /\ iter = [d \in Datasets |-> NoIterator]
  /\ scratch = {} /\ iterStatus = "Ok" /\ totalCount = 0 /\ stop = FALSE
  /\ planResult = "none" /\ phases = <<>>
  /\ failures = [errors |-> {}, leaked |-> {}, given |-> 0]

-----------------------------------------------------------------------------
(* Iterators.                                                              *)

\* Mutant: the status of the last call is kept, whatever it is.
SetStatusAlways(old, new) == new

SetStatus(old, new) == IF new \in {"Ok", "OutOfRange"} THEN old ELSE new

Made(n, files) == [it |-> [NoIterator EXCEPT !.state = "open", !.left = n], files |-> files, error |-> "Ok"]
Failed(e, files) == [it |-> [NoIterator EXCEPT !.state = "failing"], files |-> files, error |-> e]

\* What CreateExampleIterator may come to: SimpleTaskEnvironment's.
EnvironmentIterator ==
  {Made(n, scratch) : n \in 0..MaxExamples} \cup {Failed(e, scratch) : e \in IteratorErrors}

\* FetchSlicesViaHttp: an error of the requests as a whole, an interruption for
\* one, becomes INTERNAL, and that of a slice UNAVAILABLE.
FetchSlicesViaHttp(files) ==
  {Made(n, files) : n \in 0..MaxExamples} \cup {Failed(e, files) : e \in {"Internal", "Unavailable"}}

\* HttpFederatedSelectExampleIteratorFactory: the criteria, then the scratch file,
\* then the slices.  When the fetch fails no iterator is there to remove the file.
SelectIterator(d) ==
  {Failed("InvalidArgument", scratch), Failed("Internal", scratch)} \cup
  FetchSlicesViaHttp(scratch \cup {d})

DisabledIterator == {Failed("InvalidArgument", scratch)}

\* FindExampleIteratorFactory: the first factory that can handle the selector.
CreateExampleIterator(d) ==
  CASE provider[d] = "env"    -> EnvironmentIterator
    [] provider[d] = "select" -> SelectIterator(d)
    [] OTHER                  -> DisabledIterator

\* What Next may come to; that of Federated Select removes its file at the end,
\* and keeps a slice that it cannot write.
Gives(c, m, files) == [code |-> c, left |-> m, files |-> files]
SelectNext(d) ==
  IF iter[d].left = 0 THEN {Gives("OutOfRange", 0, scratch \ {d})}
  ELSE {Gives("Ok", iter[d].left - 1, scratch), Gives("Internal", iter[d].left, scratch)}
EnvironmentNext(d) ==
  {Gives(e, iter[d].left, scratch) : e \in IteratorErrors} \cup
  {IF iter[d].left = 0 THEN Gives("OutOfRange", 0, scratch) ELSE Gives("Ok", iter[d].left - 1, scratch)}
ExampleIteratorNext(d) == IF provider[d] = "env" THEN EnvironmentNext(d) ELSE SelectNext(d)

\* ~InMemoryFederatedSelectExampleIterator, for the iterators of D.
Destroyed(D) == scratch \ D

\* What is remembered of an iterator's creation and of a call of its Next.
CreationNoted(c) ==
  IF c.error = "Ok" THEN failures
  ELSE [failures EXCEPT !.errors = @ \cup {c.error}, !.leaked = @ \cup (c.files \ scratch)]
CallNoted(d, code) ==
  [failures EXCEPT !.errors = @ \cup ({code} \ {"Ok", "OutOfRange"}),
                   !.given = IF code = "Ok" /\ provider[d] = "env" THEN @ + 1 ELSE @]

\* ExternalDatasetOp::MakeDataset: the provider is looked up by its token, which
\* is registered while the graph runs, and makes a dataset of the selector.  (One
\* that cannot be parsed is the graph's error.)
MakeDataset(d) ==
  /\ session \in {"running", "closed"} /\ iter[d].state = "none"
  /\ iter' = [iter EXCEPT ![d].state = "dataset"]
  /\ UNCHANGED <<planInputs, place, session, scratch, iterStatus, totalCount, stop, planResult,
                 phases, failures>>

\* MakeIteratorInternal calls the function of TrainingDatasetProvider: an error
\* becomes an iterator that fails.
MakeIterator(d) ==
  /\ session \in {"running", "closed"} /\ iter[d].state = "dataset"
  /\ \E c \in CreateExampleIterator(d) :
       /\ iter' = [iter EXCEPT ![d] = c.it]
       /\ scratch' = c.files
       /\ iterStatus' = SetStatus(iterStatus, c.error)
       /\ failures' = CreationNoted(c)
  /\ UNCHANGED <<planInputs, place, session, totalCount, stop, planResult, phases>>

\* DatasetIterator::GetNext up to the return of the iterator's Next.
GetNextCalls(d) ==
  /\ session \in {"running", "closed"} /\ iter[d].state = "open" /\ iter[d].pending = "none"
  /\ \E r \in ExampleIteratorNext(d) :
       /\ iter' = [iter EXCEPT ![d].pending = r.code, ![d].left = r.left]
       /\ scratch' = r.files
  /\ UNCHANGED <<planInputs, place, session, iterStatus, totalCount, stop, planResult,
                 phases, failures>>

\* The rest of GetNext: the status, Close() at the end, and the counts, which
\* Federated Select has no part in.  (An iterator that has finished or that could
\* not be created changes nothing: OUT_OF_RANGE, or its error, each time.)
GetNextReturns(d) ==
  LET code == iter[d].pending IN
  /\ code # "none"
  /\ iterStatus' = SetStatus(iterStatus, code)
  /\ iter' = [iter EXCEPT ![d].pending = "none",
                          ![d].state = IF code = "OutOfRange" THEN "finished" ELSE @]
  /\ scratch' = IF code = "OutOfRange" THEN scratch \ {d} ELSE scratch
  /\ totalCount' = IF code = "Ok" /\ provider[d] = "env" THEN totalCount + 1 ELSE totalCount
  /\ failures' = CallNoted(d, code)
  /\ UNCHANGED <<planInputs, place, session, stop, planResult, phases>>

-----------------------------------------------------------------------------
(* The engines.                                                            *)

\* ParseEligibilityEvalPlanOutput: the output is one tensor that holds the info,
\* or the log has an error of the computation.
ParseEligibilityEvalPlanOutput(outcome) ==
  IF planCaller = "eligibility" /\ outcome = "Success" THEN {"Success", "TensorflowError"} ELSE {outcome}

\* The outcome is logged and the run returns; what is left of the graph, with
\* its iterators, is destroyed.
EndPlan(outcome) ==
  /\ place' = "done" /\ planResult' = outcome
  /\ \E logged \in ParseEligibilityEvalPlanOutput(outcome) : phases' = phases \o <<logged>>
  /\ scratch' = Destroyed({d \in Datasets : iter[d].state \in {"open", "finished"}})
  /\ iter' = [d \in Datasets |-> NoIterator]

\* ConstructInputsForTensorflowSpecPlan and ConstructInputsForTFLitePlan.
ConstructInputs ==
  IF plan.resources = "and a directory" \/ (plan.resources = "unknown" /\ engine # "tflite")
  THEN "InvalidArgument" ELSE "Ok"

\* RunLocalComputation reads the plan; RunPlanWithTensorflowSpec looks at its kind.
LocalRefusal ==
  CASE ~plan.readable               -> "IOError"
    [] ~plan.parses \/ ~plan.spec   -> "InvalidArgument"
    [] OTHER                        -> ConstructInputs

\* RunEligibilityEvalPlanWithTensorflowSpec: the kind of the plan.  (The federated
\* runner has parsed its plans when it got them.)
EligibilityRefusal == IF plan.spec THEN "Ok" ELSE "InvalidArgument"

\* Each output has an aggregation, and one that is supported.
ConstructOutputsWithDeterministicOrder == IF plan.aggregations THEN "Ok" ELSE "InvalidArgument"

\* The federated runner's RunPlanWithTensorflowSpec.
FederatedRefusal == IF plan.spec THEN ConstructOutputsWithDeterministicOrder ELSE "InvalidArgument"

\* RunPlanWithExampleQuerySpec: the plan's kind, the engine's flag, the outputs.
QueryRefusal == IF plan.spec /\ plan.aggregations THEN "Ok" ELSE "InvalidArgument"

\* What keeps the plan from an engine; a build without TensorFlow has none.
PlanRefusal ==
  LET refusal == CASE planCaller = "local"       -> LocalRefusal
                   [] planCaller = "eligibility" -> EligibilityRefusal
                   [] engine = "query"           -> QueryRefusal
                   [] OTHER                      -> FederatedRefusal
  IN IF refusal = "Ok" /\ engine = "none" THEN "TensorflowError" ELSE refusal

\* A local computation does not start when it should abort, and one in a build
\* without TensorFlow logs no end.
StartPlan ==
  /\ place = "start" /\ planResult = "none"
  /\ CASE planCaller = "local" /\ stop ->
            place' = "done" /\ planResult' = "Interrupted" /\ phases' = <<"not started">>
       [] PlanRefusal # "Ok" ->
            /\ place' = "done" /\ planResult' = PlanRefusal
            /\ phases' = IF planCaller = "local" /\ PlanRefusal = "TensorflowError"
                         THEN <<"started">> ELSE <<"started", PlanRefusal>>
       [] OTHER -> place' = "engine" /\ phases' = <<"started">> /\ UNCHANGED planResult
  /\ UNCHANGED <<planInputs, graphVars, stop>>

\* ValidateTensorflowSpec: a spec for each tensor.
ValidateTensorflowSpec == IF plan.tensors = Tensors THEN "Ok" ELSE "InvalidArgument"

\* TensorFlowWrapper::Create, then RunPlanInternal, where a constant that cannot be
\* converted is an error of the computation; a disabled one is left out.
TensorFlowRefusal ==
  IF ValidateTensorflowSpec # "Ok" THEN "InvalidArgument"
  ELSE IF ~plan.graph \/ plan.constants = "bad" THEN "TensorflowError" ELSE "Ok"

\* TfLitePlanEngine::RunPlan refuses constants first, the disabled ones too; then
\* TfLiteWrapper::Create.
TfLiteRefusal ==
  IF ValidateTensorflowSpec # "Ok" \/ plan.constants \in {"bad", "disabled"} THEN "InvalidArgument"
  ELSE IF ~plan.graph THEN "TensorflowError" ELSE "Ok"

\* RunPlan as far as InterruptibleRunner::Run, which looks at should_abort first.
RunGraph ==
  LET refusal == IF engine = "tf" THEN TensorFlowRefusal ELSE TfLiteRefusal IN
  /\ place = "engine" /\ engine \in {"tf", "tflite"}
  /\ CASE refusal # "Ok"          -> EndPlan(refusal) /\ UNCHANGED session
       [] refusal = "Ok" /\ stop  -> EndPlan("Interrupted") /\ UNCHANGED session
       [] OTHER -> place' = "waiting" /\ session' = "running" /\ UNCHANGED <<planResult, phases, scratch, iter>>
  /\ UNCHANGED <<planInputs, iterStatus, totalCount, stop, failures>>

\* TensorFlow's codes, and those of TFLite.
ToFcpStatus(s) == IF s \in {"Ok", "OutOfRange"} THEN s ELSE "InvalidArgument"
ConvertTfLiteStatus(s, cancelled) ==
  CASE s = "Ok"                  -> "Ok"
    [] s = "Error" /\ cancelled  -> "Cancelled"
    [] OTHER                     -> "InvalidArgument"

\* Session::Run or Invoke returns, when no thread is in GetNext.
GraphEnds ==
  /\ session \in {"running", "closed"} /\ \A d \in Datasets : iter[d].pending = "none"
  /\ IF engine = "tf"
     THEN \E s \in {"Ok", "OutOfRange", "Aborted"} : session' = ToFcpStatus(s)
     ELSE \E s \in {"Ok", "Error", "DelegateError"} : session' = ConvertTfLiteStatus(s, session = "closed")
  /\ UNCHANGED <<planInputs, place, iter, scratch, iterStatus, totalCount, stop, planResult,
                 phases, failures>>

CreateComputationErrorPlanResult(status) ==
  CASE status \in {"Ok", "OutOfRange"} -> "TensorflowError"
    [] status = "Cancelled"            -> "Interrupted"
    [] OTHER                           -> "ExampleIteratorError"

\* RunTensorFlowInternal: the end of a dataset is as good as OK.
RunTensorFlowInternal(s) == IF s = "OutOfRange" THEN "Ok" ELSE s

\* ConstructOutputs: a TFLite graph may have other outputs than the plan names.
ConstructOutputs(s) == IF s = "Ok" THEN {"Ok", "InvalidArgument"} ELSE {s}

\* CreatePlanResultFromOutput, and the end of SimplePlanEngine::RunPlan.
CreatePlanResultFromOutput(s) ==
  CASE s = "Ok"         -> "Success"
    [] s = "Cancelled"  -> "Interrupted"
    [] OTHER            -> CreateComputationErrorPlanResult(iterStatus)

\* WaitUntilDone returns the operation's status.
GraphDone ==
  /\ place = "waiting" /\ session \notin {"running", "closed"}
  /\ IF engine = "tf" THEN EndPlan(CreatePlanResultFromOutput(RunTensorFlowInternal(session)))
     ELSE \E s \in ConstructOutputs(session) : EndPlan(CreatePlanResultFromOutput(s))
  /\ UNCHANGED <<planInputs, session, iterStatus, totalCount, stop, failures>>

\* Abort: the session is closed, or the delegate cancelled.
AbortGraph ==
  /\ place = "waiting" /\ session = "running" /\ stop
  /\ place' = "aborting" /\ session' = "closed"
  /\ UNCHANGED <<planInputs, iter, scratch, iterStatus, totalCount, stop, planResult, phases, failures>>

\* The graph ends within the two periods, or the process exits.
AbortEnds ==
  /\ place = "aborting"
  /\ IF session = "closed" THEN place' = "exit" /\ UNCHANGED <<planResult, phases, scratch, iter>>
     ELSE EndPlan("Interrupted")
  /\ UNCHANGED <<planInputs, session, iterStatus, totalCount, stop, failures>>

\* ExampleQueryPlanEngine::RunPlan asks each dataset for its one result, in turn
\* and in its own thread; any error ends it.  Then WriteCheckpoint.
QueryNext(d) ==
  \E c \in CreateExampleIterator(d) :
    /\ \/ /\ c.error = "Ok" /\ c.it.left > 0
          /\ iter' = [iter EXCEPT ![d].state = "finished"]
          /\ UNCHANGED <<place, planResult, phases>>
       \/ /\ place' = "done" /\ planResult' = "ExampleIteratorError"
          /\ phases' = phases \o <<"ExampleIteratorError">> /\ UNCHANGED iter
    /\ scratch' = IF c.error = "Ok" THEN scratch ELSE c.files  \* its destructor removes it
    /\ failures' = CreationNoted(c)
    /\ UNCHANGED <<planInputs, session, iterStatus, totalCount, stop>>

QueryWrites ==
  /\ \A d \in Datasets : iter[d].state = "finished"
  /\ EndPlan("Success") \/ EndPlan("ExampleIteratorError")
  /\ UNCHANGED <<planInputs, session, iterStatus, totalCount, stop, failures>>

RunQueries ==
  /\ place = "engine" /\ engine = "query"
  /\ QueryWrites \/ \E d \in Datasets : iter[d].state = "none" /\ QueryNext(d)

StopPlan ==
  /\ ~stop /\ stop' = TRUE
  /\ UNCHANGED <<planInputs, graphVars, place, planResult, phases>>

PlanNext ==
  \/ StartPlan \/ RunGraph \/ GraphEnds \/ GraphDone \/ AbortGraph \/ AbortEnds
  \/ RunQueries \/ StopPlan
  \/ \E d \in Datasets : MakeDataset(d) \/ MakeIterator(d) \/ GetNextCalls(d) \/ GetNextReturns(d)

PlanSpec == PlanInit /\ [][PlanNext]_planVars

-----------------------------------------------------------------------------
(* Properties.                                                             *)

\* Nothing of Federated Select stays on the disk when the run is over: each
\* scratch file for which an iterator was made is removed, by Next at the end,
\* by Close or by the destructor, also when the graph stops half-way.
ScratchRemoved == place = "done" => scratch \subseteq failures.leaked

\* The outcome names what went wrong, whichever thread's call of GetNext comes
\* last: an error of an iterator is never put down to TensorFlow once the graph
\* has run, nor TensorFlow's to an iterator, and a run counts as interrupted only
\* if somebody asked for it.  A success counts each example that was given.  No
\* scratch file outlives the run.
OutcomeExplained ==
  /\ planResult = "TensorflowError" => failures.errors = {}
  /\ planResult = "ExampleIteratorError" /\ engine # "query" => failures.errors \ {"Cancelled"} # {}
  /\ planResult = "Interrupted" => stop \/ "Cancelled" \in failures.errors
  /\ planResult = "Success" /\ engine # "query" => totalCount = failures.given
  /\ ScratchRemoved
=============================================================================
