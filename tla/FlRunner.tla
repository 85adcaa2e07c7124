------------------------------- MODULE FlRunner -------------------------------
(***************************************************************************)
(* src/fcp/client/fl_runner.cc: one federated computation, from the check  *)
(* of the device's conditions to the value returned, over either           *)
(* implementation of FederatedProtocol.  The runner is one thread; what is *)
(* nondeterministic is the server, the files, the plan and the store that  *)
(* LogResultUploadStarted commits to.  log holds the events that           *)
(* PhaseLoggerImpl publishes, each with its phase.                         *)
(***************************************************************************)
EXTENDS FederatedProtocol, Naturals, Sequences

CONSTANT MultipleTaskFlags  \* the values of http_protocol_supports_multiple_task_assignments

ASSUME MultipleTaskFlagsAssumption == MultipleTaskFlags \subseteq BOOLEAN

VARIABLES
  transport,                                     \* "http" or "grpc"
  multiple, objectState, taskState, retryTimes,  \* the protocol object
  eligibilityEnabled, secAgg, told,
  pc,            \* the next call
  hasInfo,       \* task_eligibility_info.has_value()
  outcome,       \* plan_result.outcome
  results,       \* computation_results
  retryInfo,     \* fl_runner_result.retry_info
  contribution,  \* fl_runner_result.contribution_result
  log,
  errors         \* history: the codes of the errors the protocol's calls returned

httpVars == <<multiple, taskState, eligibilityEnabled>>
protocolVars == <<httpVars, objectState, retryTimes, secAgg, told>>
runnerVars == <<hasInfo, outcome, results, contribution>>
vars == <<transport, protocolVars, runnerVars, pc, retryInfo, log, errors>>

Http == INSTANCE HttpFederatedProtocol
Grpc == INSTANCE GrpcFederatedProtocol

GetLatestRetryWindow ==
  IF transport = "http" THEN Http!GetLatestRetryWindow ELSE Grpc!GetLatestRetryWindow

(* The events of a phase: how it may end, and what may be logged on the way. *)
Phases == <<"eligibility checkin", "eligibility computation", "checkin",
            "computation", "result upload", "failure upload">>

EndsOfCheckin == {"aborted", "interrupted", "io error", "turned away",
                  "invalid payload", "finished"}
EndsOfEligibilityCheckin == EndsOfCheckin \cup {"not configured"}
EndsOfEligibilityComputation == {"InvalidArgument", "ExampleIteratorError",
                                 "TensorflowError", "Interrupted", "finished"}
EndsOfComputation == EndsOfEligibilityComputation \cup {"io error"}
EndsOfUpload == {"aborted", "interrupted", "io error", "finished"}

PlanOutcomes == {"Success", "TensorflowError", "Interrupted", "InvalidArgument",
                 "ExampleIteratorError"}

\* How a failed call of the protocol is logged.
EndOfCall(code) ==
  CASE code = "Ok"        -> "finished"
    [] code = "Aborted"   -> "aborted"
    [] code = "Cancelled" -> "interrupted"
    [] OTHER              -> "io error"

\* How a plan's run is logged; usable: its output could be converted.
EndOfPlan(plan, usable) ==
  IF plan # "Success" THEN plan ELSE IF usable THEN "finished" ELSE "TensorflowError"

Init ==
  /\ transport \in {"http", "grpc"}
  /\ multiple \in MultipleTaskFlags
  /\ objectState = "Initialized" /\ taskState = "Initialized"
  /\ retryTimes = FALSE /\ eligibilityEnabled = FALSE /\ secAgg = FALSE
  /\ told = {}
  /\ pc = "start" /\ hasInfo = FALSE /\ outcome = "none" /\ results = "none"
  /\ retryInfo = "none" /\ contribution = "FAIL"
  /\ log = <<>> /\ errors = {}

Log(phase, events) == log' = log \o [i \in 1..Len(events) |-> <<phase, events[i]>>]

UpdateRetryWindow == retryInfo' = GetLatestRetryWindow'

Remember(code) == errors' = errors \cup ({code} \ {"Ok"})

\* RunFederatedComputation refuses an entry point that is neither https nor local
\* before it makes a protocol object: the host is given an error and no window.
EntryPointRefused ==
  /\ pc = "start" /\ transport = "http"
  /\ pc' = "refused"
  /\ UNCHANGED <<transport, protocolVars, runnerVars, retryInfo, log, errors>>

\* RunFederatedComputation up to the first call of the protocol.
StartRun ==
  /\ pc = "start"
  /\ retryInfo' = GetLatestRetryWindow
  /\ \/ pc' = "done" /\ Log("none", <<"not started">>)  \* should_abort()
     \/ pc' = "eligibility checkin" /\ UNCHANGED log
  /\ UNCHANGED <<transport, protocolVars, runnerVars, errors>>

\* Mutant: a rejected client checks in all the same.
CheckinAfterRejection(ret) ==
  CASE ret.result = "task" -> "eligibility plan"
    [] ret.code = "Ok"     -> "checkin"
    [] OTHER               -> "done"

AfterEligibilityEval(ret) ==
  CASE ret.result = "task"     -> "eligibility plan"
    [] ret.result = "disabled" -> "checkin"
    [] OTHER                   -> "done"

\* The first half of IssueEligibilityEvalCheckinAndRunPlan.
IssueEligibilityEvalCheckin ==
  /\ pc = "eligibility checkin"
  /\ \E ret \in CheckinReturns :
       /\ \/ transport = "http" /\ Http!EligibilityEvalCheckin(ret) /\ UNCHANGED secAgg
          \/ transport = "grpc" /\ Grpc!EligibilityEvalCheckin(ret) /\ UNCHANGED httpVars
       /\ Remember(ret.code)
       /\ LET end == CASE ret.code # "Ok"            -> <<EndOfCall(ret.code)>>
                       [] ret.result = "rejection"   -> <<"turned away">>
                       [] ret.result = "disabled"    -> <<"not configured">>
                       [] OTHER                      -> <<>>
          IN Log("eligibility checkin",
                 <<"started">> \o (IF ret.uris THEN <<"uris">> ELSE <<>>) \o end)
       /\ pc' = AfterEligibilityEval(ret)
  /\ UNCHANGED <<transport, runnerVars>>
  /\ UpdateRetryWindow

\* RunEligibilityEvalPlan and the end of IssueEligibilityEvalCheckinAndRunPlan.
EligibilityPlanSucceeds ==
  /\ pc = "eligibility plan"
  /\ log' = log \o << <<"eligibility checkin", "finished">>,
                      <<"eligibility computation", "started">>,
                      <<"eligibility computation", "finished">> >>
  /\ hasInfo' = TRUE
  /\ pc' = "checkin"
  /\ UNCHANGED <<transport, protocolVars, outcome, results, contribution, retryInfo, errors>>

EligibilityPlanFails ==
  /\ pc = "eligibility plan"
  /\ \/ \E end \in {"invalid payload", "io error"} : Log("eligibility checkin", <<end>>)
     \/ \E plan \in PlanOutcomes :
          log' = log \o << <<"eligibility checkin", "finished">>,
                           <<"eligibility computation", "started">>,
                           <<"eligibility computation", EndOfPlan(plan, FALSE)>> >>
  /\ \/ transport = "http" /\ Http!ReportEligibilityEvalError /\ UNCHANGED secAgg
     \/ transport = "grpc" /\ Grpc!ReportEligibilityEvalError /\ UNCHANGED httpVars
  /\ pc' = "done"
  /\ UNCHANGED <<transport, runnerVars, errors>>
  /\ UpdateRetryWindow

\* How a check-in may end in the log.  An assigned task may still be given up:
\* its plan cannot be parsed, too few clients are expected for it (nothing is
\* logged), or its checkpoint cannot be written.
EndsOfAssignment(secureTask) ==
  {<<"invalid payload">>, <<"io error">>, <<"finished">>} \cup (IF secureTask THEN {<<>>} ELSE {})

IssueCheckin ==
  /\ pc = "checkin"
  /\ \E ret \in CheckinReturns :
       /\ \/ transport = "http" /\ Http!Checkin(ret)
                                /\ secAgg' \in IF ret.result = "task" THEN BOOLEAN ELSE {secAgg}
          \/ transport = "grpc" /\ Grpc!Checkin(ret) /\ UNCHANGED httpVars
       /\ Remember(ret.code)
       /\ \E end \in CASE ret.code # "Ok"          -> {<<EndOfCall(ret.code)>>}
                       [] ret.result = "rejection" -> {<<"turned away">>}
                       [] OTHER                    -> EndsOfAssignment(secAgg') :
            /\ Log("checkin", <<"started">> \o (IF ret.uris THEN <<"uris">> ELSE <<>>) \o end)
            /\ pc' = IF end = <<"finished">> THEN "compute" ELSE "done"
  /\ UNCHANGED <<transport, runnerVars>>
  /\ UpdateRetryWindow

\* Mutant: an early return that forgets its event.
LogNoOutputFileOpen == Log("computation", <<"started">>)

LogNoOutputFile == Log("computation", <<"started", "io error">>)

\* The rest of RunFederatedComputation up to ReportPlanResult.
RunPlan ==
  /\ pc = "compute"
  /\ UNCHANGED <<transport, protocolVars, hasInfo, contribution, errors>>
  /\ \/ \* No temporary file for the output.
        /\ LogNoOutputFile
        /\ pc' = "done"
        /\ UNCHANGED <<outcome, results, retryInfo>>
     \/ /\ outcome' \in PlanOutcomes
        /\ results' \in IF outcome' = "Success" THEN Results ELSE {"none"}
        /\ Log("computation", <<"started", EndOfPlan(outcome', results' # "none")>>)
        /\ UpdateRetryWindow
        /\ pc' = "report"


Verdict(ret) == IF outcome = "Success" /\ ret = "Ok" THEN "SUCCESS" ELSE "FAIL"

\* ReportPlanResult, the verdict and the last update of the retry window.
Report(ret, phase) ==
  /\ Remember(ret)
  /\ Log(phase, <<"started">> \o IF ret = "Crash" THEN <<>> ELSE <<EndOfCall(ret)>>)
  /\ pc' = IF ret = "Crash" THEN "crashed" ELSE "done"
  /\ contribution' = Verdict(ret)
  /\ UNCHANGED <<transport, hasInfo, outcome, results>>
  /\ IF ret = "Crash" THEN UNCHANGED retryInfo ELSE UpdateRetryWindow

ReportCompleted ==
  /\ pc = "report"
  /\ results # "none"
  /\ \E ret \in Codes \cup {"Ok", "Crash"} :
       /\ \/ transport = "http" /\ Http!ReportCompleted(results, ret) /\ UNCHANGED secAgg
          \/ transport = "grpc" /\ Grpc!ReportCompleted(results, ret) /\ UNCHANGED httpVars
       /\ Report(ret, "result upload")

ReportNotCompleted ==
  /\ pc = "report"
  /\ results = "none"
  /\ \E ret \in Codes \cup {"Ok"} :
       /\ \/ transport = "http" /\ Http!ReportNotCompleted(ret) /\ UNCHANGED secAgg
          \/ transport = "grpc" /\ Grpc!ReportNotCompleted(ret) /\ UNCHANGED httpVars
       /\ Report(ret, "failure upload")

\* The commit in LogResultUploadStarted or LogFailureUploadStarted fails: nothing
\* is published and nothing is reported.
UploadNotStarted ==
  /\ pc = "report"
  /\ pc' = "done"
  /\ UNCHANGED <<transport, protocolVars, runnerVars, log, errors>>
  /\ UpdateRetryWindow

Next == \/ EntryPointRefused \/ StartRun \/ IssueEligibilityEvalCheckin \/ EligibilityPlanSucceeds
        \/ EligibilityPlanFails \/ IssueCheckin \/ RunPlan \/ ReportCompleted
        \/ ReportNotCompleted \/ UploadNotStarted

Spec == Init /\ [][Next]_vars
-----------------------------------------------------------------------------
Events ==
  {<<"none", "not started">>}
    \cup ({"eligibility checkin"} \X (EndsOfEligibilityCheckin \cup {"started", "uris"}))
    \cup ({"eligibility computation"} \X (EndsOfEligibilityComputation \cup {"started"}))
    \cup ({"checkin"} \X (EndsOfCheckin \cup {"started", "uris"}))
    \cup ({"computation"} \X (EndsOfComputation \cup {"started"}))
    \cup ({"result upload", "failure upload"} \X (EndsOfUpload \cup {"started"}))

TypeOK ==
  /\ transport \in {"http", "grpc"}
  /\ objectState \in ObjectStates /\ taskState \in ObjectStates
  /\ {multiple, retryTimes, eligibilityEnabled, secAgg, hasInfo} \subseteq BOOLEAN
  /\ told \subseteq {"eligibility error", "eligibility ok", "completed", "result",
                     "empty result", "failure", "abort"}
  /\ results \in Results /\ outcome \in PlanOutcomes \cup {"none"}
  /\ retryInfo \in Windows \cup {"none"} /\ contribution \in {"FAIL", "SUCCESS"}
  /\ \A i \in 1..Len(log) : log[i] \in Events
  /\ errors \subseteq Codes \cup {"Crash"}

Call(http, grpc) == IF transport = "http" THEN http ELSE grpc

\* Whatever the server, the files and the plan do, the runner only makes calls
\* that the FCP_CHECKs of HttpFederatedProtocol and GrpcFederatedProtocol admit:
\* check-ins and reports in the order of federated_protocol.h, eligibility info
\* exactly when the server gave an eligibility task, and, for each of the five
\* calls of GetLatestRetryWindow, server windows when a window of theirs is due.
ChecksHold ==
  /\ TypeOK
  /\ pc = "eligibility checkin" =>
       Call(Http!EligibilityEvalCheckinAllowed, Grpc!EligibilityEvalCheckinAllowed)
  /\ pc = "checkin" => Call(Http!CheckinAllowed(hasInfo), Grpc!CheckinAllowed(hasInfo))
  /\ pc = "report" => Call(Http!ReportAllowed, Grpc!ReportAllowed)
  /\ RetryTimesKnown(Call(Http!GetTheLatestStateFromAllTasks, objectState), retryTimes)

IsEnd(event) == event[2] \notin {"started", "uris", "not started"}
Logged(phase, what) == \E i \in 1..Len(log) : log[i] = <<phase, what>>
PhaseIndex(phase) == CHOOSE k \in 1..Len(Phases) : Phases[k] = phase

\* The events of PhaseLoggerImpl tell one story: phases begin in their order, a
\* phase ends once and before the next begins, and when RunFederatedComputation
\* returns no phase is left open, except the check-in given up for too few
\* clients.  As phase_logger.h says, a result upload follows only completed
\* phases, and a failure upload only a failed computation.
PhasesClosed ==
  LET Begun(i) == log[i][2] = "started" IN
  /\ \A i, j \in 1..Len(log) : i < j /\ Begun(i) /\ Begun(j) =>
       /\ PhaseIndex(log[i][1]) < PhaseIndex(log[j][1])
       /\ \E k \in i+1..j-1 : log[k][1] = log[i][1] /\ IsEnd(log[k])
  /\ \A i, j \in 1..Len(log) : i < j /\ IsEnd(log[i]) /\ IsEnd(log[j]) => log[i][1] # log[j][1]
  /\ pc = "done" => IF log = <<>> \/ IsEnd(log[Len(log)]) \/ Logged("none", "not started")
                      THEN TRUE
                      ELSE secAgg /\ log[Len(log)] = <<"checkin", "uris">>
  /\ Logged("result upload", "started") =>
       /\ Logged("eligibility checkin", "not configured")
            \/ Logged("eligibility computation", "finished")
       /\ Logged("checkin", "finished") /\ Logged("computation", "finished")
  /\ Logged("failure upload", "started") => ~Logged("computation", "finished")

PermanentError == errors \cap PermanentCodes # {}

\* On every path out of RunFederatedComputation the retry info returned is the
\* window the protocol object would give now: the accepted one only to a client
\* that was given a task, the transient one only when the server sent none, the
\* permanent one only after a permanent error or a failed upload over HTTP, and
\* over gRPC after every permanent error.
RetryInfoCurrent ==
  pc = "done" =>
    /\ retryInfo = GetLatestRetryWindow
    /\ retryInfo = "accepted" => Logged("checkin", "uris")
    /\ retryInfo = "transient" => ~retryTimes
    /\ retryInfo = "permanent" =>
         PermanentError \/ (transport = "http" /\ Logged("result upload", "started"))
    /\ transport = "grpc" /\ PermanentError => retryInfo = "permanent"


\* "If a client makes it past the 'checkin acceptance' stage, we use the 'accepted'
\* RetryWindow unconditionally (unless a permanent error is encountered)."
AcceptedWindowKept ==
  objectState = "CheckinAccepted" /\ ~PermanentError => GetLatestRetryWindow = "accepted"
=============================================================================
