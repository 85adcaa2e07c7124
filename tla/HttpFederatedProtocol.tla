------------------------ MODULE HttpFederatedProtocol ------------------------
(***************************************************************************)
(* src/fcp/client/http/http_federated_protocol.cc: one session over HTTP,  *)
(* with the default task only.  An action is a whole call; its last        *)
(* parameter is what the call returns.  told collects what the server has  *)
(* been sent; a request that fails may have reached it.                    *)
(***************************************************************************)
EXTENDS FederatedProtocol

VARIABLES
  multiple,            \* Flags::http_protocol_supports_multiple_task_assignments
  objectState,         \* object_state_
  taskState,           \* default_task_info_.state
  retryTimes,          \* retry_times_.has_value()
  eligibilityEnabled,  \* eligibility_eval_enabled_
  told

EligibilityEvalCheckinAllowed == objectState = "Initialized"

\* ProtocolRequestCreator: Create looks at the uri of the forwarding info, and
\* CreateProtocolRequest joins it with the suffix.
CreateRequestCreator == {"Ok", "InvalidArgument"}
CreateProtocolRequest == {"Ok", "InvalidArgument"}

\* A response of its own encoding breaks the contract of HttpClient.
CheckResponseContentEncoding == {"Ok", "Unavailable"}

PerformProtocolRequest ==
  {FirstError(r, e) : r \in PerformRequestsInMemory, e \in CheckResponseContentEncoding}

\* A request and the parsing of its response.
Respond == {FirstError(c, FirstError(r, p)) : c \in CreateProtocolRequest,
              r \in PerformProtocolRequest, p \in {"Ok", "InvalidArgument"}}

\* A resource is inline or has an uri.
ConvertResourceToUriOrInlineData == {"Ok", "InvalidArgument", "Unimplemented"}
FetchTaskResources ==
  {FirstError(c, f) : c \in ConvertResourceToUriOrInlineData, f \in FetchResourcesInMemory}

\* Only for multiple assignments; a spec that cannot be parsed is refused.
FetchPopulationEligibilitySpec ==
  IF multiple
  THEN {FirstError(c, f) : c \in ConvertResourceToUriOrInlineData,
                           f \in FetchResourcesInMemory \cup {"InvalidArgument"}}
  ELSE {"Ok"}

EligibilityEvalCheckin(ret) ==
  /\ \/ \* No response, or one that cannot be parsed.
        /\ ret \in {Failure(c, FALSE) : c \in Respond \ {"Ok"}}
        /\ retryTimes' = retryTimes
     \/ \* A response, but its forwarding info or its kind is not understood.
        /\ ret \in {Failure(c, FALSE) : c \in (CreateRequestCreator \ {"Ok"}) \cup {"Unimplemented"}}
        /\ retryTimes' = TRUE
     \/ \* A task, but not its resources.
        /\ ret \in {Failure(c, TRUE) : c \in (FetchTaskResources \cup FetchPopulationEligibilitySpec) \ {"Ok"}}
        /\ retryTimes' = TRUE
     \/ /\ ret \in {Success(r) : r \in {"task", "rejection", "disabled"}}
        /\ retryTimes' = TRUE
  /\ objectState' = StateAfterEligibilityEval(ret, "EligibilityEvalCheckinFailed")
  /\ eligibilityEnabled' = (ret.result = "task")
  /\ UNCHANGED <<multiple, taskState, told>>

\* Best effort: the outcome of the request is only logged.
ReportEligibilityEvalError ==
  /\ told' \in {told, told \cup {"eligibility error"}}
  /\ UNCHANGED <<multiple, objectState, taskState, retryTimes, eligibilityEnabled>>

\* The states of multiple assignments that the check also admits are out of reach.
CheckinAllowed(hasInfo) ==
  /\ objectState \in {"EligibilityEvalDisabled", "EligibilityEvalEnabled"}
  /\ hasInfo <=> objectState = "EligibilityEvalEnabled"

\* Together with the task assignment request goes a report that the eligibility
\* task succeeded, if there was one.
Checkin(ret) ==
  /\ ret \in {Success("task"), Success("rejection")}
       \cup {Failure(c, FALSE) : c \in (Respond \cup CreateRequestCreator \cup {"Unimplemented"}) \ {"Ok"}}
       \cup {Failure(c, TRUE) : c \in FetchTaskResources \ {"Ok"}}
  /\ objectState' = StateAfterCheckin(ret)
  /\ taskState' = IF ret.result = "task" THEN "CheckinAccepted" ELSE taskState
  /\ told' \in IF eligibilityEnabled THEN {told, told \cup {"eligibility ok"}} ELSE {told}
  /\ UNCHANGED <<multiple, retryTimes, eligibilityEnabled>>

ReportAllowed == taskState = "CheckinAccepted"

\* What the server may have heard when some of the messages were lost.
Told(messages) == {told \cup m : m \in SUBSET messages}

\* A failed start or write is made permanent whatever its code, and the server is
\* asked to abort the aggregation unless it did so itself.  The report of the
\* task's outcome that goes with the start is best effort.
AbortAggregation(code) == IF code = "Aborted" THEN {} ELSE {"abort"}

StartOrUploadFails(ret) ==
  /\ ret \in Codes
  /\ taskState' = "ReportFailedPermanentError"
  /\ told' \in Told({"completed"} \cup AbortAggregation(ret))

\* The last step of an upload.
SubmitAggregationResult(ret) ==
  /\ taskState' = "ReportCalled"
  /\ \/ ret = "Ok" /\ told' \in {told \cup {"result"}, told \cup {"completed", "result"}}
     \/ ret \in Codes /\ told' \in Told({"completed", "result"})

ReportViaSimpleAggregation(results, ret) ==
  \/ /\ results = "empty"
     /\ ret = "Internal"
     /\ taskState' = "ReportCalled"
     /\ UNCHANGED told
  \/ /\ results = "checkpoint"
     /\ StartOrUploadFails(ret) \/ SubmitAggregationResult(ret)

\* The response to StartSecureAggregation is dereferenced without a look at its
\* status: when that request failed the process ends ("Crash").
ReportViaSecureAggregation(results, ret) ==
  /\ results \in {"tensors", "both"}
  /\ taskState' = "ReportCalled"
  /\ \/ ret = "Crash" /\ told' \in Told({"completed"})
     \/ ret \in Codes /\ told' \in Told({"completed", "result"})
     \/ ret = "Ok" /\ told' \in {told \cup {"result"}, told \cup {"completed", "result"}}

ReportCompleted(results, ret) ==
  /\ \/ ReportViaSimpleAggregation(results, ret)
     \/ ReportViaSecureAggregation(results, ret)
  /\ UNCHANGED <<multiple, objectState, retryTimes, eligibilityEnabled>>

ReportNotCompleted(ret) ==
  /\ taskState' = "ReportCalled"
  /\ \/ ret = "Ok" /\ told' = told \cup {"failure"}
     \/ ret \in Codes /\ told' \in {told, told \cup {"failure"}}
  /\ UNCHANGED <<multiple, objectState, retryTimes, eligibilityEnabled>>

\* With multiple assignments the states of all tasks are counted, and a task that
\* is neither reported nor failed makes the outcome partial.
GetTheLatestStateFromAllTasks ==
  CASE objectState # "CheckinAccepted" -> objectState
    [] objectState = "CheckinAccepted" /\ ~multiple -> taskState
    [] OTHER -> IF taskState \in {"ReportFailedPermanentError", "ReportCalled"}
                  THEN taskState ELSE "ReportMultipleTaskPartialError"

GetLatestRetryWindow == RetryWindow(GetTheLatestStateFromAllTasks, retryTimes)
=============================================================================
