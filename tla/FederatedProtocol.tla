-------------------------- MODULE FederatedProtocol --------------------------
(***************************************************************************)
(* What the two implementations of the interface of                        *)
(* src/fcp/client/federated_protocol.h share: the object states, the       *)
(* status codes and the values their calls return.  A status is its code;  *)
(* a payload, a session id or an uri is left out.                          *)
(***************************************************************************)

CONSTANT PermanentCodes  \* Flags::federated_training_permanent_error_codes

\* Ok is not an error; Internal stands for every code the code never tests.
Codes == {"Aborted", "Cancelled", "Unavailable", "Internal", "NotFound",
          "InvalidArgument", "Unimplemented"}

ASSUME PermanentCodesAssumption == PermanentCodes \subseteq Codes

\* PerformMultipleTaskAssignments, the only call that leads to the other states
\* of the enumeration, is never made by the runner.
ObjectStates ==
  {"Initialized",
   "EligibilityEvalCheckinFailed", "EligibilityEvalCheckinFailedPermanentError",
   "EligibilityEvalCheckinRejected", "EligibilityEvalDisabled",
   "EligibilityEvalEnabled", "CheckinFailed", "CheckinFailedPermanentError",
   "CheckinRejected", "CheckinAccepted", "ReportCalled",
   "ReportFailedPermanentError", "ReportMultipleTaskPartialError"}

Windows == {"transient", "permanent", "rejected", "accepted"}

\* What a check-in returns: a code, the alternative of its variant, and whether
\* it called payload_uris_received_callback first.
Failure(code, uris) == [code |-> code, result |-> "none", uris |-> uris]
Success(result) == [code |-> "Ok", result |-> result, uris |-> result = "task"]

CheckinReturns ==
  {Failure(c, u) : c \in Codes, u \in BOOLEAN} \cup
  {Success(r) : r \in {"task", "rejection", "disabled"}}

\* What a plan leaves to report: nothing usable, one checkpoint, only quantized
\* tensors, both, or an empty map.
Results == {"none", "checkpoint", "tensors", "both", "empty"}

\* What requests over HTTP (module HttpRequests) and a fetch (module
\* FetchResources) may come to: any code.
PerformRequestsInMemory == Codes \cup {"Ok"}
FetchResourcesInMemory == Codes \cup {"Ok"}

\* FCP_ASSIGN_OR_RETURN: the second call is made if the first succeeded.
FirstError(first, second) == IF first = "Ok" THEN second ELSE first

\* UpdateObjectStateIfPermanentError
AfterError(code, state, permanentState) ==
  IF code \in PermanentCodes THEN permanentState ELSE state

StateAfterEligibilityEval(ret, failed) ==
  CASE ret.result = "task"      -> "EligibilityEvalEnabled"
    [] ret.result = "disabled"  -> "EligibilityEvalDisabled"
    [] ret.result = "rejection" -> "EligibilityEvalCheckinRejected"
    [] OTHER -> AfterError(ret.code, failed,
                           "EligibilityEvalCheckinFailedPermanentError")

StateAfterCheckin(ret) ==
  CASE ret.result = "task"      -> "CheckinAccepted"
    [] ret.result = "rejection" -> "CheckinRejected"
    [] OTHER -> AfterError(ret.code, "CheckinFailed", "CheckinFailedPermanentError")

AcceptedStates == {"CheckinAccepted", "ReportCalled"}
RejectedStates == {"EligibilityEvalCheckinRejected", "EligibilityEvalDisabled",
                   "EligibilityEvalEnabled", "CheckinRejected",
                   "ReportMultipleTaskPartialError"}
FailedStates == {"Initialized", "EligibilityEvalCheckinFailed", "CheckinFailed"}

\* GetLatestRetryWindow, as a function of the state it looks at.
RetryWindow(state, retryTimes) ==
  CASE state \in AcceptedStates -> "accepted"
    [] state \in RejectedStates -> "rejected"
    [] state \in FailedStates   -> IF retryTimes THEN "rejected" ELSE "transient"
    [] OTHER                    -> "permanent"

\* Its FCP_CHECK: the server's windows are there when one of them is wanted.
RetryTimesKnown(state, retryTimes) ==
  state \in AcceptedStates \cup RejectedStates => retryTimes
=============================================================================
