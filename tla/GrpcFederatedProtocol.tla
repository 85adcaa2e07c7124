------------------------ MODULE GrpcFederatedProtocol ------------------------
(***************************************************************************)
(* src/fcp/client/grpc_federated_protocol.cc: one session over a gRPC      *)
(* stream.  Actions and told are as in HttpFederatedProtocol.              *)
(***************************************************************************)
EXTENDS FederatedProtocol

VARIABLES
  objectState,  \* object_state_
  retryTimes,   \* checkin_request_ack_info_.has_value()
  secAgg,       \* side_channel_protocol_execution_info_.has_secure_aggregation()
  told

EligibilityEvalCheckinAllowed == objectState = "Initialized"

\* A resource has an uri, or is inline and possibly empty.
ConvertResourceToUriOrInlineData == {"Ok", "InvalidArgument"}
FetchTaskResources ==
  {FirstError(c, f) : c \in ConvertResourceToUriOrInlineData, f \in FetchResourcesInMemory}

\* The acknowledgement, which holds the retry windows, comes before the response.
\* The state is set to Enabled before the resources are fetched, and stays so
\* when a fetch fails with a transient error.
EligibilityEvalCheckin(ret) ==
  /\ \/ /\ ret \in {Failure(c, FALSE) : c \in Codes}
        /\ retryTimes' \in {retryTimes, TRUE}
        /\ objectState' = StateAfterEligibilityEval(ret, "EligibilityEvalCheckinFailed")
     \/ /\ ret \in {Success(r) : r \in {"task", "rejection", "disabled"}}
                   \cup {Failure(c, TRUE) : c \in FetchTaskResources \ {"Ok"}}
        /\ retryTimes' = TRUE
        /\ objectState' = StateAfterEligibilityEval(ret, "EligibilityEvalEnabled")
  /\ UNCHANGED <<secAgg, told>>

ReportEligibilityEvalError == UNCHANGED <<objectState, retryTimes, secAgg, told>>

CheckinAllowed(hasInfo) ==
  /\ objectState \in {"EligibilityEvalDisabled", "EligibilityEvalEnabled"}
  /\ hasInfo <=> objectState = "EligibilityEvalEnabled"

\* The execution info is stored before the resources are fetched.
Checkin(ret) ==
  /\ ret \in {Success("task"), Success("rejection")}
       \cup {Failure(c, FALSE) : c \in Codes} \cup {Failure(c, TRUE) : c \in FetchTaskResources \ {"Ok"}}
  /\ objectState' = StateAfterCheckin(ret)
  /\ secAgg' \in IF ret.uris THEN BOOLEAN ELSE {secAgg}
  /\ UNCHANGED <<retryTimes, told>>

ReportAllowed == objectState = "CheckinAccepted"

\* has_checkpoint is not initialized and is set only when a checkpoint is found:
\* for a single tensor the test goes either way, and the report that follows
\* holds an empty checkpoint.
SimpleReportFormed(results) == results \in {"checkpoint", "tensors"}
SimpleReportRefused(results) == results # "checkpoint"

\* Report(...), for a completed (message "result") or a failed computation.
Report(results, message, ret) ==
  \/ /\ secAgg
     /\ message = "failure"
     /\ ret = "Internal"
     /\ UNCHANGED told
  \/ /\ secAgg
     /\ message = "result"
     /\ \/ ret = "Ok" /\ told' = told \cup {"result"}
        \/ ret \in Codes /\ told' \in {told, told \cup {"result"}}
  \/ /\ ~secAgg
     /\ SimpleReportRefused(results)
     /\ ret = "Internal"
     /\ UNCHANGED told
  \/ /\ ~secAgg
     /\ SimpleReportFormed(results)
     /\ LET sent == IF results = "checkpoint" THEN message ELSE "empty result" IN
        \/ ret = "Ok" /\ told' = told \cup {sent}
        \/ ret \in Codes /\ told' \in {told, told \cup {sent}}

ReportOutcome(results, message, ret) ==
  /\ Report(results, message, ret)
  /\ objectState' = AfterError(ret, "ReportCalled", "ReportFailedPermanentError")
  /\ UNCHANGED <<retryTimes, secAgg>>

ReportCompleted(results, ret) == ReportOutcome(results, "result", ret)

\* A failure is reported as one empty checkpoint.
ReportNotCompleted(ret) == ReportOutcome("checkpoint", "failure", ret)

GetLatestRetryWindow == RetryWindow(objectState, retryTimes)
=============================================================================
