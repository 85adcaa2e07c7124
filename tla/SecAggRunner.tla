---------------------------- MODULE SecAggRunner ----------------------------
(***************************************************************************)
(* SecAggRunnerImpl (client/secagg_runner.cc): it validates the input and  *)
(* runs a SecAgg client in the thread of an InterruptibleRunner, over HTTP *)
(* (HttpSecAggSendToServerImpl, HttpSecAggProtocolDelegate) or over the    *)
(* gRPC stream (GrpcSecAggSendToServerImpl, GrpcSecAggProtocolDelegate).   *)
(* Thread "body" runs the protocol; thread "caller" polls should_abort and *)
(* aborts.  The client holds its mutex while it sends, which over HTTP is  *)
(* a whole exchange, and the stream holds its own while it receives.       *)
(***************************************************************************)
EXTENDS FiniteSets

CONSTANT Transports   \* a subset of {"http", "grpc"}

ASSUME TransportsKnown == Transports \subseteq {"http", "grpc"}

VARIABLES
  via, hasCheckpoint,  \* the transport, and tf_checkpoint.has_value()
  rstate,    \* the SecAgg client's state
  hasInput,  \* SetInput was called
  signal,    \* its async_abort_
  mu,        \* who holds its mutex: a thread or "none"
  at,        \* by thread: where it is
  sending,   \* the message that the holder of the mutex is sending, and the state that follows
  holder,    \* server_response_holder_
  received,  \* what ReceiveServerMessage returned
  streamMu, streamOpen,  \* GrpcBidiStream::mu_, and that it is neither closed nor broken
  reached,   \* what has reached the server
  uploaded,  \* the uploads whose responses were OK
  refused,   \* the client was handed a message that its state does not expect
  should,    \* should_abort() is true
  returned   \* by thread: what it returns

runnerVars == <<via, hasCheckpoint, rstate, hasInput, signal, mu, at, sending, holder,
                received, streamMu, streamOpen, reached, uploaded, refused, should, returned>>
clientVars == <<rstate, hasInput, refused, received>>
netVars == <<holder, streamMu, streamOpen, reached, uploaded>>
fixed == <<via, hasCheckpoint>>

Ended == {"completed", "aborted"}
Nothing == [message |-> "none", then |-> "none"]

RunnerInit ==
  /\ via \in Transports /\ hasCheckpoint \in BOOLEAN
  /\ rstate = "r0" /\ hasInput = FALSE /\ signal = FALSE /\ mu = "none"
  /\ at = [body |-> "none", caller |-> "validate"]
  /\ sending = Nothing
  /\ holder = "error" /\ received = "error"  \* a StatusOr without a value
  /\ streamMu = "none" /\ streamOpen = TRUE
  /\ reached = {} /\ uploaded = {} /\ refused = FALSE /\ should = FALSE
  /\ returned = [body |-> "none", caller |-> "none"]

Go(t, place) == at' = [at EXCEPT ![t] = place]
Return(t, value) == returned' = [returned EXCEPT ![t] = value]

-----------------------------------------------------------------------------
(* SecAggRunnerImpl::Run and InterruptibleRunner, in the caller's thread.  *)

\* The checks of GetModulus and of each quantized tensor; then Run of the
\* InterruptibleRunner, which looks at should_abort first.
Validate ==
  /\ at["caller"] = "validate"
  /\ \/ Go("caller", "done") /\ Return("caller", "Internal")
     \/ IF should THEN Go("caller", "done") /\ Return("caller", "Cancelled")
        ELSE at' = [body |-> "start", caller |-> "wait"] /\ UNCHANGED returned
  /\ UNCHANGED <<fixed, clientVars, netVars, signal, mu, sending, should>>

\* WaitUntilDone
WaitDone ==
  /\ at["caller"] = "wait"
  /\ at["body"] = "done"
  /\ Go("caller", "done") /\ Return("caller", returned["body"])
  /\ UNCHANGED <<fixed, clientVars, netVars, signal, mu, sending, should>>

\* AbortInternal: SecAggClient::Abort raises its signal, then takes the mutex.
WaitAborts ==
  /\ at["caller"] = "wait"
  /\ should /\ at["body"] # "done"
  /\ signal' = TRUE /\ Go("caller", "abort")
  /\ UNCHANGED <<fixed, clientVars, netVars, mu, sending, should, returned>>

AbortLocks ==
  /\ at["caller"] = "abort" /\ mu = "none"
  /\ IF rstate \in Ended THEN Go("caller", "delegate") /\ UNCHANGED <<mu, sending>>
     ELSE /\ mu' = "caller" /\ Go("caller", "sending")
          /\ sending' = [message |-> "abort", then |-> "aborted"]
  /\ UNCHANGED <<fixed, clientVars, netVars, signal, should, returned>>

\* SecAggProtocolDelegate::Abort: GrpcBidiStream::Close cancels the call that
\* holds the stream's mutex; over HTTP there is nothing to do.
DelegateAbort ==
  /\ at["caller"] = "delegate"
  /\ streamOpen' = (streamOpen /\ via = "http")
  /\ IF streamMu = "none" THEN Go("caller", "graceful") ELSE UNCHANGED at
  /\ UNCHANGED <<fixed, clientVars, signal, mu, sending, holder, streamMu, reached,
                 uploaded, should, returned>>

\* InterruptibleRunner::Abort after the abort function has returned: the thread
\* ends within the two periods, or the process exits.
AbortWaits ==
  /\ at["caller"] = "graceful"
  /\ Go("caller", "done")
  /\ \/ at["body"] = "done" /\ Return("caller", "Cancelled")
     \/ at["body"] # "done" /\ Return("caller", "Exit")
  /\ UNCHANGED <<fixed, clientVars, netVars, signal, mu, sending, should>>

-----------------------------------------------------------------------------
(* Sending, by the thread that holds the client's mutex.                   *)

\* The response that the server gives to a message.
ResponseTo(message) ==
  CASE message = "advertise_keys"        -> "share_keys_request"
    [] message = "share_keys_response"   -> "masked_input_request"
    [] message = "masked_input_response" -> "unmasking_request"
    [] message = "unmasking_response"    -> "empty"
    [] message = "abort"                 -> "abort"

\* Send has returned: the client enters the state and lets go of the mutex.
Sent(t) ==
  /\ rstate' = sending.then /\ mu' = "none" /\ sending' = Nothing
  /\ Go(t, IF t = "caller" THEN "delegate" ELSE IF at[t] = "starting" THEN "input" ELSE "after")

\* Mutant: a failed upload is overlooked.
DoR2AnyUpload(ok, response) ==
  LET parts == IF hasCheckpoint THEN {"masked", "nonmasked"} ELSE {"masked"} IN
  \E arrived \in SUBSET parts : \E good \in SUBSET arrived :
    /\ uploaded' = uploaded \cup good
    /\ holder' = IF ok THEN response ELSE "error"
    /\ \/ reached' = reached \cup arrived \cup {"masked_input_response"}
       \/ ~ok /\ reached' = reached \cup arrived

\* DoR2SubmitSecureAggregationResult: the uploads go in parallel; unless all are
\* answered well it ends there, and the result is submitted only after them.
DoR2(ok, response) ==
  LET parts == IF hasCheckpoint THEN {"masked", "nonmasked"} ELSE {"masked"} IN
  \E arrived \in SUBSET parts : \E good \in SUBSET arrived :
    /\ ok => good = parts
    /\ uploaded' = uploaded \cup good
    /\ holder' = IF ok THEN response ELSE "error"
    /\ \/ good = parts /\ reached' = reached \cup arrived \cup {"masked_input_response"}
       \/ ~ok /\ reached' = reached \cup arrived

\* The other requests are one exchange each.
Exchange(ok, message, response) ==
  /\ holder' = IF ok THEN response ELSE "error"
  /\ \/ reached' = reached \cup {message}
     \/ ~ok /\ UNCHANGED reached
  /\ UNCHANGED uploaded

\* Whether a request may be given up: those of the protocol go through the
\* InterruptibleRunner of HttpFederatedProtocol, that of an abort through a
\* delayed one, whose should_abort waits for a deadline.  Any may fail.
HttpSend(t) ==
  LET m == sending.message IN
  /\ via = "http" /\ at[t] \in {"starting", "sending"} /\ mu = t
  /\ \E ok \in BOOLEAN :
       IF m = "masked_input_response" THEN DoR2(ok, ResponseTo(m)) ELSE Exchange(ok, m, ResponseTo(m))
  /\ Sent(t)
  /\ UNCHANGED <<fixed, hasInput, refused, received, signal, streamMu, streamOpen, should, returned>>

\* Mutant: the abort is sent through a runner that does not look at should_abort.
MayHangAlways(t) == TRUE

\* Without an interruption nobody bounds how long a server may take to answer.
MayHang(t) == t = "body" /\ ~should

\* GrpcBidiStream::Send waits for the stream's mutex.  Its status is not used; a
\* failure closes the stream.
GrpcSend(t) ==
  /\ via = "grpc" /\ at[t] \in {"starting", "sending"} /\ mu = t /\ streamMu = "none"
  /\ Sent(t)
  /\ \/ streamOpen /\ reached' = reached \cup {sending.message} /\ UNCHANGED streamOpen
     \/ streamOpen' = FALSE /\ UNCHANGED reached
  /\ UNCHANGED <<fixed, hasInput, refused, received, signal, holder, streamMu, uploaded, should, returned>>

-----------------------------------------------------------------------------
(* The operation of Run, in the thread of the InterruptibleRunner.         *)

StartClient ==
  /\ at["body"] = "start" /\ mu = "none"
  /\ mu' = "body" /\ Go("body", "starting")
  /\ sending' = [message |-> "advertise_keys", then |-> "r1"]
  /\ UNCHANGED <<fixed, clientVars, netVars, signal, should, returned>>

\* An aborted client refuses the input, which ends the operation.
SetRunInput ==
  /\ at["body"] = "input" /\ mu = "none"
  /\ IF rstate \in Ended THEN Go("body", "done") /\ Return("body", "FailedPrecondition") /\ UNCHANGED hasInput
     ELSE Go("body", "loop") /\ hasInput' = TRUE /\ UNCHANGED returned
  /\ UNCHANGED <<fixed, rstate, refused, received, netVars, signal, mu, sending, should>>

\* while (!IsCompletedSuccessfully())
Loop ==
  /\ at["body"] = "loop" /\ mu = "none"
  /\ IF rstate = "completed" THEN Go("body", "done") /\ Return("body", "Ok")
     ELSE Go("body", "receive") /\ UNCHANGED returned
  /\ UNCHANGED <<fixed, clientVars, netVars, signal, mu, sending, should>>

\* ReceiveServerMessage over HTTP reads the holder without a lock: while the
\* other thread writes the outcome of its abort there, what is read is either.
HttpReceive ==
  /\ via = "http" /\ at["body"] = "receive"
  /\ received' \in IF at["caller"] = "sending" THEN {holder, "abort", "error"} ELSE {holder}
  /\ IF received' = "error" THEN Go("body", "done") /\ Return("body", "Error")
     ELSE Go("body", "handle") /\ UNCHANGED returned
  /\ UNCHANGED <<fixed, rstate, hasInput, refused, netVars, signal, mu, sending, should>>

GrpcReceive ==
  /\ via = "grpc" /\ at["body"] = "receive" /\ streamMu = "none"
  /\ IF streamOpen THEN streamMu' = "body" /\ Go("body", "receiving") /\ UNCHANGED returned
     ELSE Go("body", "done") /\ Return("body", "Cancelled") /\ UNCHANGED streamMu
  /\ UNCHANGED <<fixed, clientVars, signal, mu, sending, holder, streamOpen, reached,
                 uploaded, should>>

\* The server's message, which follows the last one that reached it, or its abort.
Answer(messages) ==
  CASE "unmasking_response" \in messages    -> "empty"
    [] "masked_input_response" \in messages -> "unmasking_request"
    [] "share_keys_response" \in messages   -> "masked_input_request"
    [] OTHER                                -> "share_keys_request"

GrpcReceived ==
  /\ at["body"] = "receiving" /\ streamOpen
  /\ \/ "advertise_keys" \in reached /\ received' = Answer(reached)
     \/ received' \in {"abort", "success"}
  /\ streamMu' = "none" /\ Go("body", "handle")
  /\ UNCHANGED <<fixed, rstate, hasInput, refused, signal, mu, sending, holder, streamOpen,
                 reached, uploaded, should, returned>>

\* The stream is cancelled by Close.
GrpcBroken ==
  /\ at["body"] = "receiving" /\ ~streamOpen
  /\ streamMu' = "none" /\ Go("body", "done") /\ Return("body", "Error")
  /\ UNCHANGED <<fixed, clientVars, signal, mu, sending, holder, streamOpen, reached,
                 uploaded, should>>

\* It ends by the server, the network or the deadline of the channel.
StreamEnds ==
  /\ via = "grpc" /\ streamOpen /\ streamOpen' = FALSE
  /\ UNCHANGED <<fixed, clientVars, signal, mu, at, sending, holder, streamMu, reached,
                 uploaded, should, returned>>

\* SecAggClient::ReceiveMessage, by state.  A raised signal, or a request that is
\* not right, makes the client abort and notify the server.
Respond(message, then) ==
  /\ mu' = "body" /\ Go("body", "sending")
  /\ \/ ~signal /\ sending' = [message |-> message, then |-> then]
     \/ sending' = [message |-> "abort", then |-> "aborted"]
  /\ UNCHANGED <<rstate, refused, returned>>

HandleShareKeysRequest ==
  rstate = "r1" /\ received = "share_keys_request" /\ Respond("share_keys_response", "r2")

\* Without its input the client keeps the request and sends nothing.
HandleMaskedInputRequest ==
  /\ rstate = "r2" /\ received = "masked_input_request"
  /\ IF hasInput THEN Respond("masked_input_response", "r3")
     ELSE rstate' = "r2w" /\ Go("body", "after") /\ UNCHANGED <<refused, mu, sending, returned>>

HandleUnmaskingRequest ==
  rstate = "r3" /\ received = "unmasking_request" /\ Respond("unmasking_response", "completed")

HandleAbortMessage ==
  /\ rstate \notin Ended /\ received \in {"abort", "success"}
  /\ rstate' = IF received = "abort" THEN "aborted" ELSE "completed"
  /\ Go("body", "after") /\ UNCHANGED <<refused, mu, sending, returned>>

\* SecAggClientState::HandleMessage
Expects == [r1 |-> "share_keys_request", r2 |-> "masked_input_request", r3 |-> "unmasking_request"]
HandleMessage ==
  /\ rstate \notin Ended => received \notin {"abort", "success"}
  /\ rstate \in DOMAIN Expects => received # Expects[rstate]
  /\ refused' = TRUE /\ Go("body", "done") /\ Return("body", "Error")
  /\ UNCHANGED <<rstate, mu, sending>>

Handle ==
  /\ at["body"] = "handle" /\ mu = "none"
  /\ \/ HandleAbortMessage \/ HandleShareKeysRequest \/ HandleMaskedInputRequest
     \/ HandleUnmaskingRequest \/ HandleMessage
  /\ UNCHANGED <<fixed, hasInput, received, netVars, signal, should>>

\* IsAborted()
AfterMessage ==
  /\ at["body"] = "after" /\ mu = "none"
  /\ IF rstate = "aborted" THEN Go("body", "done") /\ Return("body", "Cancelled")
     ELSE Go("body", "loop") /\ UNCHANGED returned
  /\ UNCHANGED <<fixed, clientVars, netVars, signal, mu, sending, should>>

RunShouldAbort ==
  /\ ~should /\ should' = TRUE
  /\ UNCHANGED <<fixed, clientVars, netVars, signal, mu, at, sending, returned>>

Caller == Validate \/ WaitDone \/ WaitAborts \/ AbortLocks \/ DelegateAbort \/ AbortWaits
Body == \/ StartClient \/ SetRunInput \/ Loop \/ HttpReceive \/ GrpcReceive \/ GrpcBroken
        \/ Handle \/ AfterMessage

RunnerNext ==
  \/ Caller \/ Body \/ GrpcReceived \/ StreamEnds \/ RunShouldAbort
  \/ \E t \in {"body", "caller"} : HttpSend(t) \/ GrpcSend(t)

\* Both threads run; an exchange that may be given up ends.  Nothing is assumed
\* of the server, nor of the channel's deadline.
RunnerSpec ==
  /\ RunnerInit /\ [][RunnerNext]_runnerVars
  /\ WF_runnerVars(Caller) /\ WF_runnerVars(Body)
  /\ \A t \in {"body", "caller"} :
       WF_runnerVars(HttpSend(t) /\ ~MayHang(t)) /\ WF_runnerVars(GrpcSend(t))

-----------------------------------------------------------------------------
(* Properties.                                                             *)

\* A result is submitted to the server only when all that belongs to it has been
\* uploaded, and Run returns OK over HTTP only after that.  Each response is
\* handled once and by the state that waits for it: the holder is filled anew
\* between two turns of the loop of Run, and only an abort by the other thread
\* can come in between.
SubmittedWhole ==
  LET parts == IF hasCheckpoint THEN {"masked", "nonmasked"} ELSE {"masked"} IN
  /\ via = "http" =>
       /\ "masked_input_response" \in reached => parts \subseteq uploaded
       /\ returned["caller"] = "Ok" => "masked_input_response" \in reached
  /\ refused => signal

\* An interrupted Run over HTTP ends: the abort function is called, and the
\* operation ends within the periods of the InterruptibleRunner or the process
\* exits.  Each exchange that the abort may have to wait for can be given up.
InterruptHeeded == (via = "http" /\ should) ~> (at["caller"] = "done")

\* "should_abort is polled periodically, and if it returns true, the
\* abort_function supplied along with the operation is called.  The operation is
\* then expected to abort within graceful_shutdown_period.  If not, ... the
\* program exits" (interruptible_runner.h): an interrupted Run ends, over either
\* transport.
InterruptEndsRun == should ~> (at["caller"] = "done")
=============================================================================
