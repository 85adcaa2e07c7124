----------------------------- MODULE SecAggServer -----------------------------
(***************************************************************************)
(* The server of one Secure Aggregation session: src/fcp/secagg/server,    *)
(* SecAggServer with its state classes and SecAggServerProtocolImpl.       *)
(*                                                                         *)
(* Data is abstracted as follows.  A client's public keys are the client's *)
(* name.  The k-th Shamir share of client j's two private keys is the      *)
(* record [of |-> j, at |-> k]; encrypted for client i it is the record    *)
(* [of |-> j, to |-> i, at |-> k], since only the routing of shares is     *)
(* modelled.  A mask is named by the clients that can compute it, {i} for  *)
(* a self mask and {i, j} for a pairwise one, and a masked input is the    *)
(* set of its signed masks <<1, m>>, <<-1, m>>.                            *)
(***************************************************************************)
EXTENDS SecretSharingGraph, Sequences, FiniteSets

CONSTANTS
  Graph,          \* secret_sharing_graph_
  MinimumClients, \* minimum_number_of_clients_to_proceed
  Threshold,      \* minimum_surviving_neighbors_for_reconstruction
  AsyncRound2,    \* is the experiment kSecAggAsyncRound2Experiment enabled?
  None

ASSUME GraphAssumption == IsGraph(Graph)
ASSUME MinimumAssumption == MinimumClients \in 1..Graph.nodes
ASSUME ThresholdAssumption ==
  /\ Threshold \in 1..Graph.degree
  /\ Graph.kind = "complete" => Threshold = MinimumClients
ASSUME AsyncAssumption == AsyncRound2 \in BOOLEAN

Clients == Nodes(Graph)

\* None is no client, no status and no masked input.
ASSUME NoneAssumption ==
  /\ None \notin Clients /\ None \notin {"ok", "error"}
  /\ \A c \in Clients : \A masks \in SUBSET ({1, -1} \X {{c, d} : d \in Clients}) : None # masks

Indices == NeighborIndices(Graph)
Neighbor(c, k) == GetNeighbor(Graph, c, k)
IndexOf(c, d) == GetNeighborIndex(Graph, c, d)

VARIABLES
  state,          \* state_kind_
  status,         \* client_statuses_
  needsToAbort,   \* needs_to_abort_
  failedBefore,   \* number_of_clients_failed_before_sending_masked_input_
  failedAfter,    \* number_of_clients_failed_after_sending_masked_input_
  terminated,     \* number_of_clients_terminated_without_unmasking_
  ready,          \* number_of_clients_ready_for_next_round_
  messages,       \* number_of_messages_received_in_this_round_
  publicKeys,     \* the clients whose keys pairwise_public_keys_ holds
  encryptedShares,\* encrypted_shares_, by recipient and index
  abortedRound2,  \* clients_aborted_at_round_2_
  pendingInputs,  \* masked inputs accepted, not yet accumulated
  maskedInput,    \* masked_input_: what each client added to the sum
  pairwiseTable,  \* pairwise_shamir_share_table_
  selfTable,      \* self_shamir_share_table_
  prngKeys,       \* the work items StartPrng was given
  completion,     \* completion_status_ of the PRNG_RUNNING state
  result,         \* result_: the inputs in the sum and the masks left on it
  toClient        \* the messages sent to each client and not yet received

counts == <<failedBefore, failedAfter, terminated>>
round == <<state, needsToAbort, ready, messages>>
keyData == <<publicKeys, encryptedShares>>
inputs == <<pendingInputs, maskedInput>>
tables == <<pairwiseTable, selfTable>>
prng == <<prngKeys, completion, result>>
serverVars == <<round, status, counts, keyData, abortedRound2, inputs, tables, prng>>
vars == <<serverVars, toClient>>

Rounds == {"R0_ADVERTISE_KEYS", "R1_SHARE_KEYS", "R2_MASKED_INPUT_COLLECTION",
           "R3_UNMASKING"}
Terminal == {"COMPLETED", "ABORTED"}

DeadBefore == {"DEAD_BEFORE_SENDING_ANYTHING", "DEAD_AFTER_ADVERTISE_KEYS_RECEIVED",
               "DEAD_AFTER_SHARE_KEYS_RECEIVED"}
Dead == DeadBefore \cup {"DEAD_AFTER_MASKED_INPUT_RESPONSE_RECEIVED",
                         "DEAD_AFTER_UNMASKING_RESPONSE_RECEIVED"}
ClientStatus == Dead \cup {"READY_TO_START", "ADVERTISE_KEYS_RECEIVED",
                           "SHARE_KEYS_RECEIVED", "MASKED_INPUT_RESPONSE_RECEIVED",
                           "UNMASKING_RESPONSE_RECEIVED"}

\* In each round: the status of a client that has not answered, the message it
\* should answer with, and its status once it has.
Awaited == [R0_ADVERTISE_KEYS |-> "READY_TO_START",
            R1_SHARE_KEYS |-> "ADVERTISE_KEYS_RECEIVED",
            R2_MASKED_INPUT_COLLECTION |-> "SHARE_KEYS_RECEIVED",
            R3_UNMASKING |-> "MASKED_INPUT_RESPONSE_RECEIVED"]
Answer == [R0_ADVERTISE_KEYS |-> "advertise_keys",
           R1_SHARE_KEYS |-> "share_keys_response",
           R2_MASKED_INPUT_COLLECTION |-> "masked_input_response",
           R3_UNMASKING |-> "unmasking_response"]
Answered == [R0_ADVERTISE_KEYS |-> "ADVERTISE_KEYS_RECEIVED",
             R1_SHARE_KEYS |-> "SHARE_KEYS_RECEIVED",
             R2_MASKED_INPUT_COLLECTION |-> "MASKED_INPUT_RESPONSE_RECEIVED",
             R3_UNMASKING |-> "UNMASKING_RESPONSE_RECEIVED"]

IsClientDead(c) == status[c] \in Dead
NumberOfAliveClients == Graph.nodes - failedBefore - failedAfter - terminated
NumberOfPendingClients == NumberOfAliveClients - ready

NoShares == [k \in Indices |-> None]

Init ==
  /\ state = "R0_ADVERTISE_KEYS"
  /\ status = [c \in Clients |-> "READY_TO_START"]
  /\ needsToAbort = FALSE
  /\ failedBefore = 0 /\ failedAfter = 0 /\ terminated = 0
  /\ ready = 0 /\ messages = 0
  /\ publicKeys = {}
  /\ encryptedShares = [c \in Clients |-> NoShares]
  /\ abortedRound2 = {}
  /\ pendingInputs = {}
  /\ maskedInput = [c \in Clients |-> None]
  /\ pairwiseTable = << >> /\ selfTable = << >>
  /\ prngKeys = {} /\ completion = None /\ result = None
  /\ toClient = [c \in Clients |-> << >>]

-----------------------------------------------------------------------------
(* Messages to clients *)

\* Mutant: every abort message promises success.
AbortMessageSuccess(earlySuccess) == [type |-> "abort", earlySuccess |-> TRUE]

AbortMessage(earlySuccess) == [type |-> "abort", earlySuccess |-> earlySuccess]

\* Sends out[c] to every client c in the domain of out.
Send(out) ==
  toClient' = [c \in Clients |-> IF c \in DOMAIN out THEN Append(toClient[c], out[c])
                                 ELSE toClient[c]]

\* The sender broadcasts to the clients still active in the session.
SendBroadcast(message) == Send([c \in {d \in Clients : ~IsClientDead(d)} |-> message])

-----------------------------------------------------------------------------
(* HandleAbortClient of each state, for a set S of clients that are not dead. *)
(* AbortClient uses it for one client, ProceedToNextRound for all stragglers. *)

SetStatus(S, s) == status' = [c \in Clients |-> IF c \in S THEN s ELSE status[c]]

R0HandleAbortClient(S) ==
  /\ SetStatus(S, "DEAD_BEFORE_SENDING_ANYTHING")
  /\ failedBefore' = failedBefore + Cardinality(S)
  /\ publicKeys' = publicKeys \ S
  /\ UNCHANGED <<failedAfter, terminated, encryptedShares, abortedRound2>>

\* EraseShareKeysForClient, for every client of S.
EraseShareKeys(S) ==
  encryptedShares' =
    [n \in Clients |-> [k \in Indices |->
       IF \E c \in S, i \in Indices : Neighbor(c, i) = n /\ IndexOf(n, c) = k
         THEN None ELSE encryptedShares[n][k]]]

R1HandleAbortClient(S) ==
  /\ SetStatus(S, "DEAD_AFTER_ADVERTISE_KEYS_RECEIVED")
  /\ failedBefore' = failedBefore + Cardinality(S)
  /\ EraseShareKeys({c \in S : status[c] = "SHARE_KEYS_RECEIVED"})
  /\ UNCHANGED <<failedAfter, terminated, publicKeys, abortedRound2>>

R2HandleAbortClient(S) ==
  LET after == {c \in S : status[c] = "MASKED_INPUT_RESPONSE_RECEIVED"} IN
  /\ status' = [c \in Clients |->
       IF c \in after THEN "DEAD_AFTER_MASKED_INPUT_RESPONSE_RECEIVED"
       ELSE IF c \in S THEN "DEAD_AFTER_SHARE_KEYS_RECEIVED" ELSE status[c]]
  /\ failedAfter' = failedAfter + Cardinality(after)
  /\ failedBefore' = failedBefore + Cardinality(S \ after)
  /\ abortedRound2' = abortedRound2 \cup (S \ after)
  /\ UNCHANGED <<terminated, keyData>>

R3HandleAbortClient(S, reason) ==
  LET pending == {c \in S : status[c] # "UNMASKING_RESPONSE_RECEIVED"} IN
  /\ status' = [c \in Clients |->
       IF c \in pending THEN "DEAD_AFTER_MASKED_INPUT_RESPONSE_RECEIVED"
       ELSE IF c \in S THEN "DEAD_AFTER_UNMASKING_RESPONSE_RECEIVED" ELSE status[c]]
  /\ IF reason = "EARLY_SUCCESS"
       THEN terminated' = terminated + Cardinality(pending) /\ UNCHANGED failedAfter
       ELSE failedAfter' = failedAfter + Cardinality(pending) /\ UNCHANGED terminated
  /\ UNCHANGED <<failedBefore, keyData, abortedRound2>>

PrngHandleAbortClient(S) ==
  /\ SetStatus(S, "DEAD_AFTER_UNMASKING_RESPONSE_RECEIVED")
  /\ UNCHANGED <<counts, keyData, abortedRound2>>

HandleAbortClient(S, reason) ==
  \/ state = "R0_ADVERTISE_KEYS" /\ R0HandleAbortClient(S)
  \/ state = "R1_SHARE_KEYS" /\ R1HandleAbortClient(S)
  \/ state = "R2_MASKED_INPUT_COLLECTION" /\ R2HandleAbortClient(S)
  \/ state = "R3_UNMASKING" /\ R3HandleAbortClient(S, reason)
  \/ state = "PRNG_RUNNING" /\ PrngHandleAbortClient(S)

\* Mutant: one client less than the minimum will do.
TooFewClientsByTwo ==
  IF state = "R3_UNMASKING" THEN NumberOfPendingClients + messages < MinimumClients - 1
  ELSE NumberOfAliveClients < MinimumClients - 1

\* Do too few clients remain for the round, once HandleAbortClient is done?
\* In rounds 0 to 2 a client that died after its answer no longer counts.
TooFewClients ==
  IF state = "R3_UNMASKING" THEN NumberOfPendingClients + messages < MinimumClients
  ELSE NumberOfAliveClients < MinimumClients

\* PRNG_RUNNING never asks, nor round 3 for a client that has answered.
ChecksRemaining(c) ==
  state \in Rounds /\ status[c] # "UNMASKING_RESPONSE_RECEIVED"

\* SecAggServerState::AbortClient.  A client that is dead stays as it is and
\* is sent nothing.
AbortClient(c, reason, notify) ==
  IF IsClientDead(c) THEN UNCHANGED vars
  ELSE /\ UNCHANGED <<state, messages, inputs, tables, prng>>
       /\ HandleAbortClient({c}, reason)
       /\ ready' = IF state \in Rounds \ {"R3_UNMASKING"} /\ status[c] = Answered[state]
                     THEN ready - 1 ELSE ready
       /\ needsToAbort' = (needsToAbort \/ (ChecksRemaining(c) /\ TooFewClients'))
       /\ IF notify THEN Send([d \in {c} |-> AbortMessage(reason = "EARLY_SUCCESS")])
                    ELSE UNCHANGED toClient

-----------------------------------------------------------------------------
(* ReceiveMessage *)

\* ClientMaskType: which of its two keys must be reconstructed for a client.
MaskType(s) ==
  CASE s \in {"SHARE_KEYS_RECEIVED", "DEAD_AFTER_SHARE_KEYS_RECEIVED"} -> "noise"
    [] s \in {"MASKED_INPUT_RESPONSE_RECEIVED", "UNMASKING_RESPONSE_RECEIVED",
              "DEAD_AFTER_MASKED_INPUT_RESPONSE_RECEIVED",
              "DEAD_AFTER_UNMASKING_RESPONSE_RECEIVED"} -> "prf"
    [] OTHER -> "none"

\* What HandleAdvertiseKeys, HandleShareKeysResponse, HandleMaskedInputCollection-
\* Response and HandleUnmaskingResponse accept.
IsValid(c, m) ==
  CASE m.type \in {"advertise_keys", "masked_input_response"} -> m.wellFormed
    [] m.type = "share_keys_response" ->
         /\ DOMAIN m.shares = Indices
         /\ \A k \in Indices :
              m.shares[k] = None
                <=> \/ Neighbor(c, k) = c
                    \/ status[Neighbor(c, k)] = "DEAD_BEFORE_SENDING_ANYTHING"
    [] m.type = "unmasking_response" ->
         \A k \in Indices : m.kinds[k] = MaskType(status[Neighbor(c, k)])

\* A client that wishes to abort is not answered.
ReceiveAbort(c, m) ==
  /\ state \notin Terminal
  /\ m.type = "abort"
  /\ AbortClient(c, "SENT_ABORT_MESSAGE", FALSE)

\* Any other message that the state does not expect aborts its sender.
RejectMessage(c, m) ==
  /\ state \notin Terminal
  /\ m.type # "abort"
  /\ state \in Rounds =>
       status[c] # Awaited[state] \/ m.type # Answer[state] \/ ~IsValid(c, m)
  /\ AbortClient(c, "UNEXPECTED_MESSAGE", TRUE)

Accept(c, m) ==
  /\ state \in Rounds
  /\ status[c] = Awaited[state] /\ m.type = Answer[state] /\ IsValid(c, m)
  /\ status' = [status EXCEPT ![c] = Answered[state]]
  /\ ready' = ready + 1
  /\ messages' = messages + 1
  /\ UNCHANGED <<state, needsToAbort, counts, abortedRound2, prng, toClient>>

AcceptAdvertiseKeys(c, m) ==
  /\ state = "R0_ADVERTISE_KEYS"
  /\ Accept(c, m)
  /\ publicKeys' = publicKeys \cup {c}
  /\ UNCHANGED <<encryptedShares, inputs, tables>>

\* The share for the i-th neighbor of c is filed under that neighbor, at the
\* index c has among the neighbor's neighbors.
AcceptShareKeysResponse(c, m) ==
  /\ state = "R1_SHARE_KEYS"
  /\ Accept(c, m)
  /\ encryptedShares' =
       [n \in Clients |-> [k \in Indices |->
          IF \E i \in Indices : Neighbor(c, i) = n /\ IndexOf(n, c) = k
            THEN m.shares[IndexOf(c, n)] ELSE encryptedShares[n][k]]]
  /\ UNCHANGED <<publicKeys, inputs, tables>>

AcceptMaskedInput(c, m) ==
  /\ state = "R2_MASKED_INPUT_COLLECTION"
  /\ Accept(c, m)
  /\ maskedInput' = [maskedInput EXCEPT ![c] = m.masks]
  /\ pendingInputs' = IF AsyncRound2 THEN pendingInputs \cup {c} ELSE pendingInputs
  /\ UNCHANGED <<keyData, tables>>

\* A table with the shares of an UnmaskingResponse of one kind filed in it.
FileShares(table, c, m, kind) ==
  [n \in DOMAIN table |-> [k \in Indices |->
     IF \E i \in Indices : /\ Neighbor(c, i) = n /\ IndexOf(n, c) = k
                           /\ m.kinds[i] = kind
       THEN m.shares[IndexOf(c, n)] ELSE table[n][k]]]

AcceptUnmaskingResponse(c, m) ==
  /\ state = "R3_UNMASKING"
  /\ Accept(c, m)
  /\ pairwiseTable' = FileShares(pairwiseTable, c, m, "noise")
  /\ selfTable' = FileShares(selfTable, c, m, "prf")
  /\ UNCHANGED <<keyData, inputs>>

ReceiveMessage(c, m) ==
  \/ ReceiveAbort(c, m)
  \/ RejectMessage(c, m)
  \/ AcceptAdvertiseKeys(c, m)
  \/ AcceptShareKeysResponse(c, m)
  \/ AcceptMaskedInput(c, m)
  \/ AcceptUnmaskingResponse(c, m)

-----------------------------------------------------------------------------
(* ProceedToNextRound *)

\* Mutants: one answer less is enough; a round with too few clients waits for
\* answers too; round 2 does not wait for the accumulator.
ReadyOffByOne ==
  CASE state \in Rounds -> messages >= MinimumClients - 1 \/ needsToAbort
    [] state = "PRNG_RUNNING" -> completion # None
    [] OTHER -> FALSE

ReadyNeverAborts ==
  CASE state \in Rounds -> pendingInputs = {} /\ ready >= MinimumClients
    [] state = "PRNG_RUNNING" -> completion # None
    [] OTHER -> FALSE

ReadyWithoutInputs ==
  CASE state \in Rounds \ {"R3_UNMASKING"} -> ready >= MinimumClients \/ needsToAbort
    [] state = "R3_UNMASKING" -> messages >= MinimumClients \/ needsToAbort
    [] state = "PRNG_RUNNING" -> completion # None
    [] OTHER -> FALSE

ReadyForNextRound ==
  CASE state \in {"R0_ADVERTISE_KEYS", "R1_SHARE_KEYS"} ->
         ready >= MinimumClients \/ needsToAbort
    [] state = "R2_MASKED_INPUT_COLLECTION" ->
         pendingInputs = {} /\ (ready >= MinimumClients \/ needsToAbort)
    [] state = "R3_UNMASKING" -> messages >= MinimumClients \/ needsToAbort
    [] state = "PRNG_RUNNING" -> completion # None
    [] OTHER -> FALSE

\* The clients that a transition aborts because they have not answered.
Stragglers == {c \in Clients : ~IsClientDead(c) /\ status[c] # Answered[state]}
Responders == {c \in Clients : status[c] = Answered[state]}

\* The constructor of the next state: counters of failures are handed over,
\* the others start afresh.
EnterRound(s) ==
  /\ state' = s
  /\ needsToAbort' = FALSE
  /\ ready' = 0
  /\ messages' = 0

ProceedTo(s) ==
  /\ ReadyForNextRound /\ ~needsToAbort
  /\ EnterRound(s)

\* Stragglers are told that they are aborted, the others get their request.
SendRequests(request) ==
  Send([c \in Stragglers \cup Responders |->
          IF c \in Stragglers THEN AbortMessage(FALSE) ELSE request[c]])

ShareKeysRequest(c) ==
  [type |-> "share_keys_request",
   keys |-> [k \in Indices |->
               IF Neighbor(c, k) \in publicKeys THEN Neighbor(c, k) ELSE None]]

ProceedFromR0 ==
  /\ state = "R0_ADVERTISE_KEYS"
  /\ ProceedTo("R1_SHARE_KEYS")
  /\ R0HandleAbortClient(Stragglers)
  /\ SendRequests([c \in Responders |-> ShareKeysRequest(c)])
  /\ UNCHANGED <<inputs, tables, prng>>

MaskedInputCollectionRequest(c) ==
  [type |-> "masked_input_request", shares |-> encryptedShares[c]]

\* The shares are forwarded and then cleared.
ProceedFromR1 ==
  /\ state = "R1_SHARE_KEYS"
  /\ ProceedTo("R2_MASKED_INPUT_COLLECTION")
  /\ SetStatus(Stragglers, "DEAD_AFTER_ADVERTISE_KEYS_RECEIVED")
  /\ failedBefore' = failedBefore + Cardinality(Stragglers)
  /\ SendRequests([c \in Responders |-> MaskedInputCollectionRequest(c)])
  /\ encryptedShares' = [c \in Clients |-> NoShares]
  /\ UNCHANGED <<failedAfter, terminated, publicKeys, abortedRound2, inputs,
                 tables, prng>>

\* dead_3_client_ids: the neighbors of c that died in round 2, by index plus one.
UnmaskingRequest(c) ==
  [type |-> "unmasking_request",
   dead |-> {IndexOf(c, d) + 1 :
               d \in {e \in abortedRound2 \cup Stragglers : AreNeighbors(Graph, c, e)}}]

\* SetUpShamirSharesTables: a row for every client whose key of that kind the
\* server must reconstruct.
EmptyTable(kind) ==
  [c \in {d \in Clients : MaskType(status'[d]) = kind} |-> NoShares]

ProceedFromR2 ==
  /\ state = "R2_MASKED_INPUT_COLLECTION"
  /\ ProceedTo("R3_UNMASKING")
  /\ R2HandleAbortClient(Stragglers)
  /\ SendRequests([c \in Responders |-> UnmaskingRequest(c)])
  /\ pairwiseTable' = EmptyTable("noise")
  /\ selfTable' = EmptyTable("prf")
  /\ UNCHANGED <<inputs, prng>>

\* HandleShamirReconstruction succeeds when every row has enough shares; the
\* key it finds is the right one when every share is where it belongs.
EnoughShares(table) ==
  \A c \in DOMAIN table :
    Cardinality({k \in Indices : table[c][k] # None}) >= Threshold

RightKey(table, c) ==
  \A k \in Indices : table[c][k] \in {None, [of |-> c, at |-> k]}

\* Mutant: only the clients that finished count.
IncludedFinished(s) == s \in {"UNMASKING_RESPONSE_RECEIVED",
                              "DEAD_AFTER_UNMASKING_RESPONSE_RECEIVED"}

Included(s) == s \in {"UNMASKING_RESPONSE_RECEIVED",
                      "DEAD_AFTER_UNMASKING_RESPONSE_RECEIVED",
                      "DEAD_AFTER_MASKED_INPUT_RESPONSE_RECEIVED"}

\* InitializePrng: the masks to take off the sum.  A wrong key cancels nothing.
WorkItems(st) ==
  {<<-1, {i}>> : i \in {c \in DOMAIN selfTable :
                          Included(st[c]) /\ RightKey(selfTable, c)}}
  \cup {<<IF IsOutgoingNeighbor(Graph, p[1], p[2]) THEN 1 ELSE -1, {p[1], p[2]}>> :
          p \in {q \in Clients \X DOMAIN pairwiseTable :
                   /\ Included(st[q[1]]) /\ AreNeighbors(Graph, q[1], q[2])
                   /\ RightKey(pairwiseTable, q[2])}}

\* The stragglers of round 3 are let off with success.  Entering PRNG_RUNNING
\* reconstructs the keys, and starts the computation unless that fails.
ProceedFromR3 ==
  /\ state = "R3_UNMASKING"
  /\ ProceedTo("PRNG_RUNNING")
  /\ R3HandleAbortClient(Stragglers, "EARLY_SUCCESS")
  /\ Send([c \in Stragglers |-> AbortMessage(TRUE)])
  /\ IF EnoughShares(pairwiseTable) /\ EnoughShares(selfTable)
       THEN prngKeys' = WorkItems(status') /\ UNCHANGED completion
       ELSE completion' = "error" /\ UNCHANGED prngKeys
  /\ UNCHANGED <<inputs, tables, result>>

\* How often a mask is left in a sum of masked inputs and PRNG work items.
Coefficient(mask, S) ==
  LET In(sign) == Cardinality({c \in S : <<sign, mask>> \in maskedInput[c]})
                  + Cardinality({<<sign, mask>>} \cap prngKeys)
  IN In(1) - In(-1)

Masks == {{p[1], p[2]} : p \in Clients \X Clients}

\* The observer of StartPrng: the sum, with the masks taken off, is the result.
PrngRunnerFinished ==
  /\ state = "PRNG_RUNNING" /\ completion = None
  /\ completion' = "ok"
  /\ LET S == {c \in Clients : maskedInput[c] # None} \ pendingInputs
     IN result' = [inputs |-> S, masks |-> {m \in Masks : Coefficient(m, S) # 0}]
  /\ UNCHANGED <<round, status, counts, keyData, abortedRound2, inputs, tables,
                 prngKeys, toClient>>

\* No message is sent: every client knows its outcome already.
ProceedFromPrng ==
  /\ state = "PRNG_RUNNING" /\ ReadyForNextRound
  /\ EnterRound(IF completion = "ok" THEN "COMPLETED" ELSE "ABORTED")
  /\ UNCHANGED <<status, counts, keyData, abortedRound2, inputs, tables, prng,
                 toClient>>

\* A round that too few clients can finish ends the session.
ProceedToAbort ==
  /\ state \in Rounds
  /\ ReadyForNextRound /\ needsToAbort
  /\ EnterRound("ABORTED")
  /\ SendBroadcast(AbortMessage(FALSE))
  /\ UNCHANGED <<status, counts, keyData, abortedRound2, inputs, tables, prng>>

ProceedToNextRound ==
  \/ ProceedFromR0 \/ ProceedFromR1 \/ ProceedFromR2 \/ ProceedFromR3
  \/ ProceedFromPrng \/ ProceedToAbort

-----------------------------------------------------------------------------
(* The other calls, and the accumulator's threads *)

\* SecAggServer::Abort.  HandleAbort cancels the work in the background.
Abort ==
  /\ state \notin Terminal
  /\ EnterRound("ABORTED")
  /\ SendBroadcast(AbortMessage(FALSE))
  /\ pendingInputs' = {}
  /\ UNCHANGED <<status, counts, keyData, abortedRound2, maskedInput, tables, prng>>

\* SecAggServer::AbortClient.  INVALID_MESSAGE notifies the client, the other
\* reasons (a dropped connection, a shutdown) do not.
ServerAbortClient(c, notify) ==
  /\ state \notin Terminal
  /\ AbortClient(c, "SERVER_PROTOCOL_ABORT_CLIENT", notify)

\* Some of the inputs queued in an asynchronous round 2 reach the sum.
AccumulateInputs ==
  \E S \in (SUBSET pendingInputs) \ {{}} :
    /\ state = "R2_MASKED_INPUT_COLLECTION"
    /\ pendingInputs' = pendingInputs \ S
    /\ UNCHANGED <<round, status, counts, keyData, abortedRound2, maskedInput,
                   tables, prng, toClient>>

\* Result() hands the result over once.
Result ==
  /\ state = "COMPLETED" /\ result # None
  /\ result' = None
  /\ UNCHANGED <<round, status, counts, keyData, abortedRound2, inputs, tables,
                 prngKeys, completion, toClient>>

IsNumberOfIncludedInputsCommitted ==
  state \in {"R3_UNMASKING", "PRNG_RUNNING", "COMPLETED", "ABORTED"}

NumberOfIncludedInputs ==
  CASE state = "R2_MASKED_INPUT_COLLECTION" -> messages
    [] state \in {"R3_UNMASKING", "PRNG_RUNNING", "COMPLETED"} ->
         Graph.nodes - failedBefore
    [] OTHER -> 0

\* What the server does without a message from a client.
ServerStep ==
  \/ ProceedToNextRound
  \/ PrngRunnerFinished
  \/ AccumulateInputs
  \/ Abort
  \/ Result
  \/ \E c \in Clients, notify \in BOOLEAN : ServerAbortClient(c, notify)

-----------------------------------------------------------------------------
(* The server among clients that may send any message, right or wrong, at any *)
(* time.  SecAggSession puts it among clients that follow the protocol.       *)

ExpectedShares(c) ==
  [k \in Indices |->
     IF \/ Neighbor(c, k) = c
        \/ status[Neighbor(c, k)] = "DEAD_BEFORE_SENDING_ANYTHING"
       THEN None ELSE [of |-> c, to |-> Neighbor(c, k), at |-> k]]

ExpectedKinds(c) == [k \in Indices |-> MaskType(status[Neighbor(c, k)])]

ClientMessage(c) ==
  {[type |-> "abort"]}
  \cup [type : {"advertise_keys"}, wellFormed : BOOLEAN]
  \cup [type : {"share_keys_response"}, shares : {ExpectedShares(c), << >>}]
  \cup [type : {"masked_input_response"}, wellFormed : BOOLEAN,
        masks : {{<<1, {c}>>}}]
  \cup [type : {"unmasking_response"},
        kinds : {ExpectedKinds(c), [k \in Indices |-> "noise"]},
        shares : {[k \in Indices |-> [of |-> Neighbor(c, k),
                                      at |-> IndexOf(Neighbor(c, k), c)]]}]

Next == ServerStep \/ \E c \in Clients : \E m \in ClientMessage(c) : ReceiveMessage(c, m)

Spec == Init /\ [][Next]_vars

-----------------------------------------------------------------------------
(* Properties *)

With(S) == {c \in Clients : status[c] \in S}

TypeOK ==
  /\ state \in Rounds \cup Terminal \cup {"PRNG_RUNNING"}
  /\ status \in [Clients -> ClientStatus]
  /\ needsToAbort \in BOOLEAN
  /\ failedBefore \in Nat /\ failedAfter \in Nat /\ terminated \in Nat
  /\ ready \in Nat /\ messages \in Nat
  /\ completion \in {None, "ok", "error"}
  /\ pendingInputs \in SUBSET Clients
  /\ abortedRound2 \in SUBSET Clients

\* The statuses that a client can have while the server is in a given state.
StatusFits ==
  \A c \in Clients :
    CASE state = "R0_ADVERTISE_KEYS" ->
           status[c] \in {"READY_TO_START", "ADVERTISE_KEYS_RECEIVED",
                          "DEAD_BEFORE_SENDING_ANYTHING"}
      [] state = "R1_SHARE_KEYS" ->
           status[c] \in {"ADVERTISE_KEYS_RECEIVED", "SHARE_KEYS_RECEIVED",
                          "DEAD_BEFORE_SENDING_ANYTHING",
                          "DEAD_AFTER_ADVERTISE_KEYS_RECEIVED"}
      [] state = "R2_MASKED_INPUT_COLLECTION" ->
           status[c] \in DeadBefore \cup
             {"SHARE_KEYS_RECEIVED", "MASKED_INPUT_RESPONSE_RECEIVED",
              "DEAD_AFTER_MASKED_INPUT_RESPONSE_RECEIVED"}
      [] state = "R3_UNMASKING" ->
           status[c] \in Dead \cup {"MASKED_INPUT_RESPONSE_RECEIVED",
                                    "UNMASKING_RESPONSE_RECEIVED"}
      [] state \in {"PRNG_RUNNING", "COMPLETED"} ->
           status[c] \in Dead \cup {"UNMASKING_RESPONSE_RECEIVED"}
      [] OTHER -> TRUE

\* The three failure counters that each state hands to the next agree with the
\* statuses of the clients, however aborts, stragglers and rounds interleave:
\* no client is counted twice or under two headings.
FailuresCounted ==
  /\ failedBefore = Cardinality(With(DeadBefore))
  /\ failedAfter + terminated
       = Cardinality(With({"DEAD_AFTER_MASKED_INPUT_RESPONSE_RECEIVED"}))

\* The two counters of a round agree with the statuses too.  In round 3 they
\* count the answers of clients that died after answering.
RoundCounted ==
  /\ state \in Rounds \ {"R3_UNMASKING"} => ready = Cardinality(With({Answered[state]}))
  /\ state = "R3_UNMASKING" =>
       /\ ready = messages
       /\ messages = Cardinality(With({"UNMASKING_RESPONSE_RECEIVED",
                                       "DEAD_AFTER_UNMASKING_RESPONSE_RECEIVED"}))

\* needs_to_abort_ is raised exactly when too few clients remain: no transition
\* into a new state, which starts with a lowered flag, loses the need to abort.
AbortFlagExact == state \in Rounds => (needsToAbort <=> TooFewClients)

\* The server's books are right, in their types and against the statuses of the
\* clients, through every order of messages, aborts and rounds.
BooksKept ==
  TypeOK /\ StatusFits /\ FailuresCounted /\ RoundCounted /\ AbortFlagExact

\* A round is never stuck: once every client that is alive has answered and the
\* accumulator is idle, the server is ready, to proceed or to abort.
NeverStuck ==
  state \in Rounds /\ pendingInputs = {} /\ With({Awaited[state]}) = {}
    => ReadyForNextRound

\* From round 3 on the sum holds exactly the inputs of the clients counted by
\* NumberOfIncludedInputs, those that died after sending theirs included.
InputsIncluded ==
  state \in {"R3_UNMASKING", "PRNG_RUNNING", "COMPLETED"} =>
    LET S == {c \in Clients : maskedInput[c] # None} \ pendingInputs
    IN /\ S = With(ClientStatus \ DeadBefore)
       /\ Cardinality(S) = NumberOfIncludedInputs
       /\ NumberOfIncludedInputs >= MinimumClients

\* "If true, the value of NumberOfIncludedInputs will be fixed for the remainder
\* of the protocol" (secagg_server.h), except that it becomes 0 on an abort.
IncludedFixed ==
  [][IsNumberOfIncludedInputsCommitted =>
       NumberOfIncludedInputs' = NumberOfIncludedInputs \/ state' = "ABORTED"]_vars

\* "The protocol successfully completes and returns a sum if and only if no more
\* than floor(total_number_of_clients * threat_model.estimated_dropout_rate())
\* clients dropout" (secagg_server.h): a session that enough clients finish
\* never fails for want of shares.
ReconstructionSucceeds == completion # "error"

\* The tables have a row for every key that InitializePrng looks up, where a
\* missing one fails an FCP_CHECK, and rows of the two kinds exclude each other.
TablesCoverKeys ==
  state \in {"R3_UNMASKING", "PRNG_RUNNING"} =>
    /\ DOMAIN selfTable = With(ClientStatus \ DeadBefore)
    /\ DOMAIN pairwiseTable = abortedRound2
    /\ abortedRound2 = With({"DEAD_AFTER_SHARE_KEYS_RECEIVED"})
=============================================================================
