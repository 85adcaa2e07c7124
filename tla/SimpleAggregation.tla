-------------------------- MODULE SimpleAggregation --------------------------
(***************************************************************************)
(* SimpleAggregationProtocol (src/fcp/aggregation/protocol): clients send  *)
(* one input each, the protocol adds it to every intrinsic's aggregator    *)
(* and, on Complete, reports the aggregate.                                *)
(*                                                                         *)
(* The host calls from many threads, one call at a time for one client.    *)
(* An action is a section of a call between two points where it holds no   *)
(* lock: ReceiveClientMessage has three, and the callbacks of Start,       *)
(* AddClients, Complete and Abort are made after state_mu_ is released.    *)
(***************************************************************************)
EXTENDS Integers, FiniteSets

CONSTANTS
  MaxClients,     \* bound on the clients accepted
  NumIntrinsics,  \* intrinsics_.size()
  None

ASSUME SizesAssumption == MaxClients \in Nat /\ NumIntrinsics \in Nat \ {0}

Clients == 0 .. MaxClients - 1
Intrinsics == 1 .. NumIntrinsics

Counted == {"RECEIVED", "COMPLETED", "FAILED", "ABORTED", "DISCARDED"}
ClientState == Counted \cup {"PENDING"}

ASSUME NoneAssumption == None \notin ClientState \cup [Intrinsics -> [Clients -> Nat]]

VARIABLES
  protocolState,  \* protocol_state_
  size,           \* client_states_.size()
  clientStates,   \* client_states_, None from index size on
  num,            \* the counters of client states
  finished,       \* aggregation_finished_
  sum,            \* per aggregator, how often each client's input was added
  consumed,       \* the aggregators whose output has been taken
  receiving,      \* per client, where its ReceiveClientMessage call is
  toAccept,       \* the ranges of clients whose OnAcceptClients callback is due
  accepted,       \* clients whose OnAcceptClients callback has been made
  toClose,        \* clients whose OnCloseClient Complete or Abort still owes
  closed,         \* per client, the number of OnCloseClient callbacks
  hostClosed,     \* clients the host has closed with CloseClient
  result,         \* what Complete will hand, or has handed, to OnComplete
  completed,      \* OnComplete has been called
  checkFailed     \* an FCP_CHECK of SetClientState has failed

stateVars == <<protocolState, size, clientStates, num, checkFailed>>
aggregatorVars == <<finished, sum, consumed>>
hostVars == <<toAccept, accepted, toClose, closed, hostClosed, result, completed>>
vars == <<stateVars, aggregatorVars, receiving, hostVars>>

Init ==
  /\ protocolState = "CREATED"
  /\ size = 0
  /\ clientStates = [c \in Clients |-> None]
  /\ num = [s \in Counted |-> 0]
  /\ finished = FALSE
  /\ sum = [i \in Intrinsics |-> [c \in Clients |-> 0]]
  /\ consumed = {}
  /\ receiving = [c \in Clients |-> "no"]
  /\ toAccept = {} /\ accepted = {}
  /\ toClose = {} /\ closed = [c \in Clients |-> 0]
  /\ hostClosed = {}
  /\ result = None /\ completed = FALSE
  /\ checkFailed = FALSE

-----------------------------------------------------------------------------
(* SetClientState, for one client or for the clients a loop goes over: "to" *)
(* maps each of them to its new state.                                      *)

Transition(from, to) ==
  /\ from # to /\ to # "PENDING"
  /\ \/ from \in {"PENDING", "RECEIVED"}
     \/ from = "COMPLETED" /\ to = "DISCARDED"

SetClientStates(to) ==
  /\ clientStates' = [c \in Clients |-> IF c \in DOMAIN to THEN to[c] ELSE clientStates[c]]
  /\ num' = [s \in Counted |->
               num[s] + Cardinality({c \in DOMAIN to : to[c] = s})
                      - Cardinality({c \in DOMAIN to : /\ clientStates[c] = s
                                                       /\ s \in {"RECEIVED", "COMPLETED"}})]
  /\ checkFailed' = (checkFailed \/ \E c \in DOMAIN to : ~Transition(clientStates[c], to[c]))

-----------------------------------------------------------------------------
(* Start and AddClients *)

Enlarge(n) ==
  /\ size + n <= MaxClients
  /\ size' = size + n
  /\ clientStates' = [c \in Clients |-> IF c \in size .. size + n - 1
                                          THEN "PENDING" ELSE clientStates[c]]
  /\ toAccept' = toAccept \cup ({size .. size + n - 1} \ {{}})
  /\ UNCHANGED <<num, checkFailed, aggregatorVars, receiving, accepted, toClose, closed,
                 hostClosed, result, completed>>

Start(n) ==
  /\ protocolState = "CREATED"
  /\ protocolState' = "STARTED"
  /\ Enlarge(n)

AddClients(n) ==
  /\ protocolState = "STARTED"
  /\ n > 0
  /\ UNCHANGED protocolState
  /\ Enlarge(n)

OnAcceptClients ==
  /\ \E range \in toAccept : /\ toAccept' = toAccept \ {range}
                             /\ accepted' = accepted \cup range
  /\ UNCHANGED <<stateVars, aggregatorVars, receiving, toClose, closed, hostClosed, result,
                 completed>>

-----------------------------------------------------------------------------
(* Calls for one client.  The host makes them once the client has been      *)
(* accepted, one at a time, and none after it has closed the client or has  *)
(* been told to.                                                            *)

HostMayCall(c) ==
  c \in accepted /\ receiving[c] = "no" /\ c \notin hostClosed /\ closed[c] = 0

\* First section of ReceiveClientMessage; any other client's message is ignored.
ReceiveClientMessage(c) ==
  /\ HostMayCall(c)
  /\ protocolState # "CREATED"
  /\ clientStates[c] = "PENDING"
  /\ SetClientStates([x \in {c} |-> "RECEIVED"])
  /\ receiving' = [receiving EXCEPT ![c] = "input"]
  /\ UNCHANGED <<protocolState, size, aggregatorVars, hostVars>>

\* The resource is missing, or the checkpoint cannot be parsed.
InputUnusable(c) ==
  /\ receiving[c] = "input"
  /\ receiving' = [receiving EXCEPT ![c] = "FAILED"]
  /\ UNCHANGED <<stateVars, aggregatorVars, hostVars>>

\* The aggregators that come before the first consumed one take the input.
Taking == {i \in Intrinsics : \A j \in 1 .. i : j \notin consumed}

AggregateClientInput(c) ==
  /\ receiving[c] = "input"
  /\ sum' = [i \in Intrinsics |-> IF ~finished /\ i \in Taking
                                    THEN [sum[i] EXCEPT ![c] = @ + 1] ELSE sum[i]]
  /\ receiving' = [receiving EXCEPT ![c] =
                     IF finished \/ Taking = Intrinsics THEN "COMPLETED" ELSE "DISCARDED"]
  /\ UNCHANGED <<stateVars, finished, consumed, hostVars>>

\* The third section of ReceiveClientMessage.
UpdateClient(c) ==
  /\ receiving[c] \in ClientState
  /\ IF clientStates[c] = "RECEIVED"
       THEN /\ SetClientStates([x \in {c} |-> receiving[c]])
            /\ closed' = [closed EXCEPT ![c] = @ + 1]
       ELSE UNCHANGED <<clientStates, num, checkFailed, closed>>
  /\ receiving' = [receiving EXCEPT ![c] = "no"]
  /\ UNCHANGED <<protocolState, size, aggregatorVars, toAccept, accepted, toClose, hostClosed,
                 result, completed>>

CloseClient(c, ok) ==
  /\ HostMayCall(c)
  /\ protocolState # "CREATED"
  /\ IF clientStates[c] = "PENDING"
       THEN SetClientStates([x \in {c} |-> IF ok THEN "DISCARDED" ELSE "FAILED"])
       ELSE UNCHANGED <<clientStates, num, checkFailed>>
  /\ hostClosed' = hostClosed \cup {c}
  /\ UNCHANGED <<protocolState, size, aggregatorVars, receiving, toAccept, accepted, toClose,
                 closed, result, completed>>

-----------------------------------------------------------------------------
(* Complete and Abort *)

\* CreateReport, up to the aggregator whose output cannot be added to the
\* checkpoint; the protocol stays started.
ReportFails(i) ==
  /\ consumed' = consumed \cup 1 .. i
  /\ UNCHANGED <<stateVars, finished, sum, receiving, hostVars>>

\* All outputs are in the checkpoint and it cannot be built.
BuildFails ==
  /\ consumed' = Intrinsics
  /\ finished' = TRUE
  /\ UNCHANGED <<stateVars, sum, receiving, hostVars>>

In(states) == {c \in Clients : clientStates[c] \in states}

Closing(states) ==
  [c \in In(states) |-> IF clientStates[c] = "PENDING" THEN "ABORTED" ELSE "DISCARDED"]

\* Mutant: an input that is being aggregated is left to its own call.
ReportSucceedsPendingOnly ==
  /\ result' = sum
  /\ consumed' = Intrinsics
  /\ finished' = TRUE
  /\ protocolState' = "COMPLETED"
  /\ SetClientStates(Closing({"PENDING"}))
  /\ toClose' = toClose \cup In({"PENDING"})
  /\ UNCHANGED <<size, sum, receiving, toAccept, accepted, closed, hostClosed, completed>>

ReportSucceeds ==
  /\ result' = sum
  /\ consumed' = Intrinsics
  /\ finished' = TRUE
  /\ protocolState' = "COMPLETED"
  /\ SetClientStates(Closing({"PENDING", "RECEIVED"}))
  /\ toClose' = toClose \cup In({"PENDING", "RECEIVED"})
  /\ UNCHANGED <<size, sum, receiving, toAccept, accepted, closed, hostClosed, completed>>

\* Once an aggregator is consumed CanReport() is false and nothing happens.
Complete ==
  /\ protocolState = "STARTED"
  /\ consumed = {}
  /\ \/ \E i \in Intrinsics : ReportFails(i)
     \/ BuildFails
     \/ ReportSucceeds

\* Mutant: the clients whose input is being aggregated are not told.
AbortForgetsReceived ==
  /\ protocolState = "STARTED"
  /\ finished' = TRUE
  /\ protocolState' = "ABORTED"
  /\ SetClientStates(Closing({"PENDING", "RECEIVED", "COMPLETED"}))
  /\ toClose' = toClose \cup In({"PENDING"})
  /\ UNCHANGED <<size, sum, consumed, receiving, toAccept, accepted, closed, hostClosed,
                 result, completed>>

Abort ==
  /\ protocolState = "STARTED"
  /\ finished' = TRUE
  /\ protocolState' = "ABORTED"
  /\ SetClientStates(Closing({"PENDING", "RECEIVED", "COMPLETED"}))
  /\ toClose' = toClose \cup In({"PENDING", "RECEIVED"})
  /\ UNCHANGED <<size, sum, consumed, receiving, toAccept, accepted, closed, hostClosed,
                 result, completed>>

\* The loops over client_ids_to_close.
OnCloseClient(c) ==
  /\ c \in toClose /\ \A d \in toClose : c <= d
  /\ toClose' = toClose \ {c}
  /\ closed' = [closed EXCEPT ![c] = @ + 1]
  /\ UNCHANGED <<stateVars, aggregatorVars, receiving, toAccept, accepted, hostClosed, result,
                 completed>>

OnComplete ==
  /\ result # None /\ ~completed /\ toClose = {}
  /\ completed' = TRUE
  /\ UNCHANGED <<stateVars, aggregatorVars, receiving, toAccept, accepted, toClose, closed,
                 hostClosed, result>>

-----------------------------------------------------------------------------
Receive(c) == InputUnusable(c) \/ AggregateClientInput(c) \/ UpdateClient(c)

Next ==
  \/ \E n \in 0 .. MaxClients : Start(n) \/ AddClients(n)
  \/ \E c \in Clients :
       \/ ReceiveClientMessage(c) \/ Receive(c) \/ OnCloseClient(c)
       \/ \E ok \in BOOLEAN : CloseClient(c, ok)
  \/ OnAcceptClients \/ Complete \/ Abort \/ OnComplete

Spec == Init /\ [][Next]_vars

\* A thread that is inside a call of the protocol finishes it; the host need
\* not make any call.
FairSpec ==
  /\ Spec
  /\ \A c \in Clients : WF_vars(Receive(c)) /\ WF_vars(OnCloseClient(c))
  /\ WF_vars(OnAcceptClients) /\ WF_vars(OnComplete)

-----------------------------------------------------------------------------
(* Properties *)

\* GetStatus subtracts in uint64_t; the difference must not wrap.
NumPending ==
  size - (num["RECEIVED"] + num["COMPLETED"] + num["DISCARDED"]) - num["FAILED"] - num["ABORTED"]

TypeOK ==
  /\ protocolState \in {"CREATED", "STARTED", "COMPLETED", "ABORTED"}
  /\ size \in 0 .. MaxClients
  /\ clientStates \in [Clients -> ClientState \cup {None}]
  /\ num \in [Counted -> Nat]
  /\ finished \in BOOLEAN /\ completed \in BOOLEAN /\ checkFailed \in BOOLEAN
  /\ sum \in [Intrinsics -> [Clients -> Nat]]
  /\ result \in [Intrinsics -> [Clients -> Nat]] \cup {None}
  /\ consumed \in SUBSET Intrinsics
  /\ receiving \in [Clients -> {"no", "input", "COMPLETED", "FAILED", "DISCARDED"}]
  /\ toAccept \in SUBSET SUBSET Clients /\ accepted \in SUBSET Clients
  /\ toClose \in SUBSET Clients /\ hostClosed \in SUBSET Clients
  /\ closed \in [Clients -> Nat]

\* Whatever calls overlap, the FCP_CHECKs of SetClientState hold, every counter
\* counts its clients and GetStatus reports the pending ones exactly.
BooksBalance ==
  /\ TypeOK
  /\ ~checkFailed
  /\ \A s \in Counted : num[s] = Cardinality(In({s}))
  /\ NumPending = Cardinality(In({"PENDING"}))

\* The result holds the input of every completed client once, in every
\* intrinsic.  It may also hold the input of a client whose call was between
\* aggregation and update when Complete ran, which is then counted as
\* discarded; of no other client.
ResultExact ==
  result # None =>
    \A i \in Intrinsics, c \in Clients :
      /\ result[i][c] = result[1][c] /\ result[i][c] <= 1
      /\ clientStates[c] = "COMPLETED" => result[i][c] = 1
      /\ result[i][c] = 1 => clientStates[c] \in {"COMPLETED", "DISCARDED"}

\* OnCloseClient is called at most once for a client, and for one that the host
\* has closed only if Complete or Abort had closed it first.  By the time of
\* OnComplete every client has been closed.
ClosedOnce ==
  /\ \A c \in Clients :
       /\ closed[c] + (IF c \in toClose THEN 1 ELSE 0) <= 1
       /\ c \in hostClosed /\ (closed[c] = 1 \/ c \in toClose)
            => protocolState \in {"COMPLETED", "ABORTED"}
  /\ completed => \A c \in 0 .. size - 1 : closed[c] = 1 \/ c \in hostClosed

\* A client whose input was received, or that Complete or Abort has given up,
\* is closed in the end, and a successful Complete delivers its result.
EveryClientClosed ==
  /\ \A c \in Clients : clientStates[c] \in Counted ~> closed[c] = 1 \/ c \in hostClosed
  /\ protocolState = "COMPLETED" ~> completed
=============================================================================
