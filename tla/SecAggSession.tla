---------------------------- MODULE SecAggSession ----------------------------
(***************************************************************************)
(* A whole Secure Aggregation session: the server of SecAggServer and the  *)
(* clients of SecAggClient.  Each client has a connection that keeps the   *)
(* order of messages.  A client that crashes takes no more steps, and the  *)
(* server may call AbortClient for it, or proceed without it.              *)
(***************************************************************************)
EXTENDS SecAggServer

CONSTANTS
  Aborters,    \* the clients that may call Abort()
  Droppable,   \* the clients for which the server may call AbortClient
  MayAbort     \* may the server call Abort?

ASSUME SessionAssumption ==
  /\ Aborters \subseteq Clients /\ Droppable \subseteq Clients /\ MayAbort \in BOOLEAN
  /\ None \notin {"malformed", "requested", "too few"}

VARIABLES client, abortCall, toServer

clientVars == <<client, abortCall, toServer>>
sessionVars == <<vars, clientVars>>

\* The client's max_neighbors_expected is the degree of the server's graph.
C == INSTANCE SecAggClient WITH MaxNeighbors <- Graph.degree

SessionInit == Init /\ C!Init

ServerReceive(c) ==
  /\ toServer[c] # << >>
  /\ ReceiveMessage(c, Head(toServer[c]))
  /\ toServer' = [toServer EXCEPT ![c] = Tail(@)]
  /\ UNCHANGED <<client, abortCall>>

ClientReceive(c) ==
  /\ toClient[c] # << >>
  /\ C!ReceiveMessage(c, Head(toClient[c]))
  /\ toClient' = [toClient EXCEPT ![c] = Tail(@)]
  /\ UNCHANGED serverVars

ClientCall(c) ==
  /\ \/ C!Start(c)
     \/ C!SetInput(c)
     \/ c \in Aborters /\ C!AbortSignal(c)
     \/ C!AbortLocked(c)
  /\ UNCHANGED vars

ServerCall ==
  /\ \/ ProceedToNextRound
     \/ PrngRunnerFinished
     \/ AccumulateInputs
     \/ MayAbort /\ Abort
     \/ \E c \in Droppable, notify \in BOOLEAN : ServerAbortClient(c, notify)
  /\ UNCHANGED clientVars

SessionNext ==
  \/ \E c \in Clients : ServerReceive(c) \/ ClientReceive(c) \/ ClientCall(c)
  \/ ServerCall

SessionSpec == SessionInit /\ [][SessionNext]_sessionVars

\* Every client keeps its promises: it starts, sets its input, reads what it is
\* sent, and a call of Abort() returns.  The server's owner reads messages, calls
\* ProceedToNextRound when it may, and the thread pools run what they are given.
SessionFairness ==
  /\ \A c \in Clients :
       /\ WF_sessionVars(ServerReceive(c))
       /\ WF_sessionVars(ClientReceive(c))
       /\ WF_sessionVars(C!Start(c) /\ UNCHANGED vars)
       /\ WF_sessionVars(C!SetInput(c) /\ UNCHANGED vars)
       /\ WF_sessionVars(C!AbortLocked(c) /\ UNCHANGED vars)
  /\ WF_sessionVars(ProceedToNextRound /\ UNCHANGED clientVars)
  /\ WF_sessionVars(PrngRunnerFinished /\ UNCHANGED clientVars)
  /\ WF_sessionVars(AccumulateInputs /\ UNCHANGED clientVars)

FairSession == SessionSpec /\ SessionFairness

-----------------------------------------------------------------------------
(* Properties *)

Ended(c) == client[c].state \in C!Terminal

\* The sum is right: the server ends with the inputs of at least MinimumClients
\* clients and without a single mask, whoever aborted, was dropped or was late
\* in whichever round.  The masks the clients put on by the order of indices,
\* and the keys and signs the server finds through both its translations of
\* indices, cancel each other.
SumUnmasked ==
  result # None =>
    result.masks = {} /\ Cardinality(result.inputs) >= MinimumClients

\* A client that has completed, by its own last message or by an early success,
\* has its input in the sum, or else the session fails as a whole.
CompletedIncluded ==
  \A c \in Clients : client[c].state = "COMPLETED" =>
    maskedInput[c] # None /\ (result # None => c \in result.inputs)

\* Where everyone is everyone's neighbor, the server sends nothing that a client
\* takes for an error: no key missing or in the wrong place, no share that it
\* cannot decrypt, no index out of place, no request with too few neighbors
\* ("The server should not have sent this UnmaskingRequest").  A message reaches
\* a client in a state that expects it, or after its end.  The server drops no
\* client for what the client sent: a message it does not expect comes only from
\* clients it already counts as dead.
MessagesExpected ==
  \A c \in Clients :
    /\ client[c].reason \notin {"malformed", "too few"}
    /\ toClient[c] # << >> /\ ~Ended(c) =>
         Head(toClient[c]).type \in C!Expected(client[c].state)
    /\ toServer[c] # << >> /\ state \notin Terminal /\ ~IsClientDead(c) =>
         LET m == Head(toServer[c]) IN
         m.type = "abort" \/ /\ state \in Rounds
                             /\ status[c] = Awaited[state] /\ m.type = Answer[state]
                             /\ IsValid(c, m)

\* The session ends, and every client learns of it that was not silently dropped.
SessionEnds == <>(state \in Terminal /\ \A c \in Clients \ Droppable : Ended(c))
=============================================================================
