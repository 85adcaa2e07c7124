----------------------------- MODULE SecAggClient -----------------------------
(***************************************************************************)
(* The clients of a Secure Aggregation session: src/fcp/secagg/client,     *)
(* SecAggClient with its state classes.  A client knows its neighbors only *)
(* by their indices in the server's messages.                              *)
(*                                                                         *)
(* Every call holds mu_, so a handler is one step.  Abort() is two steps:  *)
(* it raises the signal of async_abort_ before it takes mu_, and a handler *)
(* that polls the signal aborts in its place.  A signal raised behind a    *)
(* handler's last poll is one raised after the handler.                    *)
(*                                                                         *)
(* An encrypted pair of key shares is [of |-> j, to |-> i, at |-> k]: the  *)
(* k-th shares of client j's keys, under the key that j and i agreed on.   *)
(* The classes R0/R1/R2 .. InputNotSet and InputSet differ in hasInput.    *)
(***************************************************************************)
EXTENDS Integers, Sequences, FiniteSets

CONSTANTS
  Clients,
  MaxNeighbors, \* max_neighbors_expected
  Threshold,    \* minimum_surviving_neighbors_for_reconstruction
  None

ASSUME ClientAssumption ==
  /\ MaxNeighbors \in Nat /\ Threshold \in Nat /\ Clients \subseteq Nat
  /\ None \notin Clients /\ None \notin {"malformed", "requested", "too few"}

VARIABLES
  client,    \* state_ of each client
  abortCall, \* the call of Abort(): none, signalled, returned
  toServer   \* the messages each client sent that are not yet received

vars == <<client, abortCall, toServer>>

Terminal == {"COMPLETED", "ABORTED"}

\* A client in state s that has yet to meet its neighbors.  The terminal states
\* keep nothing but the reason of an abort.
Fresh(s, reason) ==
  [state |-> s, hasInput |-> FALSE, own |-> None, keys |-> << >>,
   others |-> << >>, shares |-> << >>, reason |-> reason]

Init ==
  /\ client = [c \in Clients |-> Fresh("R0_ADVERTISE_KEYS", None)]
  /\ abortCall = [c \in Clients |-> "none"]
  /\ toServer = [c \in Clients |-> << >>]

Signalled(c) == abortCall[c] # "none"
Send(c, message) == toServer' = [toServer EXCEPT ![c] = Append(@, message)]
Become(c, r) == client' = [client EXCEPT ![c] = r]

AbortAndNotifyServer(c, reason) ==
  /\ Become(c, Fresh("ABORTED", reason))
  /\ Send(c, [type |-> "abort"])

-----------------------------------------------------------------------------
(* Calls *)

Start(c) ==
  /\ client[c].state = "R0_ADVERTISE_KEYS"
  /\ Become(c, [client[c] EXCEPT !.state = "R1_SHARE_KEYS"])
  /\ Send(c, [type |-> "advertise_keys", wellFormed |-> TRUE])
  /\ UNCHANGED abortCall

\* The neighbors whose state is s, this client included when it is kAlive.
Having(r, s) == {k \in DOMAIN r.others : r.others[k] = s}

\* Mutant: the pairwise masks are all added.
MapOfMasksAdded(c, r) ==
  {<<1, {c}>>} \cup {<<1, {c, r.keys[k]}>> : k \in Having(r, "kAlive") \ {r.own}}

\* The masks on the input: the self mask, and for each living neighbor the mask
\* shared with it, added when its index is below this client's own.
MapOfMasks(c, r) ==
  {<<1, {c}>>} \cup {<<IF k < r.own THEN 1 ELSE -1, {c, r.keys[k]}>> :
                       k \in Having(r, "kAlive") \ {r.own}}

\* Mutant: the client does not move on to round 3.
SendMaskedInputOnly(c, r) ==
  /\ Become(c, [r EXCEPT !.hasInput = TRUE])
  /\ Send(c, [type |-> "masked_input_response", wellFormed |-> TRUE,
              masks |-> MapOfMasks(c, r)])

\* SendMaskedInput and the move to round 3.
SendMaskedInput(c, r) ==
  /\ Become(c, [r EXCEPT !.state = "R3_UNMASKING", !.hasInput = TRUE])
  /\ Send(c, [type |-> "masked_input_response", wellFormed |-> TRUE,
              masks |-> MapOfMasks(c, r)])

SetInput(c) ==
  /\ client[c].state \notin Terminal /\ ~client[c].hasInput
  /\ IF client[c].state = "R2_WAITING_FOR_INPUT"
       THEN SendMaskedInput(c, client[c])
       ELSE /\ Become(c, [client[c] EXCEPT !.hasInput = TRUE])
            /\ UNCHANGED toServer
  /\ UNCHANGED abortCall

AbortSignal(c) ==
  /\ abortCall[c] = "none"
  /\ abortCall' = [abortCall EXCEPT ![c] = "signalled"]
  /\ UNCHANGED <<client, toServer>>

AbortLocked(c) ==
  /\ abortCall[c] = "signalled"
  /\ abortCall' = [abortCall EXCEPT ![c] = "returned"]
  /\ IF client[c].state \in Terminal THEN UNCHANGED <<client, toServer>>
     ELSE AbortAndNotifyServer(c, "requested")

-----------------------------------------------------------------------------
(* ReceiveMessage *)

\* An abort message is handled alike in all states but the terminal ones.
ReceiveAbort(c, m) ==
  /\ client[c].state \notin Terminal /\ m.type = "abort"
  /\ Become(c, IF m.earlySuccess THEN Fresh("COMPLETED", None)
               ELSE Fresh("ABORTED", "server"))
  /\ UNCHANGED toServer

\* HandleShareKeysRequest fails on a request that no correct server sends, on
\* a raised signal, and when too few neighbors remain.
ShareKeysError(c, m) ==
  LET living == {k \in DOMAIN m.keys : m.keys[k] # None} IN
  IF Cardinality(DOMAIN m.keys) \notin Threshold..MaxNeighbors THEN "malformed"
  ELSE IF Signalled(c) THEN "requested"
  ELSE IF Cardinality({k \in living : m.keys[k] = c}) > 1 THEN "malformed"
  ELSE IF Cardinality(living) < Threshold THEN "too few"
  ELSE IF \A k \in living : m.keys[k] # c THEN "malformed" ELSE None

\* EncryptAndSendResponse leaves blanks for dead neighbors and for itself.
ReceiveShareKeysRequest(c, m) ==
  /\ client[c].state = "R1_SHARE_KEYS" /\ m.type = "share_keys_request"
  /\ IF ShareKeysError(c, m) # None THEN AbortAndNotifyServer(c, ShareKeysError(c, m))
     ELSE /\ Become(c, [client[c] EXCEPT
               !.state = "R2_MASKED_INPUT",
               !.own = CHOOSE k \in DOMAIN m.keys : m.keys[k] = c,
               !.keys = m.keys,
               !.others = [k \in DOMAIN m.keys |->
                             IF m.keys[k] = None THEN "kDeadAtRound1" ELSE "kAlive"]])
          /\ Send(c, [type |-> "share_keys_response",
                      shares |-> [k \in DOMAIN m.keys |->
                        IF m.keys[k] \in {None, c} THEN None
                        ELSE [of |-> c, to |-> m.keys[k], at |-> k]]])

\* HandleMaskedInputCollectionRequest: neighbors whose shares are missing died
\* in round 1, as this client counts.
MarkDeadAtRound2(r, m) ==
  [r EXCEPT !.others = [k \in DOMAIN r.others |->
     IF k # r.own /\ r.others[k] = "kAlive" /\ m.shares[k] = None
       THEN "kDeadAtRound2" ELSE r.others[k]]]

MaskedInputError(c, m) ==
  LET r == client[c] IN
  IF DOMAIN m.shares # DOMAIN r.others THEN "malformed"
  ELSE IF Signalled(c) THEN "requested"
  ELSE IF \E k \in DOMAIN r.others \ {r.own} :
            m.shares[k] # None /\ (\/ r.others[k] # "kAlive"
                                   \/ m.shares[k].of # r.keys[k]
                                   \/ m.shares[k].to # c) THEN "malformed"
  ELSE IF Cardinality(Having(MarkDeadAtRound2(r, m), "kAlive")) < Threshold
         THEN "too few" ELSE None

\* The shares are decrypted and kept; the client's own comes from round 1.
StoreShares(c, m) ==
  [MarkDeadAtRound2(client[c], m) EXCEPT
     !.state = "R2_WAITING_FOR_INPUT",
     !.shares = [k \in DOMAIN m.shares |->
        IF k = client[c].own THEN [of |-> c, at |-> k]
        ELSE IF m.shares[k] = None THEN None
        ELSE [of |-> m.shares[k].of, at |-> m.shares[k].at]]]

ReceiveMaskedInputRequest(c, m) ==
  /\ client[c].state = "R2_MASKED_INPUT" /\ m.type = "masked_input_request"
  /\ IF MaskedInputError(c, m) # None
       THEN AbortAndNotifyServer(c, MaskedInputError(c, m))
     ELSE IF client[c].hasInput THEN SendMaskedInput(c, StoreShares(c, m))
     ELSE Become(c, StoreShares(c, m)) /\ UNCHANGED toServer

\* dead_3_client_ids are indices plus one.
DeadIndices(m) == {i - 1 : i \in m.dead}

\* Mutant: the survivors are not counted.
UnmaskingErrorUncounted(c, m) ==
  LET r == client[c] IN
  IF Signalled(c) THEN "requested"
  ELSE IF \E k \in DeadIndices(m) : \/ k = r.own \/ k \notin DOMAIN r.others
                                    \/ r.others[k] # "kAlive" THEN "malformed"
  ELSE None

UnmaskingError(c, m) ==
  LET r == client[c] IN
  IF Signalled(c) THEN "requested"
  ELSE IF \E k \in DeadIndices(m) : \/ k = r.own \/ k \notin DOMAIN r.others
                                    \/ r.others[k] # "kAlive" THEN "malformed"
  ELSE IF Cardinality(Having(r, "kAlive") \ DeadIndices(m)) < Threshold
         THEN "too few" ELSE None

\* The share of the self mask's key for a living neighbor, of the pairwise
\* key for one that died in round 3, none for the others.
ReceiveUnmaskingRequest(c, m) ==
  LET r == client[c]
      kind(k) == IF r.others[k] # "kAlive" THEN "none"
                 ELSE IF k \in DeadIndices(m) THEN "noise" ELSE "prf"
  IN
  /\ r.state = "R3_UNMASKING" /\ m.type = "unmasking_request"
  /\ IF UnmaskingError(c, m) # None THEN AbortAndNotifyServer(c, UnmaskingError(c, m))
     ELSE /\ Become(c, Fresh("COMPLETED", None))
          /\ Send(c, [type |-> "unmasking_response",
                      kinds |-> [k \in DOMAIN r.others |-> kind(k)],
                      shares |-> [k \in DOMAIN r.others |->
                                    IF kind(k) = "none" THEN None ELSE r.shares[k]]])

\* The messages a client does not expect change nothing (FAILED_PRECONDITION).
Expected(s) ==
  CASE s = "R1_SHARE_KEYS" -> {"abort", "share_keys_request"}
    [] s = "R2_MASKED_INPUT" -> {"abort", "masked_input_request"}
    [] s = "R3_UNMASKING" -> {"abort", "unmasking_request"}
    [] s \in {"R0_ADVERTISE_KEYS", "R2_WAITING_FOR_INPUT"} -> {"abort"}
    [] s \in Terminal -> {}

IgnoreMessage(c, m) ==
  /\ m.type \notin Expected(client[c].state)
  /\ UNCHANGED <<client, toServer>>

ReceiveMessage(c, m) ==
  /\ \/ ReceiveAbort(c, m)
     \/ ReceiveShareKeysRequest(c, m)
     \/ ReceiveMaskedInputRequest(c, m)
     \/ ReceiveUnmaskingRequest(c, m)
     \/ IgnoreMessage(c, m)
  /\ UNCHANGED abortCall

\* What a client does without a message from the server.
ClientStep(c) == Start(c) \/ SetInput(c) \/ AbortSignal(c) \/ AbortLocked(c)

-----------------------------------------------------------------------------
(* Properties of one client, whatever the server sends.  They read toServer as *)
(* the log of all that the client sent.                                        *)

Types(log) == [k \in DOMAIN log |-> log[k].type]
Protocol == <<"advertise_keys", "share_keys_response", "masked_input_response",
              "unmasking_response">>

TypeOK ==
  \A c \in Clients :
    /\ client[c].state \in Terminal \cup
         {"R0_ADVERTISE_KEYS", "R1_SHARE_KEYS", "R2_MASKED_INPUT",
          "R2_WAITING_FOR_INPUT", "R3_UNMASKING"}
    /\ client[c].hasInput \in BOOLEAN
    /\ client[c].own \in {None} \cup Having(client[c], "kAlive")
    /\ abortCall[c] \in {"none", "signalled", "returned"}

\* A client sends the four messages of the protocol in order, each at most once,
\* with at most an abort after them; and it never falls silent: a client that
\* ends on its own account has told the server, by an abort or by its last
\* message.  Only the server's own abort message is not answered.
SendsInOrder ==
  \A c \in Clients :
    LET types == Types(toServer[c])
        told == types # << >> /\ types[Len(types)] = "abort"
        answers == IF told THEN SubSeq(types, 1, Len(types) - 1) ELSE types
    IN /\ Len(answers) <= Len(Protocol) /\ answers = SubSeq(Protocol, 1, Len(answers))
       /\ told <=> (client[c].state = "ABORTED" /\ client[c].reason # "server")

\* Once Abort() has returned the client has ended, whether the handler that was
\* running took notice of the signal or not.
AbortTakesEffect ==
  \A c \in Clients : abortCall[c] = "returned" => client[c].state \in Terminal

\* A share for each key of the masks, and enough of them of self masks.
SharesFitMasks(c, masks, answer) ==
  LET given == {k \in DOMAIN answer.kinds : answer.kinds[k] # "none"}
  IN /\ {{answer.shares[k].of} \ {c} : k \in given} = {mask[2] \ {c} : mask \in masks}
     /\ Cardinality({k \in given : answer.kinds[k] = "prf"}) >= Threshold

\* A client keeps to the protocol, whatever the server sends and whenever it is
\* aborted, and its answer to the unmasking request fits the masked input sent
\* before it: a share is given for every neighbor whose mask is on the input and
\* for the client itself, for no other, and Threshold of them are of self masks.
AnswersConsistent ==
  /\ TypeOK /\ SendsInOrder /\ AbortTakesEffect
  /\ \A c \in Clients :
       Len(toServer[c]) = 4 /\ toServer[c][4].type = "unmasking_response" =>
         SharesFitMasks(c, toServer[c][3].masks, toServer[c][4])
=============================================================================
