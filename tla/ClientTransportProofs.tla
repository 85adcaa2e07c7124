------------------------ MODULE ClientTransportProofs ------------------------
(***************************************************************************)
(* Proofs about what a device says to its servers, for any constants: a    *)
(* SecAgg client keeps to the protocol whatever the server sends, and the  *)
(* callbacks of HttpClient come in order and never late.                   *)
(***************************************************************************)
EXTENDS SecAggClient, HttpRequests, SequenceTheorems, FiniteSetTheorems, TLAPS

-----------------------------------------------------------------------------
(* A SecAgg client with a server that may send any message at any time.    *)

KeyLists == UNION {[0..n - 1 -> Nat \cup {None}] : n \in Nat}
ShareLists == UNION {[0..n - 1 -> [of : Nat, to : Nat, at : Nat] \cup {None}] : n \in Nat}
AnyMessage ==
  [type : {"abort"}, earlySuccess : BOOLEAN]
  \cup [type : {"share_keys_request"}, keys : KeyLists]
  \cup [type : {"masked_input_request"}, shares : ShareLists]
  \cup [type : {"unmasking_request"}, dead : SUBSET Nat]

ClientNext == \E c \in Clients : ClientStep(c) \/ \E m \in AnyMessage : ReceiveMessage(c, m)
ClientSpec == Init /\ [][ClientNext]_vars

\* The first n messages of the protocol were sent, and after them an abort.
HasSent(log, n) ==
  (\E S : log \in Seq(S)) /\ Len(log) = n /\ \A k \in 1..n : log[k].type = Protocol[k]
HasTold(log, n) ==
  /\ (\E S : log \in Seq(S)) /\ Len(log) = n + 1
  /\ log[n + 1].type = "abort" /\ \A k \in 1..n : log[k].type = Protocol[k]

\* What a client knows of its neighbors after rounds 1 and 2.
HasMet(r) == IsFiniteSet(DOMAIN r.others) /\ r.own \in Having(r, "kAlive")
HasShares(c, r) ==
  \A k \in Having(r, "kAlive") : r.shares[k].of = IF k = r.own THEN c ELSE r.keys[k]

\* The state of a client says what it has sent and what it knows.
InProtocol(c, r, log) ==
  \/ r.state = "R0_ADVERTISE_KEYS" /\ r.own = None /\ HasSent(log, 0)
  \/ r.state = "R1_SHARE_KEYS" /\ r.own = None /\ HasSent(log, 1)
  \/ r.state = "R2_MASKED_INPUT" /\ HasMet(r) /\ HasSent(log, 2)
  \/ r.state = "R2_WAITING_FOR_INPUT" /\ HasMet(r) /\ HasShares(c, r) /\ HasSent(log, 2)
  \/ /\ r.state = "R3_UNMASKING" /\ HasMet(r) /\ HasShares(c, r) /\ HasSent(log, 3)
     /\ log[3].masks = MapOfMasks(c, r)
AnswersFit(c, log) == HasSent(log, 4) /\ SharesFitMasks(c, log[3].masks, log[4])
HasEnded(c, r, log) ==
  /\ r.own = None
  /\ \/ r.state = "COMPLETED" /\ \/ \E n \in 0..3 : HasSent(log, n)
                                 \/ AnswersFit(c, log)
     \/ r.state = "ABORTED" /\ r.reason = "server" /\ \E n \in 0..3 : HasSent(log, n)
     \/ r.state = "ABORTED" /\ r.reason # "server" /\ \E n \in 0..3 : HasTold(log, n)

RecordFields == {"state", "hasInput", "own", "keys", "others", "shares", "reason"}
ClientFits(c, r, log, call) ==
  /\ DOMAIN r = RecordFields /\ r.hasInput \in BOOLEAN
  /\ call \in {"none", "signalled", "returned"} /\ (call = "returned" => r.state \in Terminal)
  /\ InProtocol(c, r, log) \/ HasEnded(c, r, log)

ClientInv ==
  /\ client = [c \in Clients |-> client[c]] /\ toServer = [c \in Clients |-> toServer[c]]
  /\ abortCall = [c \in Clients |-> abortCall[c]]
  /\ \A c \in Clients : ClientFits(c, client[c], toServer[c], abortCall[c])

\* One more message.
LEMMA OneMore ==
  ASSUME NEW log, NEW n \in 0..3, HasSent(log, n), NEW m
  PROVE  /\ m.type = Protocol[n + 1] => HasSent(Append(log, m), n + 1)
         /\ m.type = "abort" => HasTold(Append(log, m), n)
         /\ Append(log, m)[n + 1] = m
         /\ \A k \in 1..n : Append(log, m)[k] = log[k]
<1>1. PICK S : log \in Seq(S)
  BY DEF HasSent
<1>2. log \in Seq(S \cup {m}) /\ m \in S \cup {m}
  BY <1>1
<1>3. /\ Append(log, m) \in Seq(S \cup {m}) /\ Len(Append(log, m)) = n + 1
      /\ Append(log, m)[n + 1] = m /\ \A k \in 1..n : Append(log, m)[k] = log[k]
  BY <1>2, AppendProperties DEF HasSent
<1>4. \E R : Append(log, m) \in Seq(R)
  BY <1>3, ZenonT(60)
<1>5. \A k \in 1..n + 1 : k \in 1..n \/ k = n + 1
  OBVIOUS
<1>6. m.type = Protocol[n + 1] => HasSent(Append(log, m), n + 1)
  BY <1>3, <1>4, <1>5 DEF HasSent
<1>7. m.type = "abort" => HasTold(Append(log, m), n)
  BY <1>3, <1>4, <1>5 DEF HasSent, HasTold
<1> QED
  BY <1>3, <1>6, <1>7

\* A step of one client keeps the invariant if it does for that client.
LEMMA ClientKept ==
  ASSUME ClientInv, NEW c \in Clients, NEW r, NEW log, NEW call,
         client' = [client EXCEPT ![c] = r], toServer' = [toServer EXCEPT ![c] = log],
         abortCall' = [abortCall EXCEPT ![c] = call], ClientFits(c, r, log, call)
  PROVE  ClientInv'
<1>1. /\ client'[c] = r /\ toServer'[c] = log /\ abortCall'[c] = call
      /\ client' = [d \in Clients |-> client'[d]] /\ toServer' = [d \in Clients |-> toServer'[d]]
      /\ abortCall' = [d \in Clients |-> abortCall'[d]]
      /\ \A d \in Clients : d # c => /\ client'[d] = client[d] /\ toServer'[d] = toServer[d]
                                     /\ abortCall'[d] = abortCall[d]
  BY ZenonT(60) DEF ClientInv
<1>2. \A d \in Clients : ClientFits(d, client'[d], toServer'[d], abortCall'[d])
  BY <1>1, ZenonT(60) DEF ClientInv
<1>3. \A d \in Clients : ClientFits(d, client[d], toServer[d], abortCall[d])'
  <2> TAKE d \in Clients
  <2>1. ClientFits(d, client'[d], toServer'[d], abortCall'[d])
    BY <1>2
  <2> QED
    BY <2>1, ZenonT(60)
    DEF ClientFits, InProtocol, HasEnded, HasMet, HasShares, HasSent, HasTold, AnswersFit
<1> QED
  BY <1>1, <1>3 DEF ClientInv

\* The record of a client that is not changed.
LEMMA SameClient ==
  ASSUME ClientInv, NEW c \in Clients
  PROVE  /\ client = [client EXCEPT ![c] = client[c]] /\ toServer = [toServer EXCEPT ![c] = toServer[c]]
         /\ abortCall = [abortCall EXCEPT ![c] = abortCall[c]]
         /\ ClientFits(c, client[c], toServer[c], abortCall[c])
  BY ZenonT(60) DEF ClientInv

\* A client that has not ended has sent at most three messages.
LEMMA NotEnded ==
  ASSUME NEW c, NEW r, NEW log, NEW call, ClientFits(c, r, log, call), r.state \notin Terminal
  PROVE  InProtocol(c, r, log) /\ \E n \in 0..3 : HasSent(log, n)
<1>1. InProtocol(c, r, log)
  BY DEF ClientFits, HasEnded, Terminal
<1> QED
  BY <1>1 DEF InProtocol

\* What ends without a message keeps nothing.
LEMMA FreshFits ==
  ASSUME NEW c, NEW log, NEW call \in {"none", "signalled", "returned"}, NEW s \in Terminal, NEW reason,
         \/ s = "COMPLETED" /\ ((\E n \in 0..3 : HasSent(log, n)) \/ AnswersFit(c, log))
         \/ s = "ABORTED" /\ reason = "server" /\ \E n \in 0..3 : HasSent(log, n)
         \/ s = "ABORTED" /\ reason # "server" /\ \E n \in 0..3 : HasTold(log, n)
  PROVE  ClientFits(c, Fresh(s, reason), log, call)
<1> DEFINE r == Fresh(s, reason)
<1>1. DOMAIN r = RecordFields /\ r.hasInput \in BOOLEAN
  BY DEF Fresh, RecordFields
<1>2. r.state = s /\ r.own = None /\ r.reason = reason
  BY DEF Fresh
<1> HIDE DEF r
<1>3. HasEnded(c, r, log)
  BY <1>2, ZenonT(60) DEF HasEnded
<1>4. ClientFits(c, r, log, call)
  BY <1>1, <1>2, <1>3 DEF ClientFits
<1> QED
  BY <1>4 DEF r

\* A client that aborts on its own account says so.
LEMMA AbortAndNotifyRight ==
  ASSUME ClientInv, NEW c \in Clients, NEW reason, reason # "server", AbortAndNotifyServer(c, reason),
         client[c].state \notin Terminal, NEW call \in {"none", "signalled", "returned"},
         abortCall' = [abortCall EXCEPT ![c] = call]
  PROVE  ClientInv'
<1> DEFINE log == Append(toServer[c], [type |-> "abort"])
<1>1. client' = [client EXCEPT ![c] = Fresh("ABORTED", reason)] /\ toServer' = [toServer EXCEPT ![c] = log]
  BY DEF AbortAndNotifyServer, Become, Send
<1>2. PICK n \in 0..3 : HasSent(toServer[c], n)
  BY SameClient, NotEnded
<1>3. HasTold(log, n)
  BY <1>2, OneMore
<1>4. ClientFits(c, Fresh("ABORTED", reason), log, call)
  BY <1>3, FreshFits DEF Terminal
<1> HIDE DEF log
<1> QED
  BY <1>1, <1>4, ClientKept, ZenonT(60)

\* Start() sends the first message.
LEMMA StartsRight ==
  ASSUME ClientInv, NEW c \in Clients, Start(c)
  PROVE  ClientInv'
<1> DEFINE m == [type |-> "advertise_keys", wellFormed |-> TRUE]
           log == Append(toServer[c], m)
           r == [client[c] EXCEPT !.state = "R1_SHARE_KEYS"]
<1>1. /\ client' = [client EXCEPT ![c] = r] /\ toServer' = [toServer EXCEPT ![c] = log]
      /\ abortCall' = abortCall /\ client[c].state = "R0_ADVERTISE_KEYS"
  BY DEF Start, Become, Send
<1>2. ClientFits(c, client[c], toServer[c], abortCall[c])
  BY SameClient
<1>3. HasSent(toServer[c], 0) /\ client[c].own = None
  BY <1>1, <1>2, NotEnded DEF InProtocol, Terminal
<1>4. HasSent(log, 1)
  <2>1. m.type = Protocol[0 + 1]
    BY DEF Protocol
  <2> HIDE DEF m
  <2> QED
    BY <1>3, <2>1, OneMore
<1>5. DOMAIN r = RecordFields /\ r.state = "R1_SHARE_KEYS" /\ r.own = None /\ r.hasInput \in BOOLEAN
  BY <1>2, <1>3 DEF ClientFits, RecordFields
<1>6. abortCall[c] \in {"none", "signalled"}
  BY <1>1, <1>2 DEF ClientFits, Terminal
<1> HIDE DEF r, log
<1>7. ClientFits(c, r, log, abortCall[c])
  BY <1>4, <1>5, <1>6 DEF ClientFits, InProtocol
<1> QED
  BY <1>1, <1>7, SameClient, ClientKept, ZenonT(60)

\* The masked input goes out once the client has met its neighbors.
LEMMA SendMaskedInputRight ==
  ASSUME ClientInv, NEW c \in Clients, NEW r, DOMAIN r = RecordFields, HasMet(r), HasShares(c, r),
         HasSent(toServer[c], 2), client[c].state \notin Terminal, SendMaskedInput(c, r), UNCHANGED abortCall
  PROVE  ClientInv'
<1> DEFINE m == [type |-> "masked_input_response", wellFormed |-> TRUE, masks |-> MapOfMasks(c, r)]
           log == Append(toServer[c], m)
           q == [r EXCEPT !.state = "R3_UNMASKING", !.hasInput = TRUE]
<1>1. client' = [client EXCEPT ![c] = q] /\ toServer' = [toServer EXCEPT ![c] = log]
  BY DEF SendMaskedInput, Become, Send
<1>2. ClientFits(c, client[c], toServer[c], abortCall[c])
  BY SameClient
<1>3. HasSent(log, 3) /\ log[3] = m
  <2>1. m.type = Protocol[2 + 1]
    BY DEF Protocol
  <2> HIDE DEF m
  <2> QED
    BY <2>1, OneMore, SMTT(60)
<1>4. /\ DOMAIN q = RecordFields /\ q.state = "R3_UNMASKING" /\ q.own = r.own /\ q.hasInput = TRUE
      /\ q.others = r.others /\ q.keys = r.keys /\ q.shares = r.shares
  BY DEF RecordFields
<1>5. abortCall[c] \in {"none", "signalled"}
  BY <1>2 DEF ClientFits, Terminal
<1>6. m.masks = MapOfMasks(c, r)
  OBVIOUS
<1> HIDE DEF q, m, log
<1>7. HasMet(q) /\ HasShares(c, q) /\ MapOfMasks(c, q) = MapOfMasks(c, r)
  BY <1>4 DEF HasMet, HasShares, MapOfMasks, Having
<1>8. ClientFits(c, q, log, abortCall[c])
  BY <1>3, <1>4, <1>5, <1>6, <1>7, ZenonT(60) DEF ClientFits, InProtocol
<1> QED
  BY <1>1, <1>8, SameClient, ClientKept, ZenonT(60)

\* SetInput() sends the masked input, or keeps the input until round 2.
LEMMA SetInputRight ==
  ASSUME ClientInv, NEW c \in Clients, SetInput(c)
  PROVE  ClientInv'
<1>1. ClientFits(c, client[c], toServer[c], abortCall[c]) /\ client[c].state \notin Terminal
      /\ abortCall' = abortCall
  BY SameClient DEF SetInput
<1>2. CASE client[c].state = "R2_WAITING_FOR_INPUT"
  <2>1. SendMaskedInput(c, client[c])
    BY <1>2 DEF SetInput
  <2>2. HasMet(client[c]) /\ HasShares(c, client[c]) /\ HasSent(toServer[c], 2)
    BY <1>1, <1>2, NotEnded DEF InProtocol
  <2> QED
    BY <1>1, <2>1, <2>2, SendMaskedInputRight DEF ClientFits
<1>3. CASE client[c].state # "R2_WAITING_FOR_INPUT"
  <2> DEFINE r == [client[c] EXCEPT !.hasInput = TRUE]
  <2>1. client' = [client EXCEPT ![c] = r] /\ toServer' = toServer
    BY <1>3 DEF SetInput, Become
  <2>2. /\ DOMAIN r = RecordFields /\ r.hasInput = TRUE /\ r.state = client[c].state
        /\ r.own = client[c].own /\ r.keys = client[c].keys /\ r.others = client[c].others
        /\ r.shares = client[c].shares
    BY <1>1 DEF ClientFits, RecordFields
  <2> HIDE DEF r
  <2>3. InProtocol(c, r, toServer[c])
    <3>1. /\ HasMet(client[c]) => HasMet(r)
          /\ HasShares(c, client[c]) => HasShares(c, r)
          /\ MapOfMasks(c, r) = MapOfMasks(c, client[c])
      BY <2>2 DEF HasMet, HasShares, MapOfMasks, Having
    <3> QED
      BY <1>1, <2>2, <3>1, NotEnded DEF InProtocol
  <2>4. ClientFits(c, r, toServer[c], abortCall[c])
    BY <1>1, <2>2, <2>3, ZenonT(60) DEF ClientFits
  <2>5. /\ toServer' = [toServer EXCEPT ![c] = toServer[c]]
        /\ abortCall' = [abortCall EXCEPT ![c] = abortCall[c]]
    BY <1>1, <2>1, SameClient
  <2> QED
    BY <2>1, <2>4, <2>5, ClientKept, ZenonT(60)
<1> QED
  BY <1>2, <1>3

\* Abort() raises its signal, and ends the client once it has the mutex.
LEMMA AbortsRight ==
  ASSUME ClientInv, NEW c \in Clients, AbortSignal(c) \/ AbortLocked(c)
  PROVE  ClientInv'
<1>1. ClientFits(c, client[c], toServer[c], abortCall[c])
  BY SameClient
<1>2. CASE AbortSignal(c)
  <2>1. abortCall' = [abortCall EXCEPT ![c] = "signalled"] /\ client' = client /\ toServer' = toServer
    BY <1>2 DEF AbortSignal
  <2>2. ClientFits(c, client[c], toServer[c], "signalled")
    BY <1>1 DEF ClientFits
  <2> QED
    BY <2>1, <2>2, SameClient, ClientKept, ZenonT(60)
<1>3. CASE AbortLocked(c)
  <2>1. abortCall' = [abortCall EXCEPT ![c] = "returned"]
    BY <1>3 DEF AbortLocked
  <2>2. CASE client[c].state \in Terminal
    <3>1. client' = client /\ toServer' = toServer
      BY <1>3, <2>2 DEF AbortLocked
    <3>2. ClientFits(c, client[c], toServer[c], "returned")
      BY <1>1, <2>2 DEF ClientFits
    <3> QED
      BY <2>1, <3>1, <3>2, SameClient, ClientKept, ZenonT(60)
  <2>3. CASE client[c].state \notin Terminal
    <3>1. AbortAndNotifyServer(c, "requested")
      BY <1>3, <2>3 DEF AbortLocked
    <3> QED
      BY <2>1, <2>3, <3>1, AbortAndNotifyRight, ZenonT(60)
  <2> QED
    BY <2>2, <2>3
<1> QED
  BY <1>2, <1>3

\* The server's own abort is not answered.
LEMMA ReceiveAbortRight ==
  ASSUME ClientInv, NEW c \in Clients, NEW m, ReceiveAbort(c, m), UNCHANGED abortCall
  PROVE  ClientInv'
<1> DEFINE r == IF m.earlySuccess THEN Fresh("COMPLETED", None) ELSE Fresh("ABORTED", "server")
<1>1. client[c].state \notin Terminal /\ client' = [client EXCEPT ![c] = r] /\ toServer' = toServer
  BY DEF ReceiveAbort, Become
<1>2. ClientFits(c, client[c], toServer[c], abortCall[c])
  BY SameClient
<1>3. \E n \in 0..3 : HasSent(toServer[c], n)
  BY <1>1, <1>2, NotEnded
<1>4. abortCall[c] \in {"none", "signalled", "returned"}
  BY <1>2 DEF ClientFits
<1>5. ClientFits(c, Fresh("COMPLETED", None), toServer[c], abortCall[c])
  BY <1>3, <1>4, FreshFits, ZenonT(60) DEF Terminal
<1>6. ClientFits(c, Fresh("ABORTED", "server"), toServer[c], abortCall[c])
  BY <1>3, <1>4, FreshFits, ZenonT(60) DEF Terminal
<1>7. ClientFits(c, r, toServer[c], abortCall[c])
  BY <1>5, <1>6
<1>8. /\ toServer' = [toServer EXCEPT ![c] = toServer[c]]
      /\ abortCall' = [abortCall EXCEPT ![c] = abortCall[c]]
  BY <1>1, SameClient
<1> HIDE DEF r
<1> QED
  BY <1>1, <1>7, <1>8, ClientKept, ZenonT(60)

\* The lists of a message are finite.
LEMMA ListsFinite ==
  ASSUME NEW list \in KeyLists \cup ShareLists
  PROVE  IsFiniteSet(DOMAIN list)
<1>1. PICK n \in Nat : DOMAIN list = 0..n - 1
  BY DEF KeyLists, ShareLists
<1> QED
  BY <1>1, FS_Interval

\* Round 1: the client finds its own place among its neighbors.
LEMMA ReceiveShareKeysRight ==
  ASSUME ClientInv, NEW c \in Clients, NEW m \in AnyMessage, ReceiveShareKeysRequest(c, m), UNCHANGED abortCall
  PROVE  ClientInv'
<1>1. client[c].state = "R1_SHARE_KEYS" /\ m.type = "share_keys_request"
  BY DEF ReceiveShareKeysRequest
<1>2. ClientFits(c, client[c], toServer[c], abortCall[c])
  BY SameClient
<1>3. abortCall[c] \in {"none", "signalled"}
  BY <1>1, <1>2 DEF ClientFits, Terminal
<1>4. CASE ShareKeysError(c, m) # None
  <2>1. AbortAndNotifyServer(c, ShareKeysError(c, m))
    BY <1>4 DEF ReceiveShareKeysRequest
  <2>2. ShareKeysError(c, m) # "server"
    BY <1>4, ZenonT(60) DEF ShareKeysError
  <2> QED
    BY <1>1, <1>3, <2>1, <2>2, SameClient, AbortAndNotifyRight DEF Terminal
<1>5. CASE ShareKeysError(c, m) = None
  <2> DEFINE own == CHOOSE k \in DOMAIN m.keys : m.keys[k] = c
             others == [k \in DOMAIN m.keys |-> IF m.keys[k] = None THEN "kDeadAtRound1" ELSE "kAlive"]
             r == [client[c] EXCEPT !.state = "R2_MASKED_INPUT", !.own = own, !.keys = m.keys,
                                    !.others = others]
             a == [type |-> "share_keys_response",
                   shares |-> [k \in DOMAIN m.keys |->
                     IF m.keys[k] \in {None, c} THEN None ELSE [of |-> c, to |-> m.keys[k], at |-> k]]]
             log == Append(toServer[c], a)
  <2>1. client' = [client EXCEPT ![c] = r] /\ toServer' = [toServer EXCEPT ![c] = log]
    BY <1>5 DEF ReceiveShareKeysRequest, Become, Send
  <2>2. \E k \in DOMAIN m.keys : m.keys[k] = c
    BY <1>5, ClientAssumption, ZenonT(60) DEF ShareKeysError
  <2>3. own \in DOMAIN m.keys /\ m.keys[own] = c
    BY <2>2
  <2>4. c # None
    BY ClientAssumption, ZenonT(60)
  <2>5. DOMAIN others = DOMAIN m.keys /\ others[own] = "kAlive"
    BY <2>3, <2>4
  <2>6. IsFiniteSet(DOMAIN m.keys)
    BY <1>1, ListsFinite DEF AnyMessage
  <2>7. HasSent(toServer[c], 1)
    BY <1>1, <1>2, NotEnded DEF InProtocol, Terminal
  <2>8. HasSent(log, 2)
    <3>1. a.type = Protocol[1 + 1]
      BY DEF Protocol
    <3> HIDE DEF a
    <3> QED
      BY <2>7, <3>1, OneMore
  <2> HIDE DEF own, others, a
  <2>9. /\ DOMAIN r = RecordFields /\ r.state = "R2_MASKED_INPUT" /\ r.own = own /\ r.others = others
        /\ r.hasInput \in BOOLEAN
    BY <1>2 DEF ClientFits, RecordFields
  <2> HIDE DEF r, log
  <2>10. HasMet(r)
    BY <2>3, <2>5, <2>6, <2>9 DEF HasMet, Having
  <2>11. ClientFits(c, r, log, abortCall[c])
    BY <1>3, <2>8, <2>9, <2>10 DEF ClientFits, InProtocol
  <2> QED
    BY <2>1, <2>11, SameClient, ClientKept, ZenonT(60)
<1> QED
  BY <1>4, <1>5

\* Round 2: the shares of the living neighbors are theirs.
LEMMA ReceiveMaskedInputRight ==
  ASSUME ClientInv, NEW c \in Clients, NEW m \in AnyMessage, ReceiveMaskedInputRequest(c, m), UNCHANGED abortCall
  PROVE  ClientInv'
<1>1. client[c].state = "R2_MASKED_INPUT" /\ m.type = "masked_input_request"
  BY DEF ReceiveMaskedInputRequest
<1>2. ClientFits(c, client[c], toServer[c], abortCall[c])
  BY SameClient
<1>3. abortCall[c] \in {"none", "signalled"} /\ client[c].state \notin Terminal
  BY <1>1, <1>2 DEF ClientFits, Terminal
<1>4. CASE MaskedInputError(c, m) # None
  <2>1. AbortAndNotifyServer(c, MaskedInputError(c, m))
    BY <1>4 DEF ReceiveMaskedInputRequest
  <2>2. MaskedInputError(c, m) # "server"
    BY <1>4, ZenonT(60) DEF MaskedInputError
  <2> QED
    BY <1>3, <2>1, <2>2, SameClient, AbortAndNotifyRight
<1>5. CASE MaskedInputError(c, m) = None
  <2> DEFINE r == client[c]
             others == [k \in DOMAIN r.others |->
                          IF k # r.own /\ r.others[k] = "kAlive" /\ m.shares[k] = None
                          THEN "kDeadAtRound2" ELSE r.others[k]]
             shares == [k \in DOMAIN m.shares |->
                          IF k = r.own THEN [of |-> c, at |-> k]
                          ELSE IF m.shares[k] = None THEN None
                          ELSE [of |-> m.shares[k].of, at |-> m.shares[k].at]]
             q == StoreShares(c, m)
  <2>1. q = [[r EXCEPT !.others = others] EXCEPT !.state = "R2_WAITING_FOR_INPUT", !.shares = shares]
    BY DEF StoreShares, MarkDeadAtRound2
  <2>2. HasMet(r) /\ HasSent(toServer[c], 2) /\ DOMAIN r = RecordFields /\ r.hasInput \in BOOLEAN
    BY <1>1, <1>2, <1>3, NotEnded DEF InProtocol, ClientFits
  <2>3. /\ DOMAIN m.shares = DOMAIN r.others
        /\ \A k \in DOMAIN r.others \ {r.own} : m.shares[k] # None => m.shares[k].of = r.keys[k]
    BY <1>5, ClientAssumption, ZenonT(60) DEF MaskedInputError
  <2>4. /\ DOMAIN q = RecordFields /\ q.own = r.own /\ q.keys = r.keys /\ q.others = others
        /\ q.shares = shares /\ q.hasInput = r.hasInput /\ q.state = "R2_WAITING_FOR_INPUT"
    <3> HIDE DEF others, shares, q, r
    <3> QED
      BY <2>1, <2>2 DEF RecordFields
  <2>5. DOMAIN others = DOMAIN r.others /\ others[r.own] = "kAlive" /\ r.own \in DOMAIN r.others
    BY <2>2 DEF HasMet, Having
  <2>6. HasMet(q)
    BY <2>2, <2>4, <2>5 DEF HasMet, Having
  <2>7. HasShares(c, q)
    <3>1. ASSUME NEW k \in DOMAIN r.others, others[k] = "kAlive"
          PROVE  shares[k].of = IF k = r.own THEN c ELSE r.keys[k]
      <4>1. CASE k = r.own
        BY <2>3, <4>1
      <4>2. CASE k # r.own
        <5>1. m.shares[k] # None
          BY <3>1, <4>2
        <5>2. shares[k] = [of |-> m.shares[k].of, at |-> m.shares[k].at]
          BY <2>3, <4>2, <5>1
        <5> QED
          BY <2>3, <4>2, <5>1, <5>2
      <4> QED
        BY <4>1, <4>2
    <3> HIDE DEF others, shares, q
    <3> QED
      BY <2>4, <2>5, <3>1 DEF HasShares, Having
  <2> HIDE DEF q
  <2>8. CASE client[c].hasInput
    <3>1. SendMaskedInput(c, q)
      BY <1>5, <2>8 DEF ReceiveMaskedInputRequest, q
    <3> QED
      BY <1>3, <2>2, <2>4, <2>6, <2>7, <3>1, SendMaskedInputRight
  <2>9. CASE ~client[c].hasInput
    <3>1. client' = [client EXCEPT ![c] = q] /\ toServer' = toServer
      BY <1>5, <2>9 DEF ReceiveMaskedInputRequest, Become, q
    <3>2. ClientFits(c, q, toServer[c], abortCall[c])
      BY <1>3, <2>2, <2>4, <2>6, <2>7 DEF ClientFits, InProtocol
    <3>3. /\ toServer' = [toServer EXCEPT ![c] = toServer[c]]
          /\ abortCall' = [abortCall EXCEPT ![c] = abortCall[c]]
      BY <3>1, SameClient
    <3> QED
      BY <3>1, <3>2, <3>3, ClientKept, ZenonT(60)
  <2> QED
    BY <2>8, <2>9
<1> QED
  BY <1>4, <1>5

\* Round 3: the shares given are those of the masks on the input.
LEMMA ReceiveUnmaskingRight ==
  ASSUME ClientInv, NEW c \in Clients, NEW m \in AnyMessage, ReceiveUnmaskingRequest(c, m), UNCHANGED abortCall
  PROVE  ClientInv'
<1>1. client[c].state = "R3_UNMASKING" /\ m.type = "unmasking_request"
  BY DEF ReceiveUnmaskingRequest
<1>2. ClientFits(c, client[c], toServer[c], abortCall[c])
  BY SameClient
<1>3. abortCall[c] \in {"none", "signalled"} /\ client[c].state \notin Terminal
  BY <1>1, <1>2 DEF ClientFits, Terminal
<1>4. CASE UnmaskingError(c, m) # None
  <2>1. AbortAndNotifyServer(c, UnmaskingError(c, m))
    BY <1>4 DEF ReceiveUnmaskingRequest
  <2>2. UnmaskingError(c, m) # "server"
    BY <1>4, ZenonT(60) DEF UnmaskingError
  <2> QED
    BY <1>3, <2>1, <2>2, SameClient, AbortAndNotifyRight
<1>5. CASE UnmaskingError(c, m) = None
  <2> DEFINE r == client[c]
             kind(k) == IF r.others[k] # "kAlive" THEN "none"
                        ELSE IF k \in DeadIndices(m) THEN "noise" ELSE "prf"
             kinds == [k \in DOMAIN r.others |-> kind(k)]
             shares == [k \in DOMAIN r.others |-> IF kind(k) = "none" THEN None ELSE r.shares[k]]
             a == [type |-> "unmasking_response", kinds |-> kinds, shares |-> shares]
             log == Append(toServer[c], a)
             given == {k \in DOMAIN kinds : kinds[k] # "none"}
  <2>1. client' = [client EXCEPT ![c] = Fresh("COMPLETED", None)] /\ toServer' = [toServer EXCEPT ![c] = log]
    BY <1>5 DEF ReceiveUnmaskingRequest, Become, Send
  <2>2. /\ HasMet(r) /\ HasShares(c, r) /\ HasSent(toServer[c], 3)
        /\ toServer[c][3].masks = MapOfMasks(c, r)
    BY <1>1, <1>2, <1>3, NotEnded DEF InProtocol
  <2>3. given = Having(r, "kAlive") /\ {k \in given : kinds[k] = "prf"} = Having(r, "kAlive") \ DeadIndices(m)
    BY DEF Having
  <2>4. \A k \in Having(r, "kAlive") : shares[k] = r.shares[k]
    BY DEF Having
  <2>5. a.kinds = kinds /\ a.shares = shares /\ a.type = "unmasking_response"
    OBVIOUS
  <2> HIDE DEF kinds, shares, kind, a, given
  <2>6. Cardinality(Having(r, "kAlive") \ DeadIndices(m)) >= Threshold
    <3> DEFINE n == Cardinality(Having(r, "kAlive") \ DeadIndices(m))
    <3>1. ~(n < Threshold)
      BY <1>5, ClientAssumption, ZenonT(60) DEF UnmaskingError
    <3>2. IsFiniteSet(Having(r, "kAlive") \ DeadIndices(m))
      <4>1. Having(r, "kAlive") \ DeadIndices(m) \subseteq DOMAIN r.others
        BY DEF Having
      <4> QED
        BY <2>2, <4>1, FS_Subset DEF HasMet
    <3>3. n \in Nat
      BY <3>2, FS_CardinalityType
    <3> HIDE DEF n
    <3>4. Threshold \in Nat
      BY ClientAssumption, ZenonT(60)
    <3>5. n >= Threshold
      BY <3>1, <3>3, <3>4
    <3> QED
      BY <3>5 DEF n
  <2>7. {{shares[k].of} \ {c} : k \in given} = {mask[2] \ {c} : mask \in MapOfMasks(c, r)}
    <3>1. \A k \in Having(r, "kAlive") \ {r.own} : {shares[k].of} \ {c} = {c, r.keys[k]} \ {c}
      BY <2>2, <2>4 DEF HasShares
    <3>2. {shares[r.own].of} \ {c} = {c} \ {c} /\ r.own \in Having(r, "kAlive")
      BY <2>2, <2>4 DEF HasShares, HasMet
    <3> DEFINE sign(k) == IF k < r.own THEN 1 ELSE -1
               A == Having(r, "kAlive")
    <3>3. MapOfMasks(c, r) = {<<1, {c}>>} \cup {<<sign(k), {c, r.keys[k]}>> : k \in A \ {r.own}}
      BY DEF MapOfMasks
    <3> HIDE DEF sign, A
    <3>4. ASSUME NEW k \in A
          PROVE  {shares[k].of} \ {c} \in {mask[2] \ {c} : mask \in MapOfMasks(c, r)}
      <4>1. CASE k = r.own
        <5>1. <<1, {c}>> \in MapOfMasks(c, r) /\ <<1, {c}>>[2] \ {c} = {shares[k].of} \ {c}
          BY <3>2, <3>3, <4>1
        <5> QED
          BY <5>1
      <4>2. CASE k # r.own
        <5>1. <<sign(k), {c, r.keys[k]}>> \in MapOfMasks(c, r)
          BY <3>3, <3>4, <4>2
        <5>2. <<sign(k), {c, r.keys[k]}>>[2] \ {c} = {shares[k].of} \ {c}
          BY <3>1, <3>4, <4>2 DEF A
        <5> QED
          BY <5>1, <5>2
      <4> QED
        BY <4>1, <4>2
    <3>5. ASSUME NEW mask \in MapOfMasks(c, r)
          PROVE  mask[2] \ {c} \in {{shares[k].of} \ {c} : k \in A}
      <4>1. CASE mask = <<1, {c}>>
        <5>1. mask[2] \ {c} = {shares[r.own].of} \ {c} /\ r.own \in A
          BY <3>2, <4>1 DEF A
        <5> QED
          BY <5>1
      <4>2. CASE mask # <<1, {c}>>
        <5>1. PICK k \in A \ {r.own} : mask = <<sign(k), {c, r.keys[k]}>>
          BY <3>3, <4>2
        <5>2. mask[2] \ {c} = {shares[k].of} \ {c}
          BY <3>1, <5>1 DEF A
        <5> QED
          BY <5>1, <5>2
      <4> QED
        BY <4>1, <4>2
    <3>6. given = A
      BY <2>3 DEF A
    <3> QED
      BY <3>4, <3>5, <3>6, ZenonT(60)
  <2>8. HasSent(log, 4) /\ log[4] = a /\ log[3] = toServer[c][3]
    <3>1. a.type = Protocol[3 + 1]
      BY <2>5 DEF Protocol
    <3>2. HasSent(log, 3 + 1) /\ log[3 + 1] = a /\ \A k \in 1..3 : log[k] = toServer[c][k]
      BY <2>2, <3>1, OneMore, SMTT(60)
    <3> HIDE DEF log
    <3> QED
      BY <3>2
  <2>9. SharesFitMasks(c, log[3].masks, log[4])
    <3>1. SharesFitMasks(c, MapOfMasks(c, r), a)
      BY <2>3, <2>5, <2>6, <2>7, ZenonT(60) DEF SharesFitMasks, given
    <3> QED
      BY <2>2, <2>8, <3>1
  <2>10. ClientFits(c, Fresh("COMPLETED", None), log, abortCall[c])
    BY <1>3, <2>8, <2>9, FreshFits, ZenonT(60) DEF AnswersFit, Terminal
  <2> HIDE DEF log
  <2> QED
    BY <2>1, <2>10, SameClient, ClientKept, ZenonT(60)
<1> QED
  BY <1>4, <1>5

\* The invariant holds before Start().
LEMMA ClientStarts == Init => ClientInv
<1> SUFFICES ASSUME Init PROVE ClientInv
  OBVIOUS
<1>1. /\ client = [c \in Clients |-> client[c]] /\ toServer = [c \in Clients |-> toServer[c]]
      /\ abortCall = [c \in Clients |-> abortCall[c]]
  BY DEF Init
<1>2. ASSUME NEW c \in Clients
      PROVE  ClientFits(c, client[c], toServer[c], abortCall[c])
  <2>1. client[c] = Fresh("R0_ADVERTISE_KEYS", None) /\ toServer[c] = << >> /\ abortCall[c] = "none"
    BY DEF Init
  <2> DEFINE r == Fresh("R0_ADVERTISE_KEYS", None)
  <2>2. DOMAIN r = RecordFields /\ r.hasInput \in BOOLEAN /\ r.own = None /\ r.state = "R0_ADVERTISE_KEYS"
    BY DEF Fresh, RecordFields
  <2>3. << >> \in Seq({}) /\ Len(<< >>) = 0
    OBVIOUS
  <2>4. HasSent(<< >>, 0)
    BY <2>3 DEF HasSent
  <2> HIDE DEF r
  <2>5. InProtocol(c, r, << >>)
    BY <2>2, <2>4 DEF InProtocol
  <2>6. ClientFits(c, r, << >>, "none")
    BY <2>2, <2>5 DEF ClientFits
  <2> QED
    BY <2>1, <2>6 DEF r
<1> QED
  BY <1>1, <1>2 DEF ClientInv

\* Every step keeps the invariant of the client.
LEMMA ClientStepRight ==
  ASSUME ClientInv, [ClientNext]_vars
  PROVE  ClientInv'
<1>1. CASE UNCHANGED <<client, abortCall, toServer>>
  BY <1>1, ZenonT(60) DEF ClientInv
<1>2. ASSUME NEW c \in Clients, ClientStep(c)
      PROVE  ClientInv'
  BY <1>2, StartsRight, SetInputRight, AbortsRight DEF ClientStep
<1>3. ASSUME NEW c \in Clients, NEW m \in AnyMessage, ReceiveMessage(c, m)
      PROVE  ClientInv'
  <2>1. UNCHANGED abortCall
    BY <1>3 DEF ReceiveMessage
  <2>2. CASE IgnoreMessage(c, m)
    BY <1>1, <2>1, <2>2 DEF IgnoreMessage
  <2> QED
    BY <1>3, <2>1, <2>2, ReceiveAbortRight, ReceiveShareKeysRight, ReceiveMaskedInputRight,
       ReceiveUnmaskingRight DEF ReceiveMessage
<1> QED
  BY <1>1, <1>2, <1>3 DEF ClientNext, vars

AnswerTypes == {"advertise_keys", "share_keys_response", "masked_input_response", "unmasking_response"}

\* The four messages of the protocol, none of which is an abort.
LEMMA ProtocolFacts ==
  /\ Protocol \in Seq(AnswerTypes) /\ Len(Protocol) = 4
  /\ \A k \in 1..4 : Protocol[k] \in AnswerTypes /\ Protocol[k] # "abort"
<1>1. Protocol \in Seq(AnswerTypes) /\ Len(Protocol) = 4
  BY DEF Protocol, AnswerTypes
<1>2. \A k \in 1..4 : k = 1 \/ k = 2 \/ k = 3 \/ k = 4
  OBVIOUS
<1>3. /\ Protocol[1] = "advertise_keys" /\ Protocol[2] = "share_keys_response"
      /\ Protocol[3] = "masked_input_response" /\ Protocol[4] = "unmasking_response"
  BY DEF Protocol
<1>4. \A k \in 1..4 : Protocol[k] \in AnswerTypes /\ Protocol[k] # "abort"
  BY <1>2, <1>3 DEF AnswerTypes
<1> QED
  BY <1>1, <1>4

\* What was sent is the beginning of the protocol.
LEMMA SentInOrder ==
  ASSUME NEW log, NEW n \in 0..4, HasSent(log, n)
  PROVE  LET types == Types(log) IN
           /\ Len(types) = n /\ types = SubSeq(Protocol, 1, n) /\ n <= Len(Protocol)
           /\ ~(types # << >> /\ types[Len(types)] = "abort")
<1> DEFINE types == Types(log)
<1>1. DOMAIN log = 1..n
  BY DEF HasSent
<1>2. types = [k \in 1..n |-> Protocol[k]]
  BY <1>1 DEF Types, HasSent
<1>3. /\ Protocol \in Seq(AnswerTypes) /\ Len(Protocol) = 4
      /\ \A k \in 1..4 : Protocol[k] \in AnswerTypes /\ Protocol[k] # "abort"
  BY ProtocolFacts
<1> HIDE DEF types, Protocol
<1>4. types \in Seq(AnswerTypes) /\ Len(types) = n
  BY <1>2, <1>3
<1>5. types = SubSeq(Protocol, 1, n)
  BY <1>2, <1>3, <1>4, SubSeqProperties
<1>6. ~(types # << >> /\ types[Len(types)] = "abort")
  BY <1>2, <1>3, <1>4
<1> QED
  BY <1>3, <1>4, <1>5, <1>6 DEF types

\* An abort comes after the beginning of the protocol.
LEMMA ToldInOrder ==
  ASSUME NEW log, NEW n \in 0..3, HasTold(log, n)
  PROVE  LET types == Types(log)
             given == SubSeq(types, 1, Len(types) - 1)
         IN /\ types # << >> /\ types[Len(types)] = "abort"
            /\ Len(given) = n /\ n <= Len(Protocol) /\ given = SubSeq(Protocol, 1, n)
<1> DEFINE types == Types(log)
           given == SubSeq(types, 1, Len(types) - 1)
<1>1. DOMAIN log = 1..n + 1
  BY DEF HasTold
<1>2. types = [k \in 1..n + 1 |-> log[k].type]
  BY <1>1 DEF Types
<1>3. /\ Protocol \in Seq(AnswerTypes) /\ Len(Protocol) = 4
      /\ \A k \in 1..4 : Protocol[k] \in AnswerTypes /\ Protocol[k] # "abort"
  BY ProtocolFacts
<1>4. log[n + 1].type = "abort" /\ \A k \in 1..n : log[k].type = Protocol[k]
  BY DEF HasTold
<1> HIDE DEF types, Protocol
<1>5. \A k \in 1..n + 1 : types[k] \in AnswerTypes \cup {"abort"}
  <2> TAKE k \in 1..n + 1
  <2>1. k \in 1..n \/ k = n + 1
    OBVIOUS
  <2> QED
    BY <1>2, <1>3, <1>4, <2>1
<1>6. types \in Seq(AnswerTypes \cup {"abort"}) /\ Len(types) = n + 1
  BY <1>2, <1>5
<1>7. types # << >> /\ types[Len(types)] = "abort"
  BY <1>2, <1>4, <1>6
<1>8. given = [k \in 1..n |-> Protocol[k]] /\ Len(given) = n
  <2>1. given \in Seq(AnswerTypes \cup {"abort"}) /\ Len(given) = n /\ \A k \in 1..n : given[k] = types[k]
    BY <1>6, SubSeqProperties
  <2>2. \A k \in 1..n : types[k] = Protocol[k]
    BY <1>2, <1>4
  <2> HIDE DEF given
  <2> QED
    BY <2>1, <2>2
<1>9. SubSeq(Protocol, 1, n) = [k \in 1..n |-> Protocol[k]]
  BY <1>3, SubSeqProperties
<1>10. n <= Len(Protocol)
  BY <1>3
<1> QED
  BY <1>7, <1>8, <1>9, <1>10, ZenonT(60) DEF types

\* SecAggClient keeps to the protocol whatever the server sends and whenever
\* Abort() is called, and its answer to the unmasking request fits the masked
\* input it sent: for any clients, thresholds and lengths of lists.
THEOREM AnswersAlwaysConsistent == ClientSpec => []AnswersConsistent
<1>1. ClientInv /\ [ClientNext]_vars => ClientInv'
  BY ClientStepRight
<1>2. ClientInv => AnswersConsistent
  <2> SUFFICES ASSUME ClientInv PROVE AnswersConsistent
    OBVIOUS
  <2>1. ASSUME NEW c \in Clients
        PROVE  ClientFits(c, client[c], toServer[c], abortCall[c])
    BY DEF ClientInv
  <2>2. TypeOK
    BY <2>1 DEF TypeOK, ClientFits, InProtocol, HasEnded, HasMet, Terminal
  <2>3. AbortTakesEffect
    BY <2>1 DEF AbortTakesEffect, ClientFits
  <2>4. ASSUME NEW c \in Clients
        PROVE  \/ /\ \E n \in 0..4 : HasSent(toServer[c], n)
                  /\ ~(client[c].state = "ABORTED" /\ client[c].reason # "server")
               \/ /\ \E n \in 0..3 : HasTold(toServer[c], n)
                  /\ client[c].state = "ABORTED" /\ client[c].reason # "server"
    BY <2>1 DEF ClientFits, InProtocol, HasEnded, AnswersFit
  <2>5. SendsInOrder
    BY <2>4, SentInOrder, ToldInOrder, SMTT(60) DEF SendsInOrder
  <2>6. ASSUME NEW c \in Clients, Len(toServer[c]) = 4, toServer[c][4].type = "unmasking_response"
        PROVE  SharesFitMasks(c, toServer[c][3].masks, toServer[c][4])
    BY <2>1, <2>6 DEF ClientFits, InProtocol, HasEnded, AnswersFit, HasSent, HasTold
  <2> QED
    BY <2>2, <2>3, <2>5, <2>6 DEF AnswersConsistent
<1> QED
  BY ClientStarts, <1>1, <1>2, PTL DEF ClientSpec

-----------------------------------------------------------------------------
(* The callbacks of PerformMultipleRequestsInMemory.                       *)

JavaHandles ==
  [performed : BOOLEAN,
   state : {"NOT_STARTED", "BEFORE_RESPONSE_HEADERS", "AFTER_RESPONSE_HEADERS", "CLOSED"},
   work : {"none", "queued", "running", "ended"}, future : BOOLEAN]
Exchanged == [sent : Nat, heads : Nat, body : Nat]
Statuses == {"none", "unavailable", "invalid_argument", "cancelled", "internal", "ok", "not_found"}
InMemoryCallbacks == [status : Statuses, code : Statuses, got : Nat]

JavaTypes ==
  /\ reply \in [Requests -> Reply] /\ wire \in [Requests -> Exchanged]
  /\ hdl \in [Requests -> JavaHandles] /\ cbk \in [Requests -> InMemoryCallbacks]
  /\ order \in [Requests -> {"none", "started", "ended"}]
  /\ answers \in [Requests -> Statuses]
  /\ idx \in Requests /\ target \in Requests

\* The caller's thread deletes only what the pool thread has let go of.
CallerWaits ==
  /\ run \in {"start", "waiting", "aborting", "graceful", "extended", "exited", "returned", "done"}
  /\ run = "start" => task = "idle"
  /\ run \in {"returned", "done"} => task = "idle" \/ TaskOver
  /\ alive = (run # "done") /\ ~stray

\* How far a request is, by the state of its Java handle.
RequestInOrder(r) ==
  /\ hdl[r].state \in {"NOT_STARTED", "BEFORE_RESPONSE_HEADERS"} =>
       order[r] = "none" /\ wire[r].body = 0 /\ cbk[r].got = 0
  /\ hdl[r].state = "AFTER_RESPONSE_HEADERS" =>
       order[r] = "started" /\ wire[r].sent = reply[r].upload /\ cbk[r].got = wire[r].body
  /\ cbk[r].status = "ok" =>
       hdl[r].state = "CLOSED" /\ wire[r].sent = reply[r].upload /\ cbk[r].got = reply[r].length
  /\ hdl[r].state \in {"BEFORE_RESPONSE_HEADERS", "AFTER_RESPONSE_HEADERS"} => hdl[r].future
  /\ answers[r] = "ok" => cbk[r].status = "ok"

JavaTasks == {"idle", "adding", "starting", "awaiting", "ok", "invalid_argument", "crashed"}

\* How far the pool thread is, by its task: none is started before all are
\* added, and all have ended when it has awaited them.
TaskInOrder ==
  /\ task \in JavaTasks
  /\ task \in {"idle", "adding", "invalid_argument"} =>
       \A r \in Requests : hdl[r].state \in {"NOT_STARTED", "CLOSED"}
  /\ task = "starting" => \A r \in Requests : r < idx => hdl[r].state # "NOT_STARTED"
  /\ task = "awaiting" => \A r \in Requests : /\ hdl[r].state # "NOT_STARTED"
                                              /\ r < idx => ~hdl[r].future
  /\ task = "ok" => \A r \in Requests : hdl[r].state = "CLOSED"

HandlesClosed == run = "done" => \A r \in Requests : hdl[r].state = "CLOSED"

JavaRight ==
  JavaTypes /\ TaskInOrder /\ HandlesClosed /\ \A r \in Requests : RequestInOrder(r)

CallbackInv == CallerWaits /\ (httpClient = "java" => JavaRight)

\* What the invariant says of one request.
RequestRight(r) ==
  /\ RequestInOrder(r)
  /\ task \in {"idle", "adding", "invalid_argument"} => hdl[r].state \in {"NOT_STARTED", "CLOSED"}
  /\ task = "starting" => (r < idx => hdl[r].state # "NOT_STARTED")
  /\ task = "awaiting" => hdl[r].state # "NOT_STARTED" /\ (r < idx => ~hdl[r].future)
  /\ task = "ok" => hdl[r].state = "CLOSED"
  /\ run = "done" => hdl[r].state = "CLOSED"

\* The invariant of the Java client, request by request.
LEMMA JavaRightByRequest ==
  JavaRight <=> JavaTypes /\ task \in JavaTasks /\ \A r \in Requests : RequestRight(r)
  BY SMTT(60) DEF JavaRight, TaskInOrder, HandlesClosed, RequestRight

\* The same of the next state.
LEMMA JavaRightAfter ==
  ASSUME JavaTypes', task' \in JavaTasks, \A r \in Requests : RequestRight(r)'
  PROVE  JavaRight'
<1>1. TaskInOrder' /\ HandlesClosed'
  BY SMTT(60) DEF TaskInOrder, HandlesClosed, RequestRight
<1>2. \A r \in Requests : RequestInOrder(r)'
  BY DEF RequestRight
<1> QED
  BY <1>1, <1>2 DEF JavaRight

\* A step of one request that leaves pool thread, caller and answers alone keeps
\* the invariant if it does for that request.
LEMMA RequestStep ==
  ASSUME JavaRight, NEW r \in Requests,
         UNCHANGED <<reply, task, idx, answers>>, target' \in Requests,
         run' = run \/ run' # "done",
         NEW h \in JavaHandles, hdl' = [hdl EXCEPT ![r] = h],
         NEW w \in Exchanged, wire' = [wire EXCEPT ![r] = w],
         NEW b \in InMemoryCallbacks, cbk' = [cbk EXCEPT ![r] = b],
         NEW o \in {"none", "started", "ended"}, order' = [order EXCEPT ![r] = o],
         RequestRight(r)'
  PROVE  JavaRight'
<1>1. JavaTypes'
  BY SMTT(60) DEF JavaRight, JavaTypes
<1>2. ASSUME NEW q \in Requests, q # r
      PROVE  RequestRight(q)'
  <2>1. hdl'[q] = hdl[q] /\ wire'[q] = wire[q] /\ cbk'[q] = cbk[q] /\ order'[q] = order[q]
    BY <1>2 DEF JavaRight, JavaTypes
  <2>2. RequestRight(q)
    BY JavaRightByRequest
  <2> QED
    BY <2>1, <2>2, ZenonT(60) DEF RequestRight, RequestInOrder
<1>3. task' \in JavaTasks
  BY DEF JavaRight, TaskInOrder
<1> QED
  BY <1>1, <1>2, <1>3, JavaRightAfter

\* The record of a request that is not changed.
LEMMA Untouched ==
  ASSUME JavaTypes, NEW r \in Requests
  PROVE  /\ hdl = [hdl EXCEPT ![r] = hdl[r]] /\ wire = [wire EXCEPT ![r] = wire[r]]
         /\ cbk = [cbk EXCEPT ![r] = cbk[r]] /\ order = [order EXCEPT ![r] = order[r]]
         /\ hdl[r] \in JavaHandles /\ wire[r] \in Exchanged /\ cbk[r] \in InMemoryCallbacks
         /\ order[r] \in {"none", "started", "ended"} /\ reply[r] \in Reply /\ target \in Requests
  BY DEF JavaTypes

\* The request's thread starts, or finds that it has been closed.
LEMMA JavaStartRight ==
  ASSUME JavaRight, NEW r \in Requests, JavaStart(r) \/ JavaAborts(r)
  PROVE  JavaRight'
<1>1. JavaTypes /\ RequestRight(r)
  BY JavaRightByRequest DEF JavaRight
<1> DEFINE h == IF JavaStart(r) /\ hdl[r].state # "CLOSED" THEN [hdl[r] EXCEPT !.work = "running"]
                ELSE WorkEnds(hdl[r])
<1>2. /\ h \in JavaHandles /\ h.state = hdl[r].state
      /\ hdl[r].state # "CLOSED" => h.future = hdl[r].future
      /\ ~hdl[r].future => ~h.future
  <2>1. hdl[r] \in JavaHandles
    BY <1>1, Untouched
  <2>2. CASE h = [hdl[r] EXCEPT !.work = "running"]
    BY <2>1, <2>2 DEF JavaHandles
  <2>3. CASE h = WorkEnds(hdl[r]) /\ hdl[r].state = "CLOSED"
    BY <2>1, <2>3, ZenonT(60) DEF JavaHandles, WorkEnds
  <2> QED
    BY <2>2, <2>3, ZenonT(60) DEF JavaStart, JavaAborts
<1>3. hdl' = [hdl EXCEPT ![r] = h]
  BY SMTT(60) DEF JavaStart, JavaAborts, Set
<1>4. UNCHANGED <<reply, run, task, idx, target, answers, wire, cbk, order>>
  BY DEF JavaStart, JavaAborts, httpCall, caller, pool, callbacks
<1>5. hdl'[r] = h
  BY <1>1, <1>3 DEF JavaTypes
<1> HIDE DEF h
<1>6. RequestRight(r)'
  BY <1>1, <1>2, <1>4, <1>5, SMTT(60) DEF RequestRight, RequestInOrder
<1> QED
  BY <1>1, <1>2, <1>3, <1>4, <1>6, Untouched, RequestStep, ZenonT(60)

\* A chunk of the request's body is sent: only before the headers arrive.
LEMMA JavaUploadRight ==
  ASSUME JavaRight, NEW r \in Requests, JavaUpload(r)
  PROVE  JavaRight'
<1>1. JavaTypes /\ RequestRight(r)
  BY JavaRightByRequest DEF JavaRight
<1> DEFINE w == [wire[r] EXCEPT !.sent = @ + 1]
<1>2. w \in Exchanged /\ w.body = wire[r].body
  BY <1>1, Untouched DEF Exchanged
<1>3. wire' = [wire EXCEPT ![r] = w]
  BY DEF JavaUpload, ReadBody
<1>4. UNCHANGED <<reply, run, task, idx, target, answers, hdl, cbk, order>>
  BY ZenonT(60) DEF JavaUpload, httpCall, caller, pool, callbacks
<1>5. wire'[r] = w /\ hdl[r].state = "BEFORE_RESPONSE_HEADERS"
  BY <1>1, <1>3 DEF JavaTypes, JavaUpload
<1> HIDE DEF w
<1>6. RequestRight(r)'
  BY <1>1, <1>2, <1>4, <1>5, SMTT(60) DEF RequestRight, RequestInOrder
<1> QED
  BY <1>1, <1>2, <1>3, <1>4, <1>6, Untouched, RequestStep, ZenonT(60)

\* The headers arrive when all has been sent, and are handed on or refused.
LEMMA JavaHeadersRight ==
  ASSUME JavaRight, NEW r \in Requests, JavaHeaders(r)
  PROVE  JavaRight'
<1>1. JavaTypes /\ RequestRight(r) /\ hdl[r].state = "BEFORE_RESPONSE_HEADERS"
  BY JavaRightByRequest DEF JavaRight, JavaHeaders
<1> DEFINE w == [wire[r] EXCEPT !.heads = HeadBlocks(r)]
           b == [cbk[r] EXCEPT !.code = reply[r].code,
                               !.status = IF reply[r].rejected THEN "invalid_argument" ELSE @]
           h == IF reply[r].rejected THEN Finished(hdl[r])
                ELSE [hdl[r] EXCEPT !.state = "AFTER_RESPONSE_HEADERS"]
           o == IF reply[r].rejected THEN "ended" ELSE "started"
<1>2. w \in Exchanged /\ w.sent = wire[r].sent /\ w.body = wire[r].body
  BY <1>1, Untouched DEF Exchanged, HeadBlocks
<1>3. b \in InMemoryCallbacks /\ b.got = cbk[r].got /\ (b.status = "ok" => cbk[r].status = "ok")
  <2>1. cbk[r] \in InMemoryCallbacks /\ reply[r].code \in Statuses
    BY <1>1, Untouched DEF Statuses, Reply
  <2>2. CASE reply[r].rejected
    <3>1. b = [cbk[r] EXCEPT !.code = reply[r].code, !.status = "invalid_argument"]
      BY <2>2
    <3> QED
      BY <2>1, <3>1, ZenonT(60) DEF InMemoryCallbacks, Statuses
  <2>3. CASE ~reply[r].rejected
    <3>1. b = [cbk[r] EXCEPT !.code = reply[r].code]
      BY <2>1, <2>3, ZenonT(60) DEF InMemoryCallbacks
    <3> QED
      BY <2>1, <3>1 DEF InMemoryCallbacks
  <2> QED
    BY <2>2, <2>3
<1>4. /\ h \in JavaHandles
      /\ h.state = (IF reply[r].rejected THEN "CLOSED" ELSE "AFTER_RESPONSE_HEADERS")
      /\ (~reply[r].rejected => h.future = hdl[r].future) /\ (~hdl[r].future => ~h.future)
  <2>1. hdl[r] \in JavaHandles
    BY <1>1, Untouched
  <2>2. CASE reply[r].rejected
    <3>1. h = Finished(hdl[r])
      BY <2>2
    <3>2. Finished(hdl[r]) \in JavaHandles /\ Finished(hdl[r]).state = "CLOSED" /\ ~Finished(hdl[r]).future
      BY <2>1, ZenonT(60) DEF JavaHandles, Finished, WorkEnds
    <3> QED
      BY <2>2, <3>1, <3>2
  <2>3. CASE ~reply[r].rejected
    <3>1. h = [hdl[r] EXCEPT !.state = "AFTER_RESPONSE_HEADERS"]
      BY <2>3
    <3>2. h \in JavaHandles /\ h.state = "AFTER_RESPONSE_HEADERS" /\ h.future = hdl[r].future
      BY <2>1, <3>1 DEF JavaHandles
    <3> QED
      BY <2>3, <3>2
  <2> QED
    BY <2>2, <2>3
<1>5. wire' = [wire EXCEPT ![r] = w] /\ hdl' = [hdl EXCEPT ![r] = h]
  BY DEF JavaHeaders, Set
<1>6. cbk' = [cbk EXCEPT ![r] = b]
  BY ZenonT(60) DEF JavaHeaders, OnResponseStarted, Called
<1>7. order' = [order EXCEPT ![r] = o]
  <2>1. order' = [order EXCEPT ![r] = After(order[r], "OnResponseStarted", ~reply[r].rejected)]
    BY DEF JavaHeaders, OnResponseStarted, Called
  <2>2. order[r] = "none"
    BY <1>1 DEF RequestRight, RequestInOrder
  <2>3. After("none", "OnResponseStarted", ~reply[r].rejected) = o
    BY DEF After
  <2> QED
    BY <2>1, <2>2, <2>3, ZenonT(60)
<1>8. UNCHANGED <<reply, run, task, idx, target, answers>>
  BY DEF JavaHeaders, httpCall, caller, pool
<1>9. wire'[r] = w /\ hdl'[r] = h /\ cbk'[r] = b /\ order'[r] = o
  BY <1>1, <1>5, <1>6, <1>7 DEF JavaTypes
<1>10. wire[r].sent = reply[r].upload /\ o \in {"none", "started", "ended"}
       /\ (~reply[r].rejected => o = "started")
  BY DEF JavaHeaders
<1> HIDE DEF w, b, h, o
<1>11. RequestRight(r)'
  BY <1>1, <1>2, <1>3, <1>4, <1>8, <1>9, <1>10, SMTT(60) DEF RequestRight, RequestInOrder
<1> QED
  BY <1>1, <1>2, <1>3, <1>4, <1>5, <1>6, <1>7, <1>8, <1>10, <1>11, Untouched, RequestStep, ZenonT(60)

\* What arrives of the body is handed on.
LEMMA JavaBodyRight ==
  ASSUME JavaRight, NEW r \in Requests, JavaBody(r)
  PROVE  JavaRight'
<1>1. JavaTypes /\ RequestRight(r) /\ hdl[r].state = "AFTER_RESPONSE_HEADERS"
  BY JavaRightByRequest DEF JavaRight, JavaBody
<1> DEFINE w == [wire[r] EXCEPT !.body = @ + 1]
           b == [cbk[r] EXCEPT !.got = @ + 1]
<1>2. w \in Exchanged /\ w.sent = wire[r].sent /\ w.body = wire[r].body + 1
  BY <1>1, Untouched DEF Exchanged
<1>3. b \in InMemoryCallbacks /\ b.got = cbk[r].got + 1 /\ b.status = cbk[r].status
  BY <1>1, Untouched DEF InMemoryCallbacks
<1>4. wire' = [wire EXCEPT ![r] = w] /\ cbk' = [cbk EXCEPT ![r] = b]
  BY DEF JavaBody, OnResponseBody, Called
<1>5. order[r] = "started" /\ order' = [order EXCEPT ![r] = "started"]
  <2>1. order[r] = "started"
    BY <1>1 DEF RequestRight, RequestInOrder
  <2>2. order' = [order EXCEPT ![r] = After(order[r], "OnResponseBody", TRUE)]
    BY DEF JavaBody, OnResponseBody, Called
  <2>3. After("started", "OnResponseBody", TRUE) = "started"
    BY DEF After
  <2> QED
    BY <2>1, <2>2, <2>3, ZenonT(60)
<1>6. UNCHANGED <<reply, run, task, idx, target, answers, hdl>>
  BY DEF JavaBody, httpCall, caller, pool
<1>7. wire'[r] = w /\ cbk'[r] = b /\ order'[r] = "started"
  BY <1>1, <1>4, <1>5 DEF JavaTypes
<1> HIDE DEF w, b
<1>8. RequestRight(r)'
  BY <1>1, <1>2, <1>3, <1>6, <1>7, SMTT(60) DEF RequestRight, RequestInOrder
<1> QED
  BY <1>1, <1>2, <1>3, <1>4, <1>5, <1>6, <1>8, Untouched, RequestStep, ZenonT(60)

\* A request completes with all of the body.
LEMMA JavaCompletesRight ==
  ASSUME JavaRight, NEW r \in Requests, JavaCompletes(r)
  PROVE  JavaRight'
<1>1. JavaTypes /\ RequestRight(r) /\ hdl[r].state = "AFTER_RESPONSE_HEADERS"
      /\ wire[r].body = reply[r].length
  BY JavaRightByRequest, ZenonT(60) DEF JavaRight, JavaCompletes
<1> DEFINE b == [cbk[r] EXCEPT !.status = cbk[r].code]
           h == Finished(hdl[r])
<1>2. b \in InMemoryCallbacks /\ b.got = cbk[r].got
  BY <1>1, Untouched DEF InMemoryCallbacks
<1>3. h \in JavaHandles /\ h.state = "CLOSED" /\ ~h.future
  BY <1>1, Untouched, ZenonT(60) DEF JavaHandles, Finished, WorkEnds
<1>4. cbk' = [cbk EXCEPT ![r] = b] /\ hdl' = [hdl EXCEPT ![r] = h]
  BY DEF JavaCompletes, OnResponseCompleted, Called, Set
<1>5. order' = [order EXCEPT ![r] = "ended"]
  <2>1. order[r] = "started"
    BY <1>1, ZenonT(60) DEF RequestRight, RequestInOrder
  <2>2. order' = [order EXCEPT ![r] = After(order[r], "OnResponseCompleted", TRUE)]
    BY DEF JavaCompletes, OnResponseCompleted, Called
  <2>3. After("started", "OnResponseCompleted", TRUE) = "ended"
    BY DEF After
  <2> QED
    BY <2>1, <2>2, <2>3, ZenonT(60)
<1>6. UNCHANGED <<reply, run, task, idx, target, answers, wire>>
  BY DEF JavaCompletes, httpCall, caller, pool
<1>7. hdl'[r] = h /\ cbk'[r] = b
  BY <1>1, <1>4 DEF JavaTypes
<1>8. wire[r].sent = reply[r].upload /\ cbk[r].got = reply[r].length /\ answers[r] # "ok"
  BY <1>1 DEF RequestRight, RequestInOrder
<1> HIDE DEF b, h
<1>9. RequestRight(r)'
  BY <1>1, <1>2, <1>3, <1>6, <1>7, <1>8, SMTT(60) DEF RequestRight, RequestInOrder
<1> QED
  BY <1>1, <1>2, <1>3, <1>4, <1>5, <1>6, <1>9, Untouched, RequestStep, ZenonT(60)

\* The callback of an error comes in order.
LEMMA ErrorRight ==
  ASSUME JavaRight, NEW r \in Requests, NEW s \in Statuses \ {"ok"}, DoError(r, s),
         NEW h \in JavaHandles, hdl' = [hdl EXCEPT ![r] = h], h.state = "CLOSED",
         hdl[r].future \/ ~h.future,
         UNCHANGED <<reply, task, idx, answers, wire>>, target' \in Requests,
         run' = run \/ run' # "done"
  PROVE  JavaRight'
<1>1. JavaTypes /\ RequestRight(r)
  BY JavaRightByRequest DEF JavaRight
<1>2. hdl'[r] = h
  BY <1>1 DEF JavaTypes
<1>3. CASE hdl[r].state \in {"BEFORE_RESPONSE_HEADERS", "AFTER_RESPONSE_HEADERS"}
  <2> DEFINE b == [cbk[r] EXCEPT !.status = s]
  <2>1. b \in InMemoryCallbacks /\ b.got = cbk[r].got /\ b.status # "ok"
    BY <1>1, Untouched DEF InMemoryCallbacks
  <2>2. cbk' = [cbk EXCEPT ![r] = b] /\ order' = [order EXCEPT ![r] = "ended"]
    <3>1. CASE hdl[r].state = "BEFORE_RESPONSE_HEADERS"
      <4>1. order[r] = "none"
        BY <1>1, <3>1 DEF RequestRight, RequestInOrder
      <4>2. Called(r, "OnResponseError", TRUE, b)
        BY <3>1, ZenonT(60) DEF DoError, OnResponseError
      <4>3. After("none", "OnResponseError", TRUE) = "ended"
        BY DEF After
      <4> QED
        BY <4>1, <4>2, <4>3, ZenonT(60) DEF Called
    <3>2. CASE hdl[r].state = "AFTER_RESPONSE_HEADERS"
      <4>1. order[r] = "started"
        BY <1>1, <3>2 DEF RequestRight, RequestInOrder
      <4>2. Called(r, "OnResponseBodyError", TRUE, b)
        BY <3>2, ZenonT(60) DEF DoError, OnResponseBodyError
      <4>3. After("started", "OnResponseBodyError", TRUE) = "ended"
        BY DEF After
      <4> QED
        BY <4>1, <4>2, <4>3, ZenonT(60) DEF Called
    <3> QED
      BY <1>3, <3>1, <3>2
  <2>3. cbk'[r] = b /\ cbk[r].status # "ok"
    BY <1>1, <1>3, <2>2 DEF JavaTypes, RequestRight, RequestInOrder
  <2> HIDE DEF b
  <2>4. RequestRight(r)'
    BY <1>1, <1>2, <2>1, <2>3, SMTT(60) DEF RequestRight, RequestInOrder
  <2> QED
    BY <1>1, <2>1, <2>2, <2>4, Untouched, RequestStep, ZenonT(60)
<1>4. CASE hdl[r].state \in {"NOT_STARTED", "CLOSED"}
  <2>1. UNCHANGED <<cbk, order>>
    BY <1>4 DEF DoError, callbacks
  <2>2. RequestRight(r)'
    BY <1>1, <1>2, <2>1, SMTT(60) DEF RequestRight, RequestInOrder
  <2> QED
    BY <1>1, <2>1, <2>2, Untouched, RequestStep, ZenonT(60)
<1> QED
  BY <1>1, <1>3, <1>4 DEF JavaTypes, JavaHandles

\* An IOException ends a request.
LEMMA JavaFailsRight ==
  ASSUME JavaRight, NEW r \in Requests, JavaFails(r)
  PROVE  JavaRight'
<1>1. JavaTypes
  BY DEF JavaRight
<1>2. Finished(hdl[r]) \in JavaHandles /\ Finished(hdl[r]).state = "CLOSED" /\ ~Finished(hdl[r]).future
  BY <1>1, Untouched, ZenonT(60) DEF JavaHandles, Finished, WorkEnds
<1>3. /\ DoError(r, "unavailable") /\ hdl' = [hdl EXCEPT ![r] = Finished(hdl[r])]
      /\ UNCHANGED <<reply, run, task, idx, target, answers, wire>>
  BY DEF JavaFails, Set, httpCall, caller, pool
<1> QED
  BY <1>1, <1>2, <1>3, Untouched, ErrorRight, ZenonT(60) DEF Statuses

\* Cancel: the handle is marked, then close() runs between two steps of the
\* request's thread.
LEMMA CancelRight ==
  ASSUME JavaRight, httpClient = "java", Cancel
  PROVE  JavaRight'
<1>1. JavaTypes /\ target \in Requests /\ RequestRight(target)
  BY JavaRightByRequest DEF JavaRight, JavaTypes
<1>2. hdl[target] \in JavaHandles
  BY <1>1, Untouched
<1>3. UNCHANGED <<reply, wire, task, idx, answers>> /\ run = "aborting"
  BY DEF Cancel, httpCall, pool
<1>4. CASE ~closing
  <2> DEFINE h == [hdl[target] EXCEPT !.performed = TRUE]
  <2>1. h \in JavaHandles /\ h.state = hdl[target].state /\ h.future = hdl[target].future
    BY <1>2, ZenonT(60) DEF JavaHandles
  <2>2. hdl' = [hdl EXCEPT ![target] = h] /\ UNCHANGED <<run, target, cbk, order>>
    BY <1>4 DEF Cancel, Set, callbacks
  <2>3. hdl'[target] = h
    BY <1>1, <2>2 DEF JavaTypes
  <2> HIDE DEF h
  <2>4. RequestRight(target)'
    BY <1>1, <1>3, <2>1, <2>2, <2>3, SMTT(60) DEF RequestRight, RequestInOrder
  <2> QED
    BY <1>1, <1>3, <2>1, <2>2, <2>4, Untouched, RequestStep, ZenonT(60)
<1>5. CASE closing
  <2>1. /\ JavaClose(target)
        /\ IF target < NumRequests THEN target' = target + 1 /\ run' = run
           ELSE run' = "graceful" /\ target' = target
    BY <1>5 DEF Cancel
  <2>2. target' \in Requests /\ run' # "done"
    BY <1>1, <1>3, <2>1, NumRequestsPositive DEF Requests
  <2>3. CASE hdl[target].state = "CLOSED"
    <3>1. UNCHANGED <<hdl, cbk, order>>
      BY <2>1, <2>3 DEF JavaClose, callbacks
    <3>2. JavaTypes'
      BY <1>1, <1>3, <2>2, <3>1 DEF JavaTypes
    <3>3. \A r \in Requests : RequestRight(r)'
      BY <1>3, <2>2, <3>1, JavaRightByRequest, ZenonT(60) DEF RequestRight, RequestInOrder
    <3> QED
      BY <1>3, <3>2, <3>3, JavaRightAfter, ZenonT(60) DEF JavaRight, TaskInOrder
  <2>4. CASE hdl[target].state # "CLOSED"
    <3> DEFINE h == [hdl[target] EXCEPT !.state = "CLOSED", !.future = FALSE,
                                        !.work = IF @ = "queued" THEN "ended" ELSE @]
    <3>1. h \in JavaHandles /\ h.state = "CLOSED" /\ ~h.future
      <4> DEFINE w == IF hdl[target].work = "queued" THEN "ended" ELSE hdl[target].work
      <4>1. w \in {"none", "queued", "running", "ended"}
        BY <1>2 DEF JavaHandles
      <4>2. h = [hdl[target] EXCEPT !.state = "CLOSED", !.future = FALSE, !.work = w]
        BY <1>2 DEF JavaHandles
      <4> HIDE DEF w, h
      <4> QED
        BY <1>2, <4>1, <4>2, ZenonT(60) DEF JavaHandles
    <3>2. DoError(target, "cancelled") /\ hdl' = [hdl EXCEPT ![target] = h]
      BY <2>1, <2>4, ZenonT(60) DEF JavaClose, Set
    <3> HIDE DEF h
    <3> QED
      BY <1>1, <1>3, <2>2, <3>1, <3>2, ErrorRight, ZenonT(60) DEF Statuses
  <2> QED
    BY <2>3, <2>4
<1> QED
  BY <1>4, <1>5

\* The pool thread adds, starts and awaits the requests.
LEMMA JavaPoolRight ==
  ASSUME JavaRight, JavaSetCallback \/ JavaPerformRequest \/ JavaAwait
  PROVE  JavaRight'
<1>1. JavaTypes /\ idx \in Requests /\ hdl[idx] \in JavaHandles /\ RequestRight(idx)
  BY JavaRightByRequest, Untouched DEF JavaRight, JavaTypes
<1>2. UNCHANGED <<reply, wire, run, target, cbk, order, answers>>
  BY DEF JavaSetCallback, JavaPerformRequest, JavaAwait, httpCall, caller, callbacks
<1>3. \A r \in Requests : RequestRight(r)
  BY JavaRightByRequest
<1>4. CASE JavaSetCallback
  <2> DEFINE h == [hdl[idx] EXCEPT !.performed = TRUE]
  <2>1. CASE hdl[idx].performed
    <3>1. task = "adding" /\ task' = "invalid_argument" /\ UNCHANGED <<hdl, idx>>
      BY <1>4, <2>1 DEF JavaSetCallback
    <3>2. JavaTypes'
      BY <1>1, <1>2, <3>1 DEF JavaTypes
    <3>3. \A r \in Requests : RequestRight(r)'
      BY <1>2, <1>3, <3>1 DEF RequestRight, RequestInOrder
    <3> QED
      BY <3>1, <3>2, <3>3, JavaRightAfter DEF JavaTasks
  <2>2. CASE ~hdl[idx].performed
    <3>1. /\ task = "adding" /\ task' \in {"adding", "starting"} /\ hdl' = [hdl EXCEPT ![idx] = h]
          /\ idx' \in Requests /\ (task' = "starting" => idx' = 1)
      BY <1>1, <1>4, <2>2, NumRequestsPositive, SMTT(60) DEF JavaSetCallback, Set, Requests
    <3>2. h \in JavaHandles /\ h.state = hdl[idx].state /\ h.future = hdl[idx].future
      BY <1>1, ZenonT(60) DEF JavaHandles
    <3> HIDE DEF h
    <3>3. JavaTypes'
      BY <1>1, <1>2, <3>1, <3>2 DEF JavaTypes
    <3>4. \A r \in Requests : hdl'[r].state = hdl[r].state /\ hdl'[r].future = hdl[r].future
      BY <1>1, <3>1, <3>2 DEF JavaTypes
    <3>5. \A r \in Requests : ~(r < 1)
      BY DEF Requests
    <3>6. \A r \in Requests : RequestRight(r)'
      BY <1>2, <1>3, <3>1, <3>4, <3>5, SMTT(60) DEF RequestRight, RequestInOrder
    <3> QED
      BY <3>1, <3>3, <3>6, JavaRightAfter DEF JavaTasks
  <2> QED
    BY <2>1, <2>2
<1>5. CASE JavaPerformRequest
  <2> DEFINE h == [hdl[idx] EXCEPT !.state = "BEFORE_RESPONSE_HEADERS", !.work = "queued",
                                   !.future = TRUE]
  <2>1. CASE hdl[idx].state # "NOT_STARTED"
    <3>1. task = "starting" /\ task' = "crashed" /\ UNCHANGED <<hdl, idx>>
      BY <1>5, <2>1 DEF JavaPerformRequest
    <3>2. JavaTypes'
      BY <1>1, <1>2, <3>1 DEF JavaTypes
    <3>3. \A r \in Requests : RequestRight(r)'
      BY <1>2, <1>3, <3>1 DEF RequestRight, RequestInOrder
    <3> QED
      BY <3>1, <3>2, <3>3, JavaRightAfter DEF JavaTasks
  <2>2. CASE hdl[idx].state = "NOT_STARTED"
    <3>1. /\ task = "starting" /\ hdl' = [hdl EXCEPT ![idx] = h]
          /\ IF idx < NumRequests THEN task' = "starting" /\ idx' = idx + 1
             ELSE task' = "awaiting" /\ idx' = 1
      BY <1>5, <2>2 DEF JavaPerformRequest, Set
    <3>2. h \in JavaHandles /\ h.state = "BEFORE_RESPONSE_HEADERS" /\ h.future
      BY <1>1, ZenonT(60) DEF JavaHandles
    <3> HIDE DEF h
    <3>3. idx' \in Requests /\ task' \in {"starting", "awaiting"}
      BY <1>1, <3>1, NumRequestsPositive DEF Requests
    <3>4. JavaTypes'
      BY <1>1, <1>2, <3>1, <3>2, <3>3 DEF JavaTypes
    <3>5. hdl'[idx] = h /\ \A r \in Requests : r # idx => hdl'[r] = hdl[r]
      BY <1>1, <3>1 DEF JavaTypes
    <3>6. run # "done"
      BY <1>1, <2>2 DEF RequestRight
    <3>7. ASSUME NEW r \in Requests, r = idx
          PROVE  RequestRight(r)'
      <4>1. hdl'[r].state = "BEFORE_RESPONSE_HEADERS" /\ hdl'[r].future
        BY <3>2, <3>5, <3>7
      <4>2. RequestInOrder(r) /\ hdl[r].state = "NOT_STARTED"
        BY <1>3, <2>2, <3>7 DEF RequestRight
      <4>3. RequestInOrder(r)'
        BY <1>2, <4>1, <4>2, SMTT(60) DEF RequestInOrder
      <4>4. task' = "awaiting" => ~(r < idx')
        BY <3>1 DEF Requests
      <4> QED
        BY <1>2, <3>3, <3>6, <4>1, <4>3, <4>4 DEF RequestRight
    <3>8. ASSUME NEW r \in Requests, r # idx
          PROVE  RequestRight(r)'
      <4>1. hdl'[r] = hdl[r] /\ RequestInOrder(r) /\ RequestInOrder(r)'
        BY <1>2, <1>3, <3>5, <3>8 DEF RequestRight, RequestInOrder
      <4>2. task' = "starting" => (r < idx' => hdl[r].state # "NOT_STARTED")
        BY <1>1, <1>3, <3>1, <3>8, NumRequestsPositive DEF RequestRight, Requests
      <4>3. task' = "awaiting" => hdl[r].state # "NOT_STARTED" /\ ~(r < idx')
        BY <1>1, <1>3, <3>1, <3>8, NumRequestsPositive DEF RequestRight, Requests
      <4> QED
        BY <1>2, <3>3, <3>6, <4>1, <4>2, <4>3 DEF RequestRight
    <3> QED
      BY <3>3, <3>4, <3>7, <3>8, JavaRightAfter DEF JavaTasks
  <2> QED
    BY <2>1, <2>2
<1>6. CASE JavaAwait
  <2>1. /\ task = "awaiting" /\ ~hdl[idx].future /\ UNCHANGED hdl
        /\ IF idx < NumRequests THEN idx' = idx + 1 /\ task' = "awaiting"
           ELSE task' = "ok" /\ idx' = idx
    BY <1>6 DEF JavaAwait
  <2>2. idx' \in Requests /\ task' \in {"awaiting", "ok"}
    BY <1>1, <2>1, NumRequestsPositive DEF Requests
  <2>3. JavaTypes'
    BY <1>1, <1>2, <2>1, <2>2 DEF JavaTypes
  <2>4. ASSUME NEW r \in Requests
        PROVE  RequestRight(r)'
    <3>1. RequestInOrder(r)'
      BY <1>2, <1>3, <2>1 DEF RequestRight, RequestInOrder
    <3>2. hdl[r].state # "NOT_STARTED" /\ (r < idx \/ r = idx => ~hdl[r].future)
      BY <1>3, <2>1 DEF RequestRight
    <3>3. task' = "awaiting" => (r < idx' => ~hdl[r].future)
      BY <1>1, <2>1, <3>2 DEF Requests
    <3>4. task' = "ok" => hdl[r].state = "CLOSED"
      <4>1. task' = "ok" => ~hdl[r].future
        BY <1>1, <2>1, <3>2, NumRequestsPositive DEF Requests
      <4>2. hdl[r] \in JavaHandles /\ RequestInOrder(r)
        BY <1>1, <1>3, Untouched DEF RequestRight
      <4> QED
        BY <3>2, <4>1, <4>2 DEF RequestInOrder, JavaHandles
    <3> QED
      BY <1>2, <1>3, <2>1, <2>2, <3>1, <3>2, <3>3, <3>4 DEF RequestRight
  <2> QED
    BY <2>2, <2>3, <2>4, JavaRightAfter DEF JavaTasks
<1> QED
  BY <1>4, <1>5, <1>6

\* The other steps of the caller; Gather closes what was never started.
LEMMA JavaCallerRight ==
  ASSUME JavaRight, CallerWaits, httpClient = "java",
         Run \/ TakeResult \/ ShouldAbort \/ Abort \/ Gather
  PROVE  JavaRight'
<1>1. JavaTypes /\ \A r \in Requests : RequestRight(r)
  BY JavaRightByRequest
<1>2. UNCHANGED <<reply, wire, cbk, order, idx, target>>
  BY ZenonT(60) DEF Run, TakeResult, ShouldAbort, Abort, Gather, httpCall, callbacks, pool
<1>3. task \in JavaTasks
  BY JavaRightByRequest
<1>4. CASE Run
  <2>1. task = "idle" /\ task' \in {"idle", "adding"} /\ run' # "done" /\ UNCHANGED <<hdl, answers>>
    BY <1>4 DEF Run, CallerWaits
  <2>2. JavaTypes'
    BY <1>1, <1>2, <2>1 DEF JavaTypes
  <2>3. \A r \in Requests : RequestRight(r)'
    BY <1>1, <1>2, <2>1, ZenonT(60) DEF RequestRight, RequestInOrder
  <2> QED
    BY <2>1, <2>2, <2>3, JavaRightAfter DEF JavaTasks
<1>5. CASE TakeResult \/ ShouldAbort \/ Abort
  <2>1. run' # "done" /\ UNCHANGED <<hdl, task, answers>>
    BY <1>5 DEF TakeResult, ShouldAbort, Abort, pool
  <2>2. JavaTypes'
    BY <1>1, <1>2, <2>1 DEF JavaTypes
  <2>3. \A r \in Requests : RequestRight(r)'
    BY <1>1, <1>2, <2>1 DEF RequestRight, RequestInOrder
  <2> QED
    BY <1>3, <2>1, <2>2, <2>3, JavaRightAfter
<1>6. CASE Gather
  <2>1. task \in {"idle", "ok", "invalid_argument"} /\ UNCHANGED task
    BY <1>3, <1>6 DEF Gather, CallerWaits, TaskOver, JavaTasks, pool
  <2>2. \A r \in Requests : /\ hdl'[r] = JavaDelete(hdl[r])
                            /\ answers'[r] = answers[r] \/ answers'[r] = cbk[r].status
    BY <1>6, ZenonT(60) DEF Gather
  <2>3. \A r \in Requests : JavaDelete(hdl[r]) \in JavaHandles /\ JavaDelete(hdl[r]).state = "CLOSED"
    BY <1>1, Untouched DEF JavaDelete, JavaHandles
  <2>4. answers' \in [Requests -> Statuses]
    BY <1>1, <1>6 DEF Gather, JavaTypes, InMemoryCallbacks
  <2>5. hdl' \in [Requests -> JavaHandles]
    <3>1. hdl' = [r \in Requests |-> JavaDelete(hdl[r])]
      BY <1>6 DEF Gather
    <3> QED
      BY <2>3, <3>1
  <2>6. JavaTypes'
    BY <1>1, <1>2, <2>4, <2>5 DEF JavaTypes
  <2>7. ASSUME NEW r \in Requests
        PROVE  RequestRight(r)'
    <3>1. hdl'[r].state = "CLOSED" /\ RequestInOrder(r)
      BY <1>1, <2>2, <2>3 DEF RequestRight
    <3>2. answers'[r] = "ok" => cbk[r].status = "ok"
      BY <2>2, <3>1 DEF RequestInOrder
    <3>3. RequestInOrder(r)'
      BY <1>2, <3>1, <3>2, SMTT(60) DEF RequestInOrder
    <3> QED
      BY <2>1, <3>1, <3>3, SMTT(60) DEF RequestRight
  <2> QED
    BY <1>3, <2>1, <2>6, <2>7, JavaRightAfter
<1> QED
  BY <1>4, <1>5, <1>6

\* Nothing is called back once the caller has gone on.
LEMMA CallerStep ==
  ASSUME CallbackInv, [HttpNext]_httpVars
  PROVE  CallerWaits'
<1> USE DEF CallerWaits
<1>1. CASE UNCHANGED httpVars
  BY <1>1 DEF CallbackInv, httpVars, caller, pool, callbacks, TaskOver
<1>2. ASSUME NEW r \in Requests, httpClient = "java",
             hdl[r].state \in {"BEFORE_RESPONSE_HEADERS", "AFTER_RESPONSE_HEADERS"}
      PROVE  alive
  BY <1>2, JavaRightByRequest, ZenonT(60) DEF CallbackInv, RequestRight
<1>3. ASSUME NEW r, NEW call, NEW ok, NEW new, Called(r, call, ok, new), alive
      PROVE  ~stray'
  BY <1>3, ZenonT(60) DEF Called, CallbackInv
<1>4. CASE CurlAddToMulti
  BY <1>3, <1>4, ZenonT(60)
  DEF CallbackInv, CurlAddToMulti, OnResponseError, caller, callbacks, TaskOver
<1>5. CASE CurlReturn \/ JavaSetCallback \/ JavaPerformRequest \/ JavaAwait
  BY <1>5
  DEF CallbackInv, CurlReturn, JavaSetCallback, JavaPerformRequest, JavaAwait, caller, callbacks, TaskOver
<1>6. ASSUME NEW r \in Requests, CurlUpload(r) \/ CurlHeaders(r) \/ CurlBody(r) \/ CurlMarkAsCompleted(r)
      PROVE  CallerWaits'
  <2>1. alive /\ UNCHANGED <<run, task, alive>>
    BY <1>6, ZenonT(60)
    DEF CallbackInv, CurlUpload, CurlHeaders, CurlBody, CurlMarkAsCompleted, Transferring,
                caller, pool, TaskOver
  <2>2. ~stray'
    BY <1>3, <1>6, <2>1, ZenonT(60)
       DEF CallbackInv, CurlUpload, CurlHeaders, CurlBody, CurlMarkAsCompleted, OnResponseStarted,
           OnResponseBody, OnResponseCompleted, OnResponseError, callbacks
  <2> QED
    BY <2>1, <2>2, ZenonT(60) DEF CallbackInv, TaskOver
<1>7. ASSUME NEW r \in Requests, JavaStart(r) \/ JavaAborts(r) \/ JavaUpload(r)
      PROVE  CallerWaits'
  BY <1>7 DEF CallbackInv, JavaStart, JavaAborts, JavaUpload, caller, pool, callbacks, TaskOver
<1>8. ASSUME NEW r \in Requests, JavaHeaders(r) \/ JavaBody(r) \/ JavaCompletes(r)
      PROVE  CallerWaits'
  <2>1. alive /\ UNCHANGED <<run, task, alive>>
    BY <1>2, <1>8 DEF JavaHeaders, JavaBody, JavaCompletes, Working, caller, pool
  <2>2. ~stray'
    BY <1>3, <1>8, <2>1, ZenonT(60)
       DEF JavaHeaders, JavaBody, JavaCompletes, OnResponseStarted, OnResponseBody, OnResponseCompleted
  <2> QED
    BY <2>1, <2>2, ZenonT(60) DEF CallbackInv, TaskOver
<1>9. ASSUME NEW r \in Requests, NEW s, DoError(r, s), httpClient = "java"
      PROVE  ~stray'
  <2>1. CASE hdl[r].state \in {"BEFORE_RESPONSE_HEADERS", "AFTER_RESPONSE_HEADERS"}
    BY <1>2, <1>3, <1>9, <2>1, ZenonT(60) DEF DoError, OnResponseError, OnResponseBodyError
  <2>2. CASE hdl[r].state \notin {"BEFORE_RESPONSE_HEADERS", "AFTER_RESPONSE_HEADERS"}
    BY <1>9, <2>2 DEF DoError, callbacks, CallbackInv
  <2> QED
    BY <2>1, <2>2
<1>10. ASSUME NEW r \in Requests, JavaFails(r)
       PROVE  CallerWaits'
  <2>1. UNCHANGED <<run, task, alive>> /\ ~stray'
    BY <1>9, <1>10 DEF JavaFails, Working, caller, pool
  <2> QED
    BY <2>1 DEF CallbackInv, TaskOver
<1>11. CASE Run \/ TakeResult \/ ShouldAbort \/ Abort
  BY <1>11 DEF CallbackInv, Run, TakeResult, ShouldAbort, Abort, callbacks, pool, TaskOver
<1>12. CASE Cancel
  <2>1. run = "aborting" /\ run' \in {"aborting", "graceful"} /\ UNCHANGED <<task, alive>>
    BY <1>12 DEF Cancel, pool
  <2>2. alive
    BY <2>1, ZenonT(60) DEF CallbackInv
  <2>3. CASE httpClient = "java"
    <3>1. target \in Requests
      BY <2>3 DEF CallbackInv, JavaRight, JavaTypes
    <3>2. CASE ~closing
      BY <1>12, <2>3, <3>2 DEF Cancel, callbacks, CallbackInv
    <3>3. CASE closing
      <4>1. JavaClose(target)
        BY <1>12, <2>3, <3>3 DEF Cancel
      <4>2. UNCHANGED stray \/ DoError(target, "cancelled")
        BY <4>1 DEF JavaClose, callbacks
      <4>3. ~stray'
        BY <1>9, <2>3, <3>1, <4>2 DEF CallbackInv
      <4> QED
        BY <2>1, <2>2, <4>3, ZenonT(60)
    <3>4. ~stray'
      BY <3>2, <3>3
    <3> QED
      BY <2>1, <2>2, <3>4, ZenonT(60)
  <2>4. CASE httpClient # "java"
    <3>1. CurlCancel(target)
      BY <1>12, <2>4 DEF Cancel
    <3>2. ~stray'
      BY <1>3, <2>2, <3>1, ZenonT(60)
         DEF CurlCancel, OnResponseError, OnResponseBodyError, callbacks, CallbackInv
    <3> QED
      BY <2>1, <2>2, <3>2, ZenonT(60)
  <2> QED
    BY <2>3, <2>4
<1>13. CASE Gather
  <2>1. run = "returned" /\ run' = "done" /\ UNCHANGED task /\ alive' = FALSE
    BY <1>13 DEF Gather, pool
  <2>2. httpClient = "java" => \A r \in Requests : hdl[r].state \in {"NOT_STARTED", "CLOSED"}
    BY <2>1 DEF CallbackInv, JavaRight, TaskInOrder, JavaTasks, TaskOver
  <2>3. ~stray'
    BY <1>13, <2>2 DEF Gather, CallbackInv
  <2> QED
    BY <2>1, <2>3, ZenonT(60) DEF CallbackInv, TaskOver
<1> QED
  BY <1>1, <1>4, <1>5, <1>6, <1>7, <1>8, <1>10, <1>11, <1>12, <1>13 DEF HttpNext, CallerNext

\* The requests stay in order.
LEMMA RequestsStep ==
  ASSUME CallbackInv, [HttpNext]_httpVars, httpClient' = "java"
  PROVE  JavaRight'
<1>1. httpClient = "java"
  BY ZenonT(60)
  DEF HttpNext, CallerNext, httpVars, httpCall, CurlAddToMulti, CurlReturn, JavaSetCallback,
         JavaPerformRequest, JavaAwait, CurlUpload, CurlHeaders, CurlBody, CurlMarkAsCompleted,
         JavaStart, JavaAborts, JavaUpload, JavaHeaders, JavaBody, JavaFails, JavaCompletes,
         Run, TakeResult, ShouldAbort, Cancel, Abort, Gather
<1>2. JavaRight /\ CallerWaits
  BY <1>1 DEF CallbackInv
<1>3. CASE UNCHANGED httpVars
  <2>1. JavaTypes' /\ TaskInOrder' /\ HandlesClosed'
    BY <1>2, <1>3
    DEF httpVars, httpCall, caller, pool, callbacks, JavaRight, JavaTypes, TaskInOrder, HandlesClosed
  <2>2. \A r \in Requests : RequestInOrder(r)'
    BY <1>2, <1>3 DEF httpVars, httpCall, callbacks, JavaRight, RequestInOrder
  <2> QED
    BY <2>1, <2>2 DEF JavaRight
<1>4. CASE CurlAddToMulti \/ CurlReturn
  BY <1>1, <1>4 DEF CurlAddToMulti, CurlReturn
<1>5. CASE JavaSetCallback \/ JavaPerformRequest \/ JavaAwait
  BY <1>2, <1>5, JavaPoolRight
<1>6. ASSUME NEW r \in Requests, CurlUpload(r) \/ CurlHeaders(r) \/ CurlBody(r) \/ CurlMarkAsCompleted(r)
      PROVE  JavaRight'
  BY <1>1, <1>6 DEF CurlUpload, CurlHeaders, CurlBody, CurlMarkAsCompleted, Transferring
<1>7. ASSUME NEW r \in Requests,
             \/ JavaStart(r) \/ JavaAborts(r) \/ JavaUpload(r) \/ JavaHeaders(r)
             \/ JavaBody(r) \/ JavaFails(r) \/ JavaCompletes(r)
      PROVE  JavaRight'
  BY <1>2, <1>7, JavaStartRight, JavaUploadRight, JavaHeadersRight, JavaBodyRight, JavaFailsRight,
     JavaCompletesRight
<1>8. CASE CallerNext
  BY <1>1, <1>2, <1>8, CancelRight, JavaCallerRight DEF CallerNext
<1> QED
  BY <1>3, <1>4, <1>5, <1>6, <1>7, <1>8 DEF HttpNext

\* The invariant holds when the requests are made.
LEMMA CallbackStart == HttpInit => CallbackInv
<1> SUFFICES ASSUME HttpInit PROVE CallbackInv
  OBVIOUS
<1>1. CallerWaits
  BY ZenonT(60) DEF HttpInit, CallerWaits
<1>2. ASSUME httpClient = "java" PROVE JavaRight
  <2>1. JavaHttpRequestHandle \in JavaHandles /\ InMemoryHttpRequestCallback \in InMemoryCallbacks
    BY DEF JavaHttpRequestHandle, JavaHandles, InMemoryHttpRequestCallback, InMemoryCallbacks, Statuses
  <2>2. hdl = [r \in Requests |-> JavaHttpRequestHandle]
    BY <1>2 DEF HttpInit, EnqueueRequest
  <2>3. JavaTypes
    BY <2>1, <2>2, NumRequestsPositive, RepliesTyped
       DEF HttpInit, JavaTypes, Exchanged, Statuses, Requests
  <2>4. \A r \in Requests : RequestRight(r)
    BY <2>2
    DEF HttpInit, RequestRight, RequestInOrder, JavaHttpRequestHandle, InMemoryHttpRequestCallback
  <2>5. task \in JavaTasks
    BY DEF HttpInit, JavaTasks
  <2> QED
    BY <2>3, <2>4, <2>5, JavaRightByRequest
<1> QED
  BY <1>1, <1>2 DEF CallbackInv

\* InterruptibleRunner::Run waits for the pool thread even when it aborts, so
\* that no HttpClient calls a callback that PerformMultipleRequestsInMemory has
\* deleted; the Java client keeps http_client.h's order of calls and completes
\* only whole exchanges, wherever close() comes in: for any number of requests
\* and any replies.
THEOREM CallbacksAlwaysInOrder == HttpSpec => []CallbackContract
<1>1. CallbackInv /\ [HttpNext]_httpVars => CallbackInv'
  BY CallerStep, RequestsStep DEF CallbackInv
<1>2. CallbackInv => CallbackContract
  <2> SUFFICES ASSUME CallbackInv PROVE CallbackContract
    OBVIOUS
  <2>1. ~stray
    BY DEF CallbackInv, CallerWaits
  <2>2. ASSUME httpClient = "java", NEW r \in Requests
        PROVE  order[r] # "broken" /\ Whole(r)
    BY <2>2 DEF CallbackInv, JavaRight, JavaTypes, RequestInOrder, Whole
  <2> QED
    BY <2>1, <2>2 DEF CallbackContract
<1> QED
  BY CallbackStart, <1>1, <1>2, PTL DEF HttpSpec
=============================================================================
