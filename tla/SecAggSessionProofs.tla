-------------------------- MODULE SecAggSessionProofs --------------------------
(* The steps of the server keep the invariant of SecAggSessionInvariant, the      *)
(* masks cancel, and the theorems about a SecAgg session.                         *)
EXTENDS SecAggSessionInvariant

-----------------------------------------------------------------------------
(* The server. *)

\* How the server's sends change the connections.
Sends ==
  /\ toClient' = [c \in Clients |-> toClient'[c]]
  /\ \A c \in Clients : \/ toClient'[c] = toClient[c]
                        \/ \E m \in FromServer(c)' : toClient'[c] = Append(toClient[c], m)

\* A step of the server keeps the invariant when its own state is right afterwards
\* and so are the messages it sends.
LEMMA ServerMoves ==
  ASSUME SessionInv, BooksKept', SumKept', ServerRight', Steady, Sends, client' = client,
         \/ toServer' = toServer
         \/ \E c \in Clients : toServer[c] # << >> /\ toServer' = [toServer EXCEPT ![c] = Tail(@)]
  PROVE  SessionInv'
<1>1. ClientsRight'
  <2>1. ASSUME NEW d \in Clients PROVE ClientRight(d, client[d])'
    <3> PICK q : q = client'[d]
      OBVIOUS
    <3>1. ClientRight(d, q)
      BY DEF SessionInv, ClientsRight
    <3>2. ClientRight(d, q)'
      BY <3>1, ClientStaysRight
    <3> QED
      BY <3>2
  <2>2. client = [d \in Clients |-> client[d]]
    BY DEF SessionInv, ClientsRight
  <2> QED
    BY <2>1, <2>2, ZenonT(60) DEF ClientsRight
<1>2. MessagesRight'
  <2>1. \A d \in Clients : FromServer(d) \subseteq FromServer(d)' /\ FromClient(d) \subseteq FromClient(d)'
    BY SteadyMessages
  <2>2. /\ toServer = [d \in Clients |-> toServer[d]]
        /\ \A d \in Clients : toClient[d] \in Seq(FromServer(d)) /\ toServer[d] \in Seq(FromClient(d))
    BY DEF SessionInv, MessagesRight
  <2>3. /\ toServer' = [d \in Clients |-> toServer'[d]]
        /\ \A d \in Clients : toServer'[d] = toServer[d] \/ (toServer[d] # << >> /\ toServer'[d] = Tail(toServer[d]))
    BY <2>2, SMTT(60)
  <2>4. ASSUME NEW d \in Clients PROVE toServer'[d] \in Seq(FromClient(d)')
    <3>1. toServer[d] \in Seq(FromClient(d)) /\ FromClient(d) \subseteq FromClient(d)'
      BY <2>1, <2>2
    <3>2. /\ toServer[d] \in Seq(FromClient(d)')
          /\ toServer[d] # << >> => Tail(toServer[d]) \in Seq(FromClient(d)')
      BY <3>1, Queues
    <3> QED
      BY <2>3, <3>2
  <2>5. ASSUME NEW d \in Clients PROVE toClient'[d] \in Seq(FromServer(d)')
    <3>1. toClient[d] \in Seq(FromServer(d)) /\ FromServer(d) \subseteq FromServer(d)'
      BY <2>1, <2>2
    <3>2. /\ toClient[d] \in Seq(FromServer(d)')
          /\ \A m \in FromServer(d)' : Append(toClient[d], m) \in Seq(FromServer(d)')
      BY <3>1, Queues
    <3> QED
      BY <3>2 DEF Sends
  <2> QED
    BY <2>3, <2>4, <2>5 DEF MessagesRight, Sends
<1> QED
  BY <1>1, <1>2 DEF SessionInv

\* A step that leaves inputs, tables and results alone keeps what is known of them.
LEMMA QuietRight ==
  ASSUME SessionInv, Steady, maskedInput' = maskedInput, UNCHANGED <<tables, prng>>,
         \/ state' = state
         \/ state' \in {"COMPLETED", "ABORTED"}
         \/ state = "R0_ADVERTISE_KEYS" /\ state' = "R1_SHARE_KEYS"
         \/ state = "R1_SHARE_KEYS" /\ state' = "R2_MASKED_INPUT_COLLECTION"
  PROVE  InputsRight' /\ TablesRight' /\ KeysRight' /\ ResultRight'
<1>1. Summed' = Summed
  BY DEF Summed
<1>2. PastRound1 => /\ PastRound1' /\ Forwarded' = Forwarded
                    /\ \A c \in Clients : MasksOf(c)' = MasksOf(c)
                    /\ KeysFound' = KeysFound
  BY <1>1, SMTT(60) DEF Steady, MasksOf, MaskOf, KeysFound, Lost
<1>3. InputsRight'
  BY <1>2, SMTT(60) DEF SessionInv, ServerRight, InputsRight
<1>4. TablesRight'
  BY SMTT(60) DEF SessionInv, ServerRight, TablesRight, Holds, tables
<1>5. KeysRight'
  BY <1>2, SMTT(60) DEF SessionInv, ServerRight, KeysRight, prng, PastRound1
<1>6. ResultRight'
  BY <1>1, SMTT(60) DEF SessionInv, ServerRight, ResultRight, prng, Rounds
<1> QED
  BY <1>3, <1>4, <1>5, <1>6

\* Abort messages without a promise may always be sent.
LEMMA AbortsSent ==
  ASSUME NEW c \in Clients
  PROVE  AbortMessage(FALSE) \in FromServer(c)'
<1>1. FALSE \in {e \in BOOLEAN : e => maskedInput[c] # None}'
  BY ZenonT(60)
<1> QED
  BY <1>1, ZenonT(60) DEF AbortMessage, FromServer

\* What Send does with messages that may be sent.
LEMMA SendSends ==
  ASSUME NEW out, Send(out),
         \A c \in Clients \cap DOMAIN out : out[c] \in FromServer(c)'
  PROVE  Sends
BY SMTT(60) DEF Send, Sends

\* The abort that every client gets when the session fails.
LEMMA BroadcastSends == SendBroadcast(AbortMessage(FALSE)) => Sends
<1> SUFFICES ASSUME SendBroadcast(AbortMessage(FALSE)) PROVE Sends
  OBVIOUS
<1> PICK out : out = [c \in {d \in Clients : ~IsClientDead(d)} |-> AbortMessage(FALSE)]
  BY ZenonT(60)
<1>1. Send(out)
  BY DEF SendBroadcast
<1>2. \A c \in Clients \cap DOMAIN out : out[c] \in FromServer(c)'
  BY AbortsSent, ZenonT(60)
<1> QED
  BY <1>1, <1>2, SendSends, ZenonT(60)

\* EraseShareKeys keeps the shares on file those of the clients that have answered.
LEMMA AbortClientFiles ==
  ASSUME SessionInv, NEW c \in Clients, NEW reason, NEW notify, AbortClient(c, reason, notify)
  PROVE  SharesFiled'
<1>1. CASE IsClientDead(c)
  BY <1>1, SMTT(60) DEF AbortClient, vars, serverVars, round, keyData, SessionInv, ServerRight, SharesFiled
<1>2. CASE ~IsClientDead(c)
  <2>1. state' = state /\ HandleAbortClient({c}, reason)
    BY <1>2, SMTT(60) DEF AbortClient
  <2>2. CASE state = "R0_ADVERTISE_KEYS"
    <3>1. encryptedShares' = encryptedShares
      BY <2>1, <2>2, SMTT(60) DEF HandleAbortClient, R0HandleAbortClient
    <3> QED
      BY <2>1, <2>2, <3>1, SMTT(60) DEF SessionInv, ServerRight, SharesFiled
  <2>3. CASE state = "R1_SHARE_KEYS"
    <3> PICK S : S = {d \in {c} : status[d] = "SHARE_KEYS_RECEIVED"}
      BY ZenonT(60)
    <3>1. EraseShareKeys(S) /\ SetStatus({c}, "DEAD_AFTER_ADVERTISE_KEYS_RECEIVED")
      BY <2>1, <2>3 DEF HandleAbortClient, R1HandleAbortClient
    <3>2. status \in [Clients -> ClientStatus]
      BY DEF SessionInv, BooksKept, TypeOK
    <3>3. /\ \A d \in Clients \ {c} : status'[d] = status[d]
          /\ status'[c] = "DEAD_AFTER_ADVERTISE_KEYS_RECEIVED" /\ status[c] # "DEAD_BEFORE_SENDING_ANYTHING"
      BY <1>2, <3>1, <3>2, SMTT(60) DEF SetStatus, IsClientDead, Dead, DeadBefore
    <3>4. encryptedShares' = [n \in Clients |-> [k \in Indices |->
             IF \E d \in S, i \in Indices : Neighbor(d, i) = n /\ IndexOf(n, d) = k
               THEN None ELSE encryptedShares[n][k]]]
      BY <3>1 DEF EraseShareKeys
    <3>5. ASSUME NEW n \in Clients, NEW k \in Indices
          PROVE  encryptedShares'[n][k] = IF Neighbor(n, k) = c /\ status[c] = "SHARE_KEYS_RECEIVED"
                                            THEN None ELSE encryptedShares[n][k]
      <4>1. (\E d \in S, i \in Indices : Neighbor(d, i) = n /\ IndexOf(n, d) = k)
               <=> Neighbor(n, k) = c /\ status[c] = "SHARE_KEYS_RECEIVED"
        BY Filing
      <4>2. encryptedShares'[n][k] = IF \E d \in S, i \in Indices : Neighbor(d, i) = n /\ IndexOf(n, d) = k
               THEN None ELSE encryptedShares[n][k]
        BY <3>4
      <4> QED
        BY <4>1, <4>2
    <3>6. encryptedShares' = [n \in Clients |-> [k \in Indices |-> encryptedShares'[n][k]]]
      BY <3>4, SMTT(60)
    <3>7. ASSUME NEW n \in Clients, NEW k \in Indices
          PROVE  /\ encryptedShares'[n][k] \in {None, SealedShare(n, k)}
                 /\ encryptedShares'[n][k] # None <=>
                      /\ Neighbor(n, k) # n /\ status'[n] # "DEAD_BEFORE_SENDING_ANYTHING"
                      /\ status'[Neighbor(n, k)] = "SHARE_KEYS_RECEIVED"
      <4>1. /\ encryptedShares[n][k] \in {None, SealedShare(n, k)}
            /\ encryptedShares[n][k] # None <=>
                 /\ Neighbor(n, k) # n /\ status[n] # "DEAD_BEFORE_SENDING_ANYTHING"
                 /\ status[Neighbor(n, k)] = "SHARE_KEYS_RECEIVED"
        BY <2>3 DEF SessionInv, ServerRight, SharesFiled
      <4>2. Neighbor(n, k) \in Clients
        BY Edges
      <4> QED
        BY <3>3, <3>5, <4>1, <4>2, SMTT(60)
    <3> QED
      BY <2>1, <2>3, <3>6, <3>7 DEF SharesFiled
  <2>4. CASE state \notin {"R0_ADVERTISE_KEYS", "R1_SHARE_KEYS"}
    BY <2>1, <2>4, SMTT(60) DEF SharesFiled
  <2> QED
    BY <2>2, <2>3, <2>4
<1> QED
  BY <1>1, <1>2

\* AbortClient keeps the server's state right and sends at most an abort.
LEMMA AbortClientRight ==
  ASSUME SessionInv, NEW c \in Clients, NEW reason, NEW notify, reason # "EARLY_SUCCESS",
         AbortClient(c, reason, notify)
  PROVE  ServerRight' /\ Steady /\ Sends
<1>1. Steady
  BY AbortClientSteady DEF SessionInv
<1>2. /\ state' = state /\ maskedInput' = maskedInput /\ UNCHANGED <<tables, prng>>
  <2>1. CASE IsClientDead(c)
    <3>1. UNCHANGED vars
      BY <2>1, ZenonT(60) DEF AbortClient
    <3> QED
      BY <3>1 DEF vars, serverVars, round, inputs
  <2>2. CASE ~IsClientDead(c)
    <3>1. UNCHANGED <<state, messages, inputs, tables, prng>>
      BY <2>2, ZenonT(60) DEF AbortClient
    <3> QED
      BY <3>1 DEF inputs
  <2> QED
    BY <2>1, <2>2
<1>3. InputsRight' /\ TablesRight' /\ KeysRight' /\ ResultRight'
  BY <1>1, <1>2, QuietRight
<1>4. Sends
  <2>1. CASE toClient' = toClient
    BY <2>1, SMTT(60) DEF Sends, SessionInv, MessagesRight
  <2>2. CASE toClient' # toClient
    <3> PICK out : out = [d \in {c} |-> AbortMessage(reason = "EARLY_SUCCESS")]
      BY ZenonT(60)
    <3>1. Send(out)
      BY <2>2 DEF AbortClient, vars
    <3>2. out[c] = AbortMessage(FALSE) /\ DOMAIN out = {c}
      BY ZenonT(60)
    <3>3. \A d \in Clients \cap DOMAIN out : out[d] \in FromServer(d)'
      BY <3>2, AbortsSent, ZenonT(60)
    <3> QED
      BY <3>1, <3>3, SendSends
  <2> QED
    BY <2>1, <2>2
<1> QED
  BY <1>1, <1>3, <1>4, AbortClientFiles DEF ServerRight

\* What is known of a message by its type.
LEMMA ClientMessages ==
  ASSUME NEW c \in Clients, NEW m \in FromClient(c)
  PROVE  /\ m.type = "share_keys_response" => m.shares \in MadeShares(c)
         /\ m.type = "masked_input_response" => m.masks \in InputMasks(c)
         /\ m.type = "unmasking_response" => m.shares \in OpenShares(c)
<1>1. CASE m \in [type : {"abort"}] \/ m \in [type : {"advertise_keys"}, wellFormed : {TRUE}]
  BY <1>1, ZenonT(60)
<1>2. CASE m \in [type : {"share_keys_response"}, shares : MadeShares(c)]
  BY <1>2, ZenonT(60)
<1>3. CASE m \in [type : {"masked_input_response"}, wellFormed : {TRUE}, masks : InputMasks(c)]
  BY <1>3, ZenonT(60)
<1>4. CASE m \in [type : {"unmasking_response"}, kinds : [Indices -> {"none", "noise", "prf"}],
                 shares : OpenShares(c)]
  BY <1>4, ZenonT(60)
<1> QED
  BY <1>1, <1>2, <1>3, <1>4, ZenonT(60) DEF FromClient

\* No client's masks are taken for a missing input.
LEMMA MasksNotNone == \A c \in Clients : MasksOf(c) # None
<1> TAKE c \in Clients
<1>1. \A k \in Indices : MaskOf(c, k) \in {1, -1} \X {{c, d} : d \in Clients}
  BY Edges, SMTT(60) DEF MaskOf
<1>2. <<1, {c}>> \in {1, -1} \X {{c, d} : d \in Clients}
  <2>1. {c} = {c, c}
    OBVIOUS
  <2> QED
    BY <2>1, SMTT(60)
<1>3. MasksOf(c) \in SUBSET ({1, -1} \X {{c, d} : d \in Clients})
  BY <1>1, <1>2, SMTT(60) DEF MasksOf
<1> QED
  BY <1>3, NoneAssumption, ZenonT(60)

\* HandleShareKeysResponse files each share under the neighbor it is for, at the
\* index that the sender has there.
LEMMA AcceptShareKeysFiles ==
  ASSUME SessionInv, NEW c \in Clients, NEW m \in FromClient(c), AcceptShareKeysResponse(c, m)
  PROVE  SharesFiled'
<1>1. /\ state = "R1_SHARE_KEYS" /\ state' = state
      /\ status[c] = "ADVERTISE_KEYS_RECEIVED" /\ m.type = "share_keys_response"
      /\ status' = [status EXCEPT ![c] = "SHARE_KEYS_RECEIVED"]
      /\ IsValid(c, m)
  <2>1. /\ state = "R1_SHARE_KEYS" /\ state' = state /\ IsValid(c, m)
        /\ status[c] = Awaited[state] /\ m.type = Answer[state]
        /\ status' = [status EXCEPT ![c] = Answered[state]]
    BY ZenonT(60) DEF AcceptShareKeysResponse, Accept
  <2> QED
    BY <2>1, RoundStatuses, ZenonT(60) DEF Answer
<1>2. \A k \in Indices : m.shares[k] = None
                <=> \/ Neighbor(c, k) = c
                    \/ status[Neighbor(c, k)] = "DEAD_BEFORE_SENDING_ANYTHING"
  BY <1>1, ZenonT(60) DEF IsValid
<1>3. m.shares \in MadeShares(c)
  BY <1>1, ClientMessages
<1>4. encryptedShares' =
       [n \in Clients |-> [k \in Indices |->
          IF \E i \in Indices : Neighbor(c, i) = n /\ IndexOf(n, c) = k
            THEN m.shares[IndexOf(c, n)] ELSE encryptedShares[n][k]]]
  BY DEF AcceptShareKeysResponse
<1>5. encryptedShares' = [n \in Clients |-> [k \in Indices |-> encryptedShares'[n][k]]]
  BY <1>4, SMTT(60)
<1>6. ASSUME NEW n \in Clients, NEW k \in Indices
      PROVE  encryptedShares'[n][k] = IF Neighbor(n, k) = c THEN m.shares[IndexOf(c, n)]
                                      ELSE encryptedShares[n][k]
  <2>1. (\E i \in Indices : Neighbor(c, i) = n /\ IndexOf(n, c) = k) <=> Neighbor(n, k) = c
    BY Filing
  <2>2. encryptedShares'[n][k] = IF \E i \in Indices : Neighbor(c, i) = n /\ IndexOf(n, c) = k
            THEN m.shares[IndexOf(c, n)] ELSE encryptedShares[n][k]
    BY <1>4
  <2> QED
    BY <2>1, <2>2
<1>7. /\ status \in [Clients -> ClientStatus]
      /\ status'[c] = "SHARE_KEYS_RECEIVED" /\ \A d \in Clients \ {c} : status'[d] = status[d]
  BY <1>1, SMTT(60) DEF SessionInv, BooksKept, TypeOK
<1>8. ASSUME NEW n \in Clients, NEW k \in Indices
      PROVE  /\ encryptedShares'[n][k] \in {None, SealedShare(n, k)}
             /\ encryptedShares'[n][k] # None <=>
                  /\ Neighbor(n, k) # n /\ status'[n] # "DEAD_BEFORE_SENDING_ANYTHING"
                  /\ status'[Neighbor(n, k)] = "SHARE_KEYS_RECEIVED"
  <2>1. CASE Neighbor(n, k) = c
    <3> PICK i : i = IndexOf(c, n)
      OBVIOUS
    <3>1. i \in Indices /\ Neighbor(c, i) = n /\ encryptedShares'[n][k] = m.shares[i]
      BY <1>6, <2>1, Filing
    <3>2. m.shares[i] \in {None, MadeShare(c, i)}
      BY <1>3, <3>1, SMTT(60) DEF MadeShares
    <3>3. MadeShare(c, i) = SealedShare(n, k)
      BY <2>1, <3>1 DEF MadeShare, SealedShare
    <3>4. m.shares[i] = None <=> n = c \/ status[n] = "DEAD_BEFORE_SENDING_ANYTHING"
      BY <1>2, <3>1
    <3>5. status'[n] = "DEAD_BEFORE_SENDING_ANYTHING" <=> status[n] = "DEAD_BEFORE_SENDING_ANYTHING"
      BY <1>1, <1>7
    <3> QED
      BY <1>7, <2>1, <3>1, <3>2, <3>3, <3>4, <3>5
  <2>2. CASE Neighbor(n, k) # c
    <3>1. /\ encryptedShares[n][k] \in {None, SealedShare(n, k)}
          /\ encryptedShares[n][k] # None <=>
               /\ Neighbor(n, k) # n /\ status[n] # "DEAD_BEFORE_SENDING_ANYTHING"
               /\ status[Neighbor(n, k)] = "SHARE_KEYS_RECEIVED"
      BY <1>1 DEF SessionInv, ServerRight, SharesFiled
    <3>2. Neighbor(n, k) \in Clients
      BY Edges
    <3>3. status'[n] = "DEAD_BEFORE_SENDING_ANYTHING" <=> status[n] = "DEAD_BEFORE_SENDING_ANYTHING"
      BY <1>1, <1>7
    <3> QED
      BY <1>6, <1>7, <2>2, <3>1, <3>2, <3>3
  <2> QED
    BY <2>1, <2>2
<1> QED
  BY <1>1, <1>5, <1>8 DEF SharesFiled

\* HandleUnmaskingResponse files a share of n's key at the index it was made for.
LEMMA FileSharesHolds ==
  ASSUME NEW c \in Clients, NEW m, m.shares \in OpenShares(c),
         NEW table, DOMAIN table \subseteq Clients, Holds(table), NEW kind
  PROVE  Holds(FileShares(table, c, m, kind))
<1> PICK filed : filed = FileShares(table, c, m, kind)
  OBVIOUS
<1>1. filed = [n \in DOMAIN table |-> [k \in Indices |->
         IF \E i \in Indices : /\ Neighbor(c, i) = n /\ IndexOf(n, c) = k
                               /\ m.kinds[i] = kind
           THEN m.shares[IndexOf(c, n)] ELSE table[n][k]]]
  BY DEF FileShares
<1>2. ASSUME NEW n \in DOMAIN table, NEW k \in Indices
      PROVE  filed[n][k] \in {None, [of |-> n, at |-> k]}
  <2>1. CASE Neighbor(n, k) = c
    <3> PICK i : i = IndexOf(c, n)
      OBVIOUS
    <3>1. i \in Indices /\ Neighbor(c, i) = n /\ IndexOf(n, c) = k
      BY <2>1, Filing, Edges
    <3>2. m.shares[i] \in {None, OpenShare(c, i)}
      BY <3>1, SMTT(60) DEF OpenShares
    <3>3. OpenShare(c, i) = [of |-> n, at |-> k]
      BY <3>1 DEF OpenShare
    <3>4. table[n][k] \in {None, [of |-> n, at |-> k]}
      BY DEF Holds
    <3>5. filed[n][k] \in {m.shares[i], table[n][k]}
      BY <1>1, SMTT(60)
    <3> QED
      BY <3>2, <3>3, <3>4, <3>5
  <2>2. CASE Neighbor(n, k) # c
    <3>1. ~ \E i \in Indices : Neighbor(c, i) = n /\ IndexOf(n, c) = k
      BY <2>2, Filing
    <3>2. filed[n][k] = table[n][k]
      BY <1>1, <3>1, SMTT(60)
    <3> QED
      BY <3>2 DEF Holds
  <2> QED
    BY <2>1, <2>2
<1>3. DOMAIN filed = DOMAIN table
  BY <1>1
<1> QED
  BY <1>2, <1>3 DEF Holds

\* ... in both tables.
LEMMA AcceptUnmaskingTables ==
  ASSUME SessionInv, NEW c \in Clients, NEW m \in FromClient(c), AcceptUnmaskingResponse(c, m)
  PROVE  TablesRight'
<1>1. /\ state = "R3_UNMASKING" /\ m.type = "unmasking_response"
      /\ pairwiseTable' = FileShares(pairwiseTable, c, m, "noise")
      /\ selfTable' = FileShares(selfTable, c, m, "prf")
  <2>1. /\ state = "R3_UNMASKING"
        /\ pairwiseTable' = FileShares(pairwiseTable, c, m, "noise")
        /\ selfTable' = FileShares(selfTable, c, m, "prf")
    BY ZenonT(60) DEF AcceptUnmaskingResponse
  <2>2. m.type = Answer[state]
    BY ZenonT(60) DEF AcceptUnmaskingResponse, Accept
  <2> QED
    BY <2>1, <2>2 DEF Answer
<1>2. m.shares \in OpenShares(c)
  BY <1>1, ClientMessages
<1>3. /\ Holds(pairwiseTable) /\ Holds(selfTable)
      /\ DOMAIN pairwiseTable \subseteq Clients /\ DOMAIN selfTable \subseteq Clients
  BY <1>1, SMTT(60) DEF SessionInv, ServerRight, TablesRight, SumKept, With
<1> PICK p, t : p = FileShares(pairwiseTable, c, m, "noise") /\ t = FileShares(selfTable, c, m, "prf")
  OBVIOUS
<1>4. Holds(p) /\ Holds(t)
  BY <1>2, <1>3, FileSharesHolds
<1>5. pairwiseTable' = p /\ selfTable' = t
  BY <1>1
<1> QED
  BY <1>4, <1>5, SMTT(60) DEF TablesRight, Holds

\* Every message that the server receives keeps the invariant.
LEMMA ServerReceiveKeeps ==
  ASSUME SessionInv, NEW c \in Clients, ServerReceive(c)
  PROVE  SessionInv'
<1> PICK m : m = Head(toServer[c])
  OBVIOUS
<1>1. /\ toServer[c] # << >> /\ ReceiveMessage(c, m) /\ client' = client
      /\ toServer' = [toServer EXCEPT ![c] = Tail(@)]
  BY DEF ServerReceive
<1>2. m \in FromClient(c)
  <2>1. toServer[c] \in Seq(FromClient(c))
    BY DEF SessionInv, MessagesRight
  <2> QED
    BY <1>1, <2>1, HeadTailProperties
<1>3. m.type = "masked_input_response" => m.masks = MasksOf(c) /\ PastRound1 /\ m.masks # None
  BY <1>2, ClientMessages, MasksNotNone DEF InputMasks
<1>4. BooksKept' /\ SumKept' /\ Steady
  <2>1. BooksKept /\ SumKept
    BY DEF SessionInv
  <2>2. BooksKept'
    BY <1>1, <2>1, ReceiveMessageKeeps
  <2>3. SumKept'
    BY <1>1, <1>3, <2>1, SumReceive
  <2>4. Steady
    BY <1>1, <1>3, <2>1, AcceptSteady
  <2> QED
    BY <2>2, <2>3, <2>4
<1>5. ASSUME ServerRight', Sends PROVE SessionInv'
  BY <1>1, <1>4, <1>5, ServerMoves, ZenonT(60)
<1>6. ASSUME toClient' = toClient PROVE Sends
  BY <1>6, SMTT(60) DEF Sends, SessionInv, MessagesRight
<1>7. CASE ReceiveAbort(c, m)
  BY <1>5, <1>7, AbortClientRight, ZenonT(60) DEF ReceiveAbort
<1>8. CASE RejectMessage(c, m)
  BY <1>5, <1>8, AbortClientRight, ZenonT(60) DEF RejectMessage
<1>9. CASE AcceptAdvertiseKeys(c, m)
  <2>1. /\ state = "R0_ADVERTISE_KEYS" /\ state' = state /\ encryptedShares' = encryptedShares
        /\ maskedInput' = maskedInput /\ UNCHANGED <<tables, prng>> /\ toClient' = toClient
    BY <1>9, SMTT(60) DEF AcceptAdvertiseKeys, Accept, inputs
  <2>2. SharesFiled'
    BY <2>1, SMTT(60) DEF SessionInv, ServerRight, SharesFiled
  <2> QED
    BY <1>4, <1>5, <1>6, <2>1, <2>2, QuietRight DEF ServerRight
<1>10. CASE AcceptShareKeysResponse(c, m)
  <2>1. /\ state' = state
        /\ maskedInput' = maskedInput /\ UNCHANGED <<tables, prng>> /\ toClient' = toClient
    BY <1>10, SMTT(60) DEF AcceptShareKeysResponse, Accept, inputs
  <2>2. SharesFiled'
    BY <1>2, <1>10, AcceptShareKeysFiles
  <2> QED
    BY <1>4, <1>5, <1>6, <2>1, <2>2, QuietRight DEF ServerRight
<1>11. CASE AcceptMaskedInput(c, m)
  <2>1. /\ state = "R2_MASKED_INPUT_COLLECTION" /\ state' = state
        /\ maskedInput' = [maskedInput EXCEPT ![c] = m.masks]
        /\ toClient' = toClient /\ result' = result /\ m.type = "masked_input_response"
    BY <1>11, SMTT(60) DEF AcceptMaskedInput, Accept, prng, Answer
  <2>2. SharesFiled' /\ TablesRight' /\ KeysRight'
    BY <2>1, SMTT(60) DEF SharesFiled, TablesRight, KeysRight
  <2>3. InputsRight'
    <3>1. PastRound1 /\ PastRound1' /\ \A d \in Clients : MasksOf(d)' = MasksOf(d)
      BY <1>4, <2>1, SMTT(60) DEF Steady, MasksOf, MaskOf, PastRound1
    <3>2. maskedInput'[c] = MasksOf(c) /\ \A d \in Clients \ {c} : maskedInput'[d] = maskedInput[d]
      BY <1>3, <2>1 DEF SessionInv, SumKept
    <3> QED
      BY <3>1, <3>2 DEF SessionInv, ServerRight, InputsRight
  <2>4. ResultRight'
    BY <2>1, SMTT(60) DEF SessionInv, ServerRight, ResultRight, Rounds
  <2> QED
    BY <1>5, <1>6, <2>1, <2>2, <2>3, <2>4 DEF ServerRight
<1>12. CASE AcceptUnmaskingResponse(c, m)
  <2>1. /\ state = "R3_UNMASKING" /\ state' = state /\ maskedInput' = maskedInput
        /\ toClient' = toClient /\ result' = result
    BY <1>12, SMTT(60) DEF AcceptUnmaskingResponse, Accept, prng, inputs
  <2>2. SharesFiled' /\ KeysRight'
    BY <2>1, SMTT(60) DEF SharesFiled, KeysRight
  <2>3. TablesRight'
    BY <1>2, <1>12, AcceptUnmaskingTables
  <2>4. InputsRight'
    BY <1>4, <2>1, SMTT(60) DEF SessionInv, ServerRight, InputsRight, Steady, MasksOf, MaskOf, PastRound1
  <2>5. ResultRight'
    BY <2>1, SMTT(60) DEF SessionInv, ServerRight, ResultRight, Rounds
  <2> QED
    BY <1>5, <1>6, <2>1, <2>2, <2>3, <2>4, <2>5 DEF ServerRight
<1> QED
  BY <1>1, <1>7, <1>8, <1>9, <1>10, <1>11, <1>12 DEF ReceiveMessage

-----------------------------------------------------------------------------
(* The masks cancel. *)

Sign(c, d) == IF IndexOf(c, d) < Own(c) THEN 1 ELSE -1
Opposite(s) == IF s = 1 THEN -1 ELSE 1
Adjacent(c, d) == AreNeighbors(Graph, c, d)

\* The ways in which a mask can be taken off, on both its sides.
LEMMA CoefficientZero ==
  ASSUME NEW mask, NEW S, NEW s \in {1, -1}, NEW A, NEW B,
         A = {c \in S : <<s, mask>> \in maskedInput[c]},
         B = {c \in S : <<Opposite(s), mask>> \in maskedInput[c]},
         \/ /\ A = {} /\ B = {}
            /\ <<s, mask>> \notin prngKeys /\ <<Opposite(s), mask>> \notin prngKeys
         \/ /\ \E x : A = {x}
            /\ B = {}
            /\ <<s, mask>> \notin prngKeys /\ <<Opposite(s), mask>> \in prngKeys
         \/ /\ \E x : A = {x}
            /\ \E y : B = {y}
            /\ <<s, mask>> \notin prngKeys /\ <<Opposite(s), mask>> \notin prngKeys
  PROVE  Coefficient(mask, S) = 0
<1> DEFINE K(t) == {<<t, mask>>} \cap prngKeys
<1>1. \A t : /\ <<t, mask>> \in prngKeys => Cardinality(K(t)) = 1
             /\ <<t, mask>> \notin prngKeys => Cardinality(K(t)) = 0
  <2> TAKE t
  <2>1. CASE <<t, mask>> \in prngKeys
    <3>1. K(t) = {<<t, mask>>}
      BY <2>1
    <3> QED
      BY <2>1, <3>1, FS_Singleton, ZenonT(60)
  <2>2. CASE <<t, mask>> \notin prngKeys
    <3>1. K(t) = {}
      BY <2>2
    <3> QED
      BY <2>2, <3>1, FS_EmptySet, ZenonT(60)
  <2> QED
    BY <2>1, <2>2
<1> HIDE DEF K
<1>2. Cardinality({}) = 0 /\ \A x : Cardinality({x}) = 1
  BY FS_Singleton, FS_EmptySet, ZenonT(60)
<1>3. \/ /\ Cardinality(A) = 0 /\ Cardinality(B) = 0
         /\ Cardinality(K(s)) = 0 /\ Cardinality(K(Opposite(s))) = 0
      \/ /\ Cardinality(A) = 1 /\ Cardinality(B) = 0
         /\ Cardinality(K(s)) = 0 /\ Cardinality(K(Opposite(s))) = 1
      \/ /\ Cardinality(A) = 1 /\ Cardinality(B) = 1
         /\ Cardinality(K(s)) = 0 /\ Cardinality(K(Opposite(s))) = 0
  BY <1>1, <1>2, ZenonT(60)
<1>4. Coefficient(mask, S) =
        (Cardinality({c \in S : <<1, mask>> \in maskedInput[c]}) + Cardinality(K(1)))
        - (Cardinality({c \in S : <<-1, mask>> \in maskedInput[c]}) + Cardinality(K(-1)))
  BY DEF Coefficient, K
<1>5. CASE s = 1
  BY <1>3, <1>4, <1>5 DEF Opposite
<1>6. CASE s = -1
  BY <1>3, <1>4, <1>6 DEF Opposite
<1> QED
  BY <1>5, <1>6

\* The masks on the input of c, by what they are shared with.
LEMMA OnInput ==
  ASSUME NEW c \in Clients, NEW s
  PROVE  /\ \A a \in Clients : <<s, {a}>> \in MasksOf(c) <=> s = 1 /\ a = c
         /\ \A a, b \in Clients : a # b /\ <<s, {a, b}>> \in MasksOf(c) => c \in {a, b}
         /\ \A d \in Clients : c # d =>
              (<<s, {c, d}>> \in MasksOf(c) <=> Adjacent(c, d) /\ d \in Forwarded /\ s = Sign(c, d))
<1>1. ASSUME NEW k \in Indices \ {Own(c)}
      PROVE  /\ Neighbor(c, k) \in Clients /\ Neighbor(c, k) # c
             /\ Adjacent(c, Neighbor(c, k))
             /\ MaskOf(c, k) = <<Sign(c, Neighbor(c, k)), {c, Neighbor(c, k)}>>
  <2>1. IndexOf(c, Neighbor(c, k)) = k /\ Neighbor(c, k) \in Clients
    BY Edges
  <2>2. Adjacent(c, Neighbor(c, k))
    BY EdgeFacts, GraphAssumption DEF Clients, Indices, Neighbor, Adjacent
  <2> QED
    BY <2>1, <2>2 DEF Own, MaskOf, Sign
<1>2. \A x \in MasksOf(c) : \/ x = <<1, {c}>>
                            \/ \E k \in Indices \ {Own(c)} : x = MaskOf(c, k) /\ Neighbor(c, k) \in Forwarded
  BY DEF MasksOf
<1>3. ASSUME NEW a \in Clients PROVE <<s, {a}>> \in MasksOf(c) <=> s = 1 /\ a = c
  <2>1. ASSUME <<s, {a}>> \in MasksOf(c) PROVE s = 1 /\ a = c
    <3>1. CASE <<s, {a}>> = <<1, {c}>>
      BY <3>1
    <3>2. ASSUME NEW k \in Indices \ {Own(c)}, <<s, {a}>> = MaskOf(c, k) PROVE FALSE
      <4>1. {a} = {c, Neighbor(c, k)}
        BY <1>1, <3>2
      <4> QED
        BY <1>1, <4>1
    <3> QED
      BY <1>2, <2>1, <3>1, <3>2
  <2>2. <<1, {c}>> \in MasksOf(c)
    BY DEF MasksOf
  <2> QED
    BY <2>1, <2>2
<1>4. ASSUME NEW a \in Clients, NEW b \in Clients, a # b, <<s, {a, b}>> \in MasksOf(c)
      PROVE  \E k \in Indices \ {Own(c)} : /\ {a, b} = {c, Neighbor(c, k)}
                                           /\ s = Sign(c, Neighbor(c, k))
                                           /\ Neighbor(c, k) \in Forwarded
  <2>1. <<s, {a, b}>> # <<1, {c}>>
    BY <1>4
  <2>2. PICK k \in Indices \ {Own(c)} : <<s, {a, b}>> = MaskOf(c, k) /\ Neighbor(c, k) \in Forwarded
    BY <1>2, <1>4, <2>1
  <2>3. {a, b} = {c, Neighbor(c, k)} /\ s = Sign(c, Neighbor(c, k))
    BY <1>1, <2>2
  <2> QED
    BY <2>2, <2>3
<1>5. ASSUME NEW d \in Clients, c # d
      PROVE  <<s, {c, d}>> \in MasksOf(c) <=> Adjacent(c, d) /\ d \in Forwarded /\ s = Sign(c, d)
  <2>1. ASSUME <<s, {c, d}>> \in MasksOf(c)
        PROVE  Adjacent(c, d) /\ d \in Forwarded /\ s = Sign(c, d)
    <3>1. PICK k \in Indices \ {Own(c)} : /\ {c, d} = {c, Neighbor(c, k)}
                                           /\ s = Sign(c, Neighbor(c, k))
                                           /\ Neighbor(c, k) \in Forwarded
      BY <1>4, <1>5, <2>1
    <3>2. d = Neighbor(c, k)
      BY <1>1, <1>5, <3>1
    <3> QED
      BY <1>1, <3>1, <3>2
  <2>2. ASSUME Adjacent(c, d), d \in Forwarded PROVE <<Sign(c, d), {c, d}>> \in MasksOf(c)
    <3>1. IndexOf(c, d) \in Indices /\ Neighbor(c, IndexOf(c, d)) = d
      BY <2>2, EdgeFacts, GraphAssumption DEF Clients, Indices, Neighbor, IndexOf, Adjacent
    <3>2. IndexOf(c, d) # Own(c)
      BY <1>5, <3>1, Edges
    <3> QED
      BY <1>1, <2>2, <3>1, <3>2 DEF MasksOf
  <2> QED
    BY <2>1, <2>2
<1> QED
  BY <1>3, <1>4, <1>5

\* The two ends of an edge put their mask on with opposite signs, and the server
\* takes it off with the sign opposite to that of the end that is in the sum.
LEMMA Signs ==
  ASSUME NEW c \in Clients, NEW d \in Clients, c # d, Adjacent(c, d)
  PROVE  /\ Adjacent(d, c)
         /\ Sign(c, d) \in {1, -1} /\ Sign(d, c) = Opposite(Sign(c, d))
         /\ (IF IsOutgoingNeighbor(Graph, c, d) THEN 1 ELSE -1) = Opposite(Sign(c, d))
<1> USE GraphAssumption DEF Clients, IndexOf, Adjacent
<1>1. /\ Adjacent(d, c)
      /\ IsOutgoingNeighbor(Graph, c, d) <=> ~(IndexOf(c, d) < Own(c))
      /\ IndexOf(c, d) < Own(c) <=> ~(IndexOf(d, c) < Own(d))
  BY EdgeDirections DEF Own
<1> USE ONLY <1>1
<1> QED
  BY <1>1 DEF Sign, Opposite

\* What the server takes off the sum.
LEMMA AmongKeys ==
  ASSUME NEW s
  PROVE  /\ \A a : <<s, {a}>> \in KeysFound <=> s = -1 /\ a \in Summed
         /\ \A a, b : a # b /\ <<s, {a, b}>> \in KeysFound =>
              \/ a \in Summed /\ b \in Lost
              \/ b \in Summed /\ a \in Lost
         /\ \A a \in Summed, b \in Lost :
              <<s, {a, b}>> \in KeysFound <=> Adjacent(a, b) /\ s = Opposite(Sign(a, b))
<1>1. Summed \subseteq Clients /\ Lost \subseteq Clients /\ Summed \cap Lost = {}
  BY DEF Summed, Lost, Forwarded
<1>2. \A x : x \in KeysFound <=>
        \/ \E a \in Summed : x = <<-1, {a}>>
        \/ \E a \in Summed, b \in Lost : Adjacent(a, b) /\ x = <<Opposite(Sign(a, b)), {a, b}>>
  <2>1. \A a \in Summed, b \in Lost : Adjacent(a, b) =>
          (IF IsOutgoingNeighbor(Graph, a, b) THEN 1 ELSE -1) = Opposite(Sign(a, b))
    BY <1>1, Signs
  <2>2. \A x : x \in KeysFound <=>
        \/ \E a \in Summed : x = <<-1, {a}>>
        \/ \E a \in Summed, b \in Lost :
             /\ Adjacent(a, b)
             /\ x = <<IF IsOutgoingNeighbor(Graph, a, b) THEN 1 ELSE -1, {a, b}>>
    <3> DEFINE E == {q \in Summed \X Lost : AreNeighbors(Graph, q[1], q[2])}
               F(p) == <<IF IsOutgoingNeighbor(Graph, p[1], p[2]) THEN 1 ELSE -1, {p[1], p[2]}>>
    <3>1. \A x : x \in KeysFound <=> (\E a \in Summed : x = <<-1, {a}>>) \/ (\E p \in E : x = F(p))
      BY DEF KeysFound
    <3>2. \A p \in E : p[1] \in Summed /\ p[2] \in Lost /\ Adjacent(p[1], p[2])
      BY DEF Adjacent
    <3>3. ASSUME NEW a \in Summed, NEW b \in Lost, Adjacent(a, b)
          PROVE  /\ <<a, b>> \in E
                 /\ F(<<a, b>>) = <<IF IsOutgoingNeighbor(Graph, a, b) THEN 1 ELSE -1, {a, b}>>
      BY <3>3 DEF Adjacent
    <3>4. \A x : (\E p \in E : x = F(p)) <=>
               \E a \in Summed, b \in Lost :
                 /\ Adjacent(a, b)
                 /\ x = <<IF IsOutgoingNeighbor(Graph, a, b) THEN 1 ELSE -1, {a, b}>>
      <4> TAKE x
      <4>1. ASSUME NEW p \in E, x = F(p)
            PROVE  \E a \in Summed, b \in Lost :
                     /\ Adjacent(a, b)
                     /\ x = <<IF IsOutgoingNeighbor(Graph, a, b) THEN 1 ELSE -1, {a, b}>>
        BY <3>2, <4>1, ZenonT(60)
      <4>2. ASSUME NEW a \in Summed, NEW b \in Lost, Adjacent(a, b),
                   x = <<IF IsOutgoingNeighbor(Graph, a, b) THEN 1 ELSE -1, {a, b}>>
            PROVE  \E p \in E : x = F(p)
        <5>1. <<a, b>> \in E /\ x = F(<<a, b>>)
          BY <3>3, <4>2, ZenonT(60)
        <5> HIDE DEF E, F
        <5> QED
          BY <5>1
      <4> HIDE DEF E, F
      <4> QED
        BY <4>1, <4>2, ZenonT(60)
    <3> HIDE DEF E, F
    <3> QED
      BY <3>1, <3>4, ZenonT(60)
  <2> QED
    BY <2>1, <2>2
<1>3. ASSUME NEW a PROVE <<s, {a}>> \in KeysFound <=> s = -1 /\ a \in Summed
  <2>1. ASSUME NEW x \in Summed, NEW y \in Lost PROVE {a} # {x, y}
    BY <1>1
  <2> QED
    BY <1>2, <2>1
<1>4. ASSUME NEW a, NEW b, a # b, <<s, {a, b}>> \in KeysFound
      PROVE  \E x \in Summed, y \in Lost :
               {a, b} = {x, y} /\ Adjacent(x, y) /\ s = Opposite(Sign(x, y))
  <2>1. \A x : {a, b} # {x}
    BY <1>4
  <2> QED
    BY <1>2, <1>4, <2>1
<1>5. ASSUME NEW a, NEW b, a # b, <<s, {a, b}>> \in KeysFound
      PROVE  (a \in Summed /\ b \in Lost) \/ (b \in Summed /\ a \in Lost)
  <2>1. PICK x \in Summed, y \in Lost : {a, b} = {x, y}
    BY <1>4, <1>5
  <2> QED
    BY <1>5, <2>1
<1>6. ASSUME NEW a \in Summed, NEW b \in Lost
      PROVE  <<s, {a, b}>> \in KeysFound <=> Adjacent(a, b) /\ s = Opposite(Sign(a, b))
  <2>1. a # b
    BY <1>1
  <2>2. ASSUME <<s, {a, b}>> \in KeysFound PROVE Adjacent(a, b) /\ s = Opposite(Sign(a, b))
    <3>1. PICK x \in Summed, y \in Lost :
            {a, b} = {x, y} /\ Adjacent(x, y) /\ s = Opposite(Sign(x, y))
      BY <1>4, <2>1, <2>2, ZenonT(60)
    <3>2. x = a /\ y = b
      BY <1>1, <2>1, <3>1
    <3> QED
      BY <3>1, <3>2
  <2> QED
    BY <1>2, <2>2
<1> QED
  BY <1>3, <1>5, <1>6

\* The sum is left without a mask.
LEMMA MasksCancel ==
  ASSUME SessionInv, prngKeys = KeysFound, NEW mask \in Masks
  PROVE  Coefficient(mask, Summed) = 0
<1>1. /\ Summed \subseteq Clients /\ Summed \subseteq Forwarded /\ Lost = Forwarded \ Summed
      /\ \A c \in Summed : maskedInput[c] = MasksOf(c)
  <2>1. \A c \in Summed : maskedInput[c] = MasksOf(c)
    BY DEF Summed, SessionInv, ServerRight, InputsRight
  <2>2. \A c \in Summed : c \in Clients /\ status[c] \in Sent
    BY DEF Summed, SessionInv, SumKept
  <2>3. Summed \subseteq Forwarded
    BY <2>2 DEF Sent, Forwarded, MaskType
  <2> QED
    BY <2>1, <2>2, <2>3 DEF Lost
<1>2. \A s : {c \in Summed : <<s, mask>> \in maskedInput[c]} = {c \in Summed : <<s, mask>> \in MasksOf(c)}
  BY <1>1
<1>3. PICK a \in Clients, b \in Clients : mask = {a, b}
  BY DEF Masks
<1>4. CASE a = b
  <2>1. mask = {a}
    BY <1>3, <1>4
  <2>2. \A s : \A c \in Summed : <<s, mask>> \in MasksOf(c) <=> s = 1 /\ a = c
    BY <1>1, <2>1, OnInput
  <2>3. \A s : <<s, mask>> \in prngKeys <=> s = -1 /\ a \in Summed
    BY <2>1, AmongKeys
  <2> PICK A, B : /\ A = {c \in Summed : <<1, mask>> \in maskedInput[c]}
                  /\ B = {c \in Summed : <<Opposite(1), mask>> \in maskedInput[c]}
    BY ZenonT(60)
  <2>4. B = {} /\ Opposite(1) = -1
    BY <1>2, <2>2 DEF Opposite
  <2>5. CASE a \in Summed
    <3>1. A = {a}
      BY <1>2, <2>2, <2>5
    <3> QED
      BY <2>3, <2>4, <2>5, <3>1, CoefficientZero, ZenonT(60)
  <2>6. CASE a \notin Summed
    <3>1. A = {}
      BY <1>2, <2>2, <2>6
    <3> QED
      BY <2>3, <2>4, <2>6, <3>1, CoefficientZero, ZenonT(60)
  <2> QED
    BY <2>5, <2>6
<1>5. ASSUME NEW x \in Clients, NEW y \in Clients, x # y, mask = {x, y}, x \in Summed, y \notin Summed
      PROVE  Coefficient(mask, Summed) = 0
  <2>1. \A s : \A c \in Summed : <<s, mask>> \in MasksOf(c) <=>
          c = x /\ Adjacent(x, y) /\ y \in Forwarded /\ s = Sign(x, y)
    BY <1>1, <1>5, OnInput
  <2>2. CASE Adjacent(x, y) /\ y \in Forwarded
    <3> PICK s : s = Sign(x, y)
      OBVIOUS
    <3>1. s \in {1, -1} /\ s # Opposite(s)
      BY <1>5, <2>2, Signs DEF Opposite
    <3>2. <<s, mask>> \notin prngKeys /\ <<Opposite(s), mask>> \in prngKeys
      BY <1>1, <1>5, <2>2, <3>1, AmongKeys
    <3> PICK A, B : /\ A = {c \in Summed : <<s, mask>> \in maskedInput[c]}
                    /\ B = {c \in Summed : <<Opposite(s), mask>> \in maskedInput[c]}
      BY ZenonT(60)
    <3>3. A = {x} /\ B = {}
      BY <1>2, <1>5, <2>1, <2>2, <3>1
    <3> QED
      BY <3>1, <3>2, <3>3, CoefficientZero, ZenonT(60)
  <2>3. CASE ~(Adjacent(x, y) /\ y \in Forwarded)
    <3>1. \A s : <<s, mask>> \notin prngKeys
      BY <1>1, <1>5, <2>3, AmongKeys
    <3> PICK A, B : /\ A = {c \in Summed : <<1, mask>> \in maskedInput[c]}
                    /\ B = {c \in Summed : <<Opposite(1), mask>> \in maskedInput[c]}
      BY ZenonT(60)
    <3>2. A = {} /\ B = {}
      BY <1>2, <2>1, <2>3
    <3> QED
      BY <3>1, <3>2, CoefficientZero, ZenonT(60)
  <2> QED
    BY <2>2, <2>3
<1>6. CASE a # b /\ a \in Summed /\ b \in Summed
  <2>1. \A s : <<s, mask>> \notin prngKeys
    BY <1>1, <1>3, <1>6, AmongKeys
  <2>2. \A s : \A c \in Summed : <<s, mask>> \in MasksOf(c) <=>
          \/ c = a /\ Adjacent(a, b) /\ s = Sign(a, b)
          \/ c = b /\ Adjacent(b, a) /\ s = Sign(b, a)
    <3>1. {a, b} = {b, a}
      OBVIOUS
    <3> QED
      BY <1>1, <1>3, <1>6, <3>1, OnInput
  <2>3. CASE Adjacent(a, b)
    <3> PICK s : s = Sign(a, b)
      OBVIOUS
    <3>1. s \in {1, -1} /\ s # Opposite(s) /\ Adjacent(b, a) /\ Sign(b, a) = Opposite(s)
      BY <1>6, <2>3, Signs DEF Opposite
    <3> PICK A, B : /\ A = {c \in Summed : <<s, mask>> \in maskedInput[c]}
                    /\ B = {c \in Summed : <<Opposite(s), mask>> \in maskedInput[c]}
      BY ZenonT(60)
    <3>2. A = {a} /\ B = {b}
      BY <1>2, <1>6, <2>2, <2>3, <3>1
    <3> QED
      BY <2>1, <3>1, <3>2, CoefficientZero, ZenonT(60)
  <2>4. CASE ~Adjacent(a, b)
    <3>1. ~Adjacent(b, a)
      BY <1>6, <2>4, Signs
    <3> PICK A, B : /\ A = {c \in Summed : <<1, mask>> \in maskedInput[c]}
                    /\ B = {c \in Summed : <<Opposite(1), mask>> \in maskedInput[c]}
      BY ZenonT(60)
    <3>2. A = {} /\ B = {}
      BY <1>2, <2>2, <2>4, <3>1
    <3> QED
      BY <2>1, <3>2, CoefficientZero, ZenonT(60)
  <2> QED
    BY <2>3, <2>4
<1>7. CASE a # b /\ a \notin Summed /\ b \notin Summed
  <2>1. \A s : <<s, mask>> \notin prngKeys
    BY <1>3, <1>7, AmongKeys
  <2>2. \A s : \A c \in Summed : <<s, mask>> \notin MasksOf(c)
    BY <1>1, <1>3, <1>7, OnInput
  <2> PICK A, B : /\ A = {c \in Summed : <<1, mask>> \in maskedInput[c]}
                  /\ B = {c \in Summed : <<Opposite(1), mask>> \in maskedInput[c]}
    BY ZenonT(60)
  <2>3. A = {} /\ B = {}
    BY <1>2, <2>2
  <2> QED
    BY <2>1, <2>3, CoefficientZero, ZenonT(60)
<1>8. {a, b} = {b, a}
  OBVIOUS
<1> QED
  BY <1>3, <1>4, <1>5, <1>6, <1>7, <1>8

-----------------------------------------------------------------------------
(* The rounds. *)

\* The clients a transition sends its requests to, and those it aborts.
LEMMA RequestsSend ==
  ASSUME NEW request, SendRequests(request), DOMAIN request = Responders,
         \A c \in Responders : request[c] \in FromServer(c)'
  PROVE  Sends
<1> PICK out : out = [c \in Stragglers \cup Responders |->
                        IF c \in Stragglers THEN AbortMessage(FALSE) ELSE request[c]]
  BY ZenonT(60)
<1>1. Send(out)
  BY DEF SendRequests
<1>2. \A c \in Clients \cap DOMAIN out : out[c] \in FromServer(c)'
  BY AbortsSent, ZenonT(60)
<1> QED
  BY <1>1, <1>2, SendSends, ZenonT(60)

\* The end of round 0: the keys of the neighbors, each at its index.
LEMMA RoundZeroOver ==
  ASSUME SessionInv, Steady, ProceedFromR0
  PROVE  ServerRight' /\ Sends
<1>1. /\ state = "R0_ADVERTISE_KEYS" /\ state' = "R1_SHARE_KEYS"
      /\ R0HandleAbortClient(Stragglers)
      /\ maskedInput' = maskedInput /\ UNCHANGED <<tables, prng>>
  BY SMTT(60) DEF ProceedFromR0, ProceedTo, EnterRound, inputs
<1>2. InputsRight' /\ TablesRight' /\ KeysRight' /\ ResultRight'
  BY <1>1, QuietRight
<1>3. SharesFiled'
  <2>1. encryptedShares' = encryptedShares /\ encryptedShares = [c \in Clients |-> NoShares]
    BY <1>1 DEF R0HandleAbortClient, SessionInv, ServerRight, SharesFiled
  <2>2. \A c \in Clients : status'[c] # "SHARE_KEYS_RECEIVED"
    BY <1>1, SMTT(60) DEF R0HandleAbortClient, SetStatus, SessionInv, BooksKept, StatusFits
  <2>3. encryptedShares' = [n \in Clients |-> [k \in Indices |-> encryptedShares'[n][k]]]
    BY <2>1, SMTT(60) DEF NoShares
  <2>4. \A n \in Clients, k \in Indices : encryptedShares'[n][k] = None
    BY <2>1, SMTT(60) DEF NoShares
  <2> QED
    BY <1>1, <2>2, <2>3, <2>4, Edges, SMTT(60) DEF SharesFiled
<1>4. Sends
  <2> PICK request : request = [c \in Responders |-> ShareKeysRequest(c)]
    BY ZenonT(60)
  <2>1. SendRequests(request)
    BY DEF ProceedFromR0
  <2>2. ASSUME NEW c \in Responders PROVE request[c] \in FromServer(c)'
    <3> PICK keys : keys = [k \in Indices |-> IF Neighbor(c, k) \in publicKeys THEN Neighbor(c, k) ELSE None]
      BY ZenonT(60)
    <3>1. c \in Clients
      BY DEF Responders
    <3>2. keys \in KnownKeys(c)
      BY <3>1, Edges, SMTT(60) DEF KnownKeys
    <3>3. request[c] = [type |-> "share_keys_request", keys |-> keys]
      BY DEF ShareKeysRequest
    <3>4. KnownKeys(c)' = KnownKeys(c)
      BY DEF KnownKeys
    <3>5. [type |-> "share_keys_request", keys |-> keys] \in FromServer(c)'
      BY <3>2, <3>4, ZenonT(60) DEF FromServer
    <3> QED
      BY <3>3, <3>5
  <2> QED
    BY <2>1, <2>2, RequestsSend
<1> QED
  BY <1>2, <1>3, <1>4 DEF ServerRight

\* The end of round 1: who got past it is settled, and the shares are forwarded to
\* them.
LEMMA RoundOneOver ==
  ASSUME SessionInv, Steady, ProceedFromR1
  PROVE  ServerRight' /\ Sends
<1>1. /\ state = "R1_SHARE_KEYS" /\ state' = "R2_MASKED_INPUT_COLLECTION"
      /\ SetStatus(Stragglers, "DEAD_AFTER_ADVERTISE_KEYS_RECEIVED")
      /\ maskedInput' = maskedInput /\ UNCHANGED <<tables, prng>>
  BY SMTT(60) DEF ProceedFromR1, ProceedTo, EnterRound, inputs
<1>2. InputsRight' /\ TablesRight' /\ KeysRight' /\ ResultRight'
  BY <1>1, QuietRight
<1>3. SharesFiled'
  BY <1>1, SMTT(60) DEF SharesFiled
<1>4. Forwarded' = {c \in Clients : status[c] = "SHARE_KEYS_RECEIVED"} /\ PastRound1'
  <2>1. \A c \in Clients : status[c] \in {"ADVERTISE_KEYS_RECEIVED", "SHARE_KEYS_RECEIVED",
                          "DEAD_BEFORE_SENDING_ANYTHING", "DEAD_AFTER_ADVERTISE_KEYS_RECEIVED"}
    BY <1>1, SMTT(60) DEF SessionInv, BooksKept, StatusFits
  <2>2. \A c \in Clients : c \in Stragglers <=> status[c] = "ADVERTISE_KEYS_RECEIVED"
    BY <1>1, <2>1, RoundStatuses, SMTT(60) DEF Stragglers, IsClientDead, Dead, DeadBefore
  <2>3. \A c \in Clients : status'[c] = IF c \in Stragglers THEN "DEAD_AFTER_ADVERTISE_KEYS_RECEIVED"
                                         ELSE status[c]
    BY <1>1 DEF SetStatus
  <2> QED
    BY <1>1, <2>1, <2>2, <2>3, SMTT(60) DEF Forwarded, MaskType, PastRound1
<1>5. Sends
  <2> PICK request : request = [c \in Responders |-> MaskedInputCollectionRequest(c)]
    BY ZenonT(60)
  <2>1. SendRequests(request)
    BY DEF ProceedFromR1
  <2>2. ASSUME NEW c \in Responders PROVE request[c] \in FromServer(c)'
    <3> PICK shares : shares = encryptedShares[c]
      OBVIOUS
    <3>1. c \in Clients /\ status[c] = "SHARE_KEYS_RECEIVED"
      BY <1>1, RoundStatuses, SMTT(60) DEF Responders
    <3>2. request[c] = [type |-> "masked_input_request", shares |-> shares]
      BY DEF MaskedInputCollectionRequest
    <3>3. /\ shares = [k \in Indices |-> shares[k]]
          /\ \A k \in Indices : /\ shares[k] \in {None, SealedShare(c, k)}
                                /\ shares[k] # None <=> /\ Neighbor(c, k) # c
                                                      /\ status[Neighbor(c, k)] = "SHARE_KEYS_RECEIVED"
      BY <1>1, <3>1, SMTT(60) DEF SessionInv, ServerRight, SharesFiled
    <3>4. \A k \in Indices : SealedShare(c, k) \in [of : Clients, to : Clients, at : Indices]
      BY <3>1, Edges, SMTT(60) DEF SealedShare
    <3>5. shares \in [Indices -> {None} \cup [of : Clients, to : Clients, at : Indices]]
      <4>1. \A k \in Indices : shares[k] \in {None} \cup [of : Clients, to : Clients, at : Indices]
        BY <3>3, <3>4
      <4> QED
        BY <3>3, <4>1
    <3>6. \A k \in Indices : shares[k] # None <=> Neighbor(c, k) \in Forwarded' \ {c}
      BY <1>4, <3>1, <3>3, Edges
    <3>7. shares \in ForwardedShares(c)'
      BY <1>4, <3>1, <3>3, <3>5, <3>6, SMTT(60) DEF ForwardedShares, SealedShare
    <3>8. [type |-> "masked_input_request", shares |-> shares] \in FromServer(c)'
      BY <3>7, ZenonT(60) DEF FromServer
    <3> QED
      BY <3>2, <3>8
  <2> QED
    BY <2>1, <2>2, RequestsSend
<1> QED
  BY <1>2, <1>3, <1>5 DEF ServerRight

\* The end of round 2: empty tables, and the requests go to clients whose input is
\* in the sum.
LEMMA RoundTwoOver ==
  ASSUME SessionInv, Steady, ProceedFromR2
  PROVE  ServerRight' /\ Sends
<1>1. /\ state = "R2_MASKED_INPUT_COLLECTION" /\ state' = "R3_UNMASKING"
      /\ maskedInput' = maskedInput /\ result' = result
      /\ pairwiseTable' = EmptyTable("noise") /\ selfTable' = EmptyTable("prf")
  BY SMTT(60) DEF ProceedFromR2, ProceedTo, EnterRound, inputs, prng
<1>2. SharesFiled' /\ KeysRight'
  BY <1>1, SMTT(60) DEF SharesFiled, KeysRight
<1>3. InputsRight'
  BY <1>1, SMTT(60) DEF SessionInv, ServerRight, InputsRight, Steady, MasksOf, MaskOf, PastRound1
<1>4. ResultRight'
  BY <1>1, SMTT(60) DEF SessionInv, ServerRight, ResultRight, Rounds
<1>5. TablesRight'
  BY <1>1, SMTT(60) DEF TablesRight, Holds, EmptyTable, NoShares
<1>6. Sends
  <2> PICK request : request = [c \in Responders |-> UnmaskingRequest(c)]
    BY ZenonT(60)
  <2>1. SendRequests(request)
    BY DEF ProceedFromR2
  <2>2. ASSUME NEW c \in Responders PROVE request[c] \in FromServer(c)'
    <3> PICK dead : dead = {IndexOf(c, d) + 1 :
               d \in {e \in abortedRound2 \cup Stragglers : AreNeighbors(Graph, c, e)}}
      BY ZenonT(60)
    <3>1. c \in Clients /\ status[c] \in Sent
      BY <1>1, RoundStatuses, SMTT(60) DEF Responders, Sent
    <3>2. maskedInput'[c] # None
      BY <1>1, <3>1 DEF SessionInv, SumKept
    <3>3. abortedRound2 \cup Stragglers \subseteq Clients
      BY ZenonT(60) DEF SessionInv, BooksKept, TypeOK, Stragglers
    <3>4. \A d \in Clients : AreNeighbors(Graph, c, d) => IndexOf(c, d) + 1 \in Int
      <4>1. \A d \in Clients : AreNeighbors(Graph, c, d) => IndexOf(c, d) \in NeighborIndices(Graph)
        BY <3>1, EdgeFacts, GraphAssumption DEF Clients, IndexOf
      <4> QED
        BY <4>1, SMTT(60) DEF NeighborIndices
    <3>5. dead \in {d \in SUBSET Int : maskedInput[c] # None}'
      BY <3>2, <3>3, <3>4
    <3>6. request[c] = [type |-> "unmasking_request", dead |-> dead]
      BY ZenonT(60) DEF UnmaskingRequest
    <3>7. [type |-> "unmasking_request", dead |-> dead] \in FromServer(c)'
      BY <3>5, ZenonT(60) DEF FromServer
    <3> QED
      BY <3>6, <3>7
  <2> QED
    BY <2>1, <2>2, RequestsSend
<1> QED
  BY <1>2, <1>3, <1>4, <1>5, <1>6 DEF ServerRight

\* InitializePrng finds every key it needs and no other.
LEMMA WorkItemsRight ==
  ASSUME SessionInv, SumKept', BooksKept', Steady, ProceedFromR3
  PROVE  WorkItems(status') = KeysFound'
<1>1. /\ state = "R3_UNMASKING" /\ state' = "PRNG_RUNNING"
      /\ maskedInput' = maskedInput /\ UNCHANGED tables
  BY SMTT(60) DEF ProceedFromR3, ProceedTo, EnterRound, inputs
<1>2. /\ \A c \in Clients : status'[c] \in Dead \cup {"UNMASKING_RESPONSE_RECEIVED"}
      /\ \A c \in Clients : maskedInput'[c] # None <=> status'[c] \in Sent
      /\ DOMAIN selfTable = With(NotFailed)' /\ DOMAIN pairwiseTable = With(FailedInR2)'
  BY <1>1, SMTT(60) DEF SumKept, BooksKept, StatusFits, tables
<1>3. \A c \in Clients : /\ c \in Summed' <=> Included(status'[c])
                         /\ c \in Summed' <=> status'[c] \in NotFailed
                         /\ c \in Lost' <=> status'[c] \in FailedInR2
  BY <1>2, SMTT(60) DEF Summed, Lost, Forwarded, MaskType, Included, Sent, NotFailed, FailedInR2, Dead,
                        DeadBefore, ClientStatus
<1>4. DOMAIN selfTable = Summed' /\ DOMAIN pairwiseTable = Lost' /\ Summed' \subseteq Clients
      /\ Lost' \subseteq Clients
  <2>1. Summed' \subseteq Clients /\ Lost' \subseteq Clients
    BY DEF Summed, Lost, Forwarded
  <2> QED
    BY <1>2, <1>3, <2>1 DEF With
<1>5. /\ \A c \in DOMAIN selfTable : RightKey(selfTable, c)
      /\ \A c \in DOMAIN pairwiseTable : RightKey(pairwiseTable, c)
  BY <1>1, SMTT(60) DEF SessionInv, ServerRight, TablesRight, Holds, RightKey
<1>6. {c \in DOMAIN selfTable : Included(status'[c]) /\ RightKey(selfTable, c)} = Summed'
  BY <1>3, <1>4, <1>5
<1>7. {q \in Clients \X DOMAIN pairwiseTable :
         /\ Included(status'[q[1]]) /\ AreNeighbors(Graph, q[1], q[2])
         /\ RightKey(pairwiseTable, q[2])}
       = {q \in Summed' \X Lost' : AreNeighbors(Graph, q[1], q[2])}
  BY <1>3, <1>4, <1>5, SMTT(60)
<1> QED
  BY <1>6, <1>7, ZenonT(60) DEF WorkItems, KeysFound

\* The end of round 3: the stragglers are told of a success, their inputs being in
\* the sum, and the keys are those of KeysFound unless the reconstruction failed.
LEMMA RoundThreeOver ==
  ASSUME SessionInv, SumKept', BooksKept', Steady, ProceedFromR3
  PROVE  ServerRight' /\ Sends
<1>1. /\ state = "R3_UNMASKING" /\ state' = "PRNG_RUNNING"
      /\ maskedInput' = maskedInput /\ result' = result /\ UNCHANGED tables
      /\ \/ prngKeys' = WorkItems(status')
         \/ completion' = "error"
  BY SMTT(60) DEF ProceedFromR3, ProceedTo, EnterRound, inputs, prng
<1>2. SharesFiled'
  BY <1>1, SMTT(60) DEF SharesFiled
<1>3. InputsRight'
  BY <1>1, SMTT(60) DEF SessionInv, ServerRight, InputsRight, Steady, MasksOf, MaskOf, PastRound1
<1>4. ResultRight'
  BY <1>1, SMTT(60) DEF SessionInv, ServerRight, ResultRight, Rounds
<1>5. TablesRight'
  BY <1>1, SMTT(60) DEF SessionInv, ServerRight, TablesRight, Holds, tables
<1>6. KeysRight'
  BY <1>1, WorkItemsRight, NoneAssumption DEF KeysRight
<1>7. Sends
  <2> PICK out : out = [c \in Stragglers |-> AbortMessage(TRUE)]
    BY ZenonT(60)
  <2>1. Send(out)
    BY DEF ProceedFromR3
  <2>2. ASSUME NEW c \in Stragglers PROVE AbortMessage(TRUE) \in FromServer(c)'
    <3>1. c \in Clients /\ status[c] = "MASKED_INPUT_RESPONSE_RECEIVED"
      BY <1>1, RoundStatuses, SMTT(60) DEF Stragglers, SessionInv, BooksKept, StatusFits, IsClientDead
    <3>2. maskedInput'[c] # None
      BY <1>1, <3>1 DEF SessionInv, SumKept, Sent
    <3>3. TRUE \in {e \in BOOLEAN : e => maskedInput[c] # None}'
      BY <3>2, ZenonT(60)
    <3> QED
      BY <3>3, ZenonT(60) DEF AbortMessage, FromServer
  <2>3. \A c \in Clients \cap DOMAIN out : out[c] \in FromServer(c)'
    BY <2>2, ZenonT(60)
  <2> QED
    BY <2>1, <2>3, SendSends, ZenonT(60)
<1> QED
  BY <1>2, <1>3, <1>4, <1>5, <1>6, <1>7 DEF ServerRight

\* The PRNG run takes every mask off the sum.
LEMMA ResultFound ==
  ASSUME SessionInv, Steady, PrngRunnerFinished
  PROVE  ServerRight' /\ Sends
<1> PICK S : S = {c \in Clients : maskedInput[c] # None} \ pendingInputs
  BY ZenonT(60)
<1>1. /\ state = "PRNG_RUNNING" /\ state' = state /\ completion = None /\ completion' = "ok"
      /\ result' = [inputs |-> S, masks |-> {m \in Masks : Coefficient(m, S) # 0}]
      /\ UNCHANGED <<status, maskedInput, tables, toClient>>
  BY SMTT(60) DEF PrngRunnerFinished, round, inputs
<1>2. S = Summed /\ Cardinality(S) >= MinimumClients
  <2>1. InputsIncluded
    BY KeptInputsIncluded DEF SessionInv
  <2>2. Cardinality(S) = NumberOfIncludedInputs /\ NumberOfIncludedInputs >= MinimumClients
    BY <1>1, <2>1 DEF InputsIncluded
  <2>3. pendingInputs = {}
    BY <1>1 DEF SessionInv, SumKept
  <2> QED
    BY <2>2, <2>3 DEF Summed
<1>3. prngKeys = KeysFound
  BY <1>1 DEF SessionInv, ServerRight, KeysRight
<1>4. {m \in Masks : Coefficient(m, S) # 0} = {}
  BY <1>2, <1>3, MasksCancel
<1>5. result' = [inputs |-> S, masks |-> {}]
  BY <1>1, <1>4
<1>6. Summed' = Summed
  BY <1>1 DEF Summed
<1>7. ResultRight'
  <2>1. result'.inputs = S /\ result'.masks = {}
    BY <1>5
  <2> QED
    BY <1>1, <1>2, <1>6, <2>1 DEF ResultRight, Rounds
<1>8. SharesFiled' /\ KeysRight'
  BY <1>1, NoneAssumption DEF SharesFiled, KeysRight
<1>9. InputsRight'
  BY <1>1, SMTT(60) DEF SessionInv, ServerRight, InputsRight, Steady, MasksOf, MaskOf, PastRound1
<1>10. TablesRight'
  BY <1>1, SMTT(60) DEF SessionInv, ServerRight, TablesRight, Holds, tables
<1>11. Sends
  BY <1>1 DEF Sends, SessionInv, MessagesRight
<1> QED
  BY <1>7, <1>8, <1>9, <1>10, <1>11 DEF ServerRight

\* The rounds, Abort, AbortClient and the accumulator keep the invariant.
LEMMA ServerCallKeeps ==
  ASSUME SessionInv, ServerCall
  PROVE  SessionInv'
<1>1. ServerStep /\ client' = client /\ toServer' = toServer
  BY SessionAssumption, ZenonT(60) DEF ServerCall, ServerStep, clientVars
<1>2. BooksKept' /\ SumKept' /\ Steady
  <2>1. BooksKept /\ SumKept
    BY DEF SessionInv
  <2>2. BooksKept'
    BY <1>1, <2>1, ServerStepKeeps
  <2>3. SumKept' /\ Steady
    BY <1>1, <2>1, <2>2, SumServerStep, ServerSteady
  <2> QED
    BY <2>2, <2>3
<1>3. ASSUME ServerRight', Sends PROVE SessionInv'
  BY <1>1, <1>2, <1>3, ServerMoves
<1>4. CASE ProceedFromR0
  BY <1>2, <1>3, <1>4, RoundZeroOver
<1>5. CASE ProceedFromR1
  BY <1>2, <1>3, <1>5, RoundOneOver
<1>6. CASE ProceedFromR2
  BY <1>2, <1>3, <1>6, RoundTwoOver
<1>7. CASE ProceedFromR3
  BY <1>2, <1>3, <1>7, RoundThreeOver
<1>8. CASE PrngRunnerFinished
  BY <1>2, <1>3, <1>8, ResultFound
<1>9. ASSUME state' = "R2_MASKED_INPUT_COLLECTION" => state' = state,
             state' \in {"COMPLETED", "ABORTED", "R2_MASKED_INPUT_COLLECTION"},
             maskedInput' = maskedInput, UNCHANGED <<tables, prng>>
      PROVE  ServerRight'
  <2>1. SharesFiled'
    BY <1>9 DEF SharesFiled
  <2>2. \/ state' = state
        \/ state' \in {"COMPLETED", "ABORTED"}
    BY <1>9
  <2> QED
    BY <1>2, <1>9, <2>1, <2>2, QuietRight DEF ServerRight
<1>10. ASSUME toClient' = toClient PROVE Sends
  BY <1>10, SMTT(60) DEF Sends, SessionInv, MessagesRight
<1>11. CASE ProceedFromPrng
  <2>1. /\ state' \in {"COMPLETED", "ABORTED"} /\ toClient' = toClient
        /\ maskedInput' = maskedInput /\ UNCHANGED <<tables, prng>>
    BY <1>11, SMTT(60) DEF ProceedFromPrng, EnterRound, inputs
  <2> QED
    BY <1>3, <1>9, <1>10, <2>1
<1>12. CASE ProceedToAbort
  <2>1. /\ state' = "ABORTED"
        /\ maskedInput' = maskedInput /\ UNCHANGED <<tables, prng>>
    BY <1>12, SMTT(60) DEF ProceedToAbort, EnterRound, inputs
  <2>2. Sends
    BY <1>12, BroadcastSends, ZenonT(60) DEF ProceedToAbort
  <2> QED
    BY <1>3, <1>9, <2>1, <2>2
<1>13. CASE Abort
  <2>1. /\ state' = "ABORTED"
        /\ maskedInput' = maskedInput /\ UNCHANGED <<tables, prng>>
    BY <1>13, SMTT(60) DEF Abort, EnterRound
  <2>2. Sends
    BY <1>13, BroadcastSends, ZenonT(60) DEF Abort
  <2> QED
    BY <1>3, <1>9, <2>1, <2>2
<1>14. CASE AccumulateInputs
  BY <1>3, <1>9, <1>10, <1>14, SMTT(60) DEF AccumulateInputs, round
<1>15. CASE \E c \in Droppable, notify \in BOOLEAN : ServerAbortClient(c, notify)
  BY <1>3, <1>15, AbortClientRight, SessionAssumption DEF ServerAbortClient
<1> QED
  BY <1>4, <1>5, <1>6, <1>7, <1>8, <1>11, <1>12, <1>13, <1>14, <1>15, ZenonT(60)
  DEF ServerCall, ProceedToNextRound

-----------------------------------------------------------------------------
(* The theorems. *)

\* A new session satisfies the invariant.
LEMMA SessionStart == SessionInit => SessionInv
<1> SUFFICES ASSUME SessionInit PROVE SessionInv
  OBVIOUS
<1>1. Init /\ C!Init
  BY DEF SessionInit
<1>2. BooksKept /\ SumKept
  BY <1>1, InitKeeps, SumInit
<1>3. MessagesRight
  BY <1>1, EmptySeq DEF Init, C!Init, MessagesRight
<1>4. ClientsRight
  BY <1>1, FreshRight DEF C!Init, ClientsRight
<1>5. ServerRight
  BY <1>1, SMTT(60) DEF Init, ServerRight, SharesFiled, InputsRight, TablesRight, KeysRight, ResultRight
<1> QED
  BY <1>2, <1>3, <1>4, <1>5 DEF SessionInv

\* Every step of a session keeps the invariant.
LEMMA SessionStep == SessionInv /\ [SessionNext]_sessionVars => SessionInv'
<1> SUFFICES ASSUME SessionInv, [SessionNext]_sessionVars PROVE SessionInv'
  OBVIOUS
<1>1. ASSUME NEW c \in Clients, ServerReceive(c) \/ ClientReceive(c) \/ ClientCall(c) PROVE SessionInv'
  BY <1>1, ServerReceiveKeeps, ClientReceiveKeeps, ClientCallKeeps
<1>2. CASE ServerCall
  BY <1>2, ServerCallKeeps
<1>3. CASE UNCHANGED sessionVars
  <2>1. /\ UNCHANGED serverVars /\ UNCHANGED <<toClient, client, toServer>>
    BY <1>3 DEF sessionVars, vars, clientVars
  <2>2. Steady /\ BooksKept' /\ SumKept' /\ ServerRight'
    BY <2>1, ServerUntouched DEF SessionInv
  <2>3. Sends
    BY <2>1 DEF Sends, SessionInv, MessagesRight
  <2> QED
    BY <2>1, <2>2, <2>3, ServerMoves
<1> QED
  BY <1>1, <1>2, <1>3 DEF SessionNext

\* The inductive invariant of a session, for every graph, threshold and set of
\* clients that may abort or be dropped: what the server and each client know of
\* each other, and every message on its way, agree.
THEOREM SessionAlwaysRight == SessionSpec => []SessionInv
<1>1. SessionInit => SessionInv
  BY SessionStart
<1>2. SessionInv /\ [SessionNext]_sessionVars => SessionInv'
  BY SessionStep
<1> QED
  BY <1>1, <1>2, PTL DEF SessionSpec

\* SecAggServer's promise, for every session: the sum it returns carries no mask and
\* holds the inputs of at least MinimumClients clients.  The pairwise masks that
\* MapOfMasks adds by the order of indices, and those InitializePrng takes off by the
\* direction of an edge, cancel on every graph of either kind.
THEOREM SumAlwaysUnmasked == SessionSpec => []SumUnmasked
<1>1. SessionInv => SumUnmasked
  BY DEF SessionInv, ServerRight, ResultRight, SumUnmasked
<1> QED
  BY <1>1, SessionAlwaysRight, PTL

\* A client that was told of a success (its own last message, or the early success
\* of an abort message) has its input in the sum, whoever else failed.
THEOREM CompletedAlwaysIncluded == SessionSpec => []CompletedIncluded
<1>1. SessionInv => CompletedIncluded
  BY DEF SessionInv, ServerRight, ResultRight, CompletedIncluded, ClientsRight, ClientRight, Summed
<1> QED
  BY <1>1, SessionAlwaysRight, PTL

=============================================================================
