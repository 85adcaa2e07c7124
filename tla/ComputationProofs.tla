-------------------------- MODULE ComputationProofs --------------------------
(***************************************************************************)
(* Proofs about a computation's data and results, for any constants: the   *)
(* aggregation of what clients report, with any overlap of the host's      *)
(* calls; the outcome of a plan's run on a device; and the cache of its    *)
(* resources, which repairs itself and stays within its limit.             *)
(***************************************************************************)
EXTENDS SimpleAggregation, PlanRun, ResourceCache, Counting

-----------------------------------------------------------------------------
(* Simple aggregation.                                                     *)

Open == {"PENDING", "RECEIVED"}
Final == Counted \ {"RECEIVED"}

\* Which client states go with which protocol state and which point of a call.
StatesFit ==
  /\ \A c \in Clients : clientStates[c] = None <=> c >= size
  /\ \A c \in Clients : clientStates[c] \in Open => protocolState = "STARTED"
  /\ \A c \in Clients : clientStates[c] = "RECEIVED" => receiving[c] # "no"
  /\ \A c \in Clients : receiving[c] # "no" => clientStates[c] \in Counted
  /\ protocolState = "STARTED" =>
       \A c \in Clients : receiving[c] # "no" => clientStates[c] = "RECEIVED"
  /\ protocolState = "CREATED" => size = 0
  /\ accepted \subseteq 0 .. size - 1
  /\ \A range \in toAccept : range \subseteq 0 .. size - 1

CountersExact == \A s \in Counted : num[s] = Cardinality(In({s}))

\* A client is final once it has been closed, and its closing has been called,
\* is due, or was the host's.
ClosingFits ==
  /\ \A c \in Clients : closed[c] = 0 \/ (closed[c] = 1 /\ c \notin toClose)
  /\ \A c \in Clients : closed[c] = 1 \/ c \in toClose \/ c \in hostClosed
                          <=> clientStates[c] \in Final
  /\ toClose # {} => protocolState \in {"COMPLETED", "ABORTED"}
  /\ \A c \in hostClosed : closed[c] = 1 => protocolState \in {"COMPLETED", "ABORTED"}
  /\ completed => protocolState = "COMPLETED" /\ toClose = {}

\* Until a report is attempted the aggregators hold one input of each client
\* that is completed, or is about to be.
SumFits ==
  protocolState = "STARTED" /\ consumed = {} =>
    /\ finished = FALSE
    /\ \A i \in Intrinsics, c \in Clients :
         /\ sum[i][c] \in {0, 1}
         /\ sum[i][c] = 1 <=> \/ clientStates[c] = "COMPLETED"
                              \/ clientStates[c] = "RECEIVED" /\ receiving[c] = "COMPLETED"

BeforeStart ==
  protocolState = "CREATED" =>
    /\ consumed = {} /\ finished = FALSE
    /\ \A i \in Intrinsics, c \in Clients : sum[i][c] = 0

ResultFits == result # None <=> protocolState = "COMPLETED"

IInv ==
  /\ TypeOK /\ ~checkFailed
  /\ StatesFit /\ CountersExact /\ ClosingFits /\ SumFits /\ BeforeStart /\ ResultFits
  /\ ResultExact

-----------------------------------------------------------------------------
\* There are finitely many clients.
LEMMA ClientsFinite == IsFiniteSet(Clients)
BY FS_Interval, SizesAssumption DEF Clients

\* In is the set that the lemmas of Counting are about.
LEMMA InHaving == \A S : In(S) = Having(Clients, clientStates, S)
BY DEF In, Having

\* SetClientState, applied to clients that may make the transition, fails no
\* FCP_CHECK and keeps the counters exact.
LEMMA SetClientStatesExact ==
  ASSUME TypeOK, CountersExact, ~checkFailed,
         NEW D \in SUBSET Clients, NEW to \in [D -> Counted],
         \A c \in D : Transition(clientStates[c], to[c]),
         SetClientStates(to)
  PROVE  /\ clientStates' \in [Clients -> ClientState \cup {None}]
         /\ \A c \in D : clientStates'[c] = to[c]
         /\ \A c \in Clients \ D : clientStates'[c] = clientStates[c]
         /\ num' \in [Counted -> Nat] /\ checkFailed' = FALSE
         /\ CountersExact'
<1>1. DOMAIN to = D
  OBVIOUS
<1>2. clientStates' = [c \in Clients |-> IF c \in D THEN to[c] ELSE clientStates[c]]
  BY <1>1 DEF SetClientStates
<1>3. /\ clientStates' \in [Clients -> ClientState \cup {None}]
      /\ \A c \in D : clientStates'[c] = to[c]
      /\ \A c \in Clients \ D : clientStates'[c] = clientStates[c]
  BY <1>2 DEF TypeOK, ClientState
<1>4. checkFailed' = FALSE
  BY <1>1 DEF SetClientStates, TypeOK
<1>5. ASSUME NEW s \in Counted
      PROVE  num'[s] = Cardinality(In({s}))' /\ num'[s] \in Nat
  <2>1. {c \in DOMAIN to : to[c] = s} = Having(D, clientStates', {s})
    BY <1>1, <1>3 DEF Having
  <2>2. {c \in DOMAIN to : clientStates[c] = s /\ s \in {"RECEIVED", "COMPLETED"}}
          = Having(D, clientStates, {s})
    BY <1>1 DEF Having, Transition, Counted
  <2>3. num'[s] = num[s] + Cardinality(Having(D, clientStates', {s}))
                         - Cardinality(Having(D, clientStates, {s}))
    BY <2>1, <2>2, SMTT(60) DEF SetClientStates
  <2>4. Cardinality(Having(Clients, clientStates', {s}))
          = Cardinality(Having(Clients, clientStates, {s}))
              + Cardinality(Having(D, clientStates', {s}))
              - Cardinality(Having(D, clientStates, {s}))
    <3>1. \A x \in D : ~(clientStates[x] \in {s} /\ clientStates'[x] \in {s})
      BY <1>3 DEF Transition
    <3>2. \A x \in Clients \ D : clientStates[x] \in {s} <=> clientStates'[x] \in {s}
      BY <1>3
    <3> QED
      BY <3>1, <3>2, ClientsFinite, HavingMove
  <2>5. num[s] = Cardinality(Having(Clients, clientStates, {s}))
    BY InHaving DEF CountersExact
  <2>6. In({s})' = Having(Clients, clientStates', {s})
    BY DEF In, Having
  <2>7. Cardinality(Having(Clients, clientStates', {s})) \in Nat
    BY ClientsFinite, HavingFinite
  <2> QED
    BY <2>3, <2>4, <2>5, <2>6, <2>7
<1>6. num' \in [Counted -> Nat]
  <2>1. num' = [s \in Counted |-> num'[s]]
    BY DEF SetClientStates
  <2> QED
    BY <2>1, <1>5, ZenonT(60)
<1>7. CountersExact'
  BY <1>5, ZenonT(60) DEF CountersExact
<1> QED
  BY <1>3, <1>4, <1>6, <1>7

-----------------------------------------------------------------------------
\* A new protocol satisfies the invariant.
LEMMA InitIInv == Init => IInv
<1> SUFFICES ASSUME Init PROVE IInv
  OBVIOUS
<1>1. TypeOK /\ ~checkFailed
  <2>1. 0 \in 0 .. MaxClients
    BY SizesAssumption
  <2> QED
    BY <2>1, ZenonT(60) DEF Init, TypeOK
<1>2. CountersExact
  <2>1. \A s \in Counted : In({s}) = {}
    BY NoneAssumption DEF Init, In, ClientState
  <2> QED
    BY <2>1, FS_EmptySet, SMTT(60) DEF Init, CountersExact
<1>3. StatesFit /\ ClosingFits
  <2>1. \A c \in Clients : c >= 0 /\ clientStates[c] = None /\ None \notin ClientState
    BY SizesAssumption, NoneAssumption DEF Init, Clients
  <2>2. StatesFit
    BY <2>1 DEF Init, StatesFit, Open, ClientState, Counted
  <2>3. ClosingFits
    BY <2>1 DEF Init, ClosingFits, Final, ClientState
  <2> QED
    BY <2>2, <2>3
<1>4. SumFits /\ BeforeStart /\ ResultFits /\ ResultExact
  BY DEF Init, SumFits, BeforeStart, ResultFits, ResultExact
<1> QED
  BY <1>1, <1>2, <1>3, <1>4 DEF IInv

\* New clients are pending and enter no counter.
LEMMA EnlargeIInv ==
  ASSUME IInv, NEW n \in 0 .. MaxClients, Enlarge(n),
         protocolState \in {"CREATED", "STARTED"}, protocolState' = "STARTED"
  PROVE  IInv'
<1> USE DEF IInv
<1>1. /\ size' = size + n /\ size' \in 0 .. MaxClients
      /\ clientStates' \in [Clients -> ClientState \cup {None}]
      /\ \A c \in Clients : /\ c >= size /\ c < size' => clientStates'[c] = "PENDING"
                            /\ ~(c >= size /\ c < size') => clientStates'[c] = clientStates[c]
  BY SizesAssumption DEF Enlarge, TypeOK, Clients, ClientState
<1>2. TypeOK' /\ ~checkFailed'
  <2>1. size .. size + n - 1 \in SUBSET Clients
    BY SizesAssumption DEF Enlarge, Clients, TypeOK
  <2> QED
    BY <1>1, <2>1 DEF Enlarge, TypeOK, aggregatorVars
<1>3. CountersExact'
  <2>1. \A s \in Counted : In({s})' = In({s})
    BY <1>1, NoneAssumption DEF In, StatesFit, Counted, ClientState
  <2> QED
    BY <2>1, ZenonT(60) DEF CountersExact, Enlarge
<1>4. StatesFit'
  <2>1. \A c \in Clients : clientStates'[c] = None <=> c >= size'
    BY <1>1, NoneAssumption, SizesAssumption DEF StatesFit, ClientState, Clients, TypeOK
  <2>2. \A c \in Clients : c >= size => receiving[c] = "no"
    BY NoneAssumption DEF StatesFit, ClientState
  <2>3. /\ 0 .. size - 1 \subseteq 0 .. size' - 1
        /\ size .. size + n - 1 \subseteq 0 .. size' - 1
    BY <1>1 DEF TypeOK
  <2>4. /\ accepted' \subseteq 0 .. size' - 1
        /\ \A range \in toAccept' : range \subseteq 0 .. size' - 1
    BY <2>3, ZenonT(60) DEF StatesFit, Enlarge
  <2>5. \A c \in Clients : receiving'[c] # "no" => clientStates'[c] = clientStates[c]
    BY <1>1, <2>2 DEF Enlarge
  <2>6. protocolState = "CREATED" => \A c \in Clients : receiving[c] = "no"
    BY <2>2 DEF StatesFit, Clients
  <2> QED
    BY <1>1, <2>1, <2>2, <2>4, <2>5, <2>6, ZenonT(60) DEF StatesFit, Enlarge, Open, Counted
<1>5. ClosingFits'
  BY <1>1, NoneAssumption DEF StatesFit, ClosingFits, Enlarge, Final, Counted, ClientState
<1>6. SumFits' /\ BeforeStart'
  <2>1. \A c \in Clients : /\ clientStates'[c] = "COMPLETED" <=> clientStates[c] = "COMPLETED"
                           /\ clientStates'[c] = "RECEIVED" <=> clientStates[c] = "RECEIVED"
    BY <1>1, NoneAssumption DEF StatesFit, Counted, ClientState
  <2>2. protocolState = "CREATED" =>
          \A c \in Clients : clientStates[c] = None /\ None \notin {"COMPLETED", "RECEIVED"}
    BY NoneAssumption DEF StatesFit, Clients, ClientState, Counted
  <2>3. finished' = finished /\ sum' = sum /\ consumed' = consumed /\ receiving' = receiving
    BY DEF Enlarge, aggregatorVars
  <2>4. CASE protocolState = "STARTED"
    BY <2>1, <2>3, <2>4 DEF SumFits, BeforeStart
  <2>5. CASE protocolState = "CREATED"
    <3>1. \A c \in Clients : clientStates'[c] \notin {"COMPLETED", "RECEIVED"}
      BY <2>1, <2>2, <2>5
    <3> QED
      BY <3>1, <2>3, <2>5 DEF SumFits, BeforeStart
  <2> QED
    BY <2>4, <2>5
<1>7. ResultFits' /\ ResultExact'
  BY DEF ResultFits, ResultExact, Enlarge
<1> QED
  BY <1>2, <1>3, <1>4, <1>5, <1>6, <1>7

\* The callbacks change only what the host has been told.
LEMMA CallbacksIInv ==
  ASSUME IInv, OnAcceptClients \/ OnComplete \/ \E c \in Clients : OnCloseClient(c)
  PROVE  IInv'
<1> USE DEF IInv
<1>1. CASE OnAcceptClients
  <2>1. TypeOK' /\ StatesFit'
    BY <1>1 DEF OnAcceptClients, TypeOK, StatesFit, stateVars, aggregatorVars
  <2> QED
    BY <1>1, <2>1 DEF OnAcceptClients, CountersExact, In, ClosingFits, SumFits, BeforeStart,
                      ResultFits, ResultExact, stateVars, aggregatorVars
<1>2. CASE OnComplete
  <2>1. completed' = TRUE /\ protocolState = "COMPLETED" /\ toClose = {}
    BY <1>2 DEF OnComplete, ResultFits
  <2>2. /\ UNCHANGED <<protocolState, size, clientStates, num, checkFailed, finished, sum>>
        /\ UNCHANGED <<consumed, receiving, toAccept, accepted, toClose, closed, hostClosed>>
        /\ UNCHANGED result
    BY <1>2 DEF OnComplete, stateVars, aggregatorVars
  <2>3. TypeOK' /\ ~checkFailed'
    BY <2>1, <2>2 DEF TypeOK
  <2>4. ClosingFits'
    BY <2>1, <2>2, SMTT(60) DEF ClosingFits
  <2>5. StatesFit' /\ CountersExact'
    BY <2>2 DEF StatesFit, CountersExact, In
  <2>6. SumFits' /\ BeforeStart' /\ ResultFits' /\ ResultExact'
    BY <2>2 DEF SumFits, BeforeStart, ResultFits, ResultExact
  <2> QED
    BY <2>3, <2>4, <2>5, <2>6
<1>3. ASSUME NEW c \in Clients, OnCloseClient(c)
      PROVE  IInv'
  <2>1. /\ c \in toClose /\ closed[c] = 0 /\ toClose' = toClose \ {c}
        /\ closed' = [closed EXCEPT ![c] = 1]
    <3>1. c \in toClose /\ closed[c] = 0
      BY <1>3 DEF OnCloseClient, ClosingFits
    <3> QED
      BY <1>3, <3>1 DEF OnCloseClient, TypeOK
  <2>2. /\ UNCHANGED <<protocolState, size, clientStates, num, checkFailed, finished, sum>>
        /\ UNCHANGED <<consumed, receiving, toAccept, accepted, hostClosed, result, completed>>
    BY <1>3 DEF OnCloseClient, stateVars, aggregatorVars
  <2>3. TypeOK' /\ ~checkFailed'
    BY <2>1, <2>2 DEF TypeOK
  <2>4. ClosingFits'
    BY <2>1, <2>2 DEF ClosingFits, TypeOK
  <2>5. StatesFit' /\ CountersExact'
    BY <2>2 DEF StatesFit, CountersExact, In
  <2>6. SumFits' /\ BeforeStart' /\ ResultFits' /\ ResultExact'
    BY <2>2 DEF SumFits, BeforeStart, ResultFits, ResultExact
  <2> QED
    BY <2>3, <2>4, <2>5, <2>6
<1> QED
  BY <1>1, <1>2, <1>3

\* The steps of one client's call.
LEMMA ReceiveIInv ==
  ASSUME IInv, NEW c \in Clients, ReceiveClientMessage(c)
  PROVE  IInv'
<1> USE DEF IInv
<1> DEFINE to == [x \in {c} |-> "RECEIVED"]
<1>1. /\ clientStates' \in [Clients -> ClientState \cup {None}]
      /\ clientStates'[c] = "RECEIVED"
      /\ \A d \in Clients \ {c} : clientStates'[d] = clientStates[d]
      /\ num' \in [Counted -> Nat] /\ checkFailed' = FALSE
      /\ CountersExact'
  <2>1. {c} \in SUBSET Clients /\ to \in [{c} -> Counted]
    BY DEF Counted
  <2>2. \A d \in {c} : Transition(clientStates[d], to[d])
    BY DEF ReceiveClientMessage, Transition
  <2>3. SetClientStates(to)
    BY DEF ReceiveClientMessage
  <2>4. to[c] = "RECEIVED"
    OBVIOUS
  <2> HIDE DEF to
  <2> QED
    BY <2>1, <2>2, <2>3, <2>4, SetClientStatesExact, ZenonT(60)
<1>2. /\ clientStates[c] = "PENDING" /\ receiving[c] = "no" /\ receiving' = [receiving EXCEPT ![c] = "input"]
      /\ UNCHANGED <<protocolState, size, finished, sum, consumed, toAccept, accepted>>
      /\ UNCHANGED <<toClose, closed, hostClosed, result, completed>>
  BY DEF ReceiveClientMessage, HostMayCall, aggregatorVars, hostVars
<1>3. protocolState = "STARTED"
  BY <1>2 DEF StatesFit, Open
<1>4. TypeOK'
  BY <1>1, <1>2, ZenonT(60) DEF TypeOK
<1>5. StatesFit'
  BY <1>1, <1>2, <1>3, NoneAssumption, SMTT(60) DEF StatesFit, TypeOK, Open, Counted, ClientState
<1>6. ClosingFits'
  BY <1>1, <1>2, SMTT(60) DEF ClosingFits, Final, Counted
<1>7. SumFits' /\ BeforeStart'
  BY <1>1, <1>2, <1>3 DEF SumFits, BeforeStart, TypeOK
<1>8. ResultFits' /\ ResultExact'
  BY <1>2, <1>3 DEF ResultFits, ResultExact
<1> QED
  BY <1>1, <1>4, <1>5, <1>6, <1>7, <1>8

\* The second section of ReceiveClientMessage, whether the input is usable or not.
LEMMA InputIInv ==
  ASSUME IInv, NEW c \in Clients, InputUnusable(c) \/ AggregateClientInput(c)
  PROVE  IInv'
<1> USE DEF IInv
<1>1. /\ receiving[c] = "input"
      /\ receiving' \in [Clients -> {"no", "input", "COMPLETED", "FAILED", "DISCARDED"}]
      /\ receiving'[c] \in {"COMPLETED", "FAILED", "DISCARDED"}
      /\ \A d \in Clients \ {c} : receiving'[d] = receiving[d]
  BY DEF InputUnusable, AggregateClientInput, TypeOK
<1>2. /\ UNCHANGED <<protocolState, size, clientStates, num, checkFailed, finished, consumed>>
      /\ UNCHANGED <<toAccept, accepted, toClose, closed, hostClosed, result, completed>>
  BY DEF InputUnusable, AggregateClientInput, stateVars, aggregatorVars, hostVars
<1>3. sum' \in [Intrinsics -> [Clients -> Nat]]
  BY DEF InputUnusable, AggregateClientInput, aggregatorVars, TypeOK
<1>4. clientStates[c] \in Counted
  BY <1>1 DEF StatesFit
<1>5. TypeOK' /\ ~checkFailed'
  BY <1>1, <1>2, <1>3 DEF TypeOK
<1>6. StatesFit'
  BY <1>1, <1>2, <1>4, SMTT(60) DEF StatesFit
<1>7. ClosingFits' /\ CountersExact' /\ ResultFits' /\ ResultExact'
  BY <1>2, SMTT(60) DEF ClosingFits, CountersExact, In, ResultFits, ResultExact
<1>8. BeforeStart'
  <2>1. protocolState # "CREATED"
    BY <1>4, NoneAssumption DEF StatesFit, Clients, ClientState
  <2> QED
    BY <2>1, <1>2 DEF BeforeStart
<1>9. SumFits'
  <2>1. SUFFICES ASSUME protocolState = "STARTED", consumed = {}
                 PROVE  SumFits'
    BY <1>2 DEF SumFits
  <2>2. finished = FALSE /\ finished' = FALSE
    BY <2>1, <1>2 DEF SumFits
  <2>3. clientStates[c] = "RECEIVED"
    BY <2>1, <1>1 DEF StatesFit
  <2>4. \A i \in Intrinsics : sum[i][c] = 0
    BY <2>1, <2>3, <1>1 DEF SumFits
  <2>5. CASE InputUnusable(c)
    <3>1. sum' = sum /\ receiving'[c] = "FAILED"
      BY <2>5 DEF InputUnusable, aggregatorVars, TypeOK
    <3> QED
      BY <2>1, <2>2, <2>3, <2>4, <3>1, <1>1, <1>2 DEF SumFits
  <2>6. CASE AggregateClientInput(c)
    <3>1. Taking = Intrinsics
      BY <2>1 DEF Taking
    <3>2. receiving'[c] = "COMPLETED"
      BY <2>6, <3>1 DEF AggregateClientInput, TypeOK
    <3>3. \A i \in Intrinsics : sum'[i] = [sum[i] EXCEPT ![c] = @ + 1]
      BY <2>2, <2>6, <3>1 DEF AggregateClientInput
    <3>4. ASSUME NEW i \in Intrinsics
          PROVE  /\ sum'[i][c] = 1
                 /\ \A d \in Clients \ {c} : sum'[i][d] = sum[i][d]
      <4>1. sum[i] \in [Clients -> Nat] /\ sum[i][c] = 0
        BY <2>4 DEF TypeOK
      <4>2. sum'[i] = [sum[i] EXCEPT ![c] = sum[i][c] + 1]
        BY <3>3
      <4> QED
        BY <4>1, <4>2
    <3> QED
      BY <2>1, <2>2, <2>3, <3>2, <3>4, <1>1, <1>2 DEF SumFits
  <2> QED
    BY <2>5, <2>6
<1> QED
  BY <1>5, <1>6, <1>7, <1>8, <1>9

\* The third section of ReceiveClientMessage.
LEMMA UpdateClientIInv ==
  ASSUME IInv, NEW c \in Clients, UpdateClient(c)
  PROVE  IInv'
<1> USE DEF IInv
<1>1. /\ receiving[c] \in {"COMPLETED", "FAILED", "DISCARDED"}
      /\ receiving' \in [Clients -> {"no", "input", "COMPLETED", "FAILED", "DISCARDED"}]
      /\ receiving'[c] = "no"
      /\ \A d \in Clients \ {c} : receiving'[d] = receiving[d]
  BY SMTT(60) DEF UpdateClient, TypeOK, ClientState, Counted
<1>2. /\ UNCHANGED <<protocolState, size, finished, sum, consumed>>
      /\ UNCHANGED <<toAccept, accepted, toClose, hostClosed, result, completed>>
  BY ZenonT(60) DEF UpdateClient, aggregatorVars
<1>3. clientStates[c] \in Counted
  BY <1>1 DEF StatesFit
<1>4. protocolState # "CREATED"
  BY <1>3, NoneAssumption DEF StatesFit, Clients, ClientState
<1>5. CASE clientStates[c] = "RECEIVED"
  <2> DEFINE to == [x \in {c} |-> receiving[c]]
  <2>1. /\ clientStates' \in [Clients -> ClientState \cup {None}]
        /\ clientStates'[c] = receiving[c]
        /\ \A d \in Clients \ {c} : clientStates'[d] = clientStates[d]
        /\ num' \in [Counted -> Nat] /\ checkFailed' = FALSE
        /\ CountersExact'
    <3>1. {c} \in SUBSET Clients /\ to \in [{c} -> Counted]
      BY <1>1 DEF Counted
    <3>2. \A d \in {c} : Transition(clientStates[d], to[d])
      BY <1>1, <1>5 DEF Transition
    <3>3. SetClientStates(to)
      BY <1>5 DEF UpdateClient
    <3>4. to[c] = receiving[c]
      OBVIOUS
    <3> HIDE DEF to
    <3> QED
      BY <3>1, <3>2, <3>3, <3>4, SetClientStatesExact, ZenonT(60)
  <2>2. protocolState = "STARTED" /\ result = None
    BY <1>5 DEF StatesFit, Open, ResultFits
  <2>3. closed[c] = 0 /\ c \notin toClose /\ c \notin hostClosed
    BY <1>5 DEF ClosingFits, Final
  <2>4. closed' = [closed EXCEPT ![c] = 1]
    BY <1>5, <2>3 DEF UpdateClient, TypeOK
  <2>5. TypeOK'
    BY <1>1, <1>2, <2>1, <2>4, ZenonT(60) DEF TypeOK
  <2>6. StatesFit'
    BY <1>1, <1>2, <1>5, <2>1, <2>2, NoneAssumption, SMTT(60)
    DEF StatesFit, TypeOK, Open, Counted, ClientState
  <2>7. ClosingFits'
    BY <1>1, <1>2, <2>1, <2>2, <2>3, <2>4, SMTT(60) DEF ClosingFits, Final, Counted, TypeOK
  <2>8. SumFits' /\ BeforeStart'
    BY <1>1, <1>2, <1>5, <2>1, <2>2, SMTT(60) DEF SumFits, BeforeStart
  <2>9. ResultFits' /\ ResultExact'
    BY <1>2, <2>2, SMTT(60) DEF ResultFits, ResultExact
  <2> QED
    BY <2>1, <2>5, <2>6, <2>7, <2>8, <2>9
<1>6. CASE clientStates[c] # "RECEIVED"
  <2>1. UNCHANGED <<clientStates, num, checkFailed, closed>>
    BY <1>6 DEF UpdateClient
  <2>2. protocolState # "STARTED"
    BY <1>1, <1>6 DEF StatesFit
  <2>3. TypeOK' /\ ~checkFailed'
    BY <1>1, <1>2, <2>1 DEF TypeOK
  <2>4. StatesFit' /\ CountersExact'
    BY <1>1, <1>2, <1>4, <1>6, <2>1, <2>2, ZenonT(60) DEF StatesFit, CountersExact, In
  <2>5. ClosingFits'
    BY <1>2, <2>1, ZenonT(60) DEF ClosingFits
  <2>6. SumFits' /\ BeforeStart'
    BY <1>2, <1>4, <2>1, <2>2 DEF SumFits, BeforeStart
  <2>7. ResultFits' /\ ResultExact'
    BY <1>2, <2>1 DEF ResultFits, ResultExact
  <2> QED
    BY <2>3, <2>4, <2>5, <2>6, <2>7
<1> QED
  BY <1>5, <1>6

\* CloseClient, for a client that is pending or not.
LEMMA CloseClientIInv ==
  ASSUME IInv, NEW c \in Clients, NEW ok \in BOOLEAN, CloseClient(c, ok)
  PROVE  IInv'
<1> USE DEF IInv
<1>1. /\ c \in 0 .. size - 1 /\ receiving[c] = "no" /\ closed[c] = 0
      /\ hostClosed' = hostClosed \cup {c}
      /\ protocolState # "CREATED"
  BY DEF CloseClient, HostMayCall, StatesFit
<1>2. /\ UNCHANGED <<protocolState, size, finished, sum, consumed, receiving>>
      /\ UNCHANGED <<toAccept, accepted, toClose, closed, result, completed>>
  BY DEF CloseClient, aggregatorVars
<1>3. CASE clientStates[c] = "PENDING"
  <2> DEFINE to == [x \in {c} |-> IF ok THEN "DISCARDED" ELSE "FAILED"]
  <2>1. /\ clientStates' \in [Clients -> ClientState \cup {None}]
        /\ clientStates'[c] \in {"DISCARDED", "FAILED"}
        /\ \A d \in Clients \ {c} : clientStates'[d] = clientStates[d]
        /\ num' \in [Counted -> Nat] /\ checkFailed' = FALSE
        /\ CountersExact'
    <3>1. {c} \in SUBSET Clients /\ to \in [{c} -> Counted]
      BY DEF Counted
    <3>2. \A d \in {c} : Transition(clientStates[d], to[d])
      BY <1>3 DEF Transition
    <3>3. SetClientStates(to)
      BY <1>3 DEF CloseClient
    <3>4. to[c] \in {"DISCARDED", "FAILED"}
      OBVIOUS
    <3> HIDE DEF to
    <3> QED
      BY <3>1, <3>2, <3>3, <3>4, SetClientStatesExact, ZenonT(60)
  <2>2. protocolState = "STARTED" /\ result = None
    BY <1>3 DEF StatesFit, Open, ResultFits
  <2>3. TypeOK'
    BY <1>1, <1>2, <2>1, ZenonT(60) DEF TypeOK
  <2>4. StatesFit'
    BY <1>1, <1>2, <1>3, <2>1, <2>2, NoneAssumption, SMTT(60)
    DEF StatesFit, TypeOK, Open, Counted, ClientState
  <2>5. ClosingFits'
    BY <1>1, <1>2, <2>1, <2>2, SMTT(60) DEF ClosingFits, Final, Counted, TypeOK
  <2>6. SumFits' /\ BeforeStart'
    BY <1>2, <1>3, <2>1, <2>2, SMTT(60) DEF SumFits, BeforeStart
  <2>7. ResultFits' /\ ResultExact'
    BY <1>2, <2>2, SMTT(60) DEF ResultFits, ResultExact
  <2> QED
    BY <2>1, <2>3, <2>4, <2>5, <2>6, <2>7
<1>4. CASE clientStates[c] # "PENDING"
  <2>1. UNCHANGED <<clientStates, num, checkFailed>>
    BY <1>4 DEF CloseClient
  <2>2. clientStates[c] \in Final
    BY <1>1, <1>4 DEF StatesFit, TypeOK, ClientState, Final
  <2>3. TypeOK' /\ ~checkFailed'
    BY <1>1, <1>2, <2>1 DEF TypeOK
  <2>4. ClosingFits'
    BY <1>1, <1>2, <2>1, <2>2 DEF ClosingFits
  <2>5. StatesFit' /\ CountersExact'
    BY <1>2, <2>1, SMTT(60) DEF StatesFit, CountersExact, In
  <2>6. SumFits' /\ BeforeStart' /\ ResultFits' /\ ResultExact'
    BY <1>2, <2>1, SMTT(60) DEF SumFits, BeforeStart, ResultFits, ResultExact
  <2> QED
    BY <2>3, <2>4, <2>5, <2>6
<1> QED
  BY <1>3, <1>4

\* The loops of Complete and Abort over all clients.
LEMMA ClosingExact ==
  ASSUME IInv, NEW S \in SUBSET {"PENDING", "RECEIVED", "COMPLETED"},
         SetClientStates(Closing(S))
  PROVE  /\ clientStates' \in [Clients -> ClientState \cup {None}]
         /\ \A c \in Clients : /\ clientStates[c] \in S => clientStates'[c] \in {"ABORTED", "DISCARDED"}
                               /\ clientStates[c] \notin S => clientStates'[c] = clientStates[c]
         /\ \A c \in Clients : clientStates'[c] = "ABORTED" <=>
                                 \/ clientStates[c] = "ABORTED"
                                 \/ clientStates[c] = "PENDING" /\ "PENDING" \in S
         /\ num' \in [Counted -> Nat] /\ checkFailed' = FALSE
         /\ CountersExact'
<1>1. PICK to : to = Closing(S)
  OBVIOUS
<1>2. In(S) \in SUBSET Clients /\ to \in [In(S) -> Counted]
  BY <1>1 DEF Closing, In, Counted
<1>3. \A c \in In(S) : /\ Transition(clientStates[c], to[c])
                       /\ to[c] = IF clientStates[c] = "PENDING" THEN "ABORTED" ELSE "DISCARDED"
  BY <1>1, ZenonT(60) DEF Closing, In, Transition
<1>4. SetClientStates(to)
  BY <1>1
<1>5. /\ clientStates' \in [Clients -> ClientState \cup {None}]
      /\ \A c \in In(S) : clientStates'[c] = to[c]
      /\ \A c \in Clients \ In(S) : clientStates'[c] = clientStates[c]
      /\ num' \in [Counted -> Nat] /\ checkFailed' = FALSE
      /\ CountersExact'
  BY <1>2, <1>3, <1>4, SetClientStatesExact, ZenonT(60) DEF IInv
<1> QED
  BY <1>3, <1>5, SMTT(60) DEF In

\* A report that fails leaves aggregators consumed and the protocol started.
LEMMA CompleteFailsIInv ==
  ASSUME IInv, protocolState = "STARTED", BuildFails \/ \E i \in Intrinsics : ReportFails(i)
  PROVE  IInv'
<1> USE DEF IInv
<1>1. /\ UNCHANGED <<protocolState, size, clientStates, num, checkFailed, sum, receiving>>
      /\ UNCHANGED <<toAccept, accepted, toClose, closed, hostClosed, result, completed>>
  BY DEF BuildFails, ReportFails, stateVars, hostVars
<1>2. consumed' \in SUBSET Intrinsics /\ consumed' # {} /\ finished' \in BOOLEAN
  <2>1. 1 \in Intrinsics
    BY SizesAssumption DEF Intrinsics
  <2>2. \A i \in Intrinsics : 1 .. i \subseteq Intrinsics /\ 1 \in 1 .. i
    BY SizesAssumption DEF Intrinsics
  <2> QED
    BY <2>1, <2>2, ZenonT(60) DEF BuildFails, ReportFails, TypeOK
<1>3. TypeOK' /\ ~checkFailed'
  BY <1>1, <1>2 DEF TypeOK
<1>4. StatesFit' /\ CountersExact' /\ ClosingFits'
  BY <1>1, SMTT(60) DEF StatesFit, CountersExact, In, ClosingFits
<1>5. SumFits' /\ BeforeStart' /\ ResultFits' /\ ResultExact'
  BY <1>1, <1>2, SMTT(60) DEF SumFits, BeforeStart, ResultFits, ResultExact
<1> QED
  BY <1>3, <1>4, <1>5

\* What ReportSucceeds and Abort have in common: no client stays open, and the
\* clients that were open are to be closed.
LEMMA EndIInv ==
  ASSUME IInv, protocolState = "STARTED",
         protocolState' \in {"COMPLETED", "ABORTED"},
         NEW S, S \in {{"PENDING", "RECEIVED"}, {"PENDING", "RECEIVED", "COMPLETED"}},
         SetClientStates(Closing(S)),
         toClose' = toClose \cup In({"PENDING", "RECEIVED"}),
         UNCHANGED <<size, receiving, toAccept, accepted, closed, hostClosed, completed>>
  PROVE  /\ StatesFit' /\ ClosingFits' /\ SumFits' /\ BeforeStart'
         /\ toClose' \in SUBSET Clients
<1> USE DEF IInv
<1>1. S \in SUBSET {"PENDING", "RECEIVED", "COMPLETED"} /\ "PENDING" \in S /\ "RECEIVED" \in S
  OBVIOUS
<1>2. /\ clientStates' \in [Clients -> ClientState \cup {None}]
      /\ \A c \in Clients : /\ clientStates[c] \in S => clientStates'[c] \in {"ABORTED", "DISCARDED"}
                            /\ clientStates[c] \notin S => clientStates'[c] = clientStates[c]
  BY <1>1, ClosingExact, ZenonT(60)
<1>3. toClose = {} /\ completed = FALSE
  BY DEF ClosingFits, TypeOK
<1>4. \A c \in Clients : c \in toClose' <=> clientStates[c] \in Open
  BY <1>3 DEF In, Open
<1>5. StatesFit'
  <2>1. \A c \in Clients : clientStates'[c] = None <=> c >= size'
    BY <1>1, <1>2, NoneAssumption, SMTT(60) DEF StatesFit, ClientState, Counted
  <2>2. \A c \in Clients : clientStates'[c] \notin Open
    BY <1>1, <1>2 DEF Open
  <2>3. \A c \in Clients : receiving'[c] # "no" => clientStates'[c] \in Counted
    BY <1>2, SMTT(60) DEF StatesFit, Counted
  <2> QED
    BY <2>1, <2>2, <2>3, SMTT(60) DEF StatesFit, Open
<1>6. ClosingFits'
  <2>1. \A c \in Clients : clientStates'[c] \in Final
                             <=> clientStates[c] \in Final \/ clientStates[c] \in Open
    BY <1>1, <1>2 DEF Final, Open, Counted
  <2>2. \A c \in Clients : c \in toClose' => closed[c] = 0
    BY <1>4, SMTT(60) DEF ClosingFits, Open, Final, Counted, TypeOK
  <2>3. \A c \in Clients : closed'[c] = 0 \/ (closed'[c] = 1 /\ c \notin toClose')
    BY <2>2, SMTT(60) DEF ClosingFits
  <2>4. \A c \in Clients : closed'[c] = 1 \/ c \in toClose' \/ c \in hostClosed'
                             <=> clientStates'[c] \in Final
    BY <2>1, <1>3, <1>4 DEF ClosingFits
  <2> QED
    BY <2>3, <2>4, <1>3, SMTT(60) DEF ClosingFits
<1>7. SumFits' /\ BeforeStart'
  BY DEF SumFits, BeforeStart
<1>8. toClose' \in SUBSET Clients
  BY DEF TypeOK, In
<1> QED
  BY <1>5, <1>6, <1>7, <1>8

\* Complete with a report: every open client is given up.
LEMMA ReportSucceedsIInv ==
  ASSUME IInv, protocolState = "STARTED", consumed = {}, ReportSucceeds
  PROVE  IInv'
<1> USE DEF IInv
<1> DEFINE S == {"PENDING", "RECEIVED"}
<1>1. /\ clientStates' \in [Clients -> ClientState \cup {None}]
      /\ \A c \in Clients : /\ clientStates[c] \in S => clientStates'[c] \in {"ABORTED", "DISCARDED"}
                            /\ clientStates[c] \notin S => clientStates'[c] = clientStates[c]
      /\ \A c \in Clients : clientStates'[c] = "ABORTED" <=>
                              \/ clientStates[c] = "ABORTED"
                              \/ clientStates[c] = "PENDING" /\ "PENDING" \in S
      /\ num' \in [Counted -> Nat] /\ checkFailed' = FALSE
      /\ CountersExact'
  BY ClosingExact, ZenonT(60) DEF ReportSucceeds
<1>2. /\ StatesFit' /\ ClosingFits' /\ SumFits' /\ BeforeStart'
      /\ toClose' \in SUBSET Clients
  BY EndIInv DEF ReportSucceeds
<1>3. TypeOK'
  BY <1>1, <1>2, ZenonT(60) DEF ReportSucceeds, TypeOK
<1>4. ResultFits'
  BY NoneAssumption, SMTT(60) DEF ReportSucceeds, ResultFits, TypeOK
<1>5. ResultExact'
  <2>1. result' = sum
    BY SMTT(60) DEF ReportSucceeds
  <2>2. ASSUME NEW i \in Intrinsics, NEW c \in Clients
        PROVE  /\ sum[i][c] = sum[1][c] /\ sum[i][c] <= 1
               /\ clientStates'[c] = "COMPLETED" => sum[i][c] = 1
               /\ sum[i][c] = 1 => clientStates'[c] \in {"COMPLETED", "DISCARDED"}
    <3>1. 1 \in Intrinsics
      BY SizesAssumption, SMTT(60) DEF Intrinsics
    <3>2. \A j \in Intrinsics :
            /\ sum[j][c] \in {0, 1}
            /\ sum[j][c] = 1 <=> \/ clientStates[c] = "COMPLETED"
                                 \/ clientStates[c] = "RECEIVED" /\ receiving[c] = "COMPLETED"
      BY DEF SumFits
    <3>3. clientStates'[c] = "COMPLETED" <=> clientStates[c] = "COMPLETED"
      BY <1>1
    <3>4. clientStates[c] = "RECEIVED" => clientStates'[c] = "DISCARDED"
      BY <1>1
    <3> QED
      BY <3>1, <3>2, <3>3, <3>4
  <2> QED
    BY <2>1, <2>2 DEF ResultExact
<1> QED
  BY <1>1, <1>2, <1>3, <1>4, <1>5

\* Abort: completed clients are discarded too.
LEMMA AbortIInv ==
  ASSUME IInv, Abort
  PROVE  IInv'
<1> USE DEF IInv
<1>1. /\ clientStates' \in [Clients -> ClientState \cup {None}]
      /\ num' \in [Counted -> Nat] /\ checkFailed' = FALSE
      /\ CountersExact'
  BY ClosingExact, ZenonT(60) DEF Abort
<1>2. /\ StatesFit' /\ ClosingFits' /\ SumFits' /\ BeforeStart'
      /\ toClose' \in SUBSET Clients
  BY EndIInv DEF Abort
<1>3. TypeOK'
  BY <1>1, <1>2, ZenonT(60) DEF Abort, TypeOK
<1>4. result = None /\ result' = None /\ protocolState' = "ABORTED"
  BY DEF Abort, ResultFits
<1>5. ResultFits' /\ ResultExact'
  BY <1>4 DEF ResultFits, ResultExact
<1> QED
  BY <1>1, <1>2, <1>3, <1>5

\* The invariant is inductive: every section of every call keeps it.
LEMMA NextIInv == IInv /\ [Next]_vars => IInv'
<1> SUFFICES ASSUME IInv, [Next]_vars PROVE IInv'
  OBVIOUS
<1>1. ASSUME NEW n \in 0 .. MaxClients, Start(n) \/ AddClients(n)
      PROVE  IInv'
  BY <1>1, EnlargeIInv DEF Start, AddClients
<1>2. ASSUME NEW c \in Clients, ReceiveClientMessage(c)
      PROVE  IInv'
  BY <1>2, ReceiveIInv
<1>3. ASSUME NEW c \in Clients, Receive(c)
      PROVE  IInv'
  BY <1>3, InputIInv, UpdateClientIInv DEF Receive
<1>4. ASSUME NEW c \in Clients, NEW ok \in BOOLEAN, CloseClient(c, ok)
      PROVE  IInv'
  BY <1>4, CloseClientIInv
<1>5. CASE OnAcceptClients \/ OnComplete \/ \E c \in Clients : OnCloseClient(c)
  BY <1>5, CallbacksIInv
<1>6. CASE Complete
  BY <1>6, CompleteFailsIInv, ReportSucceedsIInv DEF Complete
<1>7. CASE Abort
  BY <1>7, AbortIInv
<1>8. CASE UNCHANGED vars
  <2>1. /\ UNCHANGED <<protocolState, size, clientStates, num, checkFailed, finished, sum>>
        /\ UNCHANGED <<consumed, receiving, toAccept, accepted, toClose, closed, hostClosed>>
        /\ UNCHANGED <<result, completed>>
    BY <1>8 DEF vars, stateVars, aggregatorVars, hostVars
  <2>2. TypeOK' /\ ~checkFailed'
    BY <2>1, SMTT(60) DEF IInv, TypeOK
  <2>3. StatesFit' /\ CountersExact' /\ ClosingFits'
    BY <2>1, ZenonT(60) DEF IInv, StatesFit, CountersExact, In, ClosingFits
  <2>4. SumFits' /\ BeforeStart' /\ ResultFits' /\ ResultExact'
    BY <2>1, SMTT(60) DEF IInv, SumFits, BeforeStart, ResultFits, ResultExact
  <2> QED
    BY <2>2, <2>3, <2>4 DEF IInv
<1> QED
  BY <1>1, <1>2, <1>3, <1>4, <1>5, <1>6, <1>7, <1>8 DEF Next

\* What GetStatus computes by subtraction is the number of pending clients.
LEMMA PendingExact ==
  ASSUME IInv
  PROVE  NumPending = Cardinality(In({"PENDING"}))
<1> DEFINE H(T) == Cardinality(Having(Clients, clientStates, T))
<1>1. ASSUME NEW T, NEW t, t \notin T
      PROVE  H(T \cup {t}) = H(T) + H({t})
  BY <1>1, ClientsFinite, HavingUnion
<1>2. H(ClientState) = size
  <2>1. Having(Clients, clientStates, ClientState) = 0 .. size - 1
    <3>1. \A c \in Clients : clientStates[c] \in ClientState <=> c < size
      <4>1. \A c \in Clients : clientStates[c] \in ClientState <=> clientStates[c] # None
        BY NoneAssumption DEF IInv, TypeOK
      <4>2. \A c \in Clients : clientStates[c] = None <=> c >= size
        BY DEF IInv, StatesFit
      <4>3. size \in Int /\ Clients \subseteq Int
        BY DEF IInv, TypeOK, Clients
      <4> QED
        BY <4>1, <4>2, <4>3
    <3>2. {c \in Clients : c < size} = 0 .. size - 1
      BY SizesAssumption DEF IInv, TypeOK, Clients
    <3> QED
      BY <3>1, <3>2 DEF Having
  <2>2. Cardinality(0 .. size - 1) = size
    BY FS_Interval DEF IInv, TypeOK
  <2> QED
    BY <2>1, <2>2
<1>3. \A s \in Counted : num[s] = H({s})
  BY InHaving DEF IInv, CountersExact
<1>4. \A T : H(T) \in Nat
  BY ClientsFinite, HavingFinite
<1> HIDE DEF H
<1>5. H({"PENDING"} \cup {"RECEIVED"}) = H({"PENDING"}) + H({"RECEIVED"})
  BY <1>1
<1>6. H({"PENDING", "RECEIVED"} \cup {"COMPLETED"}) = H({"PENDING", "RECEIVED"}) + H({"COMPLETED"})
  BY <1>1
<1>7. H({"PENDING", "RECEIVED", "COMPLETED"} \cup {"FAILED"})
        = H({"PENDING", "RECEIVED", "COMPLETED"}) + H({"FAILED"})
  BY <1>1
<1>8. H({"PENDING", "RECEIVED", "COMPLETED", "FAILED"} \cup {"ABORTED"})
        = H({"PENDING", "RECEIVED", "COMPLETED", "FAILED"}) + H({"ABORTED"})
  BY <1>1
<1>9. H({"PENDING", "RECEIVED", "COMPLETED", "FAILED", "ABORTED"} \cup {"DISCARDED"})
        = H({"PENDING", "RECEIVED", "COMPLETED", "FAILED", "ABORTED"}) + H({"DISCARDED"})
  BY <1>1
<1>10. /\ {"PENDING"} \cup {"RECEIVED"} = {"PENDING", "RECEIVED"}
       /\ {"PENDING", "RECEIVED"} \cup {"COMPLETED"} = {"PENDING", "RECEIVED", "COMPLETED"}
       /\ {"PENDING", "RECEIVED", "COMPLETED"} \cup {"FAILED"}
            = {"PENDING", "RECEIVED", "COMPLETED", "FAILED"}
       /\ {"PENDING", "RECEIVED", "COMPLETED", "FAILED"} \cup {"ABORTED"}
            = {"PENDING", "RECEIVED", "COMPLETED", "FAILED", "ABORTED"}
       /\ {"PENDING", "RECEIVED", "COMPLETED", "FAILED", "ABORTED"} \cup {"DISCARDED"}
            = ClientState
  BY DEF ClientState, Counted
<1>11. size = H({"PENDING"}) + num["RECEIVED"] + num["COMPLETED"] + num["FAILED"]
                + num["ABORTED"] + num["DISCARDED"]
  BY <1>2, <1>3, <1>4, <1>5, <1>6, <1>7, <1>8, <1>9, <1>10, ZenonT(60) DEF Counted
<1>12. NumPending = H({"PENDING"})
  BY <1>3, <1>4, <1>11 DEF NumPending, Counted
<1> QED
  BY <1>12, InHaving DEF H

-----------------------------------------------------------------------------
\* The inductive invariant holds: client states, counters, callbacks and
\* aggregators fit together whatever calls overlap.
THEOREM AggregationInvariance == Spec => []IInv
<1>1. Init => IInv
  BY InitIInv
<1>2. IInv /\ [Next]_vars => IInv'
  BY NextIInv
<1> QED
  BY <1>1, <1>2, PTL DEF Spec

\* The FCP_CHECKs of SetClientState hold and GetStatus counts exactly, for any
\* number of clients.
THEOREM BooksAlwaysBalance == Spec => []BooksBalance
<1>1. IInv => BooksBalance
  BY PendingExact DEF IInv, BooksBalance, CountersExact
<1> QED
  BY <1>1, AggregationInvariance, PTL

\* The result Complete hands over is exact, up to the calls that overlap it.
THEOREM ResultAlwaysExact == Spec => []ResultExact
<1>1. IInv => ResultExact
  BY DEF IInv
<1> QED
  BY <1>1, AggregationInvariance, PTL

\* No client is told twice to close, and all are closed before OnComplete.
THEOREM AlwaysClosedOnce == Spec => []ClosedOnce
<1>1. IInv => ClosedOnce
  <2> SUFFICES ASSUME IInv PROVE ClosedOnce
    OBVIOUS
  <2>1. ASSUME NEW c \in Clients
        PROVE  /\ closed[c] + (IF c \in toClose THEN 1 ELSE 0) <= 1
               /\ c \in hostClosed /\ (closed[c] = 1 \/ c \in toClose)
                    => protocolState \in {"COMPLETED", "ABORTED"}
    <3>1. closed[c] = 0 \/ (closed[c] = 1 /\ c \notin toClose)
      BY DEF IInv, ClosingFits
    <3>2. closed[c] + (IF c \in toClose THEN 1 ELSE 0) <= 1
      BY <3>1
    <3>3. c \in hostClosed /\ (closed[c] = 1 \/ c \in toClose)
            => protocolState \in {"COMPLETED", "ABORTED"}
      BY DEF IInv, ClosingFits
    <3> QED
      BY <3>2, <3>3
  <2>2. ASSUME completed, NEW c \in 0 .. size - 1
        PROVE  closed[c] = 1 \/ c \in hostClosed
    <3>1. c \in Clients /\ clientStates[c] \in ClientState
      BY SizesAssumption, SMTT(60) DEF IInv, TypeOK, StatesFit, Clients
    <3>2. clientStates[c] \in Final /\ toClose = {}
      BY <2>2, <3>1 DEF IInv, ClosingFits, StatesFit, Open, Final, ClientState
    <3> QED
      BY <3>1, <3>2, SMTT(60) DEF IInv, ClosingFits
  <2> QED
    BY <2>1, <2>2 DEF ClosedOnce
<1> QED
  BY <1>1, AggregationInvariance, PTL

-----------------------------------------------------------------------------
(* The outcome of a plan's run.                                            *)

Codes == {"none", "Ok", "OutOfRange", "Cancelled", "Unavailable", "Internal", "InvalidArgument"}
DatasetIterators ==
  [state : {"none", "dataset", "open", "failing", "finished"}, left : Nat, pending : Codes]

PlanTypes ==
  /\ engine \in {"tf", "tflite", "none", "query"}
  /\ place \in {"start", "engine", "waiting", "aborting", "exit", "done"}
  /\ session \in {"none", "running", "closed", "Ok", "OutOfRange", "Cancelled", "InvalidArgument"}
  /\ iter \in [Datasets -> DatasetIterators]
  /\ iterStatus \in Codes \ {"none", "OutOfRange"}
  /\ totalCount \in Nat /\ stop \in BOOLEAN
  /\ failures \in [errors : SUBSET Codes, leaked : SUBSET Datasets, given : Nat]

\* Where the caller is says whether the graph runs, and only an engine of
\* TensorFlow runs one.
PlacesAgree ==
  /\ place \in {"start", "engine"} => session = "none"
  /\ place \in {"waiting", "aborting", "exit"} => engine \in {"tf", "tflite"}
  /\ place \in {"aborting", "exit", "done"} => session # "running"
  /\ place = "done" => session # "closed"
  /\ engine = "query" => session = "none"
  /\ session \notin {"running", "closed"} => \A d \in Datasets : iter[d].pending = "none"
  /\ session \in {"closed", "Cancelled"} \/ place = "aborting" => stop
  /\ place # "done" => planResult = "none"

\* ExampleIteratorStatus holds the last of the errors there were.
ErrorsKept ==
  /\ engine # "query" => (iterStatus = "Ok" <=> failures.errors = {})
  /\ iterStatus # "Ok" => iterStatus \in failures.errors
  /\ session = "none" /\ engine # "query" => failures.errors = {}
  /\ totalCount = failures.given

\* A scratch file is that of an iterator that is still there, or it was left
\* behind by a fetch that failed.
ScratchOwned ==
  /\ \A d \in scratch : d \in failures.leaked \/ (d \in Datasets /\ iter[d].state \in {"open", "finished"})
  /\ session = "none" \/ place = "done" => scratch \subseteq failures.leaked

PlanInv == PlanTypes /\ PlacesAgree /\ ErrorsKept /\ ScratchOwned /\ OutcomeExplained

\* What must be true for an outcome to be right.
Explained(outcome) ==
  /\ outcome = "TensorflowError" => failures.errors = {}
  /\ outcome = "ExampleIteratorError" /\ engine # "query" => failures.errors \ {"Cancelled"} # {}
  /\ outcome = "Interrupted" => stop \/ "Cancelled" \in failures.errors
  /\ outcome = "Success" /\ engine # "query" => totalCount = failures.given

\* The invariant holds before the plan is looked at.
LEMMA PlanStart == PlanInit => PlanInv
<1> SUFFICES ASSUME PlanInit PROVE PlanInv
  OBVIOUS
<1>1. NoIterator \in DatasetIterators /\ NoIterator.pending = "none"
  BY DEF NoIterator, DatasetIterators, Codes
<1>2. failures \in [errors : SUBSET Codes, leaked : SUBSET Datasets, given : Nat]
  BY DEF PlanInit
<1>3. engine \in {"tf", "tflite", "none", "query"}
  BY DEF PlanInit
<1>4. PlanTypes
  BY <1>1, <1>2, <1>3, ZenonT(60) DEF PlanInit, PlanTypes, Codes
<1>5. PlacesAgree
  BY <1>1 DEF PlanInit, PlacesAgree
<1>6. ErrorsKept /\ ScratchOwned
  BY DEF PlanInit, ErrorsKept, ScratchOwned
<1>7. OutcomeExplained
  BY DEF PlanInit, OutcomeExplained, ScratchRemoved
<1> QED
  BY <1>4, <1>5, <1>6, <1>7 DEF PlanInv

\* The end of a run destroys the iterators and with them their files.
LEMMA EndRight ==
  ASSUME PlanInv, NEW outcome, EndPlan(outcome), Explained(outcome),
         session \notin {"running", "closed"}, session = "Cancelled" => stop,
         UNCHANGED <<planInputs, session, iterStatus, totalCount, stop, failures>>
  PROVE  PlanInv'
<1>1. /\ place' = "done" /\ planResult' = outcome
      /\ scratch' = scratch \ {d \in Datasets : iter[d].state \in {"open", "finished"}}
      /\ iter' = [d \in Datasets |-> NoIterator] /\ UNCHANGED engine
  BY DEF EndPlan, Destroyed, planInputs
<1>2. NoIterator \in DatasetIterators /\ NoIterator.pending = "none"
  BY DEF NoIterator, DatasetIterators, Codes
<1>3. PlanTypes'
  BY <1>1, <1>2 DEF PlanInv, PlanTypes
<1>4. PlacesAgree'
  BY <1>1, <1>2 DEF PlanInv, PlacesAgree
<1>5. ErrorsKept'
  BY <1>1 DEF PlanInv, ErrorsKept
<1>6. scratch' \subseteq failures'.leaked
  BY <1>1 DEF PlanInv, ScratchOwned
<1>7. ScratchOwned' /\ OutcomeExplained'
  BY <1>1, <1>6 DEF ScratchOwned, OutcomeExplained, ScratchRemoved, Explained
<1> QED
  BY <1>3, <1>4, <1>5, <1>7 DEF PlanInv

\* A run that goes on has no outcome yet.
LEMMA GoesOn ==
  ASSUME PlanTypes', PlacesAgree', ErrorsKept', ScratchOwned', place' # "done"
  PROVE  PlanInv'
  BY DEF PlanInv, PlacesAgree, OutcomeExplained, ScratchRemoved

\* A plan is refused, or handed to its engine.
LEMMA StartRight ==
  ASSUME PlanInv, StartPlan
  PROVE  PlanInv'
<1>1. /\ place = "start" /\ UNCHANGED <<engine, session, iter, scratch, iterStatus, totalCount, stop, failures>>
  BY ZenonT(60) DEF StartPlan, planInputs, graphVars
<1>2. \/ place' = "engine" /\ planResult' = "none"
      \/ place' = "done" /\ planResult' = "Interrupted" /\ stop
      \/ place' = "done" /\ planResult' = PlanRefusal
  BY ZenonT(60) DEF StartPlan
<1>3. PlanRefusal \notin {"Interrupted", "ExampleIteratorError", "Success"}
      /\ (PlanRefusal = "TensorflowError" => engine = "none")
  BY ZenonT(60)
  DEF PlanRefusal, LocalRefusal, EligibilityRefusal, QueryRefusal, FederatedRefusal, ConstructInputs,
         ConstructOutputsWithDeterministicOrder
<1>4. session = "none" /\ planResult = "none"
  BY <1>1 DEF PlanInv, PlacesAgree
<1>5. PlanTypes'
  BY <1>1, <1>2 DEF PlanInv, PlanTypes
<1>6. PlacesAgree' /\ ErrorsKept'
  BY <1>1, <1>2, <1>4 DEF PlanInv, PlacesAgree, ErrorsKept
<1>7. ScratchOwned'
  BY <1>1, <1>2, <1>4 DEF PlanInv, ScratchOwned
<1>8. OutcomeExplained'
  BY <1>1, <1>2, <1>3, <1>4, <1>7
  DEF PlanInv, OutcomeExplained, ScratchRemoved, ScratchOwned, ErrorsKept
<1> QED
  BY <1>5, <1>6, <1>7, <1>8 DEF PlanInv

\* The engine refuses the plan, is interrupted, or runs the graph.
LEMMA RunGraphRight ==
  ASSUME PlanInv, RunGraph
  PROVE  PlanInv'
<1> DEFINE refusal == IF engine = "tf" THEN TensorFlowRefusal ELSE TfLiteRefusal
<1>1. /\ place = "engine" /\ engine \in {"tf", "tflite"}
      /\ UNCHANGED <<planInputs, iterStatus, totalCount, stop, failures>>
  BY DEF RunGraph
<1>2. session = "none" /\ failures.errors = {} /\ planResult = "none"
  BY <1>1 DEF PlanInv, PlacesAgree, ErrorsKept
<1>3. refusal \in {"Ok", "InvalidArgument", "TensorflowError"}
  BY DEF TensorFlowRefusal, TfLiteRefusal, ValidateTensorflowSpec
<1>4. \/ refusal # "Ok" /\ EndPlan(refusal) /\ UNCHANGED session
      \/ stop /\ EndPlan("Interrupted") /\ UNCHANGED session
      \/ place' = "waiting" /\ session' = "running" /\ UNCHANGED <<planResult, phases, scratch, iter>>
  BY ZenonT(60) DEF RunGraph
<1> HIDE DEF refusal
<1>5. CASE refusal # "Ok" /\ EndPlan(refusal) /\ UNCHANGED session
  <2>1. Explained(refusal)
    BY <1>2, <1>3, <1>5 DEF Explained
  <2> QED
    BY <1>1, <1>2, <1>5, <2>1, EndRight
<1>6. CASE stop /\ EndPlan("Interrupted") /\ UNCHANGED session
  <2>1. Explained("Interrupted")
    BY <1>6 DEF Explained
  <2> QED
    BY <1>1, <1>2, <1>6, <2>1, EndRight
<1>7. CASE place' = "waiting" /\ session' = "running" /\ UNCHANGED <<planResult, phases, scratch, iter>>
  <2>1. PlanTypes' /\ PlacesAgree' /\ ErrorsKept'
    BY <1>1, <1>2, <1>7 DEF PlanInv, PlanTypes, PlacesAgree, ErrorsKept, planInputs
  <2>2. ScratchOwned'
    BY <1>1, <1>2, <1>7 DEF PlanInv, ScratchOwned
  <2> QED
    BY <1>7, <2>1, <2>2, GoesOn
<1> QED
  BY <1>4, <1>5, <1>6, <1>7

\* The graph ends when no thread is in GetNext.
LEMMA GraphEndsRight ==
  ASSUME PlanInv, GraphEnds
  PROVE  PlanInv'
<1>1. /\ session \in {"running", "closed"} /\ \A d \in Datasets : iter[d].pending = "none"
      /\ UNCHANGED <<engine, place, iter, scratch, iterStatus, totalCount, stop, planResult, failures>>
  BY DEF GraphEnds, planInputs
<1>2. /\ session' \in {"Ok", "OutOfRange", "Cancelled", "InvalidArgument"}
      /\ session' = "Cancelled" => session = "closed"
  BY DEF GraphEnds, ToFcpStatus, ConvertTfLiteStatus
<1>3. place # "done"
  BY <1>1 DEF PlanInv, PlacesAgree
<1>4. PlanTypes' /\ PlacesAgree' /\ ErrorsKept'
  BY <1>1, <1>2, <1>3 DEF PlanInv, PlanTypes, PlacesAgree, ErrorsKept
<1>5. ScratchOwned'
  BY <1>1, <1>2, <1>3, ZenonT(60) DEF PlanInv, ScratchOwned
<1> QED
  BY <1>1, <1>3, <1>4, <1>5, GoesOn

\* The outcome of a graph that has ended names the iterators' error if there was one.
LEMMA GraphDoneRight ==
  ASSUME PlanInv, GraphDone
  PROVE  PlanInv'
<1>1. /\ place = "waiting" /\ session \notin {"running", "closed"}
      /\ UNCHANGED <<planInputs, session, iterStatus, totalCount, stop, failures>>
  BY DEF GraphDone
<1>2. PICK s : /\ EndPlan(CreatePlanResultFromOutput(s))
               /\ s = "Cancelled" => session = "Cancelled"
  <2>1. CASE engine = "tf"
    <3> WITNESS RunTensorFlowInternal(session)
    <3> QED
      BY <2>1 DEF GraphDone, RunTensorFlowInternal
  <2>2. CASE engine # "tf"
    <3>1. PICK s \in ConstructOutputs(session) : EndPlan(CreatePlanResultFromOutput(s))
      BY <2>2 DEF GraphDone
    <3> WITNESS s
    <3> QED
      BY <3>1 DEF ConstructOutputs
  <2> QED
    BY <2>1, <2>2
<1>3. engine # "query" /\ (session = "Cancelled" => stop)
  BY <1>1 DEF PlanInv, PlacesAgree
<1>4. Explained(CreatePlanResultFromOutput(s))
  <2>1. CASE s \in {"Ok", "Cancelled"}
    BY <1>2, <1>3, <2>1 DEF Explained, CreatePlanResultFromOutput, PlanInv, ErrorsKept
  <2>2. CASE s \notin {"Ok", "Cancelled"}
    <3>1. CreatePlanResultFromOutput(s) = CreateComputationErrorPlanResult(iterStatus)
      BY <2>2 DEF CreatePlanResultFromOutput
    <3>2. iterStatus # "OutOfRange" /\ (iterStatus = "Ok" => failures.errors = {})
          /\ (iterStatus # "Ok" => iterStatus \in failures.errors)
      BY <1>3 DEF PlanInv, PlanTypes, ErrorsKept
    <3> QED
      BY <3>1, <3>2 DEF CreateComputationErrorPlanResult, Explained
  <2> QED
    BY <2>1, <2>2
<1> QED
  BY <1>1, <1>2, <1>3, <1>4, EndRight

\* An abort is always asked for.
LEMMA AbortRight ==
  ASSUME PlanInv, AbortGraph \/ AbortEnds
  PROVE  PlanInv'
<1>1. CASE AbortGraph
  <2>1. /\ place' = "aborting" /\ session' = "closed" /\ place = "waiting" /\ session = "running" /\ stop
        /\ UNCHANGED <<engine, iter, scratch, iterStatus, totalCount, stop, planResult, failures>>
    BY <1>1 DEF AbortGraph, planInputs
  <2>2. PlanTypes' /\ PlacesAgree' /\ ErrorsKept'
    BY <2>1 DEF PlanInv, PlanTypes, PlacesAgree, ErrorsKept
  <2>3. ScratchOwned'
    BY <2>1, ZenonT(60) DEF PlanInv, ScratchOwned
  <2> QED
    BY <2>1, <2>2, <2>3, GoesOn
<1>2. CASE AbortEnds
  <2>1. /\ place = "aborting" /\ stop
        /\ UNCHANGED <<planInputs, session, iterStatus, totalCount, stop, failures>>
    BY <1>2 DEF AbortEnds, PlanInv, PlacesAgree
  <2>2. CASE session = "closed"
    <3>1. place' = "exit" /\ UNCHANGED <<engine, planResult, scratch, iter>>
      BY <1>2, <2>2 DEF AbortEnds, planInputs
    <3>2. PlanTypes' /\ PlacesAgree' /\ ErrorsKept'
      BY <2>1, <3>1 DEF PlanInv, PlanTypes, PlacesAgree, ErrorsKept
    <3>3. ScratchOwned'
      BY <2>1, <2>2, <3>1 DEF PlanInv, ScratchOwned
    <3> QED
      BY <3>1, <3>2, <3>3, GoesOn
  <2>3. CASE session # "closed"
    <3>1. EndPlan("Interrupted") /\ Explained("Interrupted")
      BY <1>2, <2>1, <2>3, ZenonT(60) DEF AbortEnds, Explained
    <3> QED
      BY <2>1, <2>3, <3>1, EndRight DEF PlanInv, PlacesAgree
  <2> QED
    BY <2>2, <2>3
<1> QED
  BY <1>1, <1>2

\* What CreateExampleIterator comes to: an iterator, or an error, behind which a
\* scratch file may be left.
LEMMA Creations ==
  ASSUME NEW d \in Datasets, NEW c \in CreateExampleIterator(d)
  PROVE  /\ c.files = scratch \/ c.files = scratch \cup {d}
         /\ \/ /\ c.error = "Ok" /\ c.it \in DatasetIterators
               /\ c.it.state = "open" /\ c.it.pending = "none"
            \/ /\ c.error \in Codes \ {"none", "Ok", "OutOfRange"} /\ c.it \in DatasetIterators
               /\ c.it.state = "failing" /\ c.it.pending = "none"
<1>1. ASSUME NEW n \in 0..MaxExamples, NEW kept
      PROVE  LET m == Made(n, kept) IN
               /\ m.files = kept /\ m.error = "Ok" /\ m.it \in DatasetIterators
               /\ m.it.state = "open" /\ m.it.pending = "none"
  <2> DEFINE it == [NoIterator EXCEPT !.state = "open", !.left = n]
  <2>1. n \in Nat
    BY MaxExamplesNatural
  <2>2. NoIterator \in DatasetIterators /\ NoIterator.pending = "none"
    BY DEF NoIterator, DatasetIterators, Codes
  <2>3. it \in DatasetIterators /\ it.state = "open" /\ it.pending = "none"
    BY <2>1, <2>2, ZenonT(60) DEF DatasetIterators
  <2>4. Made(n, kept) = [it |-> it, files |-> kept, error |-> "Ok"]
    BY DEF Made
  <2> HIDE DEF it
  <2> QED
    BY <2>3, <2>4
<1>2. ASSUME NEW e, NEW kept
      PROVE  LET m == Failed(e, kept) IN
               /\ m.files = kept /\ m.error = e /\ m.it \in DatasetIterators
               /\ m.it.state = "failing" /\ m.it.pending = "none"
  BY DEF Failed, NoIterator, DatasetIterators, Codes
<1>3. \/ \E n \in 0..MaxExamples : c = Made(n, scratch) \/ c = Made(n, scratch \cup {d})
      \/ \E e \in {"Cancelled", "Unavailable", "Internal", "InvalidArgument"} :
           c = Failed(e, scratch) \/ c = Failed(e, scratch \cup {d})
  <2>1. CASE provider[d] = "env"
    <3>1. c \in EnvironmentIterator
      BY <2>1 DEF CreateExampleIterator
    <3> QED
      BY <3>1 DEF EnvironmentIterator, IteratorErrors
  <2>2. CASE provider[d] = "select"
    <3>1. c \in SelectIterator(d)
      BY <2>2 DEF CreateExampleIterator
    <3> QED
      BY <3>1 DEF SelectIterator, FetchSlicesViaHttp
  <2>3. CASE provider[d] \notin {"env", "select"}
    <3>1. c \in DisabledIterator
      BY <2>3 DEF CreateExampleIterator
    <3> QED
      BY <3>1 DEF DisabledIterator
  <2> QED
    BY <2>1, <2>2, <2>3
<1>4. CASE \E n \in 0..MaxExamples : c = Made(n, scratch) \/ c = Made(n, scratch \cup {d})
  BY <1>1, <1>4
<1>5. CASE \E e \in {"Cancelled", "Unavailable", "Internal", "InvalidArgument"} :
             c = Failed(e, scratch) \/ c = Failed(e, scratch \cup {d})
  BY <1>2, <1>5 DEF Codes
<1> QED
  BY <1>3, <1>4, <1>5

\* What is noted of it.
LEMMA Noted ==
  ASSUME PlanTypes, NEW d \in Datasets, NEW c \in CreateExampleIterator(d), failures' = CreationNoted(c)
  PROVE  /\ failures' \in [errors : SUBSET Codes, leaked : SUBSET Datasets, given : Nat]
         /\ failures'.given = failures.given /\ failures.leaked \subseteq failures'.leaked
         /\ c.error = "Ok" => failures' = failures
         /\ c.error # "Ok" => /\ failures'.errors = failures.errors \cup {c.error}
                              /\ c.files \ scratch \subseteq failures'.leaked
<1>1. failures \in [errors : SUBSET Codes, leaked : SUBSET Datasets, given : Nat]
  BY DEF PlanTypes
<1>2. CASE c.error = "Ok"
  BY <1>1, <1>2 DEF CreationNoted
<1>3. CASE c.error # "Ok"
  <2>1. c.error \in Codes /\ c.files \ scratch \subseteq {d}
    BY <1>3, Creations
  <2>2. failures' = [failures EXCEPT !.errors = failures.errors \cup {c.error},
                                     !.leaked = failures.leaked \cup (c.files \ scratch)]
    BY <1>3 DEF CreationNoted
  <2> QED
    BY <1>1, <1>3, <2>1, <2>2, ZenonT(60)
<1> QED
  BY <1>2, <1>3

\* A dataset alone has no file.
LEMMA MakeDatasetRight ==
  ASSUME PlanInv, NEW d \in Datasets, MakeDataset(d)
  PROVE  PlanInv'
<1>1. /\ session \in {"running", "closed"} /\ iter[d].state = "none"
      /\ iter' = [iter EXCEPT ![d] = [iter[d] EXCEPT !.state = "dataset"]]
      /\ UNCHANGED <<engine, place, session, scratch, iterStatus, totalCount, stop, planResult, failures>>
  BY DEF MakeDataset, planInputs
<1>2. iter \in [Datasets -> DatasetIterators]
  BY DEF PlanInv, PlanTypes
<1>3. [iter[d] EXCEPT !.state = "dataset"] \in DatasetIterators
  BY <1>2 DEF DatasetIterators
<1>4. place # "done"
  BY <1>1 DEF PlanInv, PlacesAgree
<1>5. PlanTypes'
  BY <1>1, <1>2, <1>3 DEF PlanInv, PlanTypes
<1>6. PlacesAgree' /\ ErrorsKept'
  BY <1>1 DEF PlanInv, PlacesAgree, ErrorsKept
<1>7. ScratchOwned'
  BY <1>1, <1>2, <1>4 DEF PlanInv, ScratchOwned
<1> QED
  BY <1>1, <1>4, <1>5, <1>6, <1>7, GoesOn

\* A new iterator owns its scratch file; a failed fetch leaves it behind.
LEMMA MakeIteratorRight ==
  ASSUME PlanInv, NEW d \in Datasets, MakeIterator(d)
  PROVE  PlanInv'
<1>1. PICK c \in CreateExampleIterator(d) :
        /\ iter' = [iter EXCEPT ![d] = c.it] /\ scratch' = c.files
        /\ iterStatus' = SetStatus(iterStatus, c.error) /\ failures' = CreationNoted(c)
  BY ZenonT(60) DEF MakeIterator
<1>2. /\ session \in {"running", "closed"} /\ iter[d].state = "dataset"
      /\ UNCHANGED <<engine, place, session, totalCount, stop, planResult>>
  BY ZenonT(60) DEF MakeIterator, planInputs
<1>3. PlanTypes /\ iter \in [Datasets -> DatasetIterators] /\ place # "done" /\ engine # "query"
  BY <1>2 DEF PlanInv, PlanTypes, PlacesAgree
<1>4. /\ failures' \in [errors : SUBSET Codes, leaked : SUBSET Datasets, given : Nat]
      /\ failures'.given = failures.given /\ failures.leaked \subseteq failures'.leaked
      /\ c.error = "Ok" => failures' = failures
      /\ c.error # "Ok" => /\ failures'.errors = failures.errors \cup {c.error}
                           /\ c.files \ scratch \subseteq failures'.leaked
  BY <1>1, <1>3, Noted, ZenonT(60)
<1>5. /\ c.it \in DatasetIterators /\ c.it.pending = "none" /\ c.error \in Codes \ {"none", "OutOfRange"}
      /\ c.files = scratch \/ c.files = scratch \cup {d}
      /\ c.error = "Ok" => c.it.state = "open"
  BY Creations DEF Codes
<1>6. PlanTypes'
  BY <1>1, <1>2, <1>3, <1>4, <1>5 DEF PlanTypes, SetStatus
<1>7. PlacesAgree'
  BY <1>1, <1>2, <1>3, <1>5, ZenonT(60) DEF PlanInv, PlacesAgree
<1>8. ErrorsKept'
  BY <1>1, <1>2, <1>3, <1>4, <1>5, ZenonT(60) DEF PlanInv, ErrorsKept, SetStatus
<1>9. ScratchOwned'
  <2>1. ASSUME NEW e \in scratch'
        PROVE  e \in failures'.leaked \/ (e \in Datasets /\ iter'[e].state \in {"open", "finished"})
    <3>1. CASE e = d /\ c.error = "Ok"
      BY <1>1, <1>3, <1>5, <3>1, ZenonT(60)
    <3>2. CASE e \in scratch /\ e # d
      BY <1>1, <1>3, <1>4, <3>2, ZenonT(60) DEF PlanInv, ScratchOwned
    <3>3. CASE e = d /\ c.error # "Ok"
      BY <1>1, <1>2, <1>4, <2>1, <3>3, ZenonT(60) DEF PlanInv, ScratchOwned
    <3> QED
      BY <1>1, <1>5, <2>1, <3>1, <3>2, <3>3, ZenonT(60)
  <2> QED
    BY <1>2, <1>3, <2>1 DEF ScratchOwned
<1> QED
  BY <1>2, <1>3, <1>6, <1>7, <1>8, <1>9, GoesOn

\* Next may only remove the iterator's file.
LEMMA GetNextCallsRight ==
  ASSUME PlanInv, NEW d \in Datasets, GetNextCalls(d)
  PROVE  PlanInv'
<1>1. PICK r \in ExampleIteratorNext(d) :
        /\ iter' = [iter EXCEPT ![d] = [iter[d] EXCEPT !.pending = r.code, !.left = r.left]]
        /\ scratch' = r.files
  BY ZenonT(60) DEF GetNextCalls
<1>2. /\ session \in {"running", "closed"} /\ iter[d].state = "open"
      /\ UNCHANGED <<engine, place, session, iterStatus, totalCount, stop, planResult, failures>>
  BY DEF GetNextCalls, planInputs
<1>3. iter \in [Datasets -> DatasetIterators] /\ iter[d].left \in Nat /\ place # "done"
  BY <1>2 DEF PlanInv, PlanTypes, PlacesAgree, DatasetIterators
<1>4. r.code \in Codes /\ r.left \in Nat /\ r.files \subseteq scratch
  BY <1>3 DEF ExampleIteratorNext, EnvironmentNext, SelectNext, Gives, IteratorErrors, Codes
<1> DEFINE it == [iter[d] EXCEPT !.pending = r.code, !.left = r.left]
<1>5. it \in DatasetIterators /\ it.state = "open"
  BY <1>2, <1>3, <1>4, ZenonT(60) DEF DatasetIterators
<1> HIDE DEF it
<1>6. PlanTypes'
  BY <1>1, <1>2, <1>3, <1>5 DEF PlanInv, PlanTypes, it
<1>7. PlacesAgree' /\ ErrorsKept'
  BY <1>1, <1>2 DEF PlanInv, PlacesAgree, ErrorsKept
<1>8. iter' = [iter EXCEPT ![d] = it]
  BY <1>1 DEF it
<1>9. ScratchOwned'
  BY <1>1, <1>2, <1>3, <1>4, <1>5, <1>8 DEF PlanInv, ScratchOwned
<1> QED
  BY <1>2, <1>3, <1>6, <1>7, <1>9, GoesOn

\* The status, the counts and Close() at the end of GetNext.
LEMMA GetNextReturnsRight ==
  ASSUME PlanInv, NEW d \in Datasets, GetNextReturns(d)
  PROVE  PlanInv'
<1> DEFINE code == iter[d].pending
           it == [iter[d] EXCEPT !.pending = "none",
                                 !.state = IF code = "OutOfRange" THEN "finished" ELSE @]
<1>1. /\ code # "none" /\ iterStatus' = SetStatus(iterStatus, code)
      /\ iter' = [iter EXCEPT ![d] = it]
      /\ scratch' = IF code = "OutOfRange" THEN scratch \ {d} ELSE scratch
      /\ totalCount' = IF code = "Ok" /\ provider[d] = "env" THEN totalCount + 1 ELSE totalCount
      /\ failures' = CallNoted(d, code)
      /\ UNCHANGED <<engine, place, session, stop, planResult>>
  BY ZenonT(60) DEF GetNextReturns, planInputs
<1>2. /\ iter \in [Datasets -> DatasetIterators] /\ iter[d] \in DatasetIterators /\ code \in Codes
      /\ failures \in [errors : SUBSET Codes, leaked : SUBSET Datasets, given : Nat]
  BY DEF PlanInv, PlanTypes, DatasetIterators
<1>3. session \in {"running", "closed"} /\ place # "done" /\ engine # "query"
  BY <1>1 DEF PlanInv, PlacesAgree
<1>4. /\ it \in DatasetIterators /\ it.pending = "none"
      /\ it.state = IF code = "OutOfRange" THEN "finished" ELSE iter[d].state
  <2> DEFINE s == IF code = "OutOfRange" THEN "finished" ELSE iter[d].state
  <2>1. s \in {"none", "dataset", "open", "failing", "finished"}
    BY <1>2 DEF DatasetIterators
  <2>2. it = [iter[d] EXCEPT !.pending = "none", !.state = s]
    BY <1>2 DEF DatasetIterators
  <2> HIDE DEF s, it
  <2>3. it \in DatasetIterators /\ it.pending = "none" /\ it.state = s
    BY <1>2, <2>1, <2>2, ZenonT(60) DEF DatasetIterators, Codes
  <2> QED
    BY <2>3 DEF s
<1> HIDE DEF it, code
<1>5. /\ failures' \in [errors : SUBSET Codes, leaked : SUBSET Datasets, given : Nat]
      /\ failures'.errors = failures.errors \cup ({code} \ {"Ok", "OutOfRange"})
      /\ failures'.leaked = failures.leaked
      /\ failures'.given = IF code = "Ok" /\ provider[d] = "env" THEN failures.given + 1 ELSE failures.given
  <2> DEFINE g == IF code = "Ok" /\ provider[d] = "env" THEN failures.given + 1 ELSE failures.given
  <2>1. g \in Nat
    BY <1>2
  <2>2. failures' = [failures EXCEPT !.errors = failures.errors \cup ({code} \ {"Ok", "OutOfRange"}),
                                     !.given = g]
    BY <1>1 DEF CallNoted
  <2> HIDE DEF g
  <2>3. /\ failures' \in [errors : SUBSET Codes, leaked : SUBSET Datasets, given : Nat]
        /\ failures'.errors = failures.errors \cup ({code} \ {"Ok", "OutOfRange"})
        /\ failures'.leaked = failures.leaked /\ failures'.given = g
    BY <1>2, <2>1, <2>2, ZenonT(60)
  <2> QED
    BY <2>3 DEF g
<1>6. PlanTypes'
  BY <1>1, <1>2, <1>4, <1>5 DEF PlanInv, PlanTypes, SetStatus
<1>7. PlacesAgree'
  BY <1>1, <1>2, <1>3, <1>4 DEF PlanInv, PlacesAgree
<1>8. ErrorsKept'
  BY <1>1, <1>2, <1>3, <1>5 DEF PlanInv, PlanTypes, ErrorsKept, SetStatus
<1>9. ScratchOwned'
  BY <1>1, <1>2, <1>3, <1>4, <1>5 DEF PlanInv, ScratchOwned
<1> QED
  BY <1>1, <1>3, <1>6, <1>7, <1>8, <1>9, GoesOn

\* The example query engine reads one result of each dataset.
LEMMA QueryNextRight ==
  ASSUME PlanInv, NEW d \in Datasets, place = "engine", engine = "query", QueryNext(d)
  PROVE  PlanInv'
<1>1. PICK c \in CreateExampleIterator(d) :
        /\ \/ /\ c.error = "Ok" /\ iter' = [iter EXCEPT ![d] = [iter[d] EXCEPT !.state = "finished"]]
              /\ UNCHANGED <<place, planResult, phases>>
           \/ place' = "done" /\ planResult' = "ExampleIteratorError" /\ UNCHANGED iter
        /\ scratch' = IF c.error = "Ok" THEN scratch ELSE c.files
        /\ failures' = CreationNoted(c)
        /\ UNCHANGED <<planInputs, session, iterStatus, totalCount, stop>>
  BY ZenonT(60) DEF QueryNext
<1>2. engine' = "query" /\ session = "none" /\ session' = "none" /\ UNCHANGED <<iterStatus, totalCount, stop>>
  BY <1>1 DEF PlanInv, PlacesAgree, planInputs
<1>3. PlanTypes /\ iter \in [Datasets -> DatasetIterators]
  BY DEF PlanInv, PlanTypes
<1>4. /\ failures' \in [errors : SUBSET Codes, leaked : SUBSET Datasets, given : Nat]
      /\ failures'.given = failures.given /\ failures.leaked \subseteq failures'.leaked
      /\ c.error = "Ok" => failures' = failures
      /\ c.error # "Ok" => /\ failures'.errors = failures.errors \cup {c.error}
                           /\ c.files \ scratch \subseteq failures'.leaked
  BY <1>1, <1>3, Noted
<1> DEFINE it == [iter[d] EXCEPT !.state = "finished"]
<1>5. it \in DatasetIterators /\ it.pending = iter[d].pending
  BY <1>3 DEF DatasetIterators
<1>6. \/ iter' = [iter EXCEPT ![d] = it] /\ place' = place /\ planResult' = planResult
      \/ iter' = iter /\ place' = "done" /\ planResult' = "ExampleIteratorError"
  BY <1>1
<1> HIDE DEF it
<1>7. iter' \in [Datasets -> DatasetIterators] /\ \A e \in Datasets : iter'[e].pending = iter[e].pending
  BY <1>3, <1>5, <1>6
<1>8. PlanTypes'
  BY <1>2, <1>3, <1>4, <1>6, <1>7 DEF PlanTypes
<1>9. PlacesAgree'
  BY <1>2, <1>6, <1>7 DEF PlanInv, PlacesAgree
<1>10. ErrorsKept'
  BY <1>2, <1>4, ZenonT(60) DEF PlanInv, ErrorsKept
<1>11. scratch' \subseteq failures'.leaked
  BY <1>1, <1>2, <1>4 DEF PlanInv, ScratchOwned
<1>12. ScratchOwned'
  BY <1>11 DEF ScratchOwned
<1>13. OutcomeExplained'
  BY <1>2, <1>6, <1>11 DEF PlanInv, PlacesAgree, OutcomeExplained, ScratchRemoved
<1> QED
  BY <1>8, <1>9, <1>10, <1>12, <1>13 DEF PlanInv

\* Every step keeps the invariant of the run.
LEMMA PlanStep ==
  ASSUME PlanInv, [PlanNext]_planVars
  PROVE  PlanInv'
<1>1. CASE RunQueries
  <2>1. place = "engine" /\ engine = "query" /\ session = "none"
    BY <1>1 DEF RunQueries, PlanInv, PlacesAgree
  <2>2. CASE QueryWrites
    <3>1. PICK outcome \in {"Success", "ExampleIteratorError"} : EndPlan(outcome)
      BY <2>2 DEF QueryWrites
    <3>2. Explained(outcome)
      BY <2>1, <3>1 DEF Explained
    <3>3. UNCHANGED <<planInputs, session, iterStatus, totalCount, stop, failures>>
      BY <2>2 DEF QueryWrites
    <3> QED
      BY <2>1, <3>1, <3>2, <3>3, EndRight
  <2> QED
    BY <1>1, <2>1, <2>2, QueryNextRight DEF RunQueries
<1>2. CASE StopPlan \/ UNCHANGED planVars
  <2>1. /\ stop' = TRUE \/ stop' = stop
        /\ UNCHANGED <<engine, place, session, iter, scratch, iterStatus, totalCount, planResult, failures>>
    BY <1>2 DEF StopPlan, planVars, planInputs, graphVars
  <2>2. PlanTypes' /\ PlacesAgree' /\ ErrorsKept'
    BY <2>1, ZenonT(60) DEF PlanInv, PlanTypes, PlacesAgree, ErrorsKept
  <2>3. ScratchOwned' /\ OutcomeExplained'
    BY <2>1 DEF PlanInv, ScratchOwned, OutcomeExplained, ScratchRemoved
  <2> QED
    BY <2>2, <2>3 DEF PlanInv
<1>3. CASE StartPlan \/ RunGraph \/ GraphEnds \/ GraphDone \/ AbortGraph \/ AbortEnds
  BY <1>3, StartRight, RunGraphRight, GraphEndsRight, GraphDoneRight, AbortRight
<1>4. ASSUME NEW d \in Datasets, MakeDataset(d) \/ MakeIterator(d) \/ GetNextCalls(d) \/ GetNextReturns(d)
      PROVE  PlanInv'
  BY <1>4, MakeDatasetRight, MakeIteratorRight, GetNextCallsRight, GetNextReturnsRight
<1> QED
  BY <1>1, <1>2, <1>3, <1>4 DEF PlanNext

\* The outcome of SimplePlanEngine, TfLitePlanEngine and ExampleQueryPlanEngine
\* names what went wrong, counts the examples that were given and leaves no
\* scratch file of an iterator behind: for any datasets and any number of
\* examples, and whatever the threads of the graph do.
THEOREM OutcomeAlwaysExplained == PlanSpec => []OutcomeExplained
<1>1. PlanInv /\ [PlanNext]_planVars => PlanInv'
  BY PlanStep
<1>2. PlanInv => OutcomeExplained
  BY DEF PlanInv
<1> QED
  BY PlanStart, <1>1, <1>2, PTL DEF PlanSpec

-----------------------------------------------------------------------------
(* The resource cache.                                                     *)

\* Between CleanUp and the write of the manifest, the manifest in memory tracks
\* exactly the files that are left: nothing else touches the directory then.
DraftTracksFiles == cachePhase = "init" => DOMAIN draft = DOMAIN files

\* What CleanUp keeps in memory is what it keeps on the disk.
LEMMA CleanUpTracks ==
  ASSUME NEW reserved, CleanUp(reserved)
  PROVE  DOMAIN draft' = DOMAIN files'
<1>1. PICK E : draft' = Restrict(manifest, Current \ E) /\ files' = Restrict(files, Current \ E)
  BY ZenonT(60) DEF CleanUp
<1> QED
  BY <1>1 DEF Restrict

\* Every step keeps the manifest in memory and the directory together.
LEMMA DraftStep ==
  ASSUME DraftTracksFiles, [CacheNext]_cacheVars
  PROVE  DraftTracksFiles'
<1> USE DEF DraftTracksFiles
<1>1. CASE CacheCreate
  BY <1>1, CleanUpTracks DEF CacheCreate
<1>2. CASE CreateCleanUp
  BY <1>2, CleanUpTracks DEF CreateCleanUp
<1>3. CASE CreateWrite \/ PutManifest \/ PutFile \/ CacheCrash
  BY <1>3 DEF CreateWrite, PutManifest, PutFile, CacheCrash
<1>4. CASE CacheTick \/ TempFilesCreate \/ CreateTempFile
  BY <1>4, ZenonT(60) DEF CacheTick, TempFilesCreate, CreateTempFile
<1>5. ASSUME NEW i \in CacheIds, Get(i)
      PROVE  DraftTracksFiles'
  BY <1>5 DEF Get
<1>6. ASSUME NEW i \in CacheIds, NEW c \in Resources, Put(i, c)
      PROVE  DraftTracksFiles'
  BY <1>6, ZenonT(60) DEF Put
<1>7. CASE UNCHANGED cacheVars
  BY <1>7 DEF cacheVars
<1> QED
  BY <1>1, <1>2, <1>3, <1>4, <1>5, <1>6, <1>7, ZenonT(60) DEF CacheNext

\* Create repairs the cache: when FileBackedResourceCache::Create returns, every
\* file of the directory has an entry of the manifest and every entry its file,
\* whatever an earlier process left behind.
THEOREM RepairedByCreate == CacheSpec => CreateRepairs
<1>1. CacheInit => DraftTracksFiles
  BY DEF CacheInit, DraftTracksFiles
<1>2. DraftTracksFiles /\ [CacheNext]_cacheVars => DraftTracksFiles'
  BY DraftStep
<1>3. DraftTracksFiles /\ [CacheNext]_cacheVars
        => [cachePhase = "init" /\ cachePhase' = "idle" => DOMAIN manifest' = DOMAIN files]_cacheVars
  <2> SUFFICES ASSUME DraftTracksFiles, CacheNext, cachePhase = "init", cachePhase' = "idle"
               PROVE  DOMAIN manifest' = DOMAIN files
    BY ZenonT(60) DEF cacheVars
  <2>1. CreateWrite
    BY DEF CacheNext, CacheCreate, CreateCleanUp, PutManifest, PutFile, CacheCrash, CacheTick,
           TempFilesCreate, CreateTempFile, Get, Put
  <2>2. manifest' = draft
    BY <2>1 DEF CreateWrite
  <2> QED
    BY <2>2 DEF DraftTracksFiles
<1> QED
  BY <1>1, <1>2, <1>3, PTL DEF CacheSpec, CreateRepairs

-----------------------------------------------------------------------------
(* The size of the directory.                                              *)

\* While a Put has still to write its file, there is room for it.
RoomForPut ==
  cachePhase \in {"manifest", "file"} =>
    /\ putting.of \in Resources
    /\ SizeOf(DOMAIN files) + Size[putting.of] <= MaxSize

SizeInv ==
  /\ IsFiniteSet(BytesOf(DOMAIN files))
  /\ CacheWithinLimit
  /\ RoomForPut

\* Fewer files are no larger.
LEMMA SubsetSmaller ==
  ASSUME NEW S, NEW T, S \subseteq T, IsFiniteSet(BytesOf(T))
  PROVE  /\ IsFiniteSet(BytesOf(S)) /\ SizeOf(S) \in Nat /\ SizeOf(T) \in Nat
         /\ SizeOf(S) <= SizeOf(T)
<1>1. BytesOf(S) \subseteq BytesOf(T)
  BY DEF BytesOf
<1>2. /\ IsFiniteSet(BytesOf(S))
      /\ Cardinality(BytesOf(S)) <= Cardinality(BytesOf(T))
  BY <1>1, FS_Subset
<1> QED
  BY <1>2, FS_CardinalityType DEF SizeOf

\* The files that are kept keep their size.
LEMMA RestrictSize ==
  ASSUME NEW S, S \subseteq DOMAIN files, files' = Restrict(files, S)
  PROVE  DOMAIN files' = S /\ BytesOf(S)' = BytesOf(S) /\ SizeOf(S)' = SizeOf(S)
<1>1. DOMAIN files' = S /\ \A i \in S : files'[i] = files[i]
  BY DEF Restrict
<1>2. \A i \in S : FileSize(files[i])' = FileSize(files[i])
  BY <1>1 DEF FileSize
<1>3. BytesOf(S)' = BytesOf(S)
  BY <1>2 DEF BytesOf
<1> QED
  BY <1>1, <1>3 DEF SizeOf

\* CleanUp leaves the space it is asked for, or fails and deletes only.
LEMMA CleanUpFits ==
  ASSUME SizeInv, NEW reserved \in Nat, reserved <= MaxSize, CleanUp(reserved)
  PROVE  /\ IsFiniteSet(BytesOf(DOMAIN files))'
         /\ (SizeOf(DOMAIN files) + reserved <= MaxSize)'
         /\ CacheWithinLimit'
<1> DEFINE allowed == MaxSize - reserved
<1>1. PICK E, kept : /\ E \in Evictions(allowed) /\ kept = Current \ E
                     /\ files' = Restrict(files, kept)
  BY DEF CleanUp
<1>2. kept \subseteq DOMAIN files /\ kept \subseteq Current
  BY <1>1 DEF Current
<1>3. /\ IsFiniteSet(BytesOf(kept)) /\ SizeOf(kept) \in Nat
      /\ SizeOf(Current) \in Nat /\ SizeOf(kept) <= SizeOf(Current)
  BY <1>2, SubsetSmaller DEF SizeInv, Current
<1>4. allowed \in Nat
  BY ResourceSizes
<1>5. SizeOf({}) = 0
  BY FS_EmptySet, ZenonT(60) DEF SizeOf, BytesOf
<1>6. SizeOf(kept) <= allowed
  <2>1. CASE SizeOf(Current) <= allowed
    BY <2>1, <1>3, <1>4
  <2>2. CASE ~(SizeOf(Current) <= allowed)
    <3>1. SizeOf(kept) < allowed \/ E = Current
      BY <1>1, <2>2 DEF Evictions
    <3>2. E = Current => kept = {}
      BY <1>1
    <3> QED
      BY <3>1, <3>2, <1>3, <1>4, <1>5
  <2> QED
    BY <2>1, <2>2
<1>7. DOMAIN files' = kept /\ BytesOf(kept)' = BytesOf(kept) /\ SizeOf(kept)' = SizeOf(kept)
  BY <1>1, <1>2, RestrictSize, ZenonT(60)
<1>8. BytesOf(DOMAIN files)' = BytesOf(kept) /\ SizeOf(DOMAIN files)' = SizeOf(kept)
  BY <1>7 DEF SizeOf, BytesOf
<1> QED
  BY <1>3, <1>4, <1>6, <1>8, ResourceSizes DEF CacheWithinLimit

\* Files that are deleted take no room.
LEMMA DeletionFits ==
  ASSUME SizeInv, NEW S, files' = Restrict(files, S), S \subseteq DOMAIN files
  PROVE  IsFiniteSet(BytesOf(DOMAIN files))' /\ CacheWithinLimit'
<1>1. IsFiniteSet(BytesOf(S)) /\ SizeOf(S) \in Nat /\ SizeOf(DOMAIN files) \in Nat
      /\ SizeOf(S) <= SizeOf(DOMAIN files)
  BY SubsetSmaller DEF SizeInv
<1>2. DOMAIN files' = S /\ BytesOf(S)' = BytesOf(S) /\ SizeOf(S)' = SizeOf(S)
  BY RestrictSize
<1>3. BytesOf(DOMAIN files)' = BytesOf(S) /\ SizeOf(DOMAIN files)' = SizeOf(S)
  BY <1>2 DEF SizeOf, BytesOf
<1> QED
  BY <1>1, <1>3, ResourceSizes DEF SizeInv, CacheWithinLimit

\* Nor do those that a clean-up deletes before it fails.
LEMMA PartlyFits ==
  ASSUME SizeInv, NEW reserved, CleanUpPartly(reserved)
  PROVE  IsFiniteSet(BytesOf(DOMAIN files))' /\ CacheWithinLimit'
<1>1. PICK E, left : /\ left \in SUBSET (DOMAIN files \ (Current \ E))
                     /\ files' = Restrict(files, (Current \ E) \cup left)
  BY ZenonT(60) DEF CleanUpPartly
<1>2. (Current \ E) \cup left \subseteq DOMAIN files
  BY <1>1 DEF Current
<1> QED
  BY <1>1, <1>2, DeletionFits

\* A file that is written, wholly or in part, adds at most the size of its resource.
LEMMA WrittenFits ==
  ASSUME SizeInv, cachePhase = "file", putting.id \notin DOMAIN files,
         NEW whole \in BOOLEAN, files' = WithFile(whole)
  PROVE  IsFiniteSet(BytesOf(DOMAIN files))' /\ CacheWithinLimit'
<1> DEFINE i == putting.id
           n == IF whole THEN Size[putting.of] ELSE Size[putting.of] - 1
           old == BytesOf(DOMAIN files)
           new == {i} \X (1..n)
<1>1. putting.of \in Resources /\ Size[putting.of] \in Nat \ {0}
  BY ResourceSizes DEF SizeInv, RoomForPut
<1>2. n \in Nat /\ n <= Size[putting.of]
  BY <1>1
<1>3. DOMAIN files' = DOMAIN files \cup {i}
  BY DEF WithFile
<1>4. /\ FileSize(files'[i]) = n
      /\ \A j \in DOMAIN files : FileSize(files'[j]) = FileSize(files[j])
  BY DEF WithFile, FileSize
<1>5. BytesOf(DOMAIN files)' = old \cup new
  <2> HIDE DEF n
  <2>1. BytesOf(DOMAIN files)' =
          UNION {{j} \X (1..FileSize(files'[j])) : j \in DOMAIN files \cup {i}}
    BY <1>3 DEF BytesOf, FileSize
  <2>2. @ = (UNION {{j} \X (1..FileSize(files[j])) : j \in DOMAIN files}) \cup new
    BY <1>4
  <2> QED
    BY <2>1, <2>2 DEF BytesOf
<1>6. IsFiniteSet(new) /\ Cardinality(new) = n
  <2> HIDE DEF n
  <2>1. IsFiniteSet(1..n) /\ Cardinality(1..n) = n
    BY <1>2, FS_Interval
  <2>2. IsFiniteSet({i}) /\ Cardinality({i}) = 1
    BY FS_Singleton, ZenonT(60)
  <2>3. IsFiniteSet(new) /\ Cardinality(new) = Cardinality({i}) * Cardinality(1..n)
    BY <2>1, <2>2, FS_Product, ZenonT(60)
  <2>4. Cardinality(new) = 1 * n
    BY <2>1, <2>2, <2>3, ZenonT(60)
  <2> HIDE DEF new
  <2> QED
    BY <1>2, <2>3, <2>4
<1>7. /\ IsFiniteSet(old \cup new)
      /\ Cardinality(old \cup new) <= Cardinality(old) + Cardinality(new)
  <2>1. /\ IsFiniteSet(old \cup new) /\ IsFiniteSet(old \cap new)
        /\ Cardinality(old \cup new) =
              Cardinality(old) + Cardinality(new) - Cardinality(old \cap new)
    BY <1>6, FS_Union, FS_Intersection, ZenonT(60) DEF SizeInv
  <2>2. Cardinality(old) \in Nat /\ Cardinality(new) \in Nat
        /\ Cardinality(old \cap new) \in Nat
    BY <1>6, <2>1, FS_CardinalityType, ZenonT(60) DEF SizeInv
  <2> HIDE DEF old, new
  <2> QED
    BY <2>1, <2>2
<1>8. Cardinality(old \cup new) \in Nat /\ Cardinality(old) \in Nat
  BY <1>7, FS_CardinalityType, ZenonT(60) DEF SizeInv
<1>9. Cardinality(old) + Size[putting.of] <= MaxSize
  BY DEF SizeInv, RoomForPut, SizeOf
<1>10. SizeOf(DOMAIN files)' = Cardinality(old \cup new)
  BY <1>5 DEF SizeOf
<1> HIDE DEF old, new, n
<1>11. Cardinality(old \cup new) <= MaxSize
  BY <1>1, <1>2, <1>6, <1>7, <1>8, <1>9, ResourceSizes
<1> QED
  BY <1>5, <1>7, <1>10, <1>11, ZenonT(60) DEF CacheWithinLimit

\* The invariant survives every step.
LEMMA SizeStep ==
  ASSUME SizeInv, [CacheNext]_cacheVars
  PROVE  SizeInv'
<1>1. ASSUME UNCHANGED files,
             \/ cachePhase' \notin {"manifest", "file"}
             \/ UNCHANGED putting /\ cachePhase \in {"manifest", "file"}
      PROVE  SizeInv'
  BY <1>1, ZenonT(60) DEF SizeInv, CacheWithinLimit, RoomForPut, SizeOf, BytesOf, FileSize
<1>2. ASSUME IsFiniteSet(BytesOf(DOMAIN files))', CacheWithinLimit',
             cachePhase' \notin {"manifest", "file"}
      PROVE  SizeInv'
  BY <1>2 DEF SizeInv, RoomForPut
<1>3. CASE CacheCreate
  <2>1. CASE CleanUp(0)
    BY <1>2, <1>3, <2>1, CleanUpFits, ResourceSizes DEF CacheCreate
  <2>2. CASE CleanUpPartly(0)
    BY <1>2, <1>3, <2>2, PartlyFits DEF CacheCreate
  <2>3. CASE UNCHANGED files
    BY <1>1, <1>3, <2>3 DEF CacheCreate
  <2> QED
    BY <1>3, <2>1, <2>2, <2>3 DEF CacheCreate
<1>4. CASE CreateCleanUp
  <2>1. CASE CleanUp(0)
    BY <1>2, <1>4, <2>1, CleanUpFits, ResourceSizes DEF CreateCleanUp
  <2>2. CASE CleanUpPartly(0)
    BY <1>2, <1>4, <2>2, PartlyFits DEF CreateCleanUp
  <2> QED
    BY <1>4, <2>1, <2>2 DEF CreateCleanUp
<1>5. CASE CreateWrite \/ PutManifest \/ TempFilesCreate \/ CreateTempFile \/ CacheTick
           \/ UNCHANGED cacheVars
  BY <1>1, <1>5
  DEF CreateWrite, PutManifest, TempFilesCreate, CreateTempFile, CacheTick, cacheVars
<1>6. CASE PutFile
  <2>1. CASE UNCHANGED files
    BY <1>1, <1>6, <2>1, ZenonT(60) DEF PutFile
  <2>2. ASSUME NEW whole \in BOOLEAN, files' = WithFile(whole), putting.id \notin DOMAIN files
        PROVE  SizeInv'
    BY <1>2, <1>6, <2>2, WrittenFits, ZenonT(60) DEF PutFile
  <2> QED
    BY <1>6, <2>1, <2>2, ZenonT(60) DEF PutFile
<1>7. CASE CacheCrash
  <2>1. CASE UNCHANGED files
    BY <1>1, <1>7, <2>1 DEF CacheCrash
  <2>2. CASE cachePhase = "file" /\ files' = WithFile(FALSE) /\ putting.id \notin DOMAIN files
    BY <1>2, <1>7, <2>2, WrittenFits, ZenonT(60) DEF CacheCrash
  <2> QED
    BY <1>7, <2>1, <2>2, ZenonT(60) DEF CacheCrash
<1>8. ASSUME NEW i \in CacheIds, Get(i) PROVE SizeInv'
  <2>1. CASE UNCHANGED files
    BY <1>1, <1>8, <2>1 DEF Get
  <2>2. CASE files' = Restrict(files, DOMAIN files \ {i})
    BY <1>2, <1>8, <2>2, DeletionFits DEF Get
  <2> QED
    BY <1>8, <2>1, <2>2 DEF Get
<1>9. ASSUME NEW i \in CacheIds, NEW c \in Resources, Put(i, c) PROVE SizeInv'
  <2>1. Size[c] \in Nat /\ Size[c] <= MaxSize
    BY <1>9, ResourceSizes DEF Put
  <2>2. CASE CleanUp(Size[c]) /\ putting' = [id |-> i, of |-> c]
    BY <2>1, <2>2, CleanUpFits, ZenonT(60) DEF SizeInv, RoomForPut
  <2>3. CASE CleanUpPartly(Size[c]) /\ UNCHANGED cachePhase
    BY <1>2, <1>9, <2>3, PartlyFits DEF Put
  <2> QED
    BY <1>9, <2>2, <2>3 DEF Put
<1> QED
  BY <1>3, <1>4, <1>5, <1>6, <1>7, <1>8, <1>9 DEF CacheNext

\* The cache directory never holds more than max_cache_size_bytes_, for any
\* resources, sizes and limit, whatever writes fail and wherever a crash falls:
\* CleanUp makes room before PutFile writes, and nothing writes in between.
THEOREM CacheAlwaysWithinLimit == CacheSpec => []CacheWithinLimit
<1>1. CacheInit => SizeInv
  <2> SUFFICES ASSUME CacheInit PROVE SizeInv
    OBVIOUS
  <2>1. BytesOf(DOMAIN files) = {}
    BY DEF CacheInit, EmptyMap, BytesOf
  <2> QED
    BY <2>1, FS_EmptySet, ResourceSizes
    DEF CacheInit, SizeInv, CacheWithinLimit, RoomForPut, SizeOf
<1>2. SizeInv /\ [CacheNext]_cacheVars => SizeInv'
  BY SizeStep
<1>3. SizeInv => CacheWithinLimit
  BY DEF SizeInv
<1> QED
  BY <1>1, <1>2, <1>3, PTL DEF CacheSpec
=============================================================================
