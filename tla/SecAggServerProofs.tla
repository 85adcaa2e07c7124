-------------------------- MODULE SecAggServerProofs --------------------------
(***************************************************************************)
(* Proofs about SecAggServer, for any number of clients, any graph, any    *)
(* minimum number of clients and any messages from the clients.  The       *)
(* invariant BooksKept is inductive: the counters of a round can be        *)
(* trusted only if the statuses fit the round, the abort flag only if the  *)
(* counters can be trusted, and the next round starts with enough clients  *)
(* only if the flag can.                                                   *)
(***************************************************************************)
EXTENDS SecAggServer, Counting

AfterInput == {"DEAD_AFTER_MASKED_INPUT_RESPONSE_RECEIVED"}
Alive == ClientStatus \ (DeadBefore \cup AfterInput)

\* The clients are finitely many and Graph.nodes is their number.
LEMMA ClientsFinite ==
  /\ Graph.nodes \in Nat
  /\ IsFiniteSet(Clients)
  /\ Cardinality(Clients) = Graph.nodes
<1>1. Graph.nodes \in Nat \ {0}
  BY GraphAssumption DEF IsGraph
<1>2. 0 \in Int /\ Graph.nodes - 1 \in Int
  BY <1>1
<1>3. /\ IsFiniteSet(0..Graph.nodes-1)
      /\ Cardinality(0..Graph.nodes-1)
           = IF 0 > Graph.nodes - 1 THEN 0 ELSE (Graph.nodes - 1) - 0 + 1
  BY <1>2, FS_Interval
<1>4. Cardinality(0..Graph.nodes-1) = Graph.nodes
  BY <1>1, <1>3
<1> QED
  BY <1>1, <1>3, <1>4 DEF Clients, Nodes

\* The clients with a status in S, before and after a step, as counts.
LEMMA WithIsHaving ==
  ASSUME NEW S
  PROVE  /\ With(S) = Having(Clients, status, S)
         /\ With(S)' = Having(Clients, status', S)
         /\ Cardinality(With(S)) \in Nat
         /\ Cardinality(With(S)') \in Nat
<1>1. With(S) = Having(Clients, status, S)
  BY DEF With, Having
<1>2. With(S)' = Having(Clients, status', S)
  BY DEF With, Having
<1> QED
  BY <1>1, <1>2, HavingFinite, ClientsFinite

\* When exactly the clients of T come to have a status in S, as many more have.
LEMMA WithEnter ==
  ASSUME NEW S, NEW T, T \subseteq Clients,
         \A x \in T : status[x] \notin S /\ status'[x] \in S,
         \A x \in Clients \ T : status[x] \in S <=> status'[x] \in S
  PROVE  Cardinality(With(S)') = Cardinality(With(S)) + Cardinality(T)
BY WithIsHaving, HavingEnterAll, ClientsFinite

\* When no client's status crosses the border of S, as many have one in S.
LEMMA WithStay ==
  ASSUME NEW S, \A x \in Clients : status[x] \in S <=> status'[x] \in S
  PROVE  With(S)' = With(S)
BY DEF With

\* Every client is counted once: as failed before its input, as failed after
\* it, or as alive.
LEMMA HavingPartition ==
  ASSUME NEW f \in [Clients -> ClientStatus]
  PROVE  Graph.nodes = Cardinality(Having(Clients, f, DeadBefore))
                       + Cardinality(Having(Clients, f, AfterInput))
                       + Cardinality(Having(Clients, f, Alive))
<1>1. DeadBefore \cap AfterInput = {}
  BY DEF DeadBefore, AfterInput
<1>2. (DeadBefore \cup AfterInput) \cap Alive = {}
  BY DEF Alive
<1>3. ClientStatus = (DeadBefore \cup AfterInput) \cup Alive
  BY DEF Alive, ClientStatus, Dead, AfterInput
<1>4. Having(Clients, f, (DeadBefore \cup AfterInput) \cup Alive) = Clients
  BY <1>3 DEF Having
<1>5. Cardinality(Having(Clients, f, (DeadBefore \cup AfterInput) \cup Alive))
        = Cardinality(Having(Clients, f, DeadBefore \cup AfterInput))
          + Cardinality(Having(Clients, f, Alive))
  BY <1>2, HavingUnion, ClientsFinite
<1>6. Cardinality(Having(Clients, f, DeadBefore \cup AfterInput))
        = Cardinality(Having(Clients, f, DeadBefore))
          + Cardinality(Having(Clients, f, AfterInput))
  BY <1>1, HavingUnion, ClientsFinite
<1> QED
  BY <1>4, <1>5, <1>6, ClientsFinite

\* While the failure counters are right, NumberOfAliveClients counts the clients
\* that have not failed.
LEMMA AliveCounted ==
  TypeOK /\ FailuresCounted => NumberOfAliveClients = Cardinality(With(Alive))
<1> SUFFICES ASSUME TypeOK, FailuresCounted
             PROVE  NumberOfAliveClients = Cardinality(With(Alive))
  OBVIOUS
<1>1. Graph.nodes = Cardinality(With(DeadBefore)) + Cardinality(With(AfterInput))
                    + Cardinality(With(Alive))
  BY HavingPartition, WithIsHaving DEF TypeOK
<1>2. /\ Cardinality(With(DeadBefore)) = failedBefore
      /\ Cardinality(With(AfterInput)) = failedAfter + terminated
  BY DEF FailuresCounted, AfterInput
<1>3. Cardinality(With(Alive)) \in Nat
  BY WithIsHaving
<1> QED
  BY <1>1, <1>2, <1>3, ClientsFinite DEF NumberOfAliveClients, TypeOK
-----------------------------------------------------------------------------
(* HandleAbortClient keeps the failure counters right *)

USE DEF Rounds, Terminal

Aborting(S) == S \subseteq Clients /\ \A c \in S : ~IsClientDead(c)

\* In the first two rounds a client that is aborted moves to one of the statuses
\* counted by number_of_clients_failed_before_sending_masked_input_.
LEMMA EarlyAbort ==
  ASSUME TypeOK, FailuresCounted,
         state \in {"R0_ADVERTISE_KEYS", "R1_SHARE_KEYS"},
         NEW S, Aborting(S), NEW s \in DeadBefore, SetStatus(S, s),
         failedBefore' = failedBefore + Cardinality(S),
         UNCHANGED <<failedAfter, terminated>>
  PROVE  /\ status' \in [Clients -> ClientStatus]
         /\ failedBefore' \in Nat /\ failedAfter' \in Nat /\ terminated' \in Nat
         /\ FailuresCounted'
<1>1. /\ \A x \in S : status'[x] = s
      /\ \A x \in Clients \ S : status'[x] = status[x]
  BY DEF SetStatus, Aborting
<1>2. status' \in [Clients -> ClientStatus]
  BY DEF SetStatus, TypeOK, ClientStatus, Dead
<1>3. \A x \in S : status[x] \notin Dead
  BY DEF Aborting, IsClientDead
<1>4. Cardinality(With(DeadBefore)') = Cardinality(With(DeadBefore)) + Cardinality(S)
  BY <1>1, <1>3, WithEnter DEF Aborting, Dead
<1>5. With(AfterInput)' = With(AfterInput)
  BY <1>1, <1>3, WithStay DEF Aborting, Dead, DeadBefore, AfterInput
<1>6. Cardinality(S) \in Nat
  BY ClientsFinite, FS_Subset, FS_CardinalityType DEF Aborting
<1>7. FailuresCounted'
  BY <1>4, <1>5 DEF FailuresCounted, AfterInput
<1> QED
  BY <1>2, <1>6, <1>7 DEF TypeOK

\* In round 2 it depends on whether the client has sent its masked input.
LEMMA R2Abort ==
  ASSUME TypeOK, FailuresCounted, state = "R2_MASKED_INPUT_COLLECTION",
         NEW S, Aborting(S), R2HandleAbortClient(S)
  PROVE  /\ status' \in [Clients -> ClientStatus]
         /\ failedBefore' \in Nat /\ failedAfter' \in Nat /\ terminated' \in Nat
         /\ FailuresCounted'
<1> DEFINE after == {c \in S : status[c] = "MASKED_INPUT_RESPONSE_RECEIVED"}
<1>1. /\ status' = [c \in Clients |->
           IF c \in after THEN "DEAD_AFTER_MASKED_INPUT_RESPONSE_RECEIVED"
           ELSE IF c \in S THEN "DEAD_AFTER_SHARE_KEYS_RECEIVED" ELSE status[c]]
      /\ failedAfter' = failedAfter + Cardinality(after)
      /\ failedBefore' = failedBefore + Cardinality(S \ after)
      /\ terminated' = terminated
  BY DEF R2HandleAbortClient
<1>2. after \subseteq S /\ S \subseteq Clients
  BY DEF Aborting
<1> HIDE DEF after
<1>3. status' \in [Clients -> ClientStatus]
  BY <1>1 DEF TypeOK, ClientStatus, Dead, DeadBefore
<1>4. \A x \in S : status[x] \notin Dead
  BY DEF Aborting, IsClientDead
<1>5. /\ \A x \in after : status'[x] \in AfterInput
      /\ \A x \in S \ after : status'[x] = "DEAD_AFTER_SHARE_KEYS_RECEIVED"
      /\ \A x \in Clients \ S : status'[x] = status[x]
  BY <1>1, <1>2 DEF AfterInput
<1>6. Cardinality(With(DeadBefore)')
        = Cardinality(With(DeadBefore)) + Cardinality(S \ after)
  BY <1>2, <1>4, <1>5, WithEnter DEF Dead, DeadBefore, AfterInput
<1>7. Cardinality(With(AfterInput)')
        = Cardinality(With(AfterInput)) + Cardinality(after)
  BY <1>2, <1>4, <1>5, WithEnter DEF Dead, DeadBefore, AfterInput
<1>8. Cardinality(after) \in Nat /\ Cardinality(S \ after) \in Nat
  <2>1. IsFiniteSet(after) /\ IsFiniteSet(S \ after)
    BY <1>2, ClientsFinite, FS_Subset
  <2> QED
    BY <2>1, FS_CardinalityType
<1>9. FailuresCounted'
  BY <1>1, <1>6, <1>7, <1>8 DEF FailuresCounted, AfterInput, TypeOK
<1> QED
  BY <1>1, <1>3, <1>8, <1>9 DEF TypeOK

\* In round 3 a client that has answered moves without being counted.
LEMMA R3Abort ==
  ASSUME TypeOK, FailuresCounted, state = "R3_UNMASKING",
         NEW S, Aborting(S), NEW reason, R3HandleAbortClient(S, reason)
  PROVE  /\ status' \in [Clients -> ClientStatus]
         /\ failedBefore' \in Nat /\ failedAfter' \in Nat /\ terminated' \in Nat
         /\ FailuresCounted'
<1> DEFINE pending == {c \in S : status[c] # "UNMASKING_RESPONSE_RECEIVED"}
<1>1. /\ status' = [c \in Clients |->
           IF c \in pending THEN "DEAD_AFTER_MASKED_INPUT_RESPONSE_RECEIVED"
           ELSE IF c \in S THEN "DEAD_AFTER_UNMASKING_RESPONSE_RECEIVED" ELSE status[c]]
      /\ \/ terminated' = terminated + Cardinality(pending) /\ failedAfter' = failedAfter
         \/ failedAfter' = failedAfter + Cardinality(pending) /\ terminated' = terminated
      /\ failedBefore' = failedBefore
  BY DEF R3HandleAbortClient
<1>2. pending \subseteq S /\ S \subseteq Clients
  BY DEF Aborting
<1> HIDE DEF pending
<1>3. status' \in [Clients -> ClientStatus]
  BY <1>1 DEF TypeOK, ClientStatus, Dead, DeadBefore
<1>4. \A x \in S : status[x] \notin Dead
  BY DEF Aborting, IsClientDead
<1>5. /\ \A x \in pending : status'[x] \in AfterInput
      /\ \A x \in S \ pending : status'[x] = "DEAD_AFTER_UNMASKING_RESPONSE_RECEIVED"
      /\ \A x \in Clients \ S : status'[x] = status[x]
  BY <1>1, <1>2 DEF AfterInput
<1>6. With(DeadBefore)' = With(DeadBefore)
  BY <1>2, <1>4, <1>5, WithStay DEF Dead, DeadBefore, AfterInput
<1>7. Cardinality(With(AfterInput)')
        = Cardinality(With(AfterInput)) + Cardinality(pending)
  BY <1>2, <1>4, <1>5, WithEnter DEF Dead, DeadBefore, AfterInput
<1>8. Cardinality(pending) \in Nat
  BY <1>2, ClientsFinite, FS_Subset, FS_CardinalityType
<1>9. FailuresCounted'
  BY <1>1, <1>6, <1>7, <1>8 DEF FailuresCounted, AfterInput, TypeOK
<1> QED
  BY <1>1, <1>3, <1>8, <1>9 DEF TypeOK
-----------------------------------------------------------------------------
(* The invariant: BooksKept *)

\* The statuses of the clients that have not answered and of those that have, by
\* round.
LEMMA RoundStatuses ==
  /\ state = "R0_ADVERTISE_KEYS" =>
       Awaited[state] = "READY_TO_START" /\ Answered[state] = "ADVERTISE_KEYS_RECEIVED"
  /\ state = "R1_SHARE_KEYS" =>
       Awaited[state] = "ADVERTISE_KEYS_RECEIVED" /\ Answered[state] = "SHARE_KEYS_RECEIVED"
  /\ state = "R2_MASKED_INPUT_COLLECTION" =>
       /\ Awaited[state] = "SHARE_KEYS_RECEIVED"
       /\ Answered[state] = "MASKED_INPUT_RESPONSE_RECEIVED"
  /\ state = "R3_UNMASKING" =>
       /\ Awaited[state] = "MASKED_INPUT_RESPONSE_RECEIVED"
       /\ Answered[state] = "UNMASKING_RESPONSE_RECEIVED"
BY DEF Awaited, Answered

\* What the books are about.
books == <<state, status, needsToAbort, counts, ready, messages, completion,
           pendingInputs, abortedRound2>>

\* A step that touches none of this keeps them.
LEMMA BooksUntouched == BooksKept /\ UNCHANGED books => BooksKept'
<1> SUFFICES ASSUME BooksKept, UNCHANGED books PROVE BooksKept'
  OBVIOUS
<1> USE DEF books, counts
<1>1. TypeOK'
  BY DEF BooksKept, TypeOK
<1>2. StatusFits'
  BY DEF BooksKept, StatusFits
<1>3. FailuresCounted' /\ RoundCounted'
  BY DEF BooksKept, FailuresCounted, RoundCounted, With
<1>4. AbortFlagExact'
  BY DEF BooksKept, AbortFlagExact, TooFewClients, NumberOfPendingClients,
         NumberOfAliveClients
<1> QED
  BY <1>1, <1>2, <1>3, <1>4 DEF BooksKept
-----------------------------------------------------------------------------
(* AbortClient *)

\* What HandleAbortClient does to the failure counters and to the statuses, for
\* one client that is not dead.
LEMMA HandleAbortCounts ==
  ASSUME BooksKept, NEW c \in Clients, ~IsClientDead(c), NEW reason,
         HandleAbortClient({c}, reason)
  PROVE  /\ status' \in [Clients -> ClientStatus]
         /\ failedBefore' \in Nat /\ failedAfter' \in Nat /\ terminated' \in Nat
         /\ FailuresCounted'
<1>1. Aborting({c})
  BY DEF Aborting
<1>2. TypeOK /\ FailuresCounted
  BY DEF BooksKept
<1>3. CASE state = "R0_ADVERTISE_KEYS" /\ R0HandleAbortClient({c})
  BY <1>1, <1>2, <1>3, EarlyAbort DEF R0HandleAbortClient, DeadBefore
<1>4. CASE state = "R1_SHARE_KEYS" /\ R1HandleAbortClient({c})
  BY <1>1, <1>2, <1>4, EarlyAbort DEF R1HandleAbortClient, DeadBefore
<1>5. CASE state = "R2_MASKED_INPUT_COLLECTION" /\ R2HandleAbortClient({c})
  BY <1>1, <1>2, <1>5, R2Abort
<1>6. CASE state = "R3_UNMASKING" /\ R3HandleAbortClient({c}, reason)
  BY <1>1, <1>2, <1>6, R3Abort
<1>7. CASE state = "PRNG_RUNNING" /\ PrngHandleAbortClient({c})
  <2>1. /\ status' \in [Clients -> ClientStatus]
        /\ \A d \in Clients : status'[d] = IF d = c
             THEN "DEAD_AFTER_UNMASKING_RESPONSE_RECEIVED" ELSE status[d]
    BY <1>2, <1>7 DEF PrngHandleAbortClient, SetStatus, TypeOK, ClientStatus, Dead
  <2>2. With(DeadBefore)' = With(DeadBefore) /\ With(AfterInput)' = With(AfterInput)
    BY <2>1, WithStay, SMTT(60) DEF IsClientDead, Dead, DeadBefore, AfterInput
  <2> QED
    BY <1>2, <1>7, <2>1, <2>2
    DEF PrngHandleAbortClient, FailuresCounted, TypeOK, AfterInput, counts
<1> QED
  BY <1>3, <1>4, <1>5, <1>6, <1>7 DEF HandleAbortClient

\* HandleAbortClient gives its client a dead status that fits the round and leaves
\* the others alone.
LEMMA HandleAbortStatus ==
  ASSUME BooksKept, NEW c \in Clients, ~IsClientDead(c), NEW reason,
         HandleAbortClient({c}, reason), state' = state
  PROVE  /\ StatusFits'
         /\ \A d \in Clients \ {c} : status'[d] = status[d]
         /\ status'[c] \in Dead
         /\ status'[c] = "DEAD_AFTER_UNMASKING_RESPONSE_RECEIVED"
              <=> status[c] = "UNMASKING_RESPONSE_RECEIVED"
         /\ abortedRound2' \in SUBSET Clients
<1> USE DEF HandleAbortClient, SetStatus, keyData, counts, Dead, DeadBefore
<1>1. StatusFits /\ TypeOK
  BY DEF BooksKept
<1>2. CASE state = "R0_ADVERTISE_KEYS" /\ R0HandleAbortClient({c})
  BY <1>1, <1>2 DEF R0HandleAbortClient, StatusFits, TypeOK
<1>3. CASE state = "R1_SHARE_KEYS" /\ R1HandleAbortClient({c})
  BY <1>1, <1>3 DEF R1HandleAbortClient, StatusFits, TypeOK
<1>4. CASE state = "R2_MASKED_INPUT_COLLECTION" /\ R2HandleAbortClient({c})
  BY <1>1, <1>4 DEF R2HandleAbortClient, StatusFits, TypeOK
<1>5. CASE state = "R3_UNMASKING" /\ R3HandleAbortClient({c}, reason)
  BY <1>1, <1>5 DEF R3HandleAbortClient, StatusFits, TypeOK
<1>6. CASE state = "PRNG_RUNNING" /\ PrngHandleAbortClient({c})
  BY <1>1, <1>6 DEF PrngHandleAbortClient, StatusFits, TypeOK, IsClientDead
<1> QED
  BY <1>2, <1>3, <1>4, <1>5, <1>6, SMTT(60)

\* The counters of the round follow: the answer of a client that is aborted is
\* taken back in rounds 0 to 2, and kept in round 3.
LEMMA AbortClientRound ==
  ASSUME BooksKept, NEW c \in Clients, ~IsClientDead(c), NEW reason, NEW notify,
         AbortClient(c, reason, notify)
  PROVE  ready' \in Nat /\ RoundCounted'
<1>1. /\ state' = state /\ messages' = messages
      /\ HandleAbortClient({c}, reason)
      /\ ready' = IF state \in Rounds \ {"R3_UNMASKING"} /\ status[c] = Answered[state]
                    THEN ready - 1 ELSE ready
  BY DEF AbortClient
<1>2. /\ \A d \in Clients \ {c} : status'[d] = status[d]
      /\ status'[c] \in Dead
      /\ status'[c] = "DEAD_AFTER_UNMASKING_RESPONSE_RECEIVED"
           <=> status[c] = "UNMASKING_RESPONSE_RECEIVED"
  BY <1>1, HandleAbortStatus
<1>3. TypeOK /\ RoundCounted
  BY DEF BooksKept
<1>4. CASE state \in Rounds \ {"R3_UNMASKING"} /\ status[c] = Answered[state]
  <2> PICK a : a = Answered[state]
    OBVIOUS
  <2>1. a \notin Dead
    BY <1>4, RoundStatuses DEF Dead, DeadBefore
  <2>2. /\ status[c] \in {a} /\ status'[c] \notin {a}
        /\ \A d \in Clients \ {c} : status[d] \in {a} <=> status'[d] \in {a}
    BY <1>2, <1>4, <2>1
  <2>3. /\ Cardinality(With({a})') = Cardinality(With({a})) - 1
        /\ Cardinality(With({a})) > 0
    BY <2>2, WithIsHaving, HavingLeave, ClientsFinite
  <2>4. ready = Cardinality(With({a})) /\ ready' = ready - 1
    BY <1>1, <1>3, <1>4 DEF RoundCounted
  <2>5. With({Answered[state]})' = With({a})'
    BY <1>1 DEF With
  <2> QED
    BY <1>1, <1>3, <1>4, <2>3, <2>4, <2>5 DEF RoundCounted, TypeOK
<1>5. CASE state \in Rounds \ {"R3_UNMASKING"} /\ status[c] # Answered[state]
  <2> DEFINE a == Answered[state]
  <2>1. a \notin Dead
    BY <1>5, RoundStatuses DEF Dead, DeadBefore
  <2>2. \A d \in Clients : status[d] \in {a} <=> status'[d] \in {a}
    BY <1>2, <1>5, <2>1
  <2>3. With({a})' = With({a})
    BY <1>1, <2>2 DEF With, a
  <2> QED
    BY <1>1, <1>3, <1>5, <2>3 DEF RoundCounted, TypeOK
<1>6. CASE state = "R3_UNMASKING"
  <2> DEFINE A == {"UNMASKING_RESPONSE_RECEIVED", "DEAD_AFTER_UNMASKING_RESPONSE_RECEIVED"}
  <2>1. \A d \in Clients : status[d] \in A <=> status'[d] \in A
    BY <1>2 DEF IsClientDead, Dead, DeadBefore
  <2>2. With(A)' = With(A)
    BY <2>1, WithStay
  <2> QED
    BY <1>1, <1>3, <1>6, <2>2 DEF RoundCounted, TypeOK
<1>7. CASE state \notin Rounds
  BY <1>1, <1>3, <1>7 DEF RoundCounted, TypeOK
<1> QED
  BY <1>4, <1>5, <1>6, <1>7

\* The abort flag is raised at once when the last client that could be spared
\* fails, and at no other time.
LEMMA AbortClientFlag ==
  ASSUME BooksKept, NEW c \in Clients, ~IsClientDead(c), NEW reason, NEW notify,
         AbortClient(c, reason, notify)
  PROVE  AbortFlagExact'
<1> SUFFICES ASSUME state \in Rounds
             PROVE  needsToAbort' <=> TooFewClients'
  BY DEF AbortFlagExact, AbortClient
<1>1. /\ state' = state /\ messages' = messages
      /\ HandleAbortClient({c}, reason)
      /\ needsToAbort' = (needsToAbort \/ (ChecksRemaining(c) /\ TooFewClients'))
      /\ state = "R3_UNMASKING" => ready' = ready
  BY DEF AbortClient
<1>2. needsToAbort <=> TooFewClients
  BY DEF BooksKept, AbortFlagExact
<1>3. /\ failedBefore \in Nat /\ failedAfter \in Nat /\ terminated \in Nat
      /\ ready \in Nat /\ messages \in Nat /\ MinimumClients \in Nat
      /\ Graph.nodes \in Nat
  BY ClientsFinite, MinimumAssumption DEF BooksKept, TypeOK
<1>4. /\ failedBefore' \in Nat /\ failedAfter' \in Nat /\ terminated' \in Nat
      /\ ready' \in Nat
  BY <1>1, HandleAbortCounts, AbortClientRound
<1>5. NumberOfAliveClients' <= NumberOfAliveClients
  <2>1. FailuresCounted /\ FailuresCounted' /\ TypeOK
    BY <1>1, HandleAbortCounts DEF BooksKept
  <2>2. /\ failedBefore' >= failedBefore
        /\ failedAfter' + terminated' >= failedAfter + terminated
    <3>1. \A d \in Clients : /\ status[d] \in DeadBefore => status'[d] \in DeadBefore
                             /\ status[d] \in AfterInput => status'[d] \in AfterInput
      BY <1>1, HandleAbortStatus DEF IsClientDead, Dead, AfterInput
    <3>2. With(DeadBefore) \subseteq With(DeadBefore)'
          /\ With(AfterInput) \subseteq With(AfterInput)'
      BY <3>1 DEF With
    <3>3. IsFiniteSet(With(DeadBefore)') /\ IsFiniteSet(With(AfterInput)')
      BY ClientsFinite, HavingFinite, WithIsHaving
    <3>4. /\ Cardinality(With(DeadBefore)) <= Cardinality(With(DeadBefore)')
          /\ Cardinality(With(AfterInput)) <= Cardinality(With(AfterInput)')
      BY <3>2, <3>3, FS_Subset
    <3> QED
      BY <2>1, <3>4 DEF FailuresCounted, AfterInput
  <2>3. /\ NumberOfAliveClients = Graph.nodes - failedBefore - (failedAfter + terminated)
        /\ NumberOfAliveClients'
             = Graph.nodes - failedBefore' - (failedAfter' + terminated')
    BY <1>3, <1>4 DEF NumberOfAliveClients
  <2>4. \A n, b, b1, a, a1 \in Int : b1 >= b /\ a1 >= a => n - b1 - a1 <= n - b - a
    OBVIOUS
  <2>5. /\ Graph.nodes \in Int /\ failedBefore \in Int /\ failedBefore' \in Int
        /\ failedAfter + terminated \in Int /\ failedAfter' + terminated' \in Int
    BY <1>3, <1>4
  <2> QED
    BY <2>2, <2>3, <2>4, <2>5
<1>6. NumberOfAliveClients \in Int /\ NumberOfAliveClients' \in Int
  BY <1>3, <1>4 DEF NumberOfAliveClients
<1>7. TooFewClients => TooFewClients'
  BY <1>1, <1>3, <1>5, <1>6 DEF TooFewClients, NumberOfPendingClients
<1>8. CASE ChecksRemaining(c)
  BY <1>1, <1>2, <1>7, <1>8, ZenonT(60)
<1>9. CASE ~ChecksRemaining(c)
  <2>1. state = "R3_UNMASKING" /\ status[c] = "UNMASKING_RESPONSE_RECEIVED"
    <3>1. status[c] = "UNMASKING_RESPONSE_RECEIVED"
      BY <1>9 DEF ChecksRemaining
    <3> QED
      BY <3>1 DEF BooksKept, StatusFits, DeadBefore
  <2>2. {d \in {c} : status[d] # "UNMASKING_RESPONSE_RECEIVED"} = {}
    BY <2>1
  <2>3. Cardinality({d \in {c} : status[d] # "UNMASKING_RESPONSE_RECEIVED"}) = 0
    BY <2>2, FS_EmptySet
  <2>4. R3HandleAbortClient({c}, reason)
    BY <1>1, <2>1 DEF HandleAbortClient
  <2>5. /\ failedBefore' = failedBefore
        /\ \/ terminated' = terminated + 0 /\ failedAfter' = failedAfter
           \/ failedAfter' = failedAfter + 0 /\ terminated' = terminated
    BY <2>3, <2>4 DEF R3HandleAbortClient
  <2>6. NumberOfAliveClients' = NumberOfAliveClients
    BY <1>3, <2>5 DEF NumberOfAliveClients
  <2>7. TooFewClients' <=> TooFewClients
    BY <1>1, <2>1, <2>6 DEF TooFewClients, NumberOfPendingClients
  <2> QED
    BY <1>1, <1>2, <1>9, <2>7, ZenonT(60)
<1> QED
  BY <1>8, <1>9

\* AbortClient, for whatever reason and in whatever state, keeps the books.
LEMMA AbortClientKeeps ==
  ASSUME BooksKept, NEW c \in Clients, NEW reason, NEW notify,
         AbortClient(c, reason, notify)
  PROVE  BooksKept'
<1>1. CASE IsClientDead(c)
  BY <1>1, BooksUntouched
  DEF AbortClient, books, vars, serverVars, round, counts, prng, inputs
<1>2. CASE ~IsClientDead(c)
  <2>1. /\ state' = state /\ messages' = messages
        /\ HandleAbortClient({c}, reason)
        /\ needsToAbort' = (needsToAbort \/ (ChecksRemaining(c) /\ TooFewClients'))
        /\ completion' = completion /\ pendingInputs' = pendingInputs
    BY <1>2, SMTT(60) DEF AbortClient, inputs, prng
  <2>2. needsToAbort' \in BOOLEAN
    BY <2>1
  <2>3. /\ status' \in [Clients -> ClientStatus]
        /\ failedBefore' \in Nat /\ failedAfter' \in Nat /\ terminated' \in Nat
        /\ FailuresCounted'
    BY <1>2, <2>1, HandleAbortCounts
  <2>4. StatusFits' /\ abortedRound2' \in SUBSET Clients
    BY <1>2, <2>1, HandleAbortStatus, SMTT(60)
  <2>5. ready' \in Nat /\ RoundCounted'
    BY <1>2, AbortClientRound
  <2>6. AbortFlagExact'
    BY <1>2, AbortClientFlag
  <2>7. TypeOK'
    BY <2>1, <2>2, <2>3, <2>4, <2>5 DEF BooksKept, TypeOK
  <2> QED
    BY <2>3, <2>4, <2>5, <2>6, <2>7, SMTT(60) DEF BooksKept
<1> QED
  BY <1>1, <1>2

-----------------------------------------------------------------------------
(* ReceiveMessage *)

\* An answer that is accepted is counted in the round, and nowhere else.
LEMMA AcceptKeeps ==
  ASSUME BooksKept, NEW c \in Clients, NEW m, Accept(c, m),
         pendingInputs' \in SUBSET Clients
  PROVE  BooksKept'
<1>1. /\ state \in Rounds /\ state' = state
      /\ status[c] = Awaited[state]
      /\ status' = [status EXCEPT ![c] = Answered[state]]
      /\ ready' = ready + 1 /\ messages' = messages + 1
      /\ needsToAbort' = needsToAbort /\ completion' = completion
      /\ failedBefore' = failedBefore /\ failedAfter' = failedAfter
      /\ terminated' = terminated /\ abortedRound2' = abortedRound2
  BY DEF Accept, counts, prng
<1>2. TypeOK /\ StatusFits /\ FailuresCounted /\ RoundCounted /\ AbortFlagExact
  BY DEF BooksKept
<1>3. /\ Answered[state] \in ClientStatus \ Dead
      /\ Awaited[state] \in ClientStatus \ Dead
      /\ Awaited[state] # Answered[state]
  BY <1>1, RoundStatuses DEF ClientStatus, Dead, DeadBefore
<1>4. /\ status'[c] = Answered[state]
      /\ \A d \in Clients \ {c} : status'[d] = status[d]
  BY <1>1, <1>2, SMTT(60) DEF TypeOK
<1>5. TypeOK'
  <2>1. needsToAbort' \in BOOLEAN
    BY <1>1, <1>2 DEF TypeOK
  <2> QED
    BY <1>1, <1>2, <1>3, <2>1, SMTT(60) DEF TypeOK
<1>6. StatusFits'
  BY <1>1, <1>2, <1>4, RoundStatuses DEF StatusFits
<1>7. FailuresCounted'
  <2>1. /\ \A d \in Clients : status[d] \in DeadBefore <=> status'[d] \in DeadBefore
        /\ \A d \in Clients : status[d] \in AfterInput <=> status'[d] \in AfterInput
    BY <1>1, <1>3, <1>4 DEF Dead, AfterInput
  <2>2. With(DeadBefore)' = With(DeadBefore) /\ With(AfterInput)' = With(AfterInput)
    BY <2>1, WithStay
  <2> QED
    BY <1>1, <1>2, <2>2 DEF FailuresCounted, AfterInput
<1>8. RoundCounted'
  <2> PICK a : a = Answered[state]
    OBVIOUS
  <2> PICK A : A = {"UNMASKING_RESPONSE_RECEIVED",
                    "DEAD_AFTER_UNMASKING_RESPONSE_RECEIVED"}
    BY ZenonT(60)
  <2>1. Cardinality(With({a})') = Cardinality(With({a})) + 1
    <3>1. /\ status[c] \notin {a} /\ status'[c] \in {a}
          /\ \A d \in Clients \ {c} : status[d] \in {a} <=> status'[d] \in {a}
      BY <1>1, <1>3, <1>4, SMTT(60)
    <3> QED
      BY <3>1, WithIsHaving, HavingEnter, ClientsFinite, SMTT(60)
  <2>2. ASSUME state = "R3_UNMASKING"
        PROVE  Cardinality(With(A)') = Cardinality(With(A)) + 1
    <3>1. /\ status[c] \notin A /\ status'[c] \in A
          /\ \A d \in Clients \ {c} : status[d] \in A <=> status'[d] \in A
      BY <1>1, <1>4, <2>2, RoundStatuses
    <3> QED
      BY <3>1, WithIsHaving, HavingEnter, ClientsFinite, SMTT(60)
  <2>3. With({Answered[state]})' = With({a})' /\ With({Answered[state]}) = With({a})
    BY <1>1 DEF With
  <2>4. CASE state = "R3_UNMASKING"
    BY <1>1, <1>2, <2>2, <2>4 DEF RoundCounted
  <2>5. CASE state # "R3_UNMASKING"
    BY <1>1, <1>2, <2>1, <2>3, <2>5 DEF RoundCounted
  <2> QED
    BY <2>4, <2>5
<1>9. AbortFlagExact'
  <2>1. NumberOfAliveClients' = NumberOfAliveClients
    BY <1>1 DEF NumberOfAliveClients
  <2>2. NumberOfAliveClients \in Int /\ ready \in Int /\ messages \in Int
    BY <1>2, ClientsFinite DEF NumberOfAliveClients, TypeOK
  <2>3. NumberOfPendingClients' + messages' = NumberOfPendingClients + messages
    BY <1>1, <2>1, <2>2 DEF NumberOfPendingClients
  <2>4. TooFewClients' <=> TooFewClients
    BY <1>1, <2>1, <2>3 DEF TooFewClients
  <2> QED
    BY <1>1, <1>2, <2>4 DEF AbortFlagExact
<1> QED
  BY <1>5, <1>6, <1>7, <1>8, <1>9 DEF BooksKept

\* Whatever a client sends, the books are kept.
LEMMA ReceiveMessageKeeps ==
  ASSUME BooksKept, NEW c \in Clients, NEW m, ReceiveMessage(c, m)
  PROVE  BooksKept'
<1>1. CASE ReceiveAbort(c, m)
  BY <1>1, AbortClientKeeps, ZenonT(60) DEF ReceiveAbort
<1>2. CASE RejectMessage(c, m)
  BY <1>2, AbortClientKeeps, ZenonT(60) DEF RejectMessage
<1>3. CASE AcceptAdvertiseKeys(c, m) \/ AcceptShareKeysResponse(c, m)
           \/ AcceptMaskedInput(c, m) \/ AcceptUnmaskingResponse(c, m)
  <2>1. Accept(c, m) /\ pendingInputs' \in SUBSET Clients
    BY <1>3, SMTT(60) DEF AcceptAdvertiseKeys, AcceptShareKeysResponse, AcceptMaskedInput,
                AcceptUnmaskingResponse, inputs, BooksKept, TypeOK
  <2> QED
    BY <2>1, AcceptKeeps
<1> QED
  BY <1>1, <1>2, <1>3 DEF ReceiveMessage

-----------------------------------------------------------------------------
(* ProceedToNextRound *)

\* A round that starts with the clients that answered in the one before has
\* enough of them, and none has answered yet.
LEMMA NextRoundKeeps ==
  ASSUME BooksKept, NEW s, ProceedTo(s),
         \/ state = "R0_ADVERTISE_KEYS" /\ s = "R1_SHARE_KEYS"
         \/ state = "R1_SHARE_KEYS" /\ s = "R2_MASKED_INPUT_COLLECTION"
         \/ state = "R2_MASKED_INPUT_COLLECTION" /\ s = "R3_UNMASKING",
         status' \in [Clients -> ClientStatus],
         \A c \in Clients : IF c \in Stragglers THEN status'[c] \in DeadBefore
                                                ELSE status'[c] = status[c],
         s = "R2_MASKED_INPUT_COLLECTION" \/ s = "R3_UNMASKING"
           \/ \A c \in Stragglers : status'[c] = "DEAD_BEFORE_SENDING_ANYTHING",
         failedBefore' \in Nat, failedAfter' \in Nat, terminated' \in Nat,
         FailuresCounted', UNCHANGED <<completion, pendingInputs>>,
         abortedRound2' \in SUBSET Clients
  PROVE  BooksKept'
<1>1. /\ state' = s /\ needsToAbort' = FALSE /\ ready' = 0 /\ messages' = 0
      /\ ready >= MinimumClients
  BY DEF ProceedTo, EnterRound, ReadyForNextRound
<1>2. TypeOK /\ StatusFits /\ RoundCounted
  BY DEF BooksKept
<1>3. TypeOK'
  <2>1. needsToAbort' \in BOOLEAN
    BY <1>1, ZenonT(60)
  <2> QED
    BY <1>1, <1>2, <2>1 DEF TypeOK
<1>4. \A c \in Clients \ Stragglers : status[c] \in Dead \cup {Answered[state]}
  BY DEF Stragglers, IsClientDead
<1>5. StatusFits'
  <2>1. CASE s = "R1_SHARE_KEYS"
    BY <1>1, <1>2, <1>4, <2>1, RoundStatuses DEF StatusFits, Dead, DeadBefore
  <2>2. CASE s = "R2_MASKED_INPUT_COLLECTION"
    BY <1>1, <1>2, <1>4, <2>2, RoundStatuses DEF StatusFits, Dead, DeadBefore
  <2>3. CASE s = "R3_UNMASKING"
    BY <1>1, <1>2, <1>4, <2>3, RoundStatuses DEF StatusFits, Dead, DeadBefore
  <2> QED
    BY <2>1, <2>2, <2>3
<1>6. \A c \in Clients : status[c] = Answered[state] => status'[c] = status[c]
  BY DEF Stragglers
<1>7. RoundCounted'
  <2>1. \A c \in Clients : /\ status'[c] # Answered[state']
                           /\ s = "R3_UNMASKING" =>
                                status'[c] # "DEAD_AFTER_UNMASKING_RESPONSE_RECEIVED"
    BY <1>1, <1>2, <1>4 DEF StatusFits, Answered, Dead, DeadBefore
  <2>2. With({Answered[state]})' = {}
    BY <2>1 DEF With
  <2>3. state' = "R3_UNMASKING" =>
          With({"UNMASKING_RESPONSE_RECEIVED",
                "DEAD_AFTER_UNMASKING_RESPONSE_RECEIVED"})' = {}
    BY <1>1, <2>1 DEF With, Answered
  <2>4. Cardinality({}) = 0
    BY FS_EmptySet
  <2> QED
    BY <1>1, <2>2, <2>3, <2>4, ZenonT(60) DEF RoundCounted
<1>8. AbortFlagExact'
  <2>1. ready = Cardinality(With({Answered[state]}))
    BY <1>2 DEF RoundCounted
  <2>2. With({Answered[state]}) \subseteq With(Alive)'
    BY <1>6, RoundStatuses, SMTT(60) DEF With, Alive, ClientStatus, DeadBefore, AfterInput
  <2>3. IsFiniteSet(With(Alive)')
    BY WithIsHaving, HavingFinite, ClientsFinite, SMTT(60)
  <2>4. Cardinality(With({Answered[state]})) <= Cardinality(With(Alive)')
    BY <2>2, <2>3, FS_Subset, ZenonT(60)
  <2>5. (NumberOfAliveClients = Cardinality(With(Alive)))'
    <3>1. (TypeOK /\ FailuresCounted => NumberOfAliveClients = Cardinality(With(Alive)))'
      BY AliveCounted, PTL
    <3> QED
      BY <1>3, <3>1
  <2>6. MinimumClients \in Int /\ ready \in Int /\ Cardinality(With(Alive)') \in Int
    BY <1>2, MinimumAssumption, WithIsHaving DEF TypeOK
  <2>7. NumberOfAliveClients' >= MinimumClients /\ NumberOfAliveClients' \in Int
    BY <1>1, <2>1, <2>4, <2>5, <2>6, SMTT(60)
  <2>8. ~TooFewClients'
    BY <1>1, <2>6, <2>7 DEF TooFewClients, NumberOfPendingClients
  <2> QED
    BY <1>1, <2>8 DEF AbortFlagExact
<1> QED
  BY <1>3, <1>5, <1>7, <1>8, SMTT(60) DEF BooksKept

\* The stragglers are clients that can be aborted, and in round 2 none of them
\* has sent its masked input.
LEMMA StragglersAborting ==
  BooksKept => /\ Aborting(Stragglers)
               /\ state = "R2_MASKED_INPUT_COLLECTION" =>
                    {c \in Stragglers : status[c] = "MASKED_INPUT_RESPONSE_RECEIVED"} = {}
<1>1. Aborting(Stragglers)
  BY DEF Aborting, Stragglers
<1>2. state = "R2_MASKED_INPUT_COLLECTION" =>
        {c \in Stragglers : status[c] = "MASKED_INPUT_RESPONSE_RECEIVED"} = {}
  BY RoundStatuses DEF Stragglers
<1> QED
  BY <1>1, <1>2

\* The transition out of round 0, with its stragglers, keeps the books.
LEMMA ProceedFromR0Keeps == BooksKept /\ ProceedFromR0 => BooksKept'
<1> SUFFICES ASSUME BooksKept, ProceedFromR0 PROVE BooksKept'
  OBVIOUS
<1>1. /\ state = "R0_ADVERTISE_KEYS" /\ ProceedTo("R1_SHARE_KEYS")
      /\ R0HandleAbortClient(Stragglers) /\ UNCHANGED <<inputs, prng>>
  BY SMTT(60) DEF ProceedFromR0
<1>2. /\ status' \in [Clients -> ClientStatus]
      /\ failedBefore' \in Nat /\ failedAfter' \in Nat /\ terminated' \in Nat
      /\ FailuresCounted'
  BY <1>1, EarlyAbort, StragglersAborting, SMTT(60) DEF R0HandleAbortClient, BooksKept, DeadBefore
<1>3. /\ \A c \in Clients :
           IF c \in Stragglers THEN status'[c] = "DEAD_BEFORE_SENDING_ANYTHING"
                               ELSE status'[c] = status[c]
      /\ Stragglers \subseteq Clients
      /\ abortedRound2' = abortedRound2
      /\ completion' = completion /\ pendingInputs' = pendingInputs
  BY <1>1, SMTT(60) DEF R0HandleAbortClient, SetStatus, Stragglers, inputs, prng
<1> QED
  BY <1>1, <1>2, <1>3, NextRoundKeeps, SMTT(60) DEF DeadBefore, BooksKept, TypeOK

\* The transition out of round 1, with its stragglers, keeps the books.
LEMMA ProceedFromR1Keeps == BooksKept /\ ProceedFromR1 => BooksKept'
<1> SUFFICES ASSUME BooksKept, ProceedFromR1 PROVE BooksKept'
  OBVIOUS
<1>1. /\ state = "R1_SHARE_KEYS" /\ ProceedTo("R2_MASKED_INPUT_COLLECTION")
      /\ SetStatus(Stragglers, "DEAD_AFTER_ADVERTISE_KEYS_RECEIVED")
      /\ failedBefore' = failedBefore + Cardinality(Stragglers)
      /\ UNCHANGED <<failedAfter, terminated, abortedRound2, inputs, prng>>
  BY DEF ProceedFromR1
<1>2. /\ status' \in [Clients -> ClientStatus]
      /\ failedBefore' \in Nat /\ failedAfter' \in Nat /\ terminated' \in Nat
      /\ FailuresCounted'
  BY <1>1, EarlyAbort, StragglersAborting DEF BooksKept, DeadBefore
<1>3. /\ \A c \in Clients :
           IF c \in Stragglers THEN status'[c] = "DEAD_AFTER_ADVERTISE_KEYS_RECEIVED"
                               ELSE status'[c] = status[c]
      /\ abortedRound2' = abortedRound2
      /\ completion' = completion /\ pendingInputs' = pendingInputs
  BY <1>1, SMTT(60) DEF SetStatus, inputs, prng
<1> QED
  BY <1>1, <1>2, <1>3, NextRoundKeeps, SMTT(60) DEF DeadBefore, BooksKept, TypeOK

\* The transition out of round 2, with its stragglers, keeps the books.
LEMMA ProceedFromR2Keeps == BooksKept /\ ProceedFromR2 => BooksKept'
<1> SUFFICES ASSUME BooksKept, ProceedFromR2 PROVE BooksKept'
  OBVIOUS
<1>1. /\ state = "R2_MASKED_INPUT_COLLECTION" /\ ProceedTo("R3_UNMASKING")
      /\ R2HandleAbortClient(Stragglers) /\ UNCHANGED <<inputs, prng>>
  BY DEF ProceedFromR2
<1>2. /\ status' \in [Clients -> ClientStatus]
      /\ failedBefore' \in Nat /\ failedAfter' \in Nat /\ terminated' \in Nat
      /\ FailuresCounted'
  BY <1>1, R2Abort, StragglersAborting, SMTT(60) DEF BooksKept
<1>3. /\ \A c \in Clients :
           IF c \in Stragglers THEN status'[c] = "DEAD_AFTER_SHARE_KEYS_RECEIVED"
                               ELSE status'[c] = status[c]
      /\ abortedRound2' \in SUBSET Clients
      /\ completion' = completion /\ pendingInputs' = pendingInputs
  BY <1>1, StragglersAborting, SMTT(60)
  DEF R2HandleAbortClient, Stragglers, inputs, prng, BooksKept, TypeOK
<1> QED
  BY <1>1, <1>2, <1>3, NextRoundKeeps, SMTT(60) DEF DeadBefore, BooksKept, TypeOK

\* A step into a state that counts no answers keeps the books if it keeps the
\* failure counters right.
LEMMA LastStatesKeep ==
  ASSUME BooksKept, NEW s \in Terminal \cup {"PRNG_RUNNING"}, EnterRound(s),
         status' \in [Clients -> ClientStatus], StatusFits',
         failedBefore' \in Nat, failedAfter' \in Nat, terminated' \in Nat,
         FailuresCounted', completion' \in {None, "ok", "error"},
         pendingInputs' \in SUBSET Clients, abortedRound2' = abortedRound2
  PROVE  BooksKept'
<1>1. needsToAbort' \in BOOLEAN
  BY ZenonT(60) DEF EnterRound
<1>2. TypeOK'
  BY <1>1 DEF EnterRound, BooksKept, TypeOK
<1>3. RoundCounted' /\ AbortFlagExact'
  BY SMTT(60) DEF EnterRound, RoundCounted, AbortFlagExact
<1> QED
  BY <1>2, <1>3 DEF BooksKept

\* The transition out of round 3, which lets the stragglers off, keeps the books.
LEMMA ProceedFromR3Keeps == BooksKept /\ ProceedFromR3 => BooksKept'
<1> SUFFICES ASSUME BooksKept, ProceedFromR3 PROVE BooksKept'
  OBVIOUS
<1>1. /\ state = "R3_UNMASKING" /\ EnterRound("PRNG_RUNNING")
      /\ R3HandleAbortClient(Stragglers, "EARLY_SUCCESS")
      /\ completion' \in {completion, "error"} /\ UNCHANGED inputs
  BY DEF ProceedFromR3, ProceedTo
<1>2. /\ status' \in [Clients -> ClientStatus]
      /\ failedBefore' \in Nat /\ failedAfter' \in Nat /\ terminated' \in Nat
      /\ FailuresCounted'
  BY <1>1, R3Abort, StragglersAborting DEF BooksKept
<1>3. StatusFits'
  <2>1. \A c \in Clients :
          IF c \in Stragglers THEN status'[c] \in Dead ELSE status'[c] = status[c]
    BY <1>1 DEF R3HandleAbortClient, Dead
  <2>2. \A c \in Clients \ Stragglers : status[c] \in Dead \cup {Answered[state]}
    BY DEF Stragglers, IsClientDead
  <2> QED
    BY <1>1, <2>1, <2>2, RoundStatuses DEF StatusFits, EnterRound
<1> QED
  BY <1>1, <1>2, <1>3, LastStatesKeep, SMTT(60)
  DEF R3HandleAbortClient, inputs, BooksKept, TypeOK

\* A transition that leaves the statuses and the failure counters alone.
LEMMA EndKeeps ==
  ASSUME BooksKept, NEW s \in Terminal, EnterRound(s),
         s = "COMPLETED" => state = "PRNG_RUNNING",
         UNCHANGED <<status, counts, abortedRound2, completion>>,
         pendingInputs' \in SUBSET Clients
  PROVE  BooksKept'
<1>1. StatusFits'
  BY DEF BooksKept, StatusFits, EnterRound
<1>2. FailuresCounted'
  BY DEF BooksKept, FailuresCounted, With, counts
<1>3. /\ status' \in [Clients -> ClientStatus]
      /\ failedBefore' \in Nat /\ failedAfter' \in Nat /\ terminated' \in Nat
      /\ completion' \in {None, "ok", "error"}
  BY DEF BooksKept, TypeOK, counts
<1> QED
  BY <1>1, <1>2, <1>3, LastStatesKeep

\* ProceedToNextRound keeps the books in every state.
LEMMA ProceedKeeps == BooksKept /\ ProceedToNextRound => BooksKept'
<1> SUFFICES ASSUME BooksKept, ProceedToNextRound PROVE BooksKept'
  OBVIOUS
<1>1. CASE ProceedFromR0 \/ ProceedFromR1 \/ ProceedFromR2 \/ ProceedFromR3
  BY <1>1, ProceedFromR0Keeps, ProceedFromR1Keeps, ProceedFromR2Keeps, ProceedFromR3Keeps, SMTT(60)
<1>2. CASE ProceedFromPrng
  BY <1>2, EndKeeps, SMTT(60) DEF ProceedFromPrng, inputs, prng, BooksKept, TypeOK
<1>3. CASE ProceedToAbort
  BY <1>3, EndKeeps, SMTT(60) DEF ProceedToAbort, inputs, prng, BooksKept, TypeOK
<1> QED
  BY <1>1, <1>2, <1>3 DEF ProceedToNextRound

-----------------------------------------------------------------------------
(* The theorems *)

\* A new server's books are right.
LEMMA InitKeeps == Init => BooksKept
<1> SUFFICES ASSUME Init PROVE BooksKept
  OBVIOUS
<1>1. needsToAbort \in BOOLEAN
  BY ZenonT(60) DEF Init
<1>2. TypeOK
  BY <1>1 DEF Init, TypeOK, ClientStatus
<1>3. StatusFits
  BY DEF Init, StatusFits
<1>4. /\ With(DeadBefore) = {} /\ With(AfterInput) = {}
      /\ With({Answered[state]}) = {}
  BY RoundStatuses DEF Init, With, DeadBefore, AfterInput
<1>5. Cardinality({}) = 0
  BY FS_EmptySet
<1>6. FailuresCounted /\ RoundCounted
  <2>1. failedBefore = 0 /\ failedAfter + terminated = 0 /\ ready = 0
    BY DEF Init
  <2>2. FailuresCounted
    BY <1>4, <1>5, <2>1 DEF FailuresCounted, AfterInput
  <2>3. RoundCounted
    BY <1>4, <1>5, <2>1, ZenonT(60) DEF Init, RoundCounted
  <2> QED
    BY <2>2, <2>3
<1>7. AbortFlagExact
  <2>1. NumberOfAliveClients = Graph.nodes
    BY ClientsFinite DEF Init, NumberOfAliveClients
  <2> QED
    BY <2>1, ClientsFinite, MinimumAssumption DEF Init, AbortFlagExact, TooFewClients
<1> QED
  BY <1>2, <1>3, <1>6, <1>7 DEF BooksKept

\* What the server does without a message from a client keeps its books.
LEMMA ServerStepKeeps == BooksKept /\ ServerStep => BooksKept'
<1> SUFFICES ASSUME BooksKept, ServerStep PROVE BooksKept'
  OBVIOUS
<1>1. CASE ProceedToNextRound
  BY <1>1, ProceedKeeps
<1>2. CASE PrngRunnerFinished
  <2>1. /\ UNCHANGED <<state, status, needsToAbort, counts, ready, messages,
                       pendingInputs, abortedRound2>>
        /\ completion' = "ok" /\ state = "PRNG_RUNNING"
    BY <1>2 DEF PrngRunnerFinished, round, inputs
  <2>2. TypeOK' /\ StatusFits' /\ FailuresCounted' /\ RoundCounted' /\ AbortFlagExact'
    BY <2>1 DEF BooksKept, TypeOK, StatusFits, FailuresCounted, RoundCounted,
                AbortFlagExact, With, counts
  <2> QED
    BY <2>2 DEF BooksKept
<1>3. CASE AccumulateInputs
  <2>1. /\ UNCHANGED <<state, status, needsToAbort, counts, ready, messages,
                       completion, abortedRound2>>
        /\ pendingInputs' \subseteq pendingInputs
    BY <1>3 DEF AccumulateInputs, round, prng
  <2>2. TypeOK' /\ StatusFits' /\ FailuresCounted' /\ RoundCounted'
    BY <2>1 DEF BooksKept, TypeOK, StatusFits, FailuresCounted, RoundCounted,
                With, counts
  <2>3. AbortFlagExact'
    BY <2>1 DEF BooksKept, AbortFlagExact, TooFewClients, NumberOfPendingClients,
                NumberOfAliveClients, counts
  <2> QED
    BY <2>2, <2>3 DEF BooksKept
<1>4. CASE Abort
  BY <1>4, EndKeeps DEF Abort, prng
<1>5. CASE Result
  BY <1>5, BooksUntouched DEF Result, books, round, inputs
<1>6. CASE \E c \in Clients, notify \in BOOLEAN : ServerAbortClient(c, notify)
  BY <1>6, AbortClientKeeps DEF ServerAbortClient
<1> QED
  BY <1>1, <1>2, <1>3, <1>4, <1>5, <1>6, SMTT(60) DEF ServerStep

\* A step that leaves the server alone keeps its books.
LEMMA StutterKeeps == BooksKept /\ UNCHANGED serverVars => BooksKept'
BY BooksUntouched DEF books, serverVars, round, counts, prng, inputs

\* BooksKept is inductive: every step of the server keeps it.
LEMMA NextKeeps == BooksKept /\ [Next]_vars => BooksKept'
<1> SUFFICES ASSUME BooksKept, [Next]_vars PROVE BooksKept'
  OBVIOUS
<1>1. CASE ServerStep
  BY <1>1, ServerStepKeeps
<1>2. CASE \E c \in Clients : \E m \in ClientMessage(c) : ReceiveMessage(c, m)
  BY <1>2, ReceiveMessageKeeps
<1>3. CASE UNCHANGED vars
  BY <1>3, StutterKeeps DEF vars
<1> QED
  BY <1>1, <1>2, <1>3 DEF Next

\* The invariant holds in every reachable state of the server, whatever the
\* clients send.
THEOREM BooksAlwaysKept == Spec => []BooksKept
<1>1. Init => BooksKept
  BY InitKeeps
<1>2. BooksKept /\ [Next]_vars => BooksKept'
  BY NextKeeps
<1> QED
  BY <1>1, <1>2, PTL DEF Spec

\* The failure counters that a state hands to the next agree with the statuses.
THEOREM FailuresAlwaysCounted == Spec => []FailuresCounted
<1>1. BooksKept => FailuresCounted
  BY DEF BooksKept
<1> QED
  BY <1>1, BooksAlwaysKept, PTL

\* needs_to_abort_ is raised exactly while too few clients remain, also across
\* ProceedToNextRound, which creates the next state with a lowered flag.
THEOREM AbortFlagAlwaysExact == Spec => []AbortFlagExact
<1>1. BooksKept => AbortFlagExact
  BY DEF BooksKept
<1> QED
  BY <1>1, BooksAlwaysKept, PTL

\* Every client that is not dead counts as alive, and those of the round are
\* the ones that have answered and the ones that have not.
LEMMA NobodyAwaited ==
  ASSUME BooksKept, state \in Rounds, With({Awaited[state]}) = {}
  PROVE  IF state = "R3_UNMASKING" THEN NumberOfAliveClients = messages
                                   ELSE NumberOfAliveClients = ready
<1> DEFINE A == IF state = "R3_UNMASKING"
                  THEN {"UNMASKING_RESPONSE_RECEIVED",
                        "DEAD_AFTER_UNMASKING_RESPONSE_RECEIVED"}
                  ELSE {Answered[state]}
<1>1. \A c \in Clients : status[c] \in Alive <=> status[c] \in A
  BY RoundStatuses
  DEF BooksKept, TypeOK, StatusFits, With, Alive, ClientStatus, Dead, DeadBefore, AfterInput
<1>2. With(Alive) = With(A)
  BY <1>1 DEF With
<1>3. NumberOfAliveClients = Cardinality(With(A))
  BY <1>2, AliveCounted DEF BooksKept
<1> QED
  BY <1>3 DEF BooksKept, RoundCounted

\* A round in which every client that is alive has answered is ready, to
\* proceed or to abort: ReadyForNextRound cannot keep its caller waiting for ever.
THEOREM NeverEverStuck == Spec => []NeverStuck
<1>1. BooksKept => NeverStuck
  <2> SUFFICES ASSUME BooksKept, state \in Rounds, pendingInputs = {},
                      With({Awaited[state]}) = {}
               PROVE  ReadyForNextRound
    BY DEF NeverStuck
  <2>1. needsToAbort <=> TooFewClients
    BY DEF BooksKept, AbortFlagExact
  <2>2. ready \in Int /\ messages \in Int /\ MinimumClients \in Int
    BY MinimumAssumption DEF BooksKept, TypeOK
  <2>3. CASE state = "R3_UNMASKING"
    <3>1. NumberOfAliveClients = messages /\ ready = messages
      BY <2>3, NobodyAwaited DEF BooksKept, RoundCounted
    <3>2. TooFewClients <=> messages < MinimumClients
      BY <2>2, <2>3, <3>1 DEF TooFewClients, NumberOfPendingClients
    <3> QED
      BY <2>1, <2>2, <2>3, <3>2 DEF ReadyForNextRound
  <2>4. CASE state # "R3_UNMASKING"
    <3>1. TooFewClients <=> ready < MinimumClients
      BY <2>4, NobodyAwaited DEF TooFewClients
    <3> QED
      BY <2>1, <2>2, <2>4, <3>1 DEF ReadyForNextRound
  <2> QED
    BY <2>3, <2>4
<1> QED
  BY <1>1, BooksAlwaysKept, PTL

-----------------------------------------------------------------------------
(* The inputs in the sum and the tables of shares *)

Sent == {"MASKED_INPUT_RESPONSE_RECEIVED", "UNMASKING_RESPONSE_RECEIVED",
         "DEAD_AFTER_MASKED_INPUT_RESPONSE_RECEIVED",
         "DEAD_AFTER_UNMASKING_RESPONSE_RECEIVED"}
FailedInR2 == {"DEAD_AFTER_SHARE_KEYS_RECEIVED"}
NotFailed == ClientStatus \ DeadBefore

\* A client's input is in the sum when its status says that it was sent, the
\* clients that failed in round 2 are known, and from round 3 on the inputs are
\* fixed, enough and accumulated, and the tables have the rows they need.
SumKept ==
  /\ maskedInput = [c \in Clients |-> maskedInput[c]]
  /\ \A c \in Clients : maskedInput[c] # None <=> status[c] \in Sent
  /\ abortedRound2 = With(FailedInR2)
  /\ state \in {"R3_UNMASKING", "PRNG_RUNNING", "COMPLETED"} =>
       pendingInputs = {} /\ Graph.nodes - failedBefore >= MinimumClients
  /\ state \in {"R3_UNMASKING", "PRNG_RUNNING"} =>
       DOMAIN selfTable = With(NotFailed) /\ DOMAIN pairwiseTable = abortedRound2

\* A new server holds no input and no table.
LEMMA SumInit == Init => SumKept
BY SMTT(60) DEF Init, SumKept, With, Sent, FailedInR2

\* Aborting clients takes no input out of the sum, and from round 3 on it does
\* not touch what is known of the clients that failed before.
LEMMA AbortKeepsInputs ==
  ASSUME BooksKept, SumKept, NEW S, Aborting(S), NEW reason, HandleAbortClient(S, reason)
  PROVE  /\ \A c \in Clients : status'[c] \in Sent <=> status[c] \in Sent
         /\ abortedRound2' = With(FailedInR2)'
         /\ state \in {"R3_UNMASKING", "PRNG_RUNNING"} =>
              /\ failedBefore' = failedBefore
              /\ With(NotFailed)' = With(NotFailed)
              /\ abortedRound2' = abortedRound2
<1> USE DEF HandleAbortClient, SetStatus, keyData, counts, Dead, DeadBefore, Sent,
            FailedInR2, NotFailed, Aborting, IsClientDead, With
<1>1. StatusFits /\ status \in [Clients -> ClientStatus] /\ abortedRound2 = With(FailedInR2)
  BY SMTT(60) DEF BooksKept, SumKept, TypeOK
<1>2. CASE state = "R0_ADVERTISE_KEYS" /\ R0HandleAbortClient(S)
  BY <1>1, <1>2 DEF R0HandleAbortClient, StatusFits
<1>3. CASE state = "R1_SHARE_KEYS" /\ R1HandleAbortClient(S)
  BY <1>1, <1>3 DEF R1HandleAbortClient, StatusFits
<1>4. CASE state = "R2_MASKED_INPUT_COLLECTION" /\ R2HandleAbortClient(S)
  BY <1>1, <1>4 DEF R2HandleAbortClient, StatusFits
<1>5. CASE state = "R3_UNMASKING" /\ R3HandleAbortClient(S, reason)
  BY <1>1, <1>5 DEF R3HandleAbortClient, StatusFits, ClientStatus
<1>6. CASE state = "PRNG_RUNNING" /\ PrngHandleAbortClient(S)
  BY <1>1, <1>6 DEF PrngHandleAbortClient, StatusFits, ClientStatus
<1> QED
  BY <1>2, <1>3, <1>4, <1>5, <1>6, SMTT(60)

\* A step that leaves inputs, statuses and tables alone keeps SumKept.
LEMMA SumUntouched ==
  ASSUME SumKept, UNCHANGED <<state, status, failedBefore, abortedRound2, inputs, tables>>
  PROVE  SumKept'
BY DEF SumKept, inputs, tables, With

\* AbortClient keeps inputs, failures and tables in step.
LEMMA SumAbortClient ==
  ASSUME BooksKept, SumKept, NEW c \in Clients, NEW reason, NEW notify,
         AbortClient(c, reason, notify)
  PROVE  SumKept'
<1>1. CASE IsClientDead(c)
  BY <1>1, SumUntouched, SMTT(60) DEF AbortClient, vars, serverVars, round, counts
<1>2. CASE ~IsClientDead(c)
  <2>1. /\ state' = state /\ UNCHANGED <<inputs, tables>>
        /\ HandleAbortClient({c}, reason) /\ Aborting({c})
    BY <1>2, SMTT(60) DEF AbortClient, Aborting
  <2>2. /\ \A d \in Clients : status'[d] \in Sent <=> status[d] \in Sent
        /\ abortedRound2' = With(FailedInR2)'
        /\ state \in {"R3_UNMASKING", "PRNG_RUNNING"} =>
             /\ failedBefore' = failedBefore
             /\ With(NotFailed)' = With(NotFailed)
             /\ abortedRound2' = abortedRound2
    BY <2>1, AbortKeepsInputs, SMTT(60)
  <2>3. state # "COMPLETED"
    BY <2>1 DEF HandleAbortClient
  <2> QED
    BY <2>1, <2>2, <2>3, SMTT(60) DEF SumKept, inputs, tables
<1> QED
  BY <1>1, <1>2, SMTT(60)

\* An answer puts an input into the sum exactly when it sets the status that
\* says so.
LEMMA SumAccept ==
  ASSUME BooksKept, SumKept, NEW c \in Clients, NEW m, Accept(c, m),
         m.type = "masked_input_response" => m.masks # None,
         \/ UNCHANGED <<inputs, tables>> /\ state # "R2_MASKED_INPUT_COLLECTION"
         \/ AcceptMaskedInput(c, m)
         \/ AcceptUnmaskingResponse(c, m)
  PROVE  SumKept'
<1>1. /\ state \in Rounds /\ state' = state
      /\ status[c] = Awaited[state] /\ m.type = Answer[state]
      /\ status' = [status EXCEPT ![c] = Answered[state]]
      /\ failedBefore' = failedBefore /\ abortedRound2' = abortedRound2
  BY SMTT(60) DEF Accept, counts
<1>2. /\ status \in [Clients -> ClientStatus]
      /\ status'[c] = Answered[state]
      /\ \A d \in Clients \ {c} : status'[d] = status[d]
  BY <1>1, SMTT(60) DEF BooksKept, TypeOK
<1>3. With(FailedInR2)' = With(FailedInR2) /\ With(NotFailed)' = With(NotFailed)
  BY <1>1, <1>2, RoundStatuses, SMTT(60) DEF With, FailedInR2, NotFailed, DeadBefore, ClientStatus
<1>4. CASE state = "R2_MASKED_INPUT_COLLECTION"
  <2>1. /\ maskedInput' = [maskedInput EXCEPT ![c] = m.masks]
        /\ m.type = "masked_input_response"
    BY <1>1, <1>4, SMTT(60) DEF AcceptMaskedInput, AcceptUnmaskingResponse, Answer
  <2>2. m.masks # None
    BY <2>1
  <2>3. /\ maskedInput' = [d \in Clients |-> maskedInput'[d]]
        /\ maskedInput'[c] # None
        /\ \A d \in Clients \ {c} : maskedInput'[d] = maskedInput[d]
    BY <2>1, <2>2, ZenonT(60) DEF SumKept
  <2>4. \A d \in Clients : maskedInput'[d] # None <=> status'[d] \in Sent
    BY <1>2, <1>4, <2>3, RoundStatuses, SMTT(60) DEF SumKept, Sent
  <2> QED
    BY <1>1, <1>3, <1>4, <2>3, <2>4, SMTT(60) DEF SumKept
<1>5. CASE state # "R2_MASKED_INPUT_COLLECTION"
  <2>1. /\ UNCHANGED inputs
        /\ DOMAIN selfTable' = DOMAIN selfTable
        /\ DOMAIN pairwiseTable' = DOMAIN pairwiseTable
    <3>1. CASE UNCHANGED <<inputs, tables>>
      BY <3>1, SMTT(60) DEF tables
    <3>2. CASE AcceptMaskedInput(c, m)
      BY <1>5, <3>2, ZenonT(60) DEF AcceptMaskedInput
    <3>3. CASE AcceptUnmaskingResponse(c, m)
      <4>1. UNCHANGED inputs
        BY <3>3, SMTT(60) DEF AcceptUnmaskingResponse
      <4>2. /\ DOMAIN selfTable' = DOMAIN selfTable
            /\ DOMAIN pairwiseTable' = DOMAIN pairwiseTable
        BY <3>3, SMTT(60) DEF AcceptUnmaskingResponse, FileShares
      <4> QED
        BY <4>1, <4>2
    <3> QED
      BY <1>5, <3>1, <3>2, <3>3
  <2>2. \A d \in Clients : status'[d] \in Sent <=> status[d] \in Sent
    BY <1>1, <1>2, <1>5, RoundStatuses, SMTT(60) DEF Sent
  <2> QED
    BY <1>1, <1>3, <2>1, <2>2, SMTT(60) DEF SumKept, inputs
<1> QED
  BY <1>4, <1>5, SMTT(60)

\* ReceiveMessage keeps inputs, failures and tables in step.
LEMMA SumReceive ==
  ASSUME BooksKept, SumKept, NEW c \in Clients, NEW m, ReceiveMessage(c, m),
         m.type = "masked_input_response" => m.masks # None
  PROVE  SumKept'
<1>1. CASE ReceiveAbort(c, m)
  BY <1>1, SumAbortClient, ZenonT(60) DEF ReceiveAbort
<1>2. CASE RejectMessage(c, m)
  BY <1>2, SumAbortClient, ZenonT(60) DEF RejectMessage
<1>3. CASE AcceptAdvertiseKeys(c, m)
  BY <1>3, SumAccept, SMTT(60) DEF AcceptAdvertiseKeys
<1>4. CASE AcceptShareKeysResponse(c, m)
  BY <1>4, SumAccept, SMTT(60) DEF AcceptShareKeysResponse
<1>5. CASE AcceptMaskedInput(c, m)
  BY <1>5, SumAccept, ZenonT(60) DEF AcceptMaskedInput
<1>6. CASE AcceptUnmaskingResponse(c, m)
  BY <1>6, SumAccept, SMTT(60) DEF AcceptUnmaskingResponse
<1> QED
  BY <1>1, <1>2, <1>3, <1>4, <1>5, <1>6 DEF ReceiveMessage

\* The transition into round 3 fixes the inputs: they are accumulated, enough,
\* and exactly the clients without one have a row in the pairwise table.
LEMMA SumProceedFromR2 ==
  BooksKept /\ BooksKept' /\ SumKept /\ ProceedFromR2 => SumKept'
<1> SUFFICES ASSUME BooksKept, BooksKept', SumKept, ProceedFromR2 PROVE SumKept'
  OBVIOUS
<1>1. /\ state = "R2_MASKED_INPUT_COLLECTION" /\ state' = "R3_UNMASKING"
      /\ R2HandleAbortClient(Stragglers) /\ ReadyForNextRound
      /\ pairwiseTable' = EmptyTable("noise") /\ selfTable' = EmptyTable("prf")
      /\ UNCHANGED inputs /\ needsToAbort' = FALSE
  BY SMTT(60) DEF ProceedFromR2, ProceedTo, EnterRound
<1>2. /\ \A c \in Clients : status'[c] \in Sent <=> status[c] \in Sent
      /\ abortedRound2' = With(FailedInR2)'
  BY <1>1, AbortKeepsInputs, StragglersAborting, SMTT(60) DEF HandleAbortClient
<1>3. \A c \in Clients : /\ MaskType(status'[c]) = "noise" <=> status'[c] \in FailedInR2
                         /\ MaskType(status'[c]) = "prf" <=> status'[c] \in NotFailed
  BY <1>1, SMTT(60) DEF BooksKept, StatusFits, TypeOK, MaskType, FailedInR2, NotFailed,
              ClientStatus, Dead, DeadBefore
<1>4. /\ DOMAIN pairwiseTable' = With(FailedInR2)'
      /\ DOMAIN selfTable' = With(NotFailed)'
  BY <1>1, <1>3 DEF EmptyTable, With
<1>5. pendingInputs' = {}
  BY <1>1 DEF ReadyForNextRound, inputs
<1>6. (Graph.nodes - failedBefore >= MinimumClients)'
  <2>1. ~TooFewClients'
    BY <1>1, SMTT(60) DEF BooksKept, AbortFlagExact
  <2>2. /\ Graph.nodes \in Int /\ MinimumClients \in Int
        /\ failedBefore' \in Nat /\ failedAfter' \in Nat /\ terminated' \in Nat
        /\ ready' = 0 /\ messages' = 0
    BY ClientsFinite, MinimumAssumption, SMTT(60)
    DEF BooksKept, TypeOK, ProceedFromR2, ProceedTo, EnterRound
  <2>3. ~(Graph.nodes - failedBefore' - failedAfter' - terminated' - 0 + 0 < MinimumClients)
    BY <1>1, <2>1, <2>2 DEF TooFewClients, NumberOfPendingClients, NumberOfAliveClients
  <2> QED
    BY <2>2, <2>3
<1> QED
  BY <1>1, <1>2, <1>4, <1>5, <1>6 DEF SumKept, inputs

\* ProceedToNextRound keeps inputs, failures and tables in step.
LEMMA SumProceed ==
  BooksKept /\ BooksKept' /\ SumKept /\ ProceedToNextRound => SumKept'
<1> SUFFICES ASSUME BooksKept, BooksKept', SumKept, ProceedToNextRound PROVE SumKept'
  OBVIOUS
<1> USE DEF ProceedTo, EnterRound, inputs, tables, counts
<1>1. CASE ProceedFromR0
  <2>1. /\ state = "R0_ADVERTISE_KEYS" /\ state' = "R1_SHARE_KEYS"
        /\ R0HandleAbortClient(Stragglers) /\ UNCHANGED inputs
    BY <1>1, SMTT(60) DEF ProceedFromR0
  <2>2. /\ \A c \in Clients : status'[c] \in Sent <=> status[c] \in Sent
        /\ abortedRound2' = With(FailedInR2)'
    BY <2>1, AbortKeepsInputs, StragglersAborting, SMTT(60) DEF HandleAbortClient
  <2> QED
    BY <2>1, <2>2 DEF SumKept
<1>2. CASE ProceedFromR1
  <2>1. /\ state = "R1_SHARE_KEYS" /\ state' = "R2_MASKED_INPUT_COLLECTION"
        /\ SetStatus(Stragglers, "DEAD_AFTER_ADVERTISE_KEYS_RECEIVED")
        /\ UNCHANGED <<inputs, abortedRound2>>
    BY <1>2 DEF ProceedFromR1
  <2>2. /\ \A c \in Clients : status'[c] \in Sent <=> status[c] \in Sent
        /\ With(FailedInR2)' = With(FailedInR2)
    BY <2>1 DEF BooksKept, StatusFits, SetStatus, Sent, FailedInR2, With
  <2> QED
    BY <2>1, <2>2 DEF SumKept
<1>3. CASE ProceedFromR2
  BY <1>3, SumProceedFromR2, SMTT(60)
<1>4. CASE ProceedFromR3
  <2>1. /\ state = "R3_UNMASKING" /\ state' = "PRNG_RUNNING"
        /\ R3HandleAbortClient(Stragglers, "EARLY_SUCCESS") /\ UNCHANGED <<inputs, tables>>
    BY <1>4, SMTT(60) DEF ProceedFromR3
  <2>2. /\ \A c \in Clients : status'[c] \in Sent <=> status[c] \in Sent
        /\ abortedRound2' = With(FailedInR2)'
        /\ failedBefore' = failedBefore
        /\ With(NotFailed)' = With(NotFailed)
        /\ abortedRound2' = abortedRound2
    BY <2>1, AbortKeepsInputs, StragglersAborting, SMTT(60) DEF HandleAbortClient
  <2> QED
    BY <2>1, <2>2 DEF SumKept
<1>5. CASE ProceedFromPrng
  BY <1>5, SMTT(60) DEF ProceedFromPrng, SumKept, With
<1>6. CASE ProceedToAbort
  BY <1>6, SMTT(60) DEF ProceedToAbort, SumKept, With
<1> QED
  BY <1>1, <1>2, <1>3, <1>4, <1>5, <1>6, SMTT(60) DEF ProceedToNextRound

\* What the server does without a message keeps inputs, failures and tables in step.
LEMMA SumServerStep == BooksKept /\ BooksKept' /\ SumKept /\ ServerStep => SumKept'
<1> SUFFICES ASSUME BooksKept, BooksKept', SumKept, ServerStep PROVE SumKept'
  OBVIOUS
<1>1. CASE ProceedToNextRound
  BY <1>1, SumProceed, SMTT(60)
<1>2. CASE PrngRunnerFinished \/ Result
  BY <1>2, SumUntouched, SMTT(60) DEF PrngRunnerFinished, Result, round, counts
<1>3. CASE AccumulateInputs
  BY <1>3, SMTT(60) DEF AccumulateInputs, SumKept, With, round, counts, tables
<1>4. CASE Abort
  BY <1>4, SMTT(60) DEF Abort, EnterRound, SumKept, With, counts
<1>5. CASE \E c \in Clients, notify \in BOOLEAN : ServerAbortClient(c, notify)
  BY <1>5, SumAbortClient DEF ServerAbortClient
<1> QED
  BY <1>1, <1>2, <1>3, <1>4, <1>5, SMTT(60) DEF ServerStep

\* The messages that any client may send hold an input if they should.
LEMMA MasksAreThere ==
  ASSUME NEW c \in Clients, NEW m \in ClientMessage(c), m.type = "masked_input_response"
  PROVE  m.masks # None
<1>1. m.masks = {<<1, {c}>>}
  BY SMTT(60) DEF ClientMessage
<1>2. {<<1, {c}>>} \in SUBSET ({1, -1} \X {{c, d} : d \in Clients})
  BY SMTT(60)
<1> QED
  BY <1>1, <1>2, NoneAssumption, ZenonT(60)

\* SumKept is inductive relative to BooksKept.
LEMMA SumNext == BooksKept /\ BooksKept' /\ SumKept /\ [Next]_vars => SumKept'
<1> SUFFICES ASSUME BooksKept, BooksKept', SumKept, [Next]_vars PROVE SumKept'
  OBVIOUS
<1>1. CASE ServerStep
  BY <1>1, SumServerStep
<1>2. CASE \E c \in Clients : \E m \in ClientMessage(c) : ReceiveMessage(c, m)
  BY <1>2, SumReceive, MasksAreThere
<1>3. CASE UNCHANGED vars
  BY <1>3, SumUntouched DEF vars, serverVars, round, counts
<1> QED
  BY <1>1, <1>2, <1>3 DEF Next

\* The inputs, the failures and the tables of shares stay in step in every
\* reachable state.
THEOREM SumAlwaysKept == Spec => [](BooksKept /\ SumKept)
<1>1. Init => BooksKept /\ SumKept
  BY InitKeeps, SumInit
<1>2. BooksKept /\ SumKept /\ [Next]_vars => (BooksKept /\ SumKept)'
  BY NextKeeps, SumNext
<1> QED
  BY <1>1, <1>2, PTL DEF Spec

\* What SumKept says of the inputs is what NumberOfIncludedInputs reports.
LEMMA KeptInputsIncluded ==
  ASSUME BooksKept, SumKept
  PROVE  InputsIncluded
<1> SUFFICES ASSUME BooksKept, SumKept,
                    state \in {"R3_UNMASKING", "PRNG_RUNNING", "COMPLETED"}
             PROVE  LET S == {c \in Clients : maskedInput[c] # None} \ pendingInputs
                    IN /\ S = With(ClientStatus \ DeadBefore)
                       /\ Cardinality(S) = NumberOfIncludedInputs
                       /\ NumberOfIncludedInputs >= MinimumClients
  BY DEF InputsIncluded
<1> DEFINE S == {c \in Clients : maskedInput[c] # None} \ pendingInputs
<1>1. S = {c \in Clients : status[c] \in Sent}
  BY DEF SumKept
<1>2. \A c \in Clients : status[c] \in Sent <=> status[c] \in ClientStatus \ DeadBefore
  BY DEF BooksKept, TypeOK, StatusFits, Sent, ClientStatus, Dead, DeadBefore
<1>3. S = With(ClientStatus \ DeadBefore)
  BY <1>1, <1>2, SMTT(60) DEF With
<1>4. Cardinality(With(ClientStatus)) = Cardinality(With(DeadBefore))
                                        + Cardinality(With(ClientStatus \ DeadBefore))
  <2>1. ClientStatus = DeadBefore \cup (ClientStatus \ DeadBefore)
    BY DEF ClientStatus, Dead
  <2>2. DeadBefore \cap (ClientStatus \ DeadBefore) = {}
    OBVIOUS
  <2> QED
    BY <2>1, <2>2, HavingUnion, ClientsFinite, WithIsHaving, SMTT(60)
<1>5. With(ClientStatus) = Clients
  BY DEF BooksKept, TypeOK, With
<1>6. Cardinality(With(DeadBefore)) = failedBefore
  BY DEF BooksKept, FailuresCounted
<1>7. Cardinality(With(ClientStatus \ DeadBefore)) = Graph.nodes - failedBefore
  <2>1. failedBefore \in Nat /\ Cardinality(With(ClientStatus \ DeadBefore)) \in Nat
    BY WithIsHaving, SMTT(60) DEF BooksKept, TypeOK
  <2> QED
    BY <1>4, <1>5, <1>6, <2>1, ClientsFinite, SMTT(60)
<1>8. NumberOfIncludedInputs = Graph.nodes - failedBefore
  BY DEF NumberOfIncludedInputs
<1>9. Graph.nodes - failedBefore >= MinimumClients
  BY DEF SumKept
<1> QED
  BY <1>3, <1>7, <1>8, <1>9, SMTT(60)

\* From round 3 on the sum holds exactly the inputs that NumberOfIncludedInputs
\* counts, all of them accumulated, and at least the minimum.
THEOREM InputsAlwaysIncluded == Spec => []InputsIncluded
<1>1. BooksKept /\ SumKept => InputsIncluded
  BY KeptInputsIncluded
<1> QED
  BY <1>1, SumAlwaysKept, PTL

\* The tables have the rows that InitializePrng looks up.
THEOREM TablesAlwaysCoverKeys == Spec => []TablesCoverKeys
<1>1. BooksKept /\ SumKept => TablesCoverKeys
  BY DEF SumKept, TablesCoverKeys, NotFailed, FailedInR2
<1> QED
  BY <1>1, SumAlwaysKept, PTL

\* Once it is committed the number of included inputs changes only by an abort.
THEOREM IncludedAlwaysFixed == Spec => IncludedFixed
<1>1. BooksKept /\ [Next]_vars =>
        [IsNumberOfIncludedInputsCommitted =>
           NumberOfIncludedInputs' = NumberOfIncludedInputs \/ state' = "ABORTED"]_vars
  <2> SUFFICES ASSUME BooksKept, Next, IsNumberOfIncludedInputsCommitted,
                      state' # "ABORTED"
               PROVE  NumberOfIncludedInputs' = NumberOfIncludedInputs
    OBVIOUS
  <2>1. state \in {"R3_UNMASKING", "PRNG_RUNNING", "COMPLETED", "ABORTED"}
    BY DEF IsNumberOfIncludedInputsCommitted
  <2> USE DEF round, counts, EnterRound, ProceedTo, NumberOfIncludedInputs
  <2>2. ASSUME NEW c \in Clients, NEW reason, NEW notify, AbortClient(c, reason, notify)
        PROVE  NumberOfIncludedInputs' = NumberOfIncludedInputs
    BY <2>1, <2>2 DEF AbortClient, HandleAbortClient, R3HandleAbortClient,
                      PrngHandleAbortClient, vars, serverVars
  <2>3. CASE ProceedToNextRound
    BY <2>1, <2>3, ZenonT(60)
    DEF ProceedToNextRound, ProceedFromR0, ProceedFromR1, ProceedFromR2, ProceedFromR3,
        ProceedFromPrng, ProceedToAbort, R3HandleAbortClient
  <2>4. CASE PrngRunnerFinished \/ AccumulateInputs \/ Abort \/ Result
    BY <2>1, <2>4, ZenonT(60) DEF PrngRunnerFinished, AccumulateInputs, Abort, Result
  <2>5. CASE \E c \in Clients, notify \in BOOLEAN : ServerAbortClient(c, notify)
    BY <2>2, <2>5 DEF ServerAbortClient
  <2>6. CASE \E c \in Clients : \E m \in ClientMessage(c) : ReceiveMessage(c, m)
    <3> PICK c \in Clients : \E m \in ClientMessage(c) : ReceiveMessage(c, m)
      BY <2>6
    <3> PICK m \in ClientMessage(c) : ReceiveMessage(c, m)
      OBVIOUS
    <3>1. CASE ReceiveAbort(c, m) \/ RejectMessage(c, m)
      BY <2>2, <3>1, ZenonT(60) DEF ReceiveAbort, RejectMessage
    <3>2. CASE Accept(c, m)
      BY <2>1, <3>2 DEF Accept
    <3> QED
      BY <3>1, <3>2 DEF ReceiveMessage, AcceptAdvertiseKeys, AcceptShareKeysResponse,
                        AcceptMaskedInput, AcceptUnmaskingResponse
  <2> QED
    BY <2>3, <2>4, <2>5, <2>6 DEF Next, ServerStep
<1> QED
  BY <1>1, BooksAlwaysKept, PTL DEF Spec, IncludedFixed
=============================================================================
