------------------------ MODULE SecAggSessionInvariant ------------------------
(* What the server and the clients of a SecAgg session know of each other, for   *)
(* every graph: the inductive invariant behind SumUnmasked and CompletedIncluded. *)
(* Here are the graph's arithmetic, the invariant, and the steps of the clients;  *)
(* SecAggSessionProofs has the steps of the server and the theorems.              *)

EXTENDS SecAggSession, SecAggServerProofs, SequenceTheorems

-----------------------------------------------------------------------------
(* The graph. *)

\* GetNeighborIndex in terms of places on a ring of n nodes.
RingIndex(p, q, h, n) ==
  LET dist == Least(Abs(p - q), n - Abs(p - q)) IN
  IF dist > h THEN -1
  ELSE IF (p - dist + n) % n = q THEN h - dist ELSE h + dist

\* The index as one case per direction around the ring.
LEMMA RingIndexCases ==
  ASSUME NEW n \in Nat \ {0}, NEW h \in Nat, 2 * h + 1 <= n,
         NEW p \in 0..n-1, NEW q \in 0..n-1
  PROVE  RingIndex(p, q, h, n) =
           IF p - q \in 0..h THEN h - (p - q)
           ELSE IF q - p \in 0..h THEN h + (q - p)
           ELSE IF n - (q - p) \in 0..h THEN h - (n - (q - p))
           ELSE IF n - (p - q) \in 0..h THEN h + (n - (p - q))
           ELSE -1
<1> DEFINE dist == Least(Abs(p - q), n - Abs(p - q))
           m == (p - dist + n) % n
<1>1. dist \in Int
  BY DEF Least, Abs
<1>2. dist \in 0..n-1
  BY DEF Least, Abs
<1>3. m = IF p >= dist THEN p - dist ELSE p - dist + n
  <2> HIDE DEF dist
  <2>1. CASE p >= dist
    <3>1. p - dist + n \in Int /\ n <= p - dist + n /\ p - dist + n < 2 * n
      BY <1>2, <2>1
    <3>2. m = p - dist + n - n
      BY <1>2, <3>1
    <3> QED
      BY <1>2, <2>1, <3>2
  <2>2. CASE ~(p >= dist)
    <3>1. p - dist + n \in Int /\ 0 <= p - dist + n /\ p - dist + n < n
      BY <1>2, <2>2
    <3>2. m = p - dist + n
      BY <1>2, <3>1
    <3> QED
      BY <1>2, <2>2, <3>2
  <2> QED
    BY <2>1, <2>2
<1>4. RingIndex(p, q, h, n) = IF dist > h THEN -1
        ELSE IF m = q THEN h - dist ELSE h + dist
  BY DEF RingIndex
<1> HIDE DEF m
<1> QED
  BY <1>2, <1>3, <1>4 DEF Least, Abs

\* The index of the i-th neighbor is i.
LEMMA RingIndexOfNeighbor ==
  ASSUME NEW n \in Nat \ {0}, NEW h \in Nat, 2 * h + 1 <= n,
         NEW p \in 0..n-1, NEW i \in 0..2*h
  PROVE  /\ (p - h + i + n) % n \in 0..n-1
         /\ RingIndex(p, (p - h + i + n) % n, h, n) = i
<1> DEFINE q == (p - h + i + n) % n
           a == p - h + i + n
<1>1. a \in Int /\ 0 <= a /\ a < 3 * n
  OBVIOUS
<1>2. q = IF a < n THEN a ELSE IF a < 2 * n THEN a - n ELSE a - 2 * n
  <2> HIDE DEF a
  <2>1. a % n = IF a < n THEN a ELSE IF a < 2 * n THEN a - n ELSE a - 2 * n
    BY <1>1
  <2> QED
    BY <2>1 DEF a
<1> HIDE DEF q
<1>3. q \in 0..n-1
  BY <1>2
<1>4. RingIndex(p, q, h, n) = i
  BY <1>2, <1>3, RingIndexCases
<1> QED
  BY <1>3, <1>4 DEF q

\* The neighbor at an index that exists is the node the index belongs to.
LEMMA RingNeighborAtIndex ==
  ASSUME NEW n \in Nat \ {0}, NEW h \in Nat, 2 * h + 1 <= n,
         NEW p \in 0..n-1, NEW q \in 0..n-1, RingIndex(p, q, h, n) >= 0
  PROVE  /\ RingIndex(p, q, h, n) \in 0..2*h
         /\ (p - h + RingIndex(p, q, h, n) + n) % n = q
<1> DEFINE i == RingIndex(p, q, h, n)
           a == p - h + i + n
<1>0. i = IF p - q \in 0..h THEN h - (p - q)
           ELSE IF q - p \in 0..h THEN h + (q - p)
           ELSE IF n - (q - p) \in 0..h THEN h - (n - (q - p))
           ELSE IF n - (p - q) \in 0..h THEN h + (n - (p - q))
           ELSE -1
  BY RingIndexCases
<1>00. i >= 0
  OBVIOUS
<1> HIDE DEF i
<1>1. i \in 0..2*h /\ (a = q \/ a = q + n \/ a = q + 2 * n)
  BY <1>0, <1>00
<1>2. a \in Int /\ q \in Int /\ 0 <= q /\ q < n
  BY <1>1
<1>3. a % n = q
  <2> HIDE DEF a
  <2> QED BY <1>1, <1>2
<1> QED
  BY <1>1, <1>3 DEF i

\* The two ends of an edge are at opposite distances around the ring.
LEMMA RingIndexSymmetric ==
  ASSUME NEW n \in Nat \ {0}, NEW h \in Nat, 2 * h + 1 <= n,
         NEW p \in 0..n-1, NEW q \in 0..n-1
  PROVE  /\ RingIndex(p, q, h, n) >= 0 <=> RingIndex(q, p, h, n) >= 0
         /\ RingIndex(p, q, h, n) >= 0 =>
              RingIndex(p, q, h, n) + RingIndex(q, p, h, n) = 2 * h
         /\ RingIndex(p, q, h, n) = h <=> p = q
BY RingIndexCases

\* A node has one place on the ring, and a place one node.
LEMMA PlaceFacts ==
  ASSUME NEW g, IsGraph(g), g.kind = "harary"
  PROVE  /\ \A x \in Nodes(g) : Place(g, x) \in Nodes(g) /\ g.permutation[Place(g, x)] = x
         /\ \A i \in Nodes(g) : g.permutation[i] \in Nodes(g) /\ Place(g, g.permutation[i]) = i
<1>1. IsPermutation(g.permutation, g.nodes)
  BY DEF IsGraph
<1>2. ASSUME NEW x \in Nodes(g)
      PROVE  Place(g, x) \in Nodes(g) /\ g.permutation[Place(g, x)] = x
  <2>1. \E i \in Nodes(g) : g.permutation[i] = x
    BY <1>1 DEF IsPermutation, Nodes
  <2> QED
    BY <2>1 DEF Place
<1>3. ASSUME NEW i \in Nodes(g)
      PROVE  g.permutation[i] \in Nodes(g) /\ Place(g, g.permutation[i]) = i
  <2>1. g.permutation[i] \in Nodes(g)
    BY <1>1, ZenonT(60) DEF IsPermutation, Nodes
  <2>2. /\ Place(g, g.permutation[i]) \in Nodes(g)
        /\ g.permutation[Place(g, g.permutation[i])] = g.permutation[i]
    BY <1>2, <2>1
  <2> QED
    BY <1>1, <2>1, <2>2, ZenonT(60) DEF IsPermutation, Nodes
<1> QED
  BY <1>2, <1>3

\* GetNeighbor and GetNeighborIndex of a Harary graph, on places.
LEMMA HararyFacts ==
  ASSUME NEW g, IsGraph(g), g.kind = "harary"
  PROVE  LET h == g.degree \div 2 IN
         /\ g.nodes \in Nat \ {0} /\ h \in Nat /\ g.degree = 2 * h + 1 /\ 2 * h + 1 <= g.nodes
         /\ \A x, y \in Nodes(g) :
              GetNeighborIndex(g, x, y) = RingIndex(Place(g, x), Place(g, y), h, g.nodes)
         /\ \A x \in Nodes(g), i \in NeighborIndices(g) :
              GetNeighbor(g, x, i) = g.permutation[(Place(g, x) - h + i + g.nodes) % g.nodes]
<1>1. /\ g.nodes \in Nat \ {0} /\ g.degree \in Nat /\ g.degree <= g.nodes
      /\ g.degree % 2 = 1
  BY DEF IsGraph
<1>2. /\ g.degree \div 2 \in Nat /\ g.degree = 2 * (g.degree \div 2) + 1
      /\ 2 * (g.degree \div 2) + 1 <= g.nodes
  BY <1>1
<1>3. \A x, y \in Nodes(g) :
        GetNeighborIndex(g, x, y)
          = RingIndex(Place(g, x), Place(g, y), g.degree \div 2, g.nodes)
  BY DEF GetNeighborIndex, RingIndex, RingDistance
<1>4. \A x \in Nodes(g), i \in NeighborIndices(g) :
        GetNeighbor(g, x, i)
          = g.permutation[(Place(g, x) - g.degree \div 2 + i + g.nodes) % g.nodes]
  BY DEF GetNeighbor
<1> QED
  BY <1>1, <1>2, <1>3, <1>4

\* The neighbor at an index, and the index of a neighbor, undo each other.
LEMMA EdgeFacts ==
  ASSUME NEW g, IsGraph(g), NEW x \in Nodes(g)
  PROVE  /\ \A i \in NeighborIndices(g) :
              /\ GetNeighbor(g, x, i) \in Nodes(g)
              /\ GetNeighborIndex(g, x, GetNeighbor(g, x, i)) = i
              /\ AreNeighbors(g, x, GetNeighbor(g, x, i))
         /\ \A y \in Nodes(g) : AreNeighbors(g, x, y) =>
              /\ GetNeighborIndex(g, x, y) \in NeighborIndices(g)
              /\ GetNeighbor(g, x, GetNeighborIndex(g, x, y)) = y
<1>1. CASE g.kind = "complete"
  BY <1>1 DEF IsGraph, Nodes, NeighborIndices, GetNeighbor, GetNeighborIndex, AreNeighbors
<1>2. CASE g.kind = "harary"
  <2> DEFINE h == g.degree \div 2
             n == g.nodes
             p == Place(g, x)
  <2>1. n \in Nat \ {0} /\ h \in Nat /\ g.degree = 2 * h + 1 /\ 2 * h + 1 <= n
    BY <1>2, HararyFacts
  <2>2. p \in 0..n-1
    BY <1>2, PlaceFacts DEF Nodes
  <2>3. NeighborIndices(g) = 0..2*h
    BY <2>1 DEF NeighborIndices
  <2>4. ASSUME NEW i \in NeighborIndices(g)
        PROVE  /\ GetNeighbor(g, x, i) \in Nodes(g)
               /\ GetNeighborIndex(g, x, GetNeighbor(g, x, i)) = i
               /\ AreNeighbors(g, x, GetNeighbor(g, x, i))
    <3> DEFINE q == (p - h + i + n) % n
    <3>1. q \in 0..n-1 /\ RingIndex(p, q, h, n) = i
      <4>1. i \in 0..2*h
        BY <2>3
      <4> HIDE DEF h, n, p
      <4> QED
        BY <2>1, <2>2, <4>1, RingIndexOfNeighbor
    <3>2. GetNeighbor(g, x, i) = g.permutation[q]
      BY <1>2, HararyFacts
    <3>3. GetNeighbor(g, x, i) \in Nodes(g) /\ Place(g, GetNeighbor(g, x, i)) = q
      <4> HIDE DEF q
      <4> QED
        BY <1>2, <3>1, <3>2, PlaceFacts DEF Nodes
    <3>4. GetNeighborIndex(g, x, GetNeighbor(g, x, i)) = i
      BY <1>2, <3>1, <3>3, HararyFacts
    <3>5. i >= 0
      BY <2>1, <2>3
    <3> QED
      BY <3>3, <3>4, <3>5 DEF AreNeighbors
  <2>5. ASSUME NEW y \in Nodes(g), AreNeighbors(g, x, y)
        PROVE  /\ GetNeighborIndex(g, x, y) \in NeighborIndices(g)
               /\ GetNeighbor(g, x, GetNeighborIndex(g, x, y)) = y
    <3> DEFINE q == Place(g, y)
               i == GetNeighborIndex(g, x, y)
    <3>1. q \in 0..n-1 /\ g.permutation[q] = y
      BY <1>2, PlaceFacts DEF Nodes
    <3>2. i = RingIndex(p, q, h, n) /\ i >= 0
      BY <1>2, <2>5, HararyFacts DEF AreNeighbors
    <3>3. i \in 0..2*h /\ (p - h + i + n) % n = q
      <4> HIDE DEF h, n, p, q, i
      <4> QED
        BY <2>1, <2>2, <3>1, <3>2, RingNeighborAtIndex, ZenonT(60)
    <3>4. GetNeighbor(g, x, i) = g.permutation[(p - h + i + n) % n]
      BY <1>2, <2>3, <3>3, HararyFacts
    <3> QED
      BY <2>3, <3>1, <3>3, <3>4
  <2> QED
    BY <2>4, <2>5
<1> QED
  BY <1>1, <1>2 DEF IsGraph

\* Both ends of an edge know of it, every client is its own neighbor, and an edge
\* that is outgoing at one end is incoming at the other.
LEMMA EdgeDirections ==
  ASSUME NEW g, IsGraph(g), NEW x \in Nodes(g), NEW y \in Nodes(g)
  PROVE  /\ AreNeighbors(g, x, y) <=> AreNeighbors(g, y, x)
         /\ AreNeighbors(g, x, x)
         /\ AreNeighbors(g, x, y) =>
              (IsOutgoingNeighbor(g, x, y)
                 <=> ~(GetNeighborIndex(g, x, y) < GetNeighborIndex(g, x, x)))
         /\ AreNeighbors(g, x, y) /\ x # y =>
              (GetNeighborIndex(g, x, y) < GetNeighborIndex(g, x, x)
                 <=> ~(GetNeighborIndex(g, y, x) < GetNeighborIndex(g, y, y)))
<1>1. CASE g.kind = "complete"
  BY <1>1 DEF IsGraph, Nodes, GetNeighborIndex, AreNeighbors, IsOutgoingNeighbor
<1>2. CASE g.kind = "harary"
  <2> DEFINE h == g.degree \div 2
             n == g.nodes
             p == Place(g, x)
             q == Place(g, y)
  <2>1. n \in Nat \ {0} /\ h \in Nat /\ 2 * h + 1 <= n
    BY <1>2, HararyFacts
  <2>2. p \in 0..n-1 /\ q \in 0..n-1 /\ (p = q => x = y)
    BY <1>2, PlaceFacts DEF Nodes
  <2>3. /\ GetNeighborIndex(g, x, y) = RingIndex(p, q, h, n)
        /\ GetNeighborIndex(g, y, x) = RingIndex(q, p, h, n)
        /\ GetNeighborIndex(g, x, x) = RingIndex(p, p, h, n)
        /\ GetNeighborIndex(g, y, y) = RingIndex(q, q, h, n)
    BY <1>2, HararyFacts
  <2>4. /\ RingIndex(p, p, h, n) = h /\ RingIndex(q, q, h, n) = h
        /\ RingIndex(p, q, h, n) >= 0 <=> RingIndex(q, p, h, n) >= 0
        /\ RingIndex(p, q, h, n) >= 0 =>
             RingIndex(p, q, h, n) + RingIndex(q, p, h, n) = 2 * h
        /\ RingIndex(p, q, h, n) = h <=> p = q
    <3> HIDE DEF h, n, p, q
    <3> QED
      BY <2>1, <2>2, RingIndexSymmetric
  <2>5. RingIndex(p, q, h, n) \in Int /\ RingIndex(q, p, h, n) \in Int
    <3> HIDE DEF h, n, p, q
    <3> QED
      BY <2>1, <2>2, RingIndexCases
  <2>6. /\ AreNeighbors(g, x, y) <=> RingIndex(p, q, h, n) >= 0
        /\ AreNeighbors(g, y, x) <=> RingIndex(q, p, h, n) >= 0
        /\ AreNeighbors(g, x, x) <=> RingIndex(p, p, h, n) >= 0
        /\ IsOutgoingNeighbor(g, x, y) <=> RingIndex(p, q, h, n) >= h
    BY <1>2, <2>3 DEF AreNeighbors, IsOutgoingNeighbor
  <2> DEFINE i == RingIndex(p, q, h, n)
             j == RingIndex(q, p, h, n)
  <2>7. /\ i \in Int /\ j \in Int /\ h \in Nat
        /\ i >= 0 <=> j >= 0
        /\ i >= 0 => i + j = 2 * h
        /\ x # y => i # h
    BY <2>1, <2>2, <2>4, <2>5
  <2>8. i >= 0 /\ x # y => (i < h <=> ~(j < h))
    <3> HIDE DEF i, j, h
    <3> QED
      BY <2>7
  <2>9. i >= h <=> ~(i < h)
    <3> HIDE DEF i, h
    <3> QED
      BY <2>7
  <2>10. h >= 0
    BY <2>1
  <2> HIDE DEF h, n, p, q
  <2> QED
    BY <2>3, <2>4, <2>6, <2>8, <2>9, <2>10
<1> QED
  BY <1>1, <1>2 DEF IsGraph

\* The indices by which messages name clients, and the signs of their masks, agree at
\* the two ends of every edge of every graph: SecretSharingCompleteGraph and
\* SecretSharingHararyGraph of any size and degree, however the nodes are shuffled.
THEOREM EdgesAlwaysAgree == \A g : IsGraph(g) => EdgesAgree(g)
<1> SUFFICES ASSUME NEW g, IsGraph(g) PROVE EdgesAgree(g)
  OBVIOUS
<1>1. IndexInvertsNeighbor(g)
  <2> SUFFICES ASSUME NEW x \in Nodes(g), NEW y \in Nodes(g)
               PROVE  /\ \A k \in NeighborIndices(g) : GetNeighborIndex(g, x, GetNeighbor(g, x, k)) = k
                      /\ AreNeighbors(g, x, y) <=> \E k \in NeighborIndices(g) : GetNeighbor(g, x, k) = y
    BY ZenonT(60) DEF IndexInvertsNeighbor
  <2> QED
    BY EdgeFacts, SMTT(60)
<1>2. ASSUME NEW x \in Nodes(g), NEW y \in Nodes(g)
      PROVE  AreNeighbors(g, x, y) <=> AreNeighbors(g, y, x)
  BY EdgeDirections
<1>3. ASSUME NEW x \in Nodes(g), NEW y \in Nodes(g), x # y, AreNeighbors(g, x, y)
      PROVE  /\ IsOutgoingNeighbor(g, x, y)
                  <=> GetNeighborIndex(g, x, y) > GetNeighborIndex(g, x, x)
             /\ (GetNeighborIndex(g, x, y) > GetNeighborIndex(g, x, x))
                  # (GetNeighborIndex(g, y, x) > GetNeighborIndex(g, y, y))
  <2>1. /\ AreNeighbors(g, y, x) /\ AreNeighbors(g, x, x) /\ AreNeighbors(g, y, y)
        /\ IsOutgoingNeighbor(g, x, y) <=> ~(GetNeighborIndex(g, x, y) < GetNeighborIndex(g, x, x))
        /\ GetNeighborIndex(g, x, y) < GetNeighborIndex(g, x, x)
             <=> ~(GetNeighborIndex(g, y, x) < GetNeighborIndex(g, y, y))
    BY <1>3, EdgeDirections
  <2>2. /\ GetNeighborIndex(g, x, y) \in Int /\ GetNeighborIndex(g, x, x) \in Int
        /\ GetNeighborIndex(g, y, x) \in Int /\ GetNeighborIndex(g, y, y) \in Int
        /\ GetNeighborIndex(g, x, y) # GetNeighborIndex(g, x, x)
        /\ GetNeighborIndex(g, y, x) # GetNeighborIndex(g, y, y)
    <3>1. NeighborIndices(g) \subseteq Int
      BY DEF NeighborIndices
    <3> QED
      BY <1>3, <2>1, <3>1, EdgeFacts
  <2> QED
    BY <2>1, <2>2
<1> QED
  BY <1>1, <1>2, <1>3, ZenonT(60) DEF EdgesAgree

-----------------------------------------------------------------------------
(* The invariant. *)

\* The clients that got past round 1: the shares of their keys were forwarded.
\* From round 2 on the set does not change.
PastRound1 == state \notin {"R0_ADVERTISE_KEYS", "R1_SHARE_KEYS"}
Forwarded == {c \in Clients : MaskType(status[c]) # "none"}

\* The share that the k-th neighbor of c made for c, sealed and open.
SealedShare(c, k) == [of |-> Neighbor(c, k), to |-> c, at |-> IndexOf(Neighbor(c, k), c)]
OpenShare(c, k) == [of |-> Neighbor(c, k), at |-> IndexOf(Neighbor(c, k), c)]

OpenShares(c) ==
  {f \in [Indices -> {None} \cup [of : Clients, at : Indices]] :
     \A k \in Indices : f[k] \in {None, OpenShare(c, k)}}

\* The share that c makes for its k-th neighbor.
MadeShare(c, k) == [of |-> c, to |-> Neighbor(c, k), at |-> k]
MadeShares(c) ==
  {f \in [Indices -> {None} \cup [of : Clients, to : Clients, at : Indices]] :
     \A k \in Indices : f[k] \in {None, MadeShare(c, k)}}

\* The shares that the server forwards to c: those of its neighbors that got past
\* round 1.
ForwardedShares(c) ==
  {f \in [Indices -> {None} \cup [of : Clients, to : Clients, at : Indices]] :
     /\ PastRound1 /\ c \in Forwarded
     /\ \A k \in Indices : /\ f[k] \in {None, SealedShare(c, k)}
                           /\ f[k] # None <=> Neighbor(c, k) \in Forwarded \ {c}}

Own(c) == IndexOf(c, c)

\* The masks that c puts on its input.
MaskOf(c, k) == <<IF k < Own(c) THEN 1 ELSE -1, {c, Neighbor(c, k)}>>
MasksOf(c) ==
  {<<1, {c}>>} \cup {MaskOf(c, k) : k \in {j \in Indices \ {Own(c)} : Neighbor(c, j) \in Forwarded}}

\* ... once it knows who got past round 1.
InputMasks(c) == {masks \in {MasksOf(c)} : PastRound1 /\ c \in Forwarded}

KnownKeys(c) ==
  {f \in [Indices -> Clients \cup {None}] : \A k \in Indices : f[k] \in {None, Neighbor(c, k)}}

\* The messages that can be on their way to a client and to the server.
FromServer(c) ==
  [type : {"abort"}, earlySuccess : {e \in BOOLEAN : e => maskedInput[c] # None}]
  \cup [type : {"share_keys_request"}, keys : KnownKeys(c)]
  \cup [type : {"masked_input_request"}, shares : ForwardedShares(c)]
  \cup [type : {"unmasking_request"}, dead : {d \in SUBSET Int : maskedInput[c] # None}]

FromClient(c) ==
  [type : {"abort"}]
  \cup [type : {"advertise_keys"}, wellFormed : {TRUE}]
  \cup [type : {"share_keys_response"}, shares : MadeShares(c)]
  \cup [type : {"masked_input_response"}, wellFormed : {TRUE},
        masks : InputMasks(c)]
  \cup [type : {"unmasking_response"}, kinds : [Indices -> {"none", "noise", "prf"}],
        shares : OpenShares(c)]

MessagesRight ==
  /\ toClient = [c \in Clients |-> toClient[c]]
  /\ toServer = [c \in Clients |-> toServer[c]]
  /\ \A c \in Clients : toClient[c] \in Seq(FromServer(c)) /\ toServer[c] \in Seq(FromClient(c))

ClientRecord(c) ==
  [state : C!Terminal \cup {"R0_ADVERTISE_KEYS", "R1_SHARE_KEYS", "R2_MASKED_INPUT",
                            "R2_WAITING_FOR_INPUT", "R3_UNMASKING"},
   hasInput : BOOLEAN,
   own : {None, Own(c)},
   keys : {<< >>} \cup KnownKeys(c),
   others : {<< >>} \cup [Indices -> {"kAlive", "kDeadAtRound1", "kDeadAtRound2"}],
   shares : {<< >>} \cup OpenShares(c),
   reason : {None, "malformed", "requested", "too few", "server"}]

\* What a client knows once it has met its neighbors, and once it has their shares.
HasMet(c, r) ==
  /\ r.own = Own(c)
  /\ r.keys \in KnownKeys(c)
  /\ r.others \in [Indices -> {"kAlive", "kDeadAtRound1", "kDeadAtRound2"}]
  /\ \A k \in Indices : r.others[k] = "kAlive" => r.keys[k] # None
  /\ r.others[Own(c)] = "kAlive"
HasShares(c, r) ==
  /\ r.shares \in OpenShares(c)
  /\ PastRound1 /\ c \in Forwarded
  /\ \A k \in Indices : r.others[k] = "kAlive" <=> Neighbor(c, k) \in Forwarded

ClientRight(c, r) ==
  /\ r \in ClientRecord(c)
  /\ r.state \in {"R2_MASKED_INPUT", "R2_WAITING_FOR_INPUT", "R3_UNMASKING"} => HasMet(c, r)
  /\ r.state \in {"R2_WAITING_FOR_INPUT", "R3_UNMASKING"} => HasShares(c, r)
  /\ r.state = "COMPLETED" => maskedInput[c] # None

ClientsRight ==
  /\ client = [c \in Clients |-> client[c]]
  /\ \A c \in Clients : ClientRight(c, client[c])

\* The shares on file in round 1.
SharesFiled ==
  /\ state = "R0_ADVERTISE_KEYS" => encryptedShares = [c \in Clients |-> NoShares]
  /\ state = "R1_SHARE_KEYS" =>
       /\ encryptedShares = [n \in Clients |-> [k \in Indices |-> encryptedShares[n][k]]]
       /\ \A n \in Clients, k \in Indices :
            /\ encryptedShares[n][k] \in {None, SealedShare(n, k)}
            /\ encryptedShares[n][k] # None <=>
                 /\ Neighbor(n, k) # n /\ status[n] # "DEAD_BEFORE_SENDING_ANYTHING"
                 /\ status[Neighbor(n, k)] = "SHARE_KEYS_RECEIVED"

InputsRight ==
  \A c \in Clients : maskedInput[c] # None => maskedInput[c] = MasksOf(c) /\ PastRound1

Holds(table) == \A n \in DOMAIN table, k \in Indices : table[n][k] \in {None, [of |-> n, at |-> k]}
TablesRight ==
  state \in {"R3_UNMASKING", "PRNG_RUNNING"} => Holds(pairwiseTable) /\ Holds(selfTable)

Summed == {c \in Clients : maskedInput[c] # None}
Lost == Forwarded \ Summed
KeysFound ==
  {<<-1, {c}>> : c \in Summed}
  \cup {<<IF IsOutgoingNeighbor(Graph, p[1], p[2]) THEN 1 ELSE -1, {p[1], p[2]}>> :
          p \in {q \in Summed \X Lost : AreNeighbors(Graph, q[1], q[2])}}
KeysRight == state = "PRNG_RUNNING" /\ completion = None => prngKeys = KeysFound

\* The result is what was in the sum when the rounds were over.
ResultRight ==
  result # None =>
    /\ state \notin Rounds /\ result.inputs = Summed
    /\ result.masks = {} /\ Cardinality(result.inputs) >= MinimumClients

ServerRight == SharesFiled /\ InputsRight /\ TablesRight /\ KeysRight /\ ResultRight

SessionInv == BooksKept /\ SumKept /\ MessagesRight /\ ClientsRight /\ ServerRight

-----------------------------------------------------------------------------
(* Indices and neighbors. *)

\* The indices of a client lead to its neighbors and back, and its own index to
\* itself.
LEMMA Edges ==
  /\ \A c \in Clients, k \in Indices :
       /\ Neighbor(c, k) \in Clients
       /\ IndexOf(c, Neighbor(c, k)) = k
       /\ IndexOf(Neighbor(c, k), c) \in Indices
       /\ Neighbor(Neighbor(c, k), IndexOf(Neighbor(c, k), c)) = c
  /\ \A c \in Clients : Own(c) \in Indices /\ Neighbor(c, Own(c)) = c
<1> USE GraphAssumption DEF Clients, Indices, Neighbor, IndexOf
<1>1. ASSUME NEW c \in Clients, NEW k \in Indices
      PROVE  /\ Neighbor(c, k) \in Clients
             /\ IndexOf(c, Neighbor(c, k)) = k
             /\ AreNeighbors(Graph, c, Neighbor(c, k))
  BY EdgeFacts
<1>2. ASSUME NEW c \in Clients, NEW d \in Clients, AreNeighbors(Graph, c, d)
      PROVE  IndexOf(c, d) \in Indices /\ Neighbor(c, IndexOf(c, d)) = d
  BY <1>2, EdgeFacts
<1>3. ASSUME NEW c \in Clients, NEW d \in Clients
      PROVE  /\ AreNeighbors(Graph, c, d) <=> AreNeighbors(Graph, d, c)
             /\ AreNeighbors(Graph, c, c)
  BY EdgeDirections
<1> USE ONLY DEF Own
<1> QED
  BY <1>1, <1>2, <1>3, ZenonT(60)

\* The share of c for its neighbor n is filed where n finds c.
LEMMA Filing ==
  ASSUME NEW c \in Clients, NEW n \in Clients, NEW k \in Indices
  PROVE  /\ (\E i \in Indices : Neighbor(c, i) = n /\ IndexOf(n, c) = k) <=> Neighbor(n, k) = c
         /\ Neighbor(n, k) = c => IndexOf(c, n) \in Indices /\ Neighbor(c, IndexOf(c, n)) = n
<1>1. ASSUME NEW i \in Indices, Neighbor(c, i) = n, IndexOf(n, c) = k PROVE Neighbor(n, k) = c
  BY <1>1, Edges
<1>2. ASSUME Neighbor(n, k) = c
      PROVE  /\ IndexOf(c, n) \in Indices /\ Neighbor(c, IndexOf(c, n)) = n
             /\ IndexOf(n, c) = k
  BY <1>2, Edges
<1> QED
  BY <1>1, <1>2

\* Sequences of messages.
LEMMA Queues ==
  ASSUME NEW S, NEW T, S \subseteq T, NEW q \in Seq(S)
  PROVE  /\ q \in Seq(T)
         /\ \A m \in T : Append(q, m) \in Seq(T)
         /\ q # << >> => Tail(q) \in Seq(T) /\ Head(q) \in S
<1>1. q \in Seq(T)
  OBVIOUS
<1>2. \A m \in T : Append(q, m) \in Seq(T)
  BY <1>1, AppendProperties
<1>3. q # << >> => Tail(q) \in Seq(T) /\ Head(q) \in S
  BY <1>1, HeadTailProperties, EmptySeq
<1> QED
  BY <1>1, <1>2, <1>3

-----------------------------------------------------------------------------
(* What the server knows of round 1 and of the inputs is never taken back. *)

Steady ==
  /\ PastRound1 => PastRound1' /\ Forwarded' = Forwarded
  /\ \A c \in Clients : maskedInput[c] # None => maskedInput'[c] # None

\* Aborting clients in a state past round 1 changes none of it.
LEMMA AbortSteady ==
  ASSUME BooksKept, NEW S, Aborting(S), NEW reason, HandleAbortClient(S, reason)
  PROVE  PastRound1 => Forwarded' = Forwarded
<1> SUFFICES ASSUME PastRound1 PROVE Forwarded' = Forwarded
  OBVIOUS
<1> USE DEF HandleAbortClient, SetStatus, keyData, counts, Dead, DeadBefore,
            Aborting, IsClientDead, Forwarded, MaskType, PastRound1
<1>1. StatusFits /\ status \in [Clients -> ClientStatus]
  BY DEF BooksKept, TypeOK
<1>2. CASE state = "R2_MASKED_INPUT_COLLECTION" /\ R2HandleAbortClient(S)
  BY <1>1, <1>2, SMTT(60) DEF R2HandleAbortClient, StatusFits
<1>3. CASE state = "R3_UNMASKING" /\ R3HandleAbortClient(S, reason)
  BY <1>1, <1>3, SMTT(60) DEF R3HandleAbortClient, StatusFits, ClientStatus
<1>4. CASE state = "PRNG_RUNNING" /\ PrngHandleAbortClient(S)
  BY <1>1, <1>4, SMTT(60) DEF PrngHandleAbortClient, StatusFits, ClientStatus
<1> QED
  BY <1>2, <1>3, <1>4

\* ... nor does AbortClient.
LEMMA AbortClientSteady ==
  ASSUME BooksKept, NEW c \in Clients, NEW reason, NEW notify, AbortClient(c, reason, notify)
  PROVE  Steady
<1>1. state' = state /\ maskedInput' = maskedInput
  BY SMTT(60) DEF AbortClient, vars, serverVars, round, inputs
<1>2. CASE IsClientDead(c)
  BY <1>1, <1>2, SMTT(60) DEF AbortClient, vars, serverVars, Steady, PastRound1, Forwarded
<1>3. CASE ~IsClientDead(c)
  <2>1. HandleAbortClient({c}, reason) /\ Aborting({c})
    BY <1>3, SMTT(60) DEF AbortClient, Aborting
  <2>2. PastRound1 => Forwarded' = Forwarded
    BY <2>1, AbortSteady, SMTT(60)
  <2> QED
    BY <1>1, <2>2, SMTT(60) DEF Steady, PastRound1
<1> QED
  BY <1>2, <1>3

\* ... nor does a message that is accepted.
LEMMA AcceptSteady ==
  ASSUME BooksKept, SumKept, NEW c \in Clients, NEW m, ReceiveMessage(c, m),
         m.type = "masked_input_response" => m.masks # None
  PROVE  Steady
<1>1. CASE ReceiveAbort(c, m)
  BY <1>1, AbortClientSteady, ZenonT(60) DEF ReceiveAbort
<1>2. CASE RejectMessage(c, m)
  BY <1>2, AbortClientSteady, ZenonT(60) DEF RejectMessage
<1>3. ASSUME Accept(c, m) PROVE state' = state /\ (PastRound1 => Forwarded' = Forwarded)
  <2>1. /\ state \in Rounds /\ state' = state
        /\ status[c] = Awaited[state]
        /\ status' = [status EXCEPT ![c] = Answered[state]]
    BY <1>3, SMTT(60) DEF Accept
  <2>2. status \in [Clients -> ClientStatus]
    BY DEF BooksKept, TypeOK
  <2> QED
    BY <2>1, <2>2, RoundStatuses, SMTT(60) DEF Forwarded, MaskType, PastRound1, Rounds
<1>4. CASE AcceptAdvertiseKeys(c, m) \/ AcceptShareKeysResponse(c, m) \/ AcceptUnmaskingResponse(c, m)
  <2>1. Accept(c, m) /\ maskedInput' = maskedInput
    BY <1>4, SMTT(60) DEF AcceptAdvertiseKeys, AcceptShareKeysResponse, AcceptUnmaskingResponse, inputs
  <2> QED
    BY <1>3, <2>1, SMTT(60) DEF Steady, PastRound1
<1>5. CASE AcceptMaskedInput(c, m)
  <2>1. /\ Accept(c, m) /\ maskedInput' = [maskedInput EXCEPT ![c] = m.masks]
        /\ m.type = "masked_input_response"
    BY <1>5, SMTT(60) DEF AcceptMaskedInput, Accept, Answer
  <2>2. \A d \in Clients : maskedInput[d] # None => maskedInput'[d] # None
    BY <2>1, SMTT(60) DEF SumKept
  <2> QED
    BY <1>3, <2>1, <2>2, SMTT(60) DEF Steady, PastRound1
<1> QED
  BY <1>1, <1>2, <1>4, <1>5 DEF ReceiveMessage

\* No step of the server takes back what it knows.
LEMMA ServerSteady ==
  ASSUME BooksKept, ServerStep
  PROVE  Steady
<1>1. CASE \E c \in Clients, notify \in BOOLEAN : ServerAbortClient(c, notify)
  BY <1>1, AbortClientSteady, ZenonT(60) DEF ServerAbortClient
<1>2. CASE ProceedFromR0 \/ ProceedFromR1
  BY <1>2, SMTT(60) DEF ProceedFromR0, ProceedFromR1, Steady, PastRound1, inputs
<1>3. CASE ProceedFromR2
  <2>1. /\ state = "R2_MASKED_INPUT_COLLECTION" /\ state' = "R3_UNMASKING"
        /\ R2HandleAbortClient(Stragglers) /\ maskedInput' = maskedInput
    BY <1>3, SMTT(60) DEF ProceedFromR2, ProceedTo, EnterRound, inputs
  <2> QED
    BY <2>1, AbortSteady, StragglersAborting, SMTT(60) DEF HandleAbortClient, Steady, PastRound1
<1>4. CASE ProceedFromR3
  <2>1. /\ state = "R3_UNMASKING" /\ state' = "PRNG_RUNNING"
        /\ R3HandleAbortClient(Stragglers, "EARLY_SUCCESS") /\ maskedInput' = maskedInput
    BY <1>4, SMTT(60) DEF ProceedFromR3, ProceedTo, EnterRound, inputs
  <2> QED
    BY <2>1, AbortSteady, StragglersAborting, SMTT(60) DEF HandleAbortClient, Steady, PastRound1
<1>5. ASSUME status' = status, maskedInput' = maskedInput,
             state' = state \/ state' \in {"COMPLETED", "ABORTED"}
      PROVE  Steady
  BY <1>5, SMTT(60) DEF Steady, PastRound1, Forwarded
<1>6. CASE PrngRunnerFinished \/ Result
  BY <1>5, <1>6, SMTT(60) DEF PrngRunnerFinished, Result, inputs, round
<1>7. CASE AccumulateInputs
  BY <1>5, <1>7, SMTT(60) DEF AccumulateInputs, inputs, round
<1>8. CASE ProceedFromPrng
  BY <1>5, <1>8, SMTT(60) DEF ProceedFromPrng, inputs, EnterRound
<1>9. CASE ProceedToAbort
  BY <1>5, <1>9, SMTT(60) DEF ProceedToAbort, inputs, EnterRound
<1>10. CASE Abort
  BY <1>5, <1>10, SMTT(60) DEF Abort, EnterRound
<1> QED
  BY <1>1, <1>2, <1>3, <1>4, <1>6, <1>7, <1>8, <1>9, <1>10 DEF ServerStep, ProceedToNextRound

\* Messages that may be on their way stay so.
LEMMA SteadyMessages ==
  ASSUME Steady, NEW c \in Clients
  PROVE  /\ FromServer(c) \subseteq FromServer(c)'
         /\ FromClient(c) \subseteq FromClient(c)'
<1>1. ForwardedShares(c) \subseteq ForwardedShares(c)'
  BY SMTT(60) DEF ForwardedShares, Steady, SealedShare
<1>2. PastRound1 => MasksOf(c)' = MasksOf(c)
  BY SMTT(60) DEF Steady, MasksOf, MaskOf
<1>3. InputMasks(c) \subseteq InputMasks(c)'
  BY <1>2, SMTT(60) DEF Steady, InputMasks
<1>4. /\ KnownKeys(c)' = KnownKeys(c) /\ MadeShares(c)' = MadeShares(c)
      /\ OpenShares(c)' = OpenShares(c)
  BY DEF KnownKeys, MadeShares, OpenShares, MadeShare, OpenShare
<1>5. FromServer(c) \subseteq FromServer(c)'
  <2>1. {e \in BOOLEAN : e => maskedInput[c] # None}
          \subseteq {e \in BOOLEAN : e => maskedInput[c] # None}'
    BY SMTT(60) DEF Steady
  <2>2. {d \in SUBSET Int : maskedInput[c] # None}
          \subseteq {d \in SUBSET Int : maskedInput[c] # None}'
    BY SMTT(60) DEF Steady
  <2> QED
    BY <1>1, <1>4, <2>1, <2>2, SMTT(60) DEF FromServer
<1>6. FromClient(c) \subseteq FromClient(c)'
  <2>1. [type : {"masked_input_response"}, wellFormed : {TRUE}, masks : InputMasks(c)]
          \subseteq [type : {"masked_input_response"}, wellFormed : {TRUE}, masks : InputMasks(c)']
    BY <1>3, ZenonT(60)
  <2> QED
    BY <1>4, <2>1, ZenonT(60) DEF FromClient
<1> QED
  BY <1>5, <1>6

-----------------------------------------------------------------------------
(* The clients. *)

\* What a client knows stays true.
LEMMA ClientStaysRight ==
  ASSUME Steady, NEW c \in Clients, NEW r, ClientRight(c, r)
  PROVE  ClientRight(c, r)'
<1>1. (r \in ClientRecord(c))' /\ (HasMet(c, r) => HasMet(c, r)')
  BY ZenonT(60) DEF ClientRight, ClientRecord, HasMet, KnownKeys, OpenShares, OpenShare, C!Terminal
<1>2. HasShares(c, r) => HasShares(c, r)'
  BY SMTT(60) DEF HasShares, Steady, OpenShares, OpenShare
<1> QED
  BY <1>1, <1>2, SMTT(60) DEF ClientRight, Steady

\* The steps of the clients leave the server's invariants alone.
LEMMA ServerUntouched ==
  ASSUME BooksKept, SumKept, ServerRight, UNCHANGED serverVars
  PROVE  Steady /\ BooksKept' /\ SumKept' /\ ServerRight'
<1>1. /\ UNCHANGED <<state, status, maskedInput, encryptedShares, pairwiseTable, selfTable>>
      /\ UNCHANGED <<prngKeys, completion, result>>
  BY SMTT(60) DEF serverVars, round, keyData, inputs, tables, prng
<1>2. Steady
  BY <1>1, SMTT(60) DEF Steady, PastRound1, Forwarded
<1>3. BooksKept'
  BY StutterKeeps
<1>4. SumKept'
  BY SumUntouched, SMTT(60) DEF serverVars, round, counts
<1>5. SharesFiled'
  BY <1>1, SMTT(60) DEF ServerRight, SharesFiled
<1>6. Forwarded' = Forwarded /\ PastRound1' = PastRound1 /\ Summed' = Summed
  BY <1>1 DEF Forwarded, PastRound1, Summed
<1>7. InputsRight'
  BY <1>1, <1>6, SMTT(60) DEF ServerRight, InputsRight, MasksOf, MaskOf
<1>8. TablesRight'
  BY <1>1, SMTT(60) DEF ServerRight, TablesRight, Holds
<1>9. KeysRight'
  BY <1>1, <1>6, SMTT(60) DEF ServerRight, KeysRight, KeysFound, Lost
<1>10. ResultRight'
  BY <1>1, <1>6, SMTT(60) DEF ServerRight, ResultRight
<1> QED
  BY <1>2, <1>3, <1>4, <1>5, <1>7, <1>8, <1>9, <1>10 DEF ServerRight

\* How a step of client c changes the connections.
Connections(c) ==
  /\ \/ toClient' = toClient
     \/ toClient[c] # << >> /\ toClient' = [toClient EXCEPT ![c] = Tail(@)]
  /\ \/ toServer' = toServer
     \/ \E m \in FromClient(c) : toServer' = [toServer EXCEPT ![c] = Append(@, m)]

\* A step of a client keeps the invariant when what the client knows afterwards is
\* right and so is the message it sends.
LEMMA ClientMoves ==
  ASSUME SessionInv, UNCHANGED serverVars, NEW c \in Clients, Connections(c),
         NEW r, ClientRight(c, r), client' = [client EXCEPT ![c] = r]
  PROVE  SessionInv'
<1>1. Steady /\ BooksKept' /\ SumKept' /\ ServerRight'
  BY ServerUntouched DEF SessionInv
<1>2. ClientsRight'
  <2>1. /\ client' = [d \in Clients |-> client'[d]] /\ client'[c] = r
        /\ \A d \in Clients \ {c} : client'[d] = client[d]
    BY SMTT(60) DEF SessionInv, ClientsRight
  <2>2. ASSUME NEW d \in Clients PROVE ClientRight(d, client[d])'
    <3> PICK q : q = client'[d]
      OBVIOUS
    <3>1. ClientRight(d, q)
      BY <2>1 DEF SessionInv, ClientsRight
    <3>2. ClientRight(d, q)'
      BY <1>1, <3>1, ClientStaysRight
    <3> QED
      BY <3>2
  <2> QED
    BY <2>1, <2>2 DEF ClientsRight
<1>3. MessagesRight'
  <2>1. \A d \in Clients : FromServer(d) \subseteq FromServer(d)' /\ FromClient(d) \subseteq FromClient(d)'
    BY <1>1, SteadyMessages
  <2>2. /\ toClient = [d \in Clients |-> toClient[d]] /\ toServer = [d \in Clients |-> toServer[d]]
        /\ \A d \in Clients : toClient[d] \in Seq(FromServer(d)) /\ toServer[d] \in Seq(FromClient(d))
    BY DEF SessionInv, MessagesRight
  <2>3. /\ toClient' = [d \in Clients |-> toClient'[d]]
        /\ \A d \in Clients : toClient'[d] = toClient[d] \/ (toClient[d] # << >> /\ toClient'[d] = Tail(toClient[d]))
    BY <2>2, SMTT(60) DEF Connections
  <2>4. /\ toServer' = [d \in Clients |-> toServer'[d]]
        /\ \A d \in Clients : toServer'[d] = toServer[d] \/ \E m \in FromClient(d) : toServer'[d] = Append(toServer[d], m)
    BY <2>2, SMTT(60) DEF Connections
  <2>5. ASSUME NEW d \in Clients PROVE toClient'[d] \in Seq(FromServer(d)')
    <3>1. toClient[d] \in Seq(FromServer(d)) /\ FromServer(d) \subseteq FromServer(d)'
      BY <2>1, <2>2
    <3>2. /\ toClient[d] \in Seq(FromServer(d)')
          /\ toClient[d] # << >> => Tail(toClient[d]) \in Seq(FromServer(d)')
      BY <3>1, Queues
    <3> QED
      BY <2>3, <3>2
  <2>6. ASSUME NEW d \in Clients PROVE toServer'[d] \in Seq(FromClient(d)')
    <3>1. toServer[d] \in Seq(FromClient(d)) /\ FromClient(d) \subseteq FromClient(d)'
      BY <2>1, <2>2
    <3>2. /\ toServer[d] \in Seq(FromClient(d)')
          /\ \A m \in FromClient(d)' : Append(toServer[d], m) \in Seq(FromClient(d)')
      BY <3>1, Queues
    <3> QED
      BY <2>4, <3>1, <3>2
  <2> QED
    BY <2>3, <2>4, <2>5, <2>6 DEF MessagesRight
<1> QED
  BY <1>1, <1>2, <1>3 DEF SessionInv

\* A client that ends knows nothing.
LEMMA FreshRight ==
  ASSUME NEW c \in Clients, NEW s, NEW reason \in {None, "malformed", "requested", "too few", "server"},
         \/ s \in {"R0_ADVERTISE_KEYS", "ABORTED"}
         \/ s = "COMPLETED" /\ maskedInput[c] # None
  PROVE  ClientRight(c, C!Fresh(s, reason))
BY ZenonT(60) DEF ClientRight, C!Fresh, ClientRecord, C!Terminal

\* AbortAndNotifyServer.
LEMMA AbortAndNotifyKeeps ==
  ASSUME SessionInv, UNCHANGED serverVars, NEW c \in Clients,
         \/ toClient' = toClient
         \/ toClient[c] # << >> /\ toClient' = [toClient EXCEPT ![c] = Tail(@)],
         NEW reason \in {"malformed", "requested", "too few"}, C!AbortAndNotifyServer(c, reason)
  PROVE  SessionInv'
<1>1. [type |-> "abort"] \in FromClient(c)
  BY ZenonT(60) DEF FromClient
<1>2. Connections(c)
  BY <1>1, ZenonT(60) DEF Connections, C!AbortAndNotifyServer, C!Send
<1>3. ClientRight(c, C!Fresh("ABORTED", reason))
  BY FreshRight, ZenonT(60)
<1>4. client' = [client EXCEPT ![c] = C!Fresh("ABORTED", reason)]
  BY ZenonT(60) DEF C!AbortAndNotifyServer, C!Become
<1> QED
  BY <1>2, <1>3, <1>4, ClientMoves, ZenonT(60)

\* The masks of a client that has the shares of its neighbors.
LEMMA MasksAreRight ==
  ASSUME NEW c \in Clients, NEW r, HasMet(c, r), HasShares(c, r)
  PROVE  C!MapOfMasks(c, r) = MasksOf(c)
<1>1. \A k \in Indices : r.others[k] = "kAlive" => r.keys[k] = Neighbor(c, k)
  BY SMTT(60) DEF HasMet, KnownKeys
<1>2. C!Having(r, "kAlive") \ {r.own} = {j \in Indices \ {Own(c)} : Neighbor(c, j) \in Forwarded}
  BY SMTT(60) DEF C!Having, HasMet, HasShares
<1>3. \A k \in C!Having(r, "kAlive") \ {r.own} :
        <<IF k < r.own THEN 1 ELSE -1, {c, r.keys[k]}>> = MaskOf(c, k)
  BY <1>1, SMTT(60) DEF C!Having, HasMet, MaskOf
<1> QED
  BY <1>2, <1>3, SMTT(60) DEF C!MapOfMasks, MasksOf

\* SendMaskedInput: the masks on the input are those of the neighbors whose shares
\* were forwarded.
LEMMA SendMaskedInputKeeps ==
  ASSUME SessionInv, UNCHANGED serverVars, NEW c \in Clients,
         \/ toClient' = toClient
         \/ toClient[c] # << >> /\ toClient' = [toClient EXCEPT ![c] = Tail(@)],
         NEW r, ClientRight(c, r), r.state = "R2_WAITING_FOR_INPUT", C!SendMaskedInput(c, r)
  PROVE  SessionInv'
<1> DEFINE m == [type |-> "masked_input_response", wellFormed |-> TRUE, masks |-> C!MapOfMasks(c, r)]
           q == [r EXCEPT !.state = "R3_UNMASKING", !.hasInput = TRUE]
<1>1. HasMet(c, r) /\ HasShares(c, r) /\ r \in ClientRecord(c)
  BY SMTT(60) DEF ClientRight
<1>2. m \in FromClient(c)
  <2>1. C!MapOfMasks(c, r) \in InputMasks(c)
    BY <1>1, MasksAreRight, SMTT(60) DEF HasShares, InputMasks
  <2> HIDE DEF m
  <2>2. m \in [type : {"masked_input_response"}, wellFormed : {TRUE}, masks : InputMasks(c)]
    BY <2>1, SMTT(60) DEF m
  <2> QED
    BY <2>2, ZenonT(60) DEF FromClient
<1>3. Connections(c)
  <2>1. toServer' = [toServer EXCEPT ![c] = Append(@, m)]
    BY DEF C!SendMaskedInput, C!Send
  <2> HIDE DEF m
  <2> QED
    BY <1>2, <2>1, ZenonT(60) DEF Connections
<1>4. ClientRight(c, q)
  <2>1. q \in ClientRecord(c)
    BY <1>1, ZenonT(60) DEF ClientRecord
  <2>2. /\ q.own = r.own /\ q.keys = r.keys /\ q.others = r.others /\ q.shares = r.shares
        /\ q.state = "R3_UNMASKING"
    BY <1>1, ZenonT(60) DEF ClientRecord
  <2> HIDE DEF q
  <2> QED
    BY <1>1, <2>1, <2>2, SMTT(60) DEF ClientRight, HasMet, HasShares
<1>5. client' = [client EXCEPT ![c] = q]
  BY DEF C!SendMaskedInput, C!Become
<1> QED
  BY <1>3, <1>4, <1>5, ClientMoves, ZenonT(60)

\* Start, SetInput and Abort keep the invariant.
LEMMA ClientCallKeeps ==
  ASSUME SessionInv, NEW c \in Clients, ClientCall(c)
  PROVE  SessionInv'
<1>1. UNCHANGED serverVars /\ toClient' = toClient
  BY SMTT(60) DEF ClientCall, vars
<1> PICK r : r = client[c]
  OBVIOUS
<1>2. ClientRight(c, r) /\ client = [d \in Clients |-> client[d]]
  BY DEF SessionInv, ClientsRight
<1>3. r \in ClientRecord(c)
  BY <1>2 DEF ClientRight
<1>4. CASE C!Start(c)
  <2> DEFINE q == [r EXCEPT !.state = "R1_SHARE_KEYS"]
             m == [type |-> "advertise_keys", wellFormed |-> TRUE]
  <2>1. /\ client' = [client EXCEPT ![c] = q]
        /\ toServer' = [toServer EXCEPT ![c] = Append(@, m)]
    BY <1>4 DEF C!Start, C!Become, C!Send
  <2>2. m \in FromClient(c)
    BY SMTT(60) DEF FromClient
  <2>3. q \in ClientRecord(c) /\ q.state = "R1_SHARE_KEYS"
    BY <1>3, ZenonT(60) DEF ClientRecord
  <2>4. ClientRight(c, q)
    BY <2>3, SMTT(60) DEF ClientRight
  <2>5. Connections(c)
    <3> HIDE DEF m
    <3> QED
      BY <1>1, <2>1, <2>2, ZenonT(60) DEF Connections
  <2> QED
    BY <1>1, <2>1, <2>4, <2>5, ClientMoves, ZenonT(60)
<1>5. CASE C!SetInput(c)
  <2>1. CASE client[c].state = "R2_WAITING_FOR_INPUT"
    <3>1. C!SendMaskedInput(c, r)
      BY <1>5, <2>1 DEF C!SetInput
    <3> QED
      BY <1>1, <1>2, <2>1, <3>1, SendMaskedInputKeeps
  <2>2. CASE client[c].state # "R2_WAITING_FOR_INPUT"
    <3> DEFINE q == [r EXCEPT !.hasInput = TRUE]
    <3>1. client' = [client EXCEPT ![c] = q] /\ toServer' = toServer
      BY <1>5, <2>2 DEF C!SetInput, C!Become
    <3>2. q \in ClientRecord(c)
      BY <1>3, ZenonT(60) DEF ClientRecord
    <3>3. /\ q.own = r.own /\ q.keys = r.keys /\ q.others = r.others /\ q.shares = r.shares
          /\ q.state = r.state
      BY <1>3, ZenonT(60) DEF ClientRecord
    <3> HIDE DEF q
    <3>4. ClientRight(c, q)
      BY <1>2, <3>2, <3>3, SMTT(60) DEF ClientRight, HasMet, HasShares
    <3>5. Connections(c)
      BY <1>1, <3>1 DEF Connections
    <3> QED
      BY <1>1, <3>1, <3>4, <3>5, ClientMoves, ZenonT(60)
  <2> QED
    BY <2>1, <2>2
<1>6. ASSUME UNCHANGED <<client, toServer>> PROVE SessionInv'
  <2>1. client' = [client EXCEPT ![c] = r] /\ Connections(c)
    BY <1>1, <1>2, <1>6 DEF Connections
  <2> QED
    BY <1>1, <1>2, <2>1, ClientMoves
<1>7. CASE C!AbortSignal(c)
  BY <1>6, <1>7 DEF C!AbortSignal
<1>8. CASE C!AbortLocked(c)
  <2>1. CASE client[c].state \in C!Terminal
    BY <1>6, <1>8, <2>1 DEF C!AbortLocked
  <2>2. CASE client[c].state \notin C!Terminal
    <3>1. C!AbortAndNotifyServer(c, "requested")
      BY <1>8, <2>2 DEF C!AbortLocked
    <3> QED
      BY <1>1, <3>1, AbortAndNotifyKeeps, ZenonT(60)
  <2> QED
    BY <2>1, <2>2
<1> QED
  BY <1>4, <1>5, <1>7, <1>8 DEF ClientCall

\* What is known of a message by its type.
LEMMA ServerMessages ==
  ASSUME NEW c \in Clients, NEW m \in FromServer(c)
  PROVE  /\ m.type = "abort" => m.earlySuccess \in BOOLEAN /\ (m.earlySuccess => maskedInput[c] # None)
         /\ m.type = "share_keys_request" => m.keys \in KnownKeys(c)
         /\ m.type = "masked_input_request" => m.shares \in ForwardedShares(c)
         /\ m.type = "unmasking_request" => maskedInput[c] # None
BY SMTT(60) DEF FromServer

\* HandleShareKeysRequest: the client finds itself among the keys, at its own
\* index, and makes the share of each neighbor under that neighbor's index.
LEMMA MeetNeighbors ==
  ASSUME SessionInv, UNCHANGED serverVars, NEW c \in Clients, toClient[c] # << >>,
         toClient' = [toClient EXCEPT ![c] = Tail(@)],
         NEW m \in FromServer(c), C!ReceiveShareKeysRequest(c, m)
  PROVE  SessionInv'
<1> PICK r : r = client[c]
  OBVIOUS
<1>1. ClientRight(c, r) /\ r \in ClientRecord(c)
  BY DEF SessionInv, ClientsRight, ClientRight
<1>2. m.keys \in KnownKeys(c) /\ DOMAIN m.keys = Indices
  BY ServerMessages, SMTT(60) DEF C!ReceiveShareKeysRequest, KnownKeys
<1>3. CASE C!ShareKeysError(c, m) # None
  <2>1. PICK e : e = C!ShareKeysError(c, m)
    OBVIOUS
  <2>2. e \in {"malformed", "requested", "too few"}
    BY <1>3, <2>1, ZenonT(60) DEF C!ShareKeysError
  <2>3. C!AbortAndNotifyServer(c, e)
    BY <1>3, <2>1 DEF C!ReceiveShareKeysRequest
  <2> QED
    BY <2>2, <2>3, AbortAndNotifyKeeps, ZenonT(60)
<1>4. CASE C!ShareKeysError(c, m) = None
  <2>1. \E k \in Indices : m.keys[k] = c
    BY <1>2, <1>4, SessionAssumption, ZenonT(60) DEF C!ShareKeysError
  <2>2. \A k \in Indices : m.keys[k] = c => k = Own(c)
    BY <1>2, NoneAssumption, Edges, SMTT(60) DEF KnownKeys, Own
  <2>3. (CHOOSE k \in DOMAIN m.keys : m.keys[k] = c) = Own(c) /\ m.keys[Own(c)] = c
    BY <1>2, <2>1, <2>2, SMTT(60)
  <2>4. PICK others : others = [k \in DOMAIN m.keys |->
                             IF m.keys[k] = None THEN "kDeadAtRound1" ELSE "kAlive"]
    BY ZenonT(60)
  <2>5. PICK shares : shares = [k \in DOMAIN m.keys |->
                        IF m.keys[k] \in {None, c} THEN None
                        ELSE [of |-> c, to |-> m.keys[k], at |-> k]]
    BY ZenonT(60)
  <2> DEFINE q == [r EXCEPT !.state = "R2_MASKED_INPUT", !.own = Own(c), !.keys = m.keys,
                            !.others = others]
             a == [type |-> "share_keys_response", shares |-> shares]
  <2>6. client' = [client EXCEPT ![c] = q] /\ toServer' = [toServer EXCEPT ![c] = Append(@, a)]
    BY <1>4, <2>3, <2>4, <2>5, ZenonT(60) DEF C!ReceiveShareKeysRequest, C!Become, C!Send
  <2>7. a \in FromClient(c)
    <3>1. shares \in MadeShares(c)
      BY <1>2, <2>5, SMTT(60) DEF MadeShares, MadeShare, KnownKeys
    <3> QED
      BY <3>1, ZenonT(60) DEF FromClient
  <2>8. others \in [Indices -> {"kAlive", "kDeadAtRound1", "kDeadAtRound2"}]
    BY <1>2, <2>4, SMTT(60)
  <2>9. q \in ClientRecord(c)
    BY <1>1, <1>2, <2>8, ZenonT(60) DEF ClientRecord
  <2>10. q.own = Own(c) /\ q.keys = m.keys /\ q.others = others /\ q.state = "R2_MASKED_INPUT"
    BY <1>1, ZenonT(60) DEF ClientRecord
  <2> HIDE DEF q, a
  <2>11. HasMet(c, q)
    BY <1>2, <2>3, <2>4, <2>8, <2>10, Edges, NoneAssumption, SMTT(60) DEF HasMet
  <2>12. ClientRight(c, q)
    BY <2>9, <2>10, <2>11, SMTT(60) DEF ClientRight
  <2>13. Connections(c)
    BY <2>6, <2>7, ZenonT(60) DEF Connections
  <2> QED
    BY <2>6, <2>12, <2>13, ClientMoves, ZenonT(60)
<1> QED
  BY <1>3, <1>4

\* HandleMaskedInputRequest: the neighbors whose share is missing are dead at
\* round 2, the others are those that got past round 1.
LEMMA TakeShares ==
  ASSUME SessionInv, UNCHANGED serverVars, NEW c \in Clients, toClient[c] # << >>,
         toClient' = [toClient EXCEPT ![c] = Tail(@)],
         NEW m \in FromServer(c), C!ReceiveMaskedInputRequest(c, m)
  PROVE  SessionInv'
<1> PICK r : r = client[c]
  OBVIOUS
<1>1. ClientRight(c, r) /\ r \in ClientRecord(c) /\ r.state = "R2_MASKED_INPUT"
  BY SMTT(60) DEF SessionInv, ClientsRight, ClientRight, C!ReceiveMaskedInputRequest
<1>2. m.shares \in ForwardedShares(c) /\ DOMAIN m.shares = Indices
  BY ServerMessages, SMTT(60) DEF C!ReceiveMaskedInputRequest, ForwardedShares
<1>3. HasMet(c, r)
  BY <1>1, SMTT(60) DEF ClientRight
<1>4. CASE C!MaskedInputError(c, m) # None
  <2>1. PICK e : e = C!MaskedInputError(c, m)
    OBVIOUS
  <2>2. e \in {"malformed", "requested", "too few"}
    BY <1>4, <2>1, ZenonT(60) DEF C!MaskedInputError
  <2>3. C!AbortAndNotifyServer(c, e)
    BY <1>4, <2>1 DEF C!ReceiveMaskedInputRequest
  <2> QED
    BY <2>2, <2>3, AbortAndNotifyKeeps, ZenonT(60)
<1>5. CASE C!MaskedInputError(c, m) = None
  <2>1. \A k \in DOMAIN r.others \ {r.own} :
          m.shares[k] # None => r.others[k] = "kAlive" /\ m.shares[k].of = r.keys[k] /\ m.shares[k].to = c
    BY <1>5, SessionAssumption, ZenonT(60) DEF C!MaskedInputError
  <2>2. /\ r.own = Own(c) /\ DOMAIN r.others = Indices
        /\ r.others \in [Indices -> {"kAlive", "kDeadAtRound1", "kDeadAtRound2"}]
    BY <1>3, SMTT(60) DEF HasMet
  <2>3. PICK others : others = [k \in DOMAIN r.others |->
                  IF k # r.own /\ r.others[k] = "kAlive" /\ m.shares[k] = None
                    THEN "kDeadAtRound2" ELSE r.others[k]]
    BY ZenonT(60)
  <2>4. PICK shares : shares = [k \in DOMAIN m.shares |->
                  IF k = r.own THEN [of |-> c, at |-> k]
                  ELSE IF m.shares[k] = None THEN None
                  ELSE [of |-> m.shares[k].of, at |-> m.shares[k].at]]
    BY ZenonT(60)
  <2>5. PICK q : q = [[r EXCEPT !.others = others] EXCEPT !.state = "R2_WAITING_FOR_INPUT",
                                                          !.shares = shares]
    OBVIOUS
  <2>6. C!StoreShares(c, m) = q
    BY <2>3, <2>4, <2>5 DEF C!StoreShares, C!MarkDeadAtRound2
  <2>7. others \in [Indices -> {"kAlive", "kDeadAtRound1", "kDeadAtRound2"}]
    BY <2>2, <2>3, SMTT(60)
  <2>8. shares \in OpenShares(c)
    <3>1. ASSUME NEW k \in Indices
          PROVE  shares[k] \in {None, OpenShare(c, k)} /\ OpenShare(c, k) \in [of : Clients, at : Indices]
      <4>1. OpenShare(c, k) \in [of : Clients, at : Indices]
        BY Edges, SMTT(60) DEF OpenShare
      <4>2. CASE k = r.own
        BY <1>2, <2>2, <2>4, <4>1, <4>2, Edges, SMTT(60) DEF OpenShare, Own
      <4>3. CASE k # r.own
        BY <1>2, <2>4, <4>1, <4>3, SMTT(60) DEF ForwardedShares, OpenShare, SealedShare
      <4> QED
        BY <4>1, <4>2, <4>3
    <3> QED
      BY <1>2, <2>4, <3>1, SMTT(60) DEF OpenShares
  <2>9. q \in ClientRecord(c)
    BY <1>1, <2>5, <2>7, <2>8, ZenonT(60) DEF ClientRecord
  <2>10. /\ q.own = r.own /\ q.keys = r.keys /\ q.others = others /\ q.shares = shares
         /\ q.state = "R2_WAITING_FOR_INPUT"
    BY <1>1, <2>5, ZenonT(60) DEF ClientRecord
  <2>11. \A k \in Indices : others[k] = "kAlive" => r.others[k] = "kAlive"
    BY <2>2, <2>3, SMTT(60)
  <2>12. HasMet(c, q)
    BY <1>3, <2>2, <2>3, <2>7, <2>10, <2>11, Edges, SMTT(60) DEF HasMet
  <2>13. \A k \in Indices : others[k] = "kAlive" <=> Neighbor(c, k) \in Forwarded
    <3> TAKE k \in Indices
    <3>1. c \in Forwarded /\ (m.shares[k] # None <=> Neighbor(c, k) \in Forwarded \ {c})
      BY <1>2, SMTT(60) DEF ForwardedShares
    <3>2. CASE k = Own(c)
      BY <1>3, <2>2, <2>3, <3>1, <3>2, Edges, SMTT(60) DEF HasMet
    <3>3. CASE k # Own(c)
      <4>1. Neighbor(c, k) # c
        BY <3>3, Edges, SMTT(60) DEF Own
      <4> QED
        BY <2>1, <2>2, <2>3, <3>1, <3>3, <4>1, SMTT(60)
    <3> QED
      BY <3>2, <3>3
  <2>14. HasShares(c, q)
    BY <1>2, <2>8, <2>10, <2>13, SMTT(60) DEF HasShares, ForwardedShares
  <2>15. ClientRight(c, q)
    BY <2>9, <2>10, <2>12, <2>14, SMTT(60) DEF ClientRight
  <2>16. CASE client[c].hasInput
    <3>1. C!SendMaskedInput(c, q)
      BY <1>5, <2>6, <2>16 DEF C!ReceiveMaskedInputRequest
    <3> QED
      BY <2>10, <2>15, <3>1, SendMaskedInputKeeps, ZenonT(60)
  <2>17. CASE ~client[c].hasInput
    <3>1. client' = [client EXCEPT ![c] = q] /\ toServer' = toServer
      BY <1>5, <2>6, <2>17 DEF C!ReceiveMaskedInputRequest, C!Become
    <3>2. Connections(c)
      BY <3>1 DEF Connections
    <3> QED
      BY <2>15, <3>1, <3>2, ClientMoves, ZenonT(60)
  <2> QED
    BY <2>16, <2>17
<1> QED
  BY <1>4, <1>5

\* HandleUnmaskingRequest: a client that completes has its input in the sum.
LEMMA GiveShares ==
  ASSUME SessionInv, UNCHANGED serverVars, NEW c \in Clients, toClient[c] # << >>,
         toClient' = [toClient EXCEPT ![c] = Tail(@)],
         NEW m \in FromServer(c), C!ReceiveUnmaskingRequest(c, m)
  PROVE  SessionInv'
<1> PICK r : r = client[c]
  OBVIOUS
<1>1. ClientRight(c, r) /\ r \in ClientRecord(c) /\ r.state = "R3_UNMASKING"
  BY SMTT(60) DEF SessionInv, ClientsRight, ClientRight, C!ReceiveUnmaskingRequest
<1>2. maskedInput[c] # None
  <2>1. m.type = "unmasking_request"
    BY ZenonT(60) DEF C!ReceiveUnmaskingRequest
  <2> QED
    BY <2>1, ServerMessages, SMTT(60)
<1>3. HasMet(c, r) /\ HasShares(c, r)
  BY <1>1, SMTT(60) DEF ClientRight
<1>4. CASE C!UnmaskingError(c, m) # None
  <2>1. PICK e : e = C!UnmaskingError(c, m)
    OBVIOUS
  <2>2. e \in {"malformed", "requested", "too few"}
    BY <1>4, <2>1, ZenonT(60) DEF C!UnmaskingError
  <2>3. C!AbortAndNotifyServer(c, e)
    BY <1>4, <2>1 DEF C!ReceiveUnmaskingRequest
  <2> QED
    BY <2>2, <2>3, AbortAndNotifyKeeps, ZenonT(60)
<1>5. CASE C!UnmaskingError(c, m) = None
  <2> DEFINE kind(k) == IF r.others[k] # "kAlive" THEN "none"
                        ELSE IF k \in C!DeadIndices(m) THEN "noise" ELSE "prf"
  <2>1. PICK kinds : kinds = [k \in DOMAIN r.others |-> kind(k)]
    BY ZenonT(60)
  <2>2. PICK shares : shares = [k \in DOMAIN r.others |-> IF kind(k) = "none" THEN None ELSE r.shares[k]]
    BY ZenonT(60)
  <2> DEFINE a == [type |-> "unmasking_response", kinds |-> kinds, shares |-> shares]
  <2>3. /\ client' = [client EXCEPT ![c] = C!Fresh("COMPLETED", None)]
        /\ toServer' = [toServer EXCEPT ![c] = Append(@, a)]
    BY <1>5, <2>1, <2>2 DEF C!ReceiveUnmaskingRequest, C!Become, C!Send
  <2>4. DOMAIN r.others = Indices
    BY <1>3, SMTT(60) DEF HasMet
  <2>5. kinds \in [Indices -> {"none", "noise", "prf"}]
    BY <2>1, <2>4, SMTT(60)
  <2>6. shares \in OpenShares(c)
    BY <1>3, <2>2, <2>4, SMTT(60) DEF HasShares, OpenShares
  <2>7. a \in FromClient(c)
    BY <2>5, <2>6, ZenonT(60) DEF FromClient
  <2> HIDE DEF a
  <2>8. Connections(c)
    BY <2>3, <2>7, ZenonT(60) DEF Connections
  <2>9. ClientRight(c, C!Fresh("COMPLETED", None))
    BY <1>2, FreshRight, ZenonT(60)
  <2> QED
    BY <2>3, <2>8, <2>9, ClientMoves, ZenonT(60)
<1> QED
  BY <1>4, <1>5

\* Every message that a client receives keeps the invariant.
LEMMA ClientReceiveKeeps ==
  ASSUME SessionInv, NEW c \in Clients, ClientReceive(c)
  PROVE  SessionInv'
<1>1. /\ UNCHANGED serverVars /\ toClient[c] # << >>
      /\ toClient' = [toClient EXCEPT ![c] = Tail(@)]
  BY DEF ClientReceive
<1> PICK m : m = Head(toClient[c])
  OBVIOUS
<1>2. m \in FromServer(c)
  <2>1. toClient[c] \in Seq(FromServer(c))
    BY DEF SessionInv, MessagesRight
  <2> QED
    BY <1>1, <2>1, HeadTailProperties
<1>3. C!ReceiveMessage(c, m)
  BY DEF ClientReceive
<1>4. CASE C!ReceiveAbort(c, m)
  <2>1. PICK q : q = IF m.earlySuccess THEN C!Fresh("COMPLETED", None) ELSE C!Fresh("ABORTED", "server")
    OBVIOUS
  <2>2. client' = [client EXCEPT ![c] = q] /\ toServer' = toServer
    BY <1>4, <2>1 DEF C!ReceiveAbort, C!Become
  <2>3. ClientRight(c, q)
    BY <1>2, <1>4, <2>1, ServerMessages, FreshRight, ZenonT(60) DEF C!ReceiveAbort
  <2>4. Connections(c)
    BY <1>1, <2>2 DEF Connections
  <2> QED
    BY <1>1, <2>2, <2>3, <2>4, ClientMoves, ZenonT(60)
<1>5. CASE C!ReceiveShareKeysRequest(c, m)
  BY <1>1, <1>2, <1>5, MeetNeighbors, ZenonT(60)
<1>6. CASE C!ReceiveMaskedInputRequest(c, m)
  BY <1>1, <1>2, <1>6, TakeShares, ZenonT(60)
<1>7. CASE C!ReceiveUnmaskingRequest(c, m)
  BY <1>1, <1>2, <1>7, GiveShares, ZenonT(60)
<1>8. CASE C!IgnoreMessage(c, m)
  <2> PICK r : r = client[c]
    OBVIOUS
  <2>1. ClientRight(c, r) /\ client = [d \in Clients |-> client[d]]
    BY DEF SessionInv, ClientsRight
  <2>2. client' = [client EXCEPT ![c] = r] /\ Connections(c)
    BY <1>1, <1>8, <2>1 DEF C!IgnoreMessage, Connections
  <2> QED
    BY <1>1, <2>1, <2>2, ClientMoves
<1> QED
  BY <1>3, <1>4, <1>5, <1>6, <1>7, <1>8 DEF C!ReceiveMessage

=============================================================================
