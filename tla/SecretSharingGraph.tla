-------------------------- MODULE SecretSharingGraph --------------------------
(***************************************************************************)
(* The graphs of src/fcp/secagg/server/secret_sharing_*_graph.*: which     *)
(* clients share keys with which, and at which index each client finds     *)
(* each of its neighbors.  Messages name clients by these indices only, so *)
(* the protocol is right only if the two directions of every edge agree.   *)
(*                                                                         *)
(* A graph is a record: kind "complete" or "harary", its number of nodes,  *)
(* its degree (the self loop included) and, for a Harary graph, the random *)
(* renaming of its nodes.  An absent index is -1.                          *)
(***************************************************************************)
EXTENDS Integers

CompleteGraph(n) == [kind |-> "complete", nodes |-> n, degree |-> n,
                     permutation |-> [i \in 0..n-1 |-> i]]

HararyGraph(n, d, p) == [kind |-> "harary", nodes |-> n, degree |-> d,
                         permutation |-> p]

\* What CreateHararyGraph makes by shuffling the identity.
IsPermutation(p, n) ==
  /\ p \in [0..n-1 -> 0..n-1]
  /\ \A i \in 0..n-1 : \E j \in 0..n-1 : p[j] = i
  /\ \A i, j \in 0..n-1 : p[i] = p[j] => i = j

\* What the checks of SecretSharingGraphFactory admit.
IsGraph(g) ==
  /\ g.nodes \in Nat \ {0}
  /\ g.degree \in 1..g.nodes
  /\ g.kind \in {"complete", "harary"}
  /\ g.kind = "complete" => g.degree = g.nodes
  /\ g.kind = "harary" => g.degree % 2 = 1 /\ IsPermutation(g.permutation, g.nodes)

Nodes(g) == 0..g.nodes-1
NeighborIndices(g) == 0..g.degree-1

\* inverse_permutation_[x]: the node's place on the ring before renaming.
Place(g, x) == CHOOSE i \in Nodes(g) : g.permutation[i] = x

Abs(x) == IF x < 0 THEN -x ELSE x
Least(x, y) == IF x < y THEN x ELSE y

GetNeighbor(g, x, i) ==
  IF g.kind = "complete" THEN i
  ELSE g.permutation[(Place(g, x) - g.degree \div 2 + i + g.nodes) % g.nodes]

\* The distance of two nodes around the ring.
RingDistance(g, x, y) ==
  LET sub == Abs(Place(g, x) - Place(g, y)) IN Least(sub, g.nodes - sub)

GetNeighborIndex(g, x, y) ==
  LET dist == RingDistance(g, x, y) IN
  IF g.kind = "complete" THEN y
  ELSE IF dist > g.degree \div 2 THEN -1
  ELSE IF (Place(g, x) - dist + g.nodes) % g.nodes = Place(g, y)
         THEN g.degree \div 2 - dist
         ELSE g.degree \div 2 + dist

AreNeighbors(g, x, y) == g.kind = "complete" \/ GetNeighborIndex(g, x, y) >= 0

\* Mutant: the direction follows the ids, not the places on the ring.
IsOutgoingNeighborById(g, x, y) == y >= x

IsOutgoingNeighbor(g, x, y) ==
  IF g.kind = "complete" THEN y >= x
  ELSE GetNeighborIndex(g, x, y) >= g.degree \div 2

\* GetNeighborIndex is the partial inverse of GetNeighbor: the neighbors of a
\* node are distinct, each is found at its own index, and a node is given an
\* index exactly when it is somebody's neighbor.
IndexInvertsNeighbor(g) ==
  \A x \in Nodes(g) :
    /\ \A k \in NeighborIndices(g) : GetNeighborIndex(g, x, GetNeighbor(g, x, k)) = k
    /\ \A y \in Nodes(g) :
         AreNeighbors(g, x, y) <=> \E k \in NeighborIndices(g) : GetNeighbor(g, x, k) = y

\* Both ends of an edge see it, which GetNeighborIndexOrDie relies on when the
\* server files a client's shares under the client's neighbors.  A client adds the
\* mask it shares with a neighbor of lower index than its own and subtracts it for a
\* higher one (secagg_client_r2_masked_input_coll_base_state.cc): the two ends of an
\* edge take opposite signs, and IsOutgoingNeighbor tells which sign each end took.
EdgesAgree(g) ==
  /\ IndexInvertsNeighbor(g)
  /\ \A x, y \in Nodes(g) :
       LET Above(a, b) == GetNeighborIndex(g, a, b) > GetNeighborIndex(g, a, a) IN
       /\ AreNeighbors(g, x, y) <=> AreNeighbors(g, y, x)
       /\ x # y /\ AreNeighbors(g, x, y) =>
            /\ Above(x, y) # Above(y, x)
            /\ IsOutgoingNeighbor(g, x, y) <=> Above(x, y)
=============================================================================
