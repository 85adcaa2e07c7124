-------------------------- MODULE MCSecAggAlgorithms --------------------------
(***************************************************************************)
(* The algorithms SecAgg is built from, each over a set of inputs, beside  *)
(* a session on a ring: which of them a behavior is about is chosen at the *)
(* start (part).  The codecs run at the code's own widths; the field of    *)
(* Shamir and the parameters of the graph finder are small.                *)
(***************************************************************************)
EXTENDS MCSecAggSession, Shamir, GraphParameters, MapOfMasks
LOCAL INSTANCE Functions

CONSTANT MaxNodes  \* of the graphs that the factory may draw
ASSUME MaxNodesPositive == MaxNodes \in Nat \ {0}

VARIABLES part,   \* "ring", "shamir", "secret", "vector", "masks" or "graph"
          input,  \* what the algorithm is given
          output, \* what it computes, where it is worth keeping
          drawn   \* the graph that SecretSharingGraphFactory has made

\* Every complete graph, and every Harary graph under every renaming of its nodes.
SmallGraphs ==
  UNION {{CompleteGraph(n)} \cup
         {HararyGraph(n, d, p) : d \in {k \in 1..n : k % 2 = 1},
                                 p \in Bijection(0..n-1, 0..n-1)} :
           n \in 1..MaxNodes}

RingNext == drawn = Graph /\ SessionNext /\ UNCHANGED drawn

\* Subsecrets at the code's sizes.
Real == INSTANCE Subsecrets WITH kBitsPerSubsecret <- 31, ByteBits <- 8

SmallSecrets == {<<{0,1}, {0,1}>>, <<{0}, {1}, {0,1}>>, <<{0,1}, {0,1}, {0,1}>>}

\* Every length up to two rounds of the packing, which begins anew at 31 bytes.
SecretInputs == [length : 1..62, byte : {Ones(8), {1, 2, 6}}]
Byte(in, i) == IF i % 3 = 0 THEN {i % 8} ELSE in.byte
Parts(in) == DivideRoundUp(8 * in.length, 31)

\* The loops of DivideIntoSubsecrets and RebuildFromSubsecrets, byte by byte.
SecretInit(in) ==
  [at |-> "divide", i |-> in.length, loop |-> Real!Loop([p \in 0..Parts(in) |-> {}], Parts(in), 0),
   parts |-> <<>>]
SecretNext ==
  LET o == output IN
  /\ o.i > 0
  /\ output' =
       IF o.at = "rebuild"
       THEN [o EXCEPT !.i = @ - 1, !.loop = Real!RebuildByte(@, o.parts, o.i)]
       ELSE LET next == Real!DivideByte(o.loop, Byte(input, o.i), o.i = 1) IN
            IF o.i > 1 THEN [o EXCEPT !.i = @ - 1, !.loop = next]
            ELSE [at |-> IF next.cur = 1 THEN "rebuild" ELSE "check failed", i |-> input.length,
                  parts |-> [p \in 1..Parts(input) |-> next.parts[p]],
                  loop |-> Real!Loop([b \in 1..input.length |-> {}], Parts(input), 0)]

\* Every width of an element, with the patterns that tell its ends apart.
VectorInputs == [width : 1..62, length : 1..12, first : 0..7]
Element(w, k) == CASE k % 4 = 0 -> Ones(w)
                   [] k % 4 = 1 -> {b \in Ones(w) : b % 3 = 0}
                   [] k % 4 = 2 -> {w - 1}
                   [] OTHER     -> {}
Span(in) == [i \in 1..in.length |-> Element(in.width, (in.first + i * (1 + in.first \div 4)))]

\* Powers of two and others, in one byte of randomness and in two, and streams
\* with samples that are rejected and a byte that never is.
MaskInputs == [modulus : {2, 3, 5, 6, 8, 100, 300},
               s : {f \in [1..3 -> {0, 1, 6, 255}] : \E i \in 1..3 : f[i] = 255},
               t : {<<0, 255, 1>>, <<255, 6, 0>>}]
Specs(in) == {[name |-> "x", length |-> 2, modulus |-> in.modulus],
              [name |-> "y", length |-> 1, modulus |-> 7]}

GraphInputs == [n : {3, 5, 8, 10, 12}, adversarial : {0, 10, 20, 30},
                dropout : {0, 10, 20, 30, 40}, class : {"NONE", "CURIOUS", "SEMI_MALICIOUS"}]
ThreatModel(in) == [adversarial |-> in.adversarial, dropout |-> in.dropout, class |-> in.class]

AlgorithmsInit ==
  /\ \/ /\ part = "ring" /\ drawn \in SmallGraphs
        /\ input = <<>> /\ output = <<>>
     \/ /\ drawn = Graph
        /\ \/ part = "shamir" /\ input = <<>> /\ output = <<>>
           \/ part = "secret" /\ input \in SecretInputs /\ output = SecretInit(input)
           \/ part = "vector" /\ input \in VectorInputs
              /\ output = PackBranchless(Span(input), input.width)
           \/ part = "masks" /\ input \in MaskInputs
              /\ output = MapOfMasks(<<input.s>>, <<input.t>>, Specs(input), 8)
           \/ part = "graph" /\ input \in GraphInputs
              /\ output = SecAggServerCreate(1, input.n, ThreatModel(input), "none")
  /\ SessionInit /\ ShamirInit

AlgorithmsNext ==
  /\ \/ part = "ring" /\ RingNext /\ UNCHANGED <<shamirVars, output>>
     \/ part = "shamir" /\ ShamirNext /\ UNCHANGED <<sessionVars, drawn, output>>
     \/ part = "secret" /\ SecretNext /\ UNCHANGED <<sessionVars, drawn, shamirVars>>
  /\ UNCHANGED <<part, input>>

AlgorithmsSpec ==
  AlgorithmsInit /\ [][AlgorithmsNext]_<<sessionVars, drawn, shamirVars, part, input, output>>

-----------------------------------------------------------------------------
\* In every graph that SecretSharingGraphFactory's checks admit, indices and
\* neighbors are inverse to each other, both ends of an edge see it and take
\* opposite signs, and IsOutgoingNeighbor tells the server which sign each end took.
EndsAgree == IsGraph(drawn) /\ EdgesAgree(drawn)

\* A secret comes back from any threshold of its shares, where the sum of a
\* subsecret does not pass 32 bits.  A secret of any length is packed without
\* leaving the vector (the FCP_CHECK at the end of DivideIntoSubsecrets) and
\* comes back byte for byte from RebuildFromSubsecrets, also where a byte ends a
\* subsecret exactly.
SecretsRebuilt ==
  /\ ReconstructsUnlessWrapped
  /\ part = "secret" =>
       /\ output.at # "check failed"
       /\ output.at = "rebuild" /\ output.i = 0 =>
            output.loop.parts = [i \in 1..input.length |-> Byte(input, i)]

\* The two packings of SecAggVector write the same bytes, and each of the two
\* decoders reads from them every element that was packed, at every width and
\* wherever the elements straddle bytes and blocks.
CodecsAgree ==
  part = "vector" =>
    /\ output = Pack(Span(input), input.width)
    /\ Unpack(output, input.length, input.width) = Span(input)
    /\ UnpackBranchless(output, input.length, input.width) = Span(input)

\* What a client adds with MapOfMasks, the server takes away with
\* UnpackedMapOfMasks of the same keys on the other side, though the two use
\* different arithmetic and packings: the sum is zero in every element.
MasksCancel ==
  part = "masks" =>
    LET sum == UnpackedAdd(UnpackedMapOfMasks(<<input.t>>, <<input.s>>, Specs(input)), output) IN
    \A name \in DOMAIN sum : \A i \in DOMAIN sum[name].values : sum[name].values[i] = 0

\* The graph and threshold that Create picks from the threat model fit together:
\* whichever clients are lost, as long as the minimum to proceed remains, every
\* client has a threshold of neighbors left to give its shares, and as many
\* neighbors as may be adversarial hold fewer than a threshold.
SharesFit ==
  part = "graph" /\ output.graph # "none" =>
    LET g == IF output.graph = "complete" THEN CompleteGraph(input.n)
             ELSE HararyGraph(input.n, output.degree, [i \in 0..input.n-1 |-> i])
        holders == [x \in Nodes(g) |-> {y \in Nodes(g) : AreNeighbors(g, x, y)}]
    IN  /\ \A lost \in kSubset(input.n - output.minimum, Nodes(g)), x \in Nodes(g) :
             Cardinality(holders[x] \ lost) >= output.threshold
        /\ input.class # "NONE" =>
             \A bad \in kSubset(FloorRate(input.adversarial, input.n), Nodes(g)) :
               \A x \in Nodes(g) \ bad : Cardinality(holders[x] \cap bad) < output.threshold
=============================================================================
