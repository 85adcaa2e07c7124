----------------------------- MODULE MapOfMasks -----------------------------
(***************************************************************************)
(* The masks of SecAgg: for every vector a client adds a pseudo-random     *)
(* vector for some keys and subtracts one for others (map_of_masks.cc).    *)
(* The generator of a key is the stream of bytes that its digest seeds, a  *)
(* sequence that repeats; SHA-256 and AES are external.                    *)
(***************************************************************************)
EXTENDS Integers, Sequences, PackedVector

kMaxSampleBitsExpansion == 16

choose_better_sample_bits(modulus, bits1, bits2) ==
  LET cost(bits) == DivideRoundUp(bits, 8)
      reps(bits) == 2^bits \div modulus
  IN  IF cost(bits1) * reps(bits1) > cost(bits2) * reps(bits2) * 2^(bits2 - bits1)
      THEN bits2 ELSE bits1

compute_best_sample_bits(modulus) ==
  LET least == GetBitWidth(modulus)
      most  == Min({kMaxSampleBitsExpansion, least + kMaxSampleBitsExpansion})
      best[bits \in least..Max({least, most})] ==
        IF bits = least THEN least
        ELSE choose_better_sample_bits(modulus, best[bits-1], bits)
  IN  best[Max({least, most})]

PowerOfTwo(modulus) == 2^GetBitWidth(modulus) = modulus
SampleBits(modulus) ==
  IF PowerOfTwo(modulus) THEN GetBitWidth(modulus) ELSE compute_best_sample_bits(modulus)

\* A sample below the threshold is rejected; none is for a power of two.
RejectionThreshold(modulus) ==
  IF PowerOfTwo(modulus) THEN 0 ELSE (2^SampleBits(modulus) - modulus) % modulus

\* PrngBuffer::NextMask: the k-th sample of a stream, most significant byte
\* first, which is cut to the bits wanted of it.
NextMask(stream, k, bits) ==
  LET n == DivideRoundUp(bits, 8)
      byte(j) == stream[((k * n + j) % Len(stream)) + 1]
      output[j \in 0..n-1] ==
        IF j = 0 THEN byte(0) % 2^(bits - 8 * (n - 1)) ELSE output[j-1] * 256 + byte(j)
  IN  output[n-1]

AddMod(a, b, z) == (a + b) % z
SubtractMod(a, b, z) == ((a - b) + z) % z
AddModOpt(a, b, z) == IF a + b < z THEN a + b ELSE a + b - z

\* Mutant: the difference, whichever is larger.
SubtractModAbs(a, b, z) == IF a >= b THEN a - b ELSE b - a

\* The optimised versions are for a and b below the modulus.
SubtractModOpt(a, b, z) == IF a >= b THEN a - b ELSE z - b + a

\* The mask of one element for one key: added or subtracted, by the client with
\* AddMod and SubtractMod, by the server with the optimised versions.
Combine(a, b, z, add, optimised) ==
  CASE add /\ ~optimised  -> AddMod(a, b, z)
    [] add /\ optimised   -> AddModOpt(a, b, z)
    [] ~add /\ ~optimised -> SubtractMod(a, b, z)
    [] ~add /\ optimised  -> SubtractModOpt(a, b, z)

\* The loop over the elements for one key: a rejected sample leaves the element
\* for the next one.  The stream has a sample that is kept.
ApplyKey(buffer, stream, modulus, add, optimised) ==
  LET bits == SampleBits(modulus)
      loop[k \in 0..Len(buffer)*Len(stream)] ==
        IF k = 0 THEN [i |-> 1, v |-> buffer]
        ELSE LET l == loop[k-1]
                 mask == NextMask(stream, k - 1, bits)
             IN  IF l.i > Len(buffer) \/ mask < RejectionThreshold(modulus) THEN l
                 ELSE [i |-> l.i + 1,
                       v |-> [l.v EXCEPT ![l.i] = Combine(@, mask % modulus, modulus, add, optimised)]]
  IN  loop[Len(buffer) * Len(stream)].v

\* The masks of one vector: the keys to add, then the keys to subtract.
MasksFor(toAdd, toSubtract, s, optimised) ==
  LET added[k \in 0..Len(toAdd)] ==
        IF k = 0 THEN [i \in 1..s.length |-> 0]
        ELSE ApplyKey(added[k-1], toAdd[k], s.modulus, TRUE, optimised)
      both[k \in 0..Len(toSubtract)] ==
        IF k = 0 THEN added[Len(toAdd)]
        ELSE ApplyKey(both[k-1], toSubtract[k], s.modulus, FALSE, optimised)
  IN  both[Len(toSubtract)]

\* The client's, packed into a SecAggVector by name.  An abort is polled before
\* each vector, before each key and after the last.
Polls(toAdd, toSubtract, specs) == Cardinality(specs) * (2 + Len(toAdd) + Len(toSubtract))
SpecNamed(specs, name) == CHOOSE s \in specs : s.name = name
MapOfMasks(toAdd, toSubtract, specs, unsignalled) ==
  IF unsignalled < Polls(toAdd, toSubtract, specs) THEN <<>>
  ELSE [name \in {s.name : s \in specs} |->
          LET s == SpecNamed(specs, name)
              w == GetBitWidth(s.modulus)
              masks == MasksFor(toAdd, toSubtract, s, FALSE)
          IN  [modulus |-> s.modulus, length |-> s.length,
               bytes |-> Pack([i \in 1..s.length |-> Word(masks[i], w)], w)]]

\* The server's, a SecAggUnpackedVector by name, and the sum of such maps.
UnpackedMapOfMasks(toAdd, toSubtract, specs) ==
  [name \in {s.name : s \in specs} |->
     [modulus |-> SpecNamed(specs, name).modulus,
      values |-> MasksFor(toAdd, toSubtract, SpecNamed(specs, name), TRUE)]]
UnpackedAddMaps(a, b) ==
  [name \in DOMAIN a |->
     [a[name] EXCEPT !.values = [j \in DOMAIN @ |-> AddModOpt(@[j], b[name].values[j], a[name].modulus)]]]

\* SecAggUnpackedVectorMap::Add: a packed map, decoded, is added to one.
Values(v) ==
  LET words == UnpackBranchless(v.bytes, v.length, GetBitWidth(v.modulus)) IN
  [i \in 1..v.length |-> LET x == Number(words[i]) IN
     IF x < v.modulus THEN x ELSE x - v.modulus]
UnpackedAdd(a, packed) ==
  UnpackedAddMaps(a, [name \in DOMAIN packed |-> [modulus |-> packed[name].modulus,
                                                  values |-> Values(packed[name])]])
=============================================================================
