------------------------------- MODULE Shamir -------------------------------
(***************************************************************************)
(* ShamirSecretSharing (secagg/shared/shamir_secret_sharing.cc): one       *)
(* object shares secrets and reconstructs them from any threshold of their *)
(* shares, keeping the inverses and the last Lagrange coefficients it      *)
(* computed.  The field is that of a small prime above 2^kBitsPerSubsecret;*)
(* sums are taken in words of WordBits bits, as in the code.               *)
(***************************************************************************)
EXTENDS Integers, Sequences, Subsecrets

CONSTANTS
  kPrime,        \* 2^31 + 11 in the code
  WordBits,      \* 32 in the code
  Secrets,       \* the byte strings shared
  Coefficients,  \* what RandomFieldElement may return
  NumShares, MaxDealt

ASSUME PrimeFitsWord ==
  /\ 2^kBitsPerSubsecret < kPrime /\ kPrime <= 2^WordBits
  /\ Coefficients \subseteq 0..kPrime-1
  /\ NumShares \in Nat /\ 2 <= NumShares /\ NumShares < kPrime
  /\ MaxDealt \in Nat

VARIABLES
  dealt,     \* the secrets shared so far, with their thresholds and shares
  inverses,  \* inverses_
  lcInput,   \* last_lc_input_
  lcOutput,  \* last_lc_output_
  answer     \* of the last Reconstruct
shamirVars == <<dealt, inverses, lcInput, lcOutput, answer>>

NoAnswer == [of |-> 0, got |-> <<>>, enough |-> FALSE, wrapped |-> FALSE]

ShamirInit ==
  /\ dealt = <<>> /\ inverses = <<>>
  /\ lcInput = <<>> /\ lcOutput = <<>> /\ answer = NoAnswer

MultiplyMod(a, b) == (a * b) % kPrime

EvaluatePolynomial(polynomial, x) ==
  LET sum[i \in 1..Len(polynomial)] ==
        IF i = Len(polynomial) THEN polynomial[i] % kPrime
        ELSE (polynomial[i] + sum[i+1] * x) % kPrime
  IN  sum[1]

\* Share: one polynomial for each subsecret; the share of client i is its
\* values at i + 1.
Share(threshold, secret) ==
  LET subsecrets == DivideIntoSubsecrets(secret) IN
  /\ Len(dealt) < MaxDealt
  /\ \E random \in [DOMAIN subsecrets -> [1..threshold-1 -> Coefficients]] :
       dealt' = Append(dealt,
         [secret |-> secret, threshold |-> threshold,
          shares |-> [x \in 1..NumShares |->
            [p \in DOMAIN subsecrets |->
               EvaluatePolynomial(<<Number(subsecrets[p])>> \o random[p], x)]]])
  /\ UNCHANGED <<inverses, lcInput, lcOutput, answer>>

\* ModPow, and the cache of ModInverse, which grows up to n.
ModPow[x \in 0..kPrime-1, y \in 0..kPrime-2] ==
  IF y = 0 THEN 1
  ELSE LET p == ModPow[x, y \div 2] IN
       IF y % 2 = 0 THEN MultiplyMod(p, p) ELSE MultiplyMod(x, MultiplyMod(p, p))

Inverses(n) ==
  IF n <= Len(inverses) THEN inverses
  ELSE inverses \o [i \in 1..n-Len(inverses) |-> ModPow[Len(inverses) + i, kPrime - 2]]

\* The coefficient of the i-th x: the product of x_j / (x_j - x_i), a negative
\* difference being turned by -1.
Lagrange(xs, inv) ==
  [i \in DOMAIN xs |->
     LET product[j \in 0..Len(xs)] ==
           CASE j = 0 -> 1
             [] j = i -> product[j-1]
             [] j # 0 /\ j # i /\ xs[j] > xs[i] ->
                  MultiplyMod(MultiplyMod(product[j-1], xs[j]), inv[xs[j] - xs[i]])
             [] OTHER ->
                  MultiplyMod(MultiplyMod(MultiplyMod(product[j-1], xs[j]), kPrime - 1),
                              inv[xs[i] - xs[j]])
     IN  product[Len(xs)]]

\* Mutant: the cache is taken for any set of shares of the same size.
LagrangeCoefficientsBySize(xs) ==
  IF Len(xs) = Len(lcInput) THEN UNCHANGED <<inverses, lcInput, lcOutput>>
  ELSE /\ inverses' = Inverses(xs[Len(xs)] - xs[1])
       /\ lcInput' = xs /\ lcOutput' = Lagrange(xs, inverses')

\* LagrangeCoefficients: the last result is kept.  The x-values ascend, so the
\* first and the last are furthest apart.
LagrangeCoefficients(xs) ==
  IF xs = lcInput THEN UNCHANGED <<inverses, lcInput, lcOutput>>
  ELSE /\ inverses' = Inverses(xs[Len(xs)] - xs[1])
       /\ lcInput' = xs /\ lcOutput' = Lagrange(xs, inverses')

\* The sum of one subsecret, in words of WordBits bits, and the partial sums
\* that do not fit one.
Terms(shares, xs, p) == [j \in DOMAIN xs |-> MultiplyMod(shares[xs[j]][p], lcOutput'[j])]
Sums(shares, xs, p) ==
  LET sum[j \in 0..Len(xs)] ==
        IF j = 0 THEN 0
        ELSE ((sum[j-1] + Terms(shares, xs, p)[j]) % 2^WordBits) % kPrime
  IN  sum
Wraps(shares, xs, p) ==
  \E j \in DOMAIN xs :
    Sums(shares, xs, p)[j-1] + Terms(shares, xs, p)[j] >= 2^WordBits

\* Reconstruct from the shares that arrived: the first threshold of them are
\* used, and fewer are a FAILED_PRECONDITION.
Reconstruct(d, arrived) ==
  LET t  == dealt[d].threshold
      xs == SubSeq(SetToSortSeq(arrived, <), 1, t)
      n  == Len(dealt[d].shares[1])
  IN  IF Cardinality(arrived) < t
      THEN /\ answer' = [of |-> d, got |-> <<>>, enough |-> FALSE, wrapped |-> FALSE]
           /\ UNCHANGED <<inverses, lcInput, lcOutput, dealt>>
      ELSE /\ LagrangeCoefficients(xs)
           /\ answer' =
                [of |-> d, enough |-> TRUE,
                 got |-> RebuildFromSubsecrets(
                   [p \in 1..n |-> Word(Sums(dealt[d].shares, xs, p)[t], WordBits)],
                   Len(dealt[d].secret)),
                 wrapped |-> \E p \in 1..n : Wraps(dealt[d].shares, xs, p)]
           /\ UNCHANGED dealt

ShamirNext ==
  \/ \E t \in 2..NumShares, s \in Secrets : Share(t, s)
  \/ \E d \in DOMAIN dealt, arrived \in SUBSET (1..NumShares) : Reconstruct(d, arrived)

ShamirSpec == ShamirInit /\ [][ShamirNext]_shamirVars

\* Any threshold of the shares give the secret back, whatever the object
\* computed and cached before, unless a partial sum left the word.
ReconstructsUnlessWrapped ==
  answer.enough /\ ~answer.wrapped => answer.got = dealt[answer.of].secret

\* Any threshold of the shares give the secret back (the comment of Reconstruct
\* in shamir_secret_sharing.h).
Reconstructs ==
  answer.enough => answer.got = dealt[answer.of].secret
=============================================================================
