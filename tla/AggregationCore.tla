--------------------------- MODULE AggregationCore ---------------------------
(***************************************************************************)
(* Tensor aggregators (aggregation/core): two aggregators of one kind take *)
(* inputs, are merged and report.  Kind "sum" is FederatedSum, which adds  *)
(* tensors of one shape.  Kind "group" is a OneDimGroupingAggregator whose *)
(* inputs are ordinals, given to the rows' composite keys by a             *)
(* CompositeKeyCombiner, and values.                                       *)
(***************************************************************************)
EXTENDS Integers, Sequences, SequencesExt, FiniteSetsExt

CONSTANTS
  Keys,       \* the composite keys of rows: a number and a string
  TensorValues,
  Rows,       \* the most rows of an input
  MaxInputs   \* the most calls of Accumulate

ASSUME RowsPositive == Rows \in Nat \ {0} /\ MaxInputs \in Nat

VARIABLES
  aggKind,     \* "sum" or "group"
  internPool,  \* intern_pool_; the address of a string is its place
  keyVec,      \* key_vec_: the data of the composite keys, in the order of their ordinals
  agg,         \* the aggregators: their data and number of inputs; consumed ones are not valid
  taken,       \* what each has accumulated or merged: a sequence of inputs
  given,       \* the calls of Accumulate so far
  reports      \* the outputs of Report, with what they were made of

combinerVars == <<internPool, keyVec>>
groupingVars == <<agg, taken, reports>>
coreVars == <<aggKind, combinerVars, groupingVars, given>>

Aggregators == {"a", "b"}
Row == [key : Keys, value : TensorValues]
Inputs == UNION {[1..n -> Row] : n \in 1..Rows}

CoreInit ==
  /\ aggKind \in {"sum", "group"}
  /\ internPool = <<>> /\ keyVec = <<>> /\ given = 0 /\ reports = {}
  /\ agg = [a \in Aggregators |->
              [valid |-> TRUE, inputs |-> 0,
               data |-> IF aggKind = "sum" THEN [i \in 1..Rows |-> 0] ELSE <<>>]]
  /\ taken = [a \in Aggregators |-> <<>>]

-----------------------------------------------------------------------------
(* CompositeKeyCombiner.                                                   *)

Place(s, x) == CHOOSE i \in DOMAIN s : s[i] = x
WithElement(s, x) == IF x \in ToSet(s) THEN s ELSE Append(s, x)

\* CopyToDest: a number is copied as it is, a string is interned and stands as
\* its address.
CopyToDest(pool, key) == <<key[1], Place(pool, key[2])>>

\* Accumulate: a new key takes the next ordinal.
WithKeys(c, rows) ==
  FoldLeft(LAMBDA d, r :
             LET pool == WithElement(d.pool, r.key[2]) IN
             [pool |-> pool, keys |-> WithElement(d.keys, CopyToDest(pool, r.key))], c, rows)
Ordinals(c, rows) == [r \in DOMAIN rows |-> Place(c.keys, CopyToDest(c.pool, rows[r].key))]

\* GetOutputKeys: a tensor for each column, read back from the data of the keys.
GetTensorForType(j) ==
  [i \in DOMAIN keyVec |-> IF j = 1 THEN keyVec[i][1] ELSE internPool[keyVec[i][2]]]
GetOutputKeys == IF keyVec = <<>> THEN <<>> ELSE <<GetTensorForType(1), GetTensorForType(2)>>

-----------------------------------------------------------------------------
(* The aggregators.                                                        *)

\* resize, with the default value of a sum.
Resize(data, n) == [i \in 1..n |-> IF i <= Len(data) THEN data[i] ELSE 0]

\* AggregateVector of a sum: each value at its index.
AggregateVector(data, vector) ==
  [i \in DOMAIN data |-> IF i <= Len(vector) THEN data[i] + vector[i] ELSE data[i]]

\* Mutant: the data is resized to the last ordinal of the input only.
AggregateByOrdinalsLast(data, ordinals, values) ==
  LET n == Max(ToSet(ordinals)) IN
  [i \in 1..n |-> Resize(data, n)[i] +
     MapThenSumSet(LAMBDA r : values[r], {r \in DOMAIN ordinals : ordinals[r] = i})]

\* AggregateTensors of the grouping aggregator.
AggregateByOrdinals(data, ordinals, values) ==
  LET n == Max({Len(data)} \cup ToSet(ordinals)) IN
  [i \in 1..n |-> Resize(data, n)[i] +
     MapThenSumSet(LAMBDA r : values[r], {r \in DOMAIN ordinals : ordinals[r] = i})]

\* The combiner first: keys that are not valid stop there.
CombineKeys(rows, fault) ==
  LET c == WithKeys([pool |-> internPool, keys |-> keyVec], rows) IN
  IF aggKind = "sum" \/ fault = "keys" THEN UNCHANGED combinerVars
  ELSE internPool' = c.pool /\ keyVec' = c.keys

\* Accumulate of TensorAggregator.  What it refuses, because the tensors do not
\* fit or the aggregator was consumed, has left its new keys behind.
Accumulate(a, rows, fault) ==
  LET values == [r \in DOMAIN rows |-> rows[r].value]
      ok == /\ fault = "none" /\ agg[a].valid
            /\ aggKind = "sum" => Len(rows) = Rows
  IN  /\ given < MaxInputs /\ given' = given + 1
      /\ CombineKeys(rows, fault)
      /\ IF ok
         THEN /\ agg' = [agg EXCEPT ![a].inputs = @ + 1,
                   ![a].data = IF aggKind = "sum" THEN AggregateVector(@, values)
                               ELSE AggregateByOrdinals(@,
                                      Ordinals([pool |-> internPool', keys |-> keyVec'], rows), values)]
              /\ taken' = [taken EXCEPT ![a] = Append(@, rows)]
         ELSE UNCHANGED <<agg, taken>>
      /\ UNCHANGED <<aggKind, reports>>

\* TakeOutputs consumes an aggregator.
TakeOutputs(x) == [x EXCEPT !.valid = FALSE, !.data = <<>>]

\* MergeWith: the other is consumed and its positions are added.  A grouping
\* aggregator grows to the size of the other.
MergeWith(a, b) ==
  LET n == Max({Len(agg[a].data), Len(agg[b].data)}) IN
  /\ agg[a].valid /\ agg[b].valid
  /\ agg' = [agg EXCEPT
       ![a].inputs = @ + agg[b].inputs,
       ![a].data = AggregateVector(Resize(@, n), agg[b].data),
       ![b] = TakeOutputs(@)]
  /\ taken' = [taken EXCEPT ![a] = @ \o taken[b], ![b] = <<>>]
  /\ UNCHANGED <<aggKind, combinerVars, given, reports>>

\* Report, and GetOutputKeys for the keys the positions stand for.
Report(a) ==
  /\ agg[a].valid
  /\ reports' = reports \cup {[data |-> agg[a].data, inputs |-> agg[a].inputs,
                               keys |-> GetOutputKeys, of |-> taken[a]]}
  /\ agg' = [agg EXCEPT ![a] = TakeOutputs(@)]
  /\ taken' = [taken EXCEPT ![a] = <<>>]
  /\ UNCHANGED <<aggKind, combinerVars, given>>

CoreNext ==
  \/ \E a \in Aggregators, rows \in Inputs, fault \in {"none", "keys", "values"} :
       Accumulate(a, rows, fault)
  \/ MergeWith("a", "b")
  \/ \E a \in Aggregators : Report(a)

CoreSpec == CoreInit /\ [][CoreNext]_coreVars

\* The sum of the values of the rows that hold at place i of an input.
Total(inputs, At(_, _)) ==
  FoldLeft(LAMBDA sum, rows :
             sum + MapThenSumSet(LAMBDA r : rows[r].value, {r \in DOMAIN rows : At(rows, r)}),
           0, inputs)

\* Every report is the sum, by key or by position, of the inputs that were
\* accepted by the aggregator or by the ones merged into it, and counts them:
\* keys first seen by the other aggregator, by a refused input or after a merge
\* move nothing.
ReportsRight ==
  \A r \in reports :
    LET Key(i) == <<r.keys[1][i], r.keys[2][i]>> IN
    /\ r.inputs = Len(r.of)
    /\ \A i \in DOMAIN r.data : r.data[i] =
         Total(r.of, LAMBDA rows, j : IF aggKind = "sum" THEN j = i ELSE rows[j].key = Key(i))
    /\ aggKind = "group" => \A n \in DOMAIN r.of, j \in 1..Rows :
         j \in DOMAIN r.of[n] => \E i \in DOMAIN r.data : Key(i) = r.of[n][j].key
=============================================================================
