---------------------------- MODULE StringTensor ----------------------------
(***************************************************************************)
(* The content of a DT_STRING tensor in a TensorProto (tensor.cc): the     *)
(* sizes of the strings as varints, then their bytes.                      *)
(***************************************************************************)
EXTENDS Integers, Sequences, SequencesExt

\* A protobuf varint: seven bits a byte, the low ones first (external).
Varint(n) == IF n < 128 THEN <<n>> ELSE <<128 + (n % 128), n \div 128>>

\* ReadVarint64 at a position: the value and the next position, 0 if it is cut.
ReadVarint(content, pos) ==
  CASE pos > Len(content) -> [value |-> 0, next |-> 0]
    [] pos <= Len(content) /\ content[pos] < 128 -> [value |-> content[pos], next |-> pos + 1]
    [] OTHER -> IF pos = Len(content) THEN [value |-> 0, next |-> 0]
                ELSE [value |-> content[pos] - 128 + 128 * content[pos+1], next |-> pos + 2]

EncodeContent(strings) ==
  FlattenSeq([i \in DOMAIN strings |-> Varint(Len(strings[i]))]) \o FlattenSeq(strings)

\* Mutant: the strings are taken from the start of the content.
InitializeUnshifted(content, num) ==
  LET read[i \in 0..num] ==
        IF i = 0 THEN [sizes |-> <<>>, next |-> 1]
        ELSE LET v == ReadVarint(content, read[i-1].next) IN
             [sizes |-> Append(read[i-1].sizes, v.value), next |-> v.next]
      sizes == read[num].sizes
      start[i \in 1..num] == IF i = 1 THEN 1 ELSE start[i-1] + sizes[i-1]
  IN  [ok |-> TRUE, strings |-> [i \in 1..num |->
         SubSeq(content, start[i], start[i] + sizes[i] - 1)]]

\* Initialize: the sizes are read first, which tells where the strings begin;
\* then the views are shifted there.
Initialize(content, num) ==
  LET read[i \in 0..num] ==
        IF i = 0 THEN [sizes |-> <<>>, next |-> 1, ok |-> TRUE]
        ELSE LET v == ReadVarint(content, read[i-1].next) IN
             IF ~read[i-1].ok \/ v.next = 0 THEN [read[i-1] EXCEPT !.ok = FALSE]
             ELSE [sizes |-> Append(read[i-1].sizes, v.value), next |-> v.next, ok |-> TRUE]
      sizes == read[num].sizes
      start[i \in 1..num+1] ==
        IF i = 1 THEN read[num].next ELSE start[i-1] + sizes[i-1]
  IN  IF ~read[num].ok \/ Len(content) < start[num+1] - 1
      THEN [ok |-> FALSE, strings |-> <<>>]
      ELSE [ok |-> TRUE, strings |-> [i \in 1..num |->
              SubSeq(content, start[i], start[i+1] - 1)]]
=============================================================================
