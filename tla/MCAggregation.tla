---------------------------- MODULE MCAggregation ----------------------------
(***************************************************************************)
(* SimpleAggregationProtocol with its clients, the grouping and summing    *)
(* aggregators below it, and the content of string tensors.  Which of them *)
(* a behavior is about is chosen at the start.                             *)
(***************************************************************************)
EXTENDS SimpleAggregation, AggregationCore, StringTensor

VARIABLES part,    \* "protocol", "core" or "strings"
          strings  \* of a tensor

\* Keys that share a column with another each.
SmallKeys == {<<1, "s">>, <<1, "t">>, <<2, "s">>}

\* Strings of no, one and several bytes, and one whose size takes two bytes.
SmallStrings == {<<>>, <<1>>, <<200, 3>>, [i \in 1..130 |-> i % 7]}

allParts == <<vars, coreVars, strings, part>>

AggregationInit ==
  /\ part \in {"protocol", "core", "strings"}
  /\ Init /\ CoreInit
  /\ strings \in IF part = "strings" THEN UNION {[1..n -> SmallStrings] : n \in 0..3} ELSE {<<>>}

ProtocolPart(A) == part = "protocol" /\ A /\ UNCHANGED <<coreVars, strings, part>>
CorePart(A)     == part = "core" /\ A /\ UNCHANGED <<vars, strings, part>>

AggregationNext == ProtocolPart(Next) \/ CorePart(CoreNext)

AggregationSpec ==
  /\ AggregationInit /\ [][AggregationNext]_allParts
  /\ \A c \in Clients : /\ WF_allParts(ProtocolPart(Receive(c)))
                        /\ WF_allParts(ProtocolPart(OnCloseClient(c)))
  /\ WF_allParts(ProtocolPart(OnAcceptClients)) /\ WF_allParts(ProtocolPart(OnComplete))

\* The content that ToProto writes for a tensor of strings gives the strings back
\* in FromProto, empty and long ones included, and no proper prefix of it is
\* taken for a tensor of as many strings.
StringsKept ==
  LET content == EncodeContent(strings) IN
  /\ Initialize(content, Len(strings)) = [ok |-> TRUE, strings |-> strings]
  /\ \A k \in 0..(Len(content) - 1) : ~Initialize(SubSeq(content, 1, k), Len(strings)).ok
=============================================================================
