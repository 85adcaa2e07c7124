--------------------------- MODULE MCSecAggSession ---------------------------
(* Models of SecAggSession for TLC. *)
EXTENDS SecAggSession

Complete3 == CompleteGraph(3)
Ring4 == HararyGraph(4, 3, [i \in 0..3 |-> i])
=============================================================================
