--------------------------- MODULE MCSecAggServer ---------------------------
(* Models of SecAggServer for TLC. *)
EXTENDS SecAggServer

Complete3 == CompleteGraph(3)
\* The smallest ring in which a client has a stranger.
Ring4 == HararyGraph(4, 3, [i \in 0..3 |-> i])
=============================================================================
