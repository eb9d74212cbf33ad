--------------------------- MODULE MCAgentMetrics ---------------------------
(***************************************************************************)
(* Instances of AgentMetrics for TLC: nodes are interchangeable, and so    *)
(* are objects, where every specification names one of them.               *)
(***************************************************************************)
EXTENDS AgentMetrics, TLC

Symmetry == Permutations(Nodes) \cup Permutations(Objects)
=============================================================================
