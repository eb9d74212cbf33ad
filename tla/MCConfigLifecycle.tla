------------------------ MODULE MCConfigLifecycle ------------------------
(***************************************************************************)
(* Instances of ConfigLifecycle for TLC: nodes are interchangeable.        *)
(***************************************************************************)
EXTENDS ConfigLifecycle, TLC

Symmetry == Permutations(Nodes)
=============================================================================
