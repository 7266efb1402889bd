-------------------------- MODULE MCProjectMembers --------------------------
(* Instances of ProjectMembers for TLC. *)
EXTENDS ProjectMembers, TLC

Symmetry == Permutations(Call)
=============================================================================
