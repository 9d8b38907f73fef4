----------------------------- MODULE MCHostAbi -----------------------------
(* HostAbi on small sets of objects, told apart only by name. *)
EXTENDS HostAbi, TLC

Symmetry == Permutations(Modules) \cup Permutations(Instances) \cup Permutations(Names)
=============================================================================
