---------------------------- MODULE MC_Namespace ----------------------------
(* A root, three more inodes, two names. *)
EXTENDS Namespace, TLC

Symmetry == Permutations(Inodes \ {Root}) \cup Permutations(Names)
=============================================================================
