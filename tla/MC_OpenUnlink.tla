--------------------------- MODULE MC_OpenUnlink ---------------------------
(***************************************************************************)
(* Model-checking instances of OpenUnlink.  Inodes and calls are           *)
(* interchangeable: nothing in the specification orders them.              *)
(***************************************************************************)
EXTENDS OpenUnlink, TLC

Symmetry == Permutations(Inodes) \cup Permutations(Calls)
=============================================================================
