----------------------------- MODULE MC_Journal -----------------------------
(* Instances of Journal for TLC. *)
EXTENDS Journal, TLC
=============================================================================
