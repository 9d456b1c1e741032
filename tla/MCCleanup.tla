----------------------------- MODULE MCCleanup -----------------------------
(* Cleanup for TLC: names and objects are interchangeable. *)
EXTENDS Cleanup, TLC

Symmetry == Permutations(Names) \cup Permutations(Objects)
=============================================================================
