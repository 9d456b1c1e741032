----------------------------- MODULE MCVersions -----------------------------
EXTENDS Versions, TLC

Symmetry == Permutations(Procs) \cup Permutations(Names)
=============================================================================
