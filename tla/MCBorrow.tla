------------------------------ MODULE MCBorrow ------------------------------
(* Small instances of Borrow for TLC. *)
EXTENDS Borrow, TLC

\* Fields are interchangeable, and so are the names of references: no action
\* and no property names one of them.
Symmetry == Permutations(Fields) \cup Permutations(Refs)
=============================================================================
