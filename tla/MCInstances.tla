----------------------------- MODULE MCInstances -----------------------------
(* Every program of up to three uses over one plain class, one instance of a *)
(* generic class, one plain function and one generic instance.  In the two   *)
(* generic ones, or in the plain function, an instance that is too large may *)
(* be mentioned.                                                             *)
EXTENDS Instances

CONSTANTS P, G, main, g, large

Large == {<<"body", main>>, <<"body", g>>, <<"body", G>>} \X {<<"call", large>>}
Pairs == {p \in (TypeSites \X TypeUses) \cup (ExprSites \X Uses) : large \notin {p[1][2], p[2][2]}}
UpTo3 == {{}} \cup {{a, b, c} : a \in Pairs \cup Large, b, c \in Pairs}
=============================================================================
