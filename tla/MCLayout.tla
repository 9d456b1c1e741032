------------------------------ MODULE MCLayout ------------------------------
(* Two structs and a class with up to three fields among them, of a dozen   *)
(* types; the functions use three more.                                     *)
EXTENDS Layout

T(kind, name, args) == [kind |-> kind, name |-> name, args |-> args]

i32 == T("prim", "i32", <<>>)
S == T("struct", "S", <<>>)
U == T("struct", "U", <<>>)
C == T("class", "C", <<>>)
ListOf(t) == T("list", "List", <<t>>)
BoxOf(t) == T("box", "Box", <<t>>)
Opt(t) == T("optional", "", <<t>>)
Pair(t, u) == T("tuple", "", <<t, u>>)
Triple(t, u, v) == T("tuple", "", <<t, u, v>>)
Fn(t, u) == T("fn", "", <<t, u>>)

FieldTypes == {i32, S, U, C, ListOf(S), BoxOf(U), Opt(U), Opt(ListOf(C)), Pair(S, i32),
               ListOf(Opt(U)), Fn(Fn(S, i32), U)}
\* The names of these are one; only the second has something behind a tuple.
Late == Pair(i32, Opt(Triple(S, i32, U)))
Early == Triple(i32, Opt(Pair(S, i32)), U)
MCTypes == FieldTypes \cup {ListOf(C), Fn(S, i32), Pair(ListOf(S), i32), Late, Opt(Triple(S, i32, U)),
                            Triple(S, i32, U), Early, Opt(Pair(S, i32))}
MCStructs == <<S, U>>
MCClasses == <<C>>
MCBodyTypes == <<Pair(ListOf(S), i32), Late, Early>>

Of(n) == UNION {[1..k -> FieldTypes] : k \in 0..n}
MCPrograms == {f \in [{S, U, C} -> Of(2)] : Len(f[C]) <= 1 /\ Len(f[S]) + Len(f[U]) <= 3}
=============================================================================
