------------------------------ MODULE MCLoader ------------------------------
(***************************************************************************)
(* Instances of Loader.  Two families of programs: files of one project    *)
(* with every shape of import graph, and packages with every choice of     *)
(* declared dependencies.                                                  *)
(***************************************************************************)
EXTENDS Loader, TLC

CONSTANTS main, a, b, p, q, s, x, y

MCOwner == main :> "app" @@ a :> "app" @@ b :> "app" @@ p :> "P" @@ q :> "Q" @@ s :> "std"

\* An import of a file by another names the root its owner is found under.
Item(alias, f) ==
    [alias |-> alias, target |-> f,
     via |-> CASE MCOwner[f] = "app" -> "crate" [] MCOwner[f] = "std" -> "std"
               [] OTHER -> "package"]

\* No import, one, or two; the alias of the second is another one or, in the
\* root, the same.
Upto1(fs) == {<<>>} \cup {<<Item(x, f)>> : f \in fs}
Upto2(fs, second) == Upto1(fs) \cup {<<Item(x, f), Item(al, g)>> : f \in fs, g \in fs, al \in second}

Imports(im, ia, ib, ip, iq) ==
    main :> im @@ a :> ia @@ b :> ib @@ p :> ip @@ q :> iq @@ s :> <<>>

Declares(app, dp, dq) == "app" :> app @@ "P" :> dp @@ "Q" :> dq @@ "std" :> {}

NativeIn(f, kind) == [g \in Files |-> IF g = f THEN kind ELSE "none"]

\* One project: two files beside the root, one package below them.
Project1 ==
    {[imports |-> Imports(im, ia, ib, <<>>, <<>>), declares |-> Declares({"P"}, {}, {}),
      exists |-> ex, native |-> NativeIn(b, kind)] :
        im \in Upto2({main, a, b}, {x, y}), ia \in Upto2({b, p, main}, {y}), ib \in Upto1({a, p}),
        ex \in {Files, Files \ {b}}, kind \in {"none", "module", "legacy"}}

\* Two packages that use each other, the standard library, or the project.
Packages ==
    {[imports |-> Imports(im, <<>>, <<>>, ip, iq), declares |-> Declares(app, dp, dq),
      exists |-> Files, native |-> NativeIn(q, "legacy")] :
        im \in Upto2({p, q}, {y}), ip \in Upto2({q, s, a}, {y}), iq \in Upto1({p, s}),
        app \in SUBSET {"P", "Q"}, dp \in {{}, {"Q"}}, dq \in {{}, {"P"}}}

MCPrograms == Project1 \cup Packages
=============================================================================
