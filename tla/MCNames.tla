------------------------------ MODULE MCNames ------------------------------
(* A module with names of each kind and a name u it does not define.  The    *)
(* root file defines functions called like u and like two of them, a struct  *)
(* called like one, classes called like a struct and like a constant, and a  *)
(* native module called like the module's own.                               *)
EXTENDS Names, TLC

CONSTANTS s, t, c, f, k, al, nm, h, u

MCKind == This :> "none" @@ s :> "struct" @@ t :> "struct" @@ c :> "class" @@ f :> "function"
          @@ k :> "constant" @@ al :> "alias" @@ nm :> "native" @@ h :> "hidden"
          @@ u :> "none"
MCRootKind == [n \in Names |-> CASE n \in {u, f, c} -> "function"
                                 [] n = s -> "struct"
                                 [] n \in {t, k} -> "class"
                                 [] n = nm -> "native"
                                 [] OTHER -> "none"]
=============================================================================
