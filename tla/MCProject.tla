----------------------------- MODULE MCProject -----------------------------
(* A project over two sources.  The package in s1 lists b in s2, or nothing;  *)
(* the one in s2 lists nothing and has three contents, in two versions.  With *)
(* a and b each in s1 or s2, two packages are independent, a chain, a cycle,  *)
(* or in conflict over b, and may be equal.                                   *)
EXTENDS Project, FiniteSets, TLC

CONSTANTS a, b, s1, s2, c1, c2, c3, c4

Lists(x, s) == [y \in Aliases |-> IF y = x THEN s ELSE None]

MCRequires == c1 :> Lists(b, s2) @@ c2 :> Lists(None, None) @@ c3 :> Lists(None, None)
                 @@ c4 :> Lists(None, None)
MCIdentity == c1 :> "1.0" @@ c2 :> "1.0" @@ c3 :> "1.0" @@ c4 :> "1.1"
MCVersions == s1 :> {c1, c2} @@ s2 :> {c2, c3, c4}
\* The manifest and the lock differ in one dependency at most.  Two processes run
\* at a time only while a in s2 is the one dependency in play; there are line
\* endings with CR, and a second version of the package in s2, only then and with
\* one process.
OneEdit == lock # None => Cardinality({x \in Aliases : manifest[x] # lock.manifest[x]}) <= 1
OneDependency ==
  /\ manifest[b] = None /\ manifest[a] # s1
  /\ lock # None => lock.packages[b] = None
  /\ \A p \in Procs : \A i \in DOMAIN stack[p] : stack[p][i].deps[b] = None
OneCommand == Cardinality({p \in Procs : pc[p] # "idle"}) <= 1
Windows == crlf \/ (lock # None /\ lock.crlf)
Upgrade == content[s2] = c4 \/ cache[c4] # None
Slice ==
  /\ OneEdit
  /\ OneDependency \/ OneCommand
  /\ Windows \/ Upgrade => OneDependency /\ OneCommand

Symmetry == Permutations(Procs)
=============================================================================
