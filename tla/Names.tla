-------------------------------- MODULE Names --------------------------------
(***************************************************************************)
(* What a name in a module means.  An imported module is renamed before it *)
(* is analysed: namespace_program (modules.py) walks its text with a set   *)
(* of shadowed names and qualifies what the module itself defines.  Later  *)
(* the analysis (semantic.py) walks the renamed text with its own scopes   *)
(* and looks names up.  The file the compiler is started on is not         *)
(* renamed.  Here both walks go over one definition side by side; at each  *)
(* point of it every name may occur in every form.                         *)
(***************************************************************************)
EXTENDS Naturals, Sequences, FiniteSets, SequencesExt

CONSTANTS Names,     \* identifiers
          This,      \* `this`
          Kind,      \* Kind[n]: what the module binds n to at its top level
          RootKind,  \* RootKind[n]: what the file the compiler was started on does
          MaxDepth,  \* bound on the nesting of scopes
          MaxLocals  \* bound on the names of locals in scope

\* A native name is the namespace of a `native module`: what it stands for is in
\* the tables under native::name.
Kinds == {"struct", "class", "function", "constant", "alias", "native", "hidden", "none"}
Types == {"struct", "class"}

ASSUME KindsAssumption == /\ Kind \in [Names -> Kinds] /\ RootKind \in [Names -> Kinds]
                          /\ This \in Names /\ Kind[This] = "none" /\ RootKind[This] = "none"
ASSUME BoundsAssumption == MaxDepth \in Nat /\ MaxLocals \in Nat

VARIABLES place,       \* "outside" a definition, in a "default" value, or in a "body"
          owner,       \* the form of the definition
          params,      \* the names of its parameters and its receiver
          typeParams,  \* its generic parameters
          shadowed,    \* the renamer: shadowed_names, one set per open block
          scopes       \* the analysis: the locals declared in each open scope

walkVars == <<place, owner, params, typeParams, shadowed, scopes>>

Owners == {"function", "method", "static", "deinit"}
Locals == UNION ToSet(scopes)
Shadow == Last(shadowed)
Outermost == Len(scopes) = 1

WalkInit ==
    /\ place = "outside"
    /\ owner = "function"
    /\ params = {}
    /\ typeParams = {}
    /\ shadowed = <<{}>>
    /\ scopes = <<{}>>

-----------------------------------------------------------------------------
(* The two walks *)

\* The names that shadow while the parameters and the body of a definition are
\* renamed: its parameters and its receiver, `this` in every class member.
ShadowedBy(o, ps) == IF o \in {"method", "static", "deinit"} THEN ps \cup {This} ELSE ps

\* A definition begins.  The values its parameters default to are renamed with
\* the parameters shadowed, and analysed where no local is in scope yet.
BeginDefinition(o, ps, ts) ==
    /\ place = "outside"
    /\ o = "method" => This \in ps
    /\ o \in {"static", "deinit"} => This \notin ps
    /\ o = "deinit" => ps = {}
    /\ place' = "default"
    /\ owner' = o
    /\ params' = ps
    /\ typeParams' = ts
    /\ shadowed' = <<ShadowedBy(o, ps)>>
    /\ scopes' = <<{}>>

\* Its body begins: receiver and parameters are locals.
BeginBody ==
    /\ place = "default"
    /\ place' = "body"
    /\ scopes' = <<IF owner = "deinit" THEN {This} ELSE params>>
    /\ UNCHANGED <<owner, params, typeParams, shadowed>>

\* A scope opens that brings the names ns with it.
Enter(ns) ==
    /\ place = "body"
    /\ Len(scopes) <= MaxDepth
    /\ Cardinality(Locals \cup ns) <= MaxLocals
    /\ scopes' = Append(scopes, ns)
    /\ shadowed' = Append(shadowed, Shadow \cup ns)
    /\ UNCHANGED <<place, owner, params, typeParams>>

\* The blocks of if, else and while; the one of if-let, which names the value; the
\* handler of catch, which names the error; and the body of a closure, in which
\* the locals around it stay visible, as captures.
Block == Enter({})
IfLet(n) == Enter({n})
Catch(n) == Enter({n})
Closure(ns) == Enter(ns)

\* Faulty variant of the renamer: the names of a block stay when it is closed.
LeaveLeaking ==
    /\ place = "body"
    /\ ~Outermost
    /\ scopes' = Front(scopes)
    /\ shadowed' = [Front(shadowed) EXCEPT ![Len(shadowed) - 1] = Shadow]
    /\ UNCHANGED <<place, owner, params, typeParams>>

Leave ==
    /\ place = "body"
    /\ ~Outermost
    /\ scopes' = Front(scopes)
    /\ shadowed' = Front(shadowed)
    /\ UNCHANGED <<place, owner, params, typeParams>>

\* let: the value has been walked over, the names come into scope.
Let(ns) ==
    /\ place = "body"
    /\ ns \cap Last(scopes) = {}
    /\ Cardinality(Locals \cup ns) <= MaxLocals
    /\ scopes' = [scopes EXCEPT ![Len(scopes)] = @ \cup ns]
    /\ shadowed' = [shadowed EXCEPT ![Len(shadowed)] = @ \cup ns]
    /\ UNCHANGED <<place, owner, params, typeParams>>

\* The definition ends; that of a native function has no body.
EndDefinition ==
    /\ (place = "body" /\ Outermost) \/ (place = "default" /\ owner = "function")
    /\ place' = "outside"
    /\ owner' = "function"
    /\ params' = {}
    /\ typeParams' = {}
    /\ shadowed' = <<{}>>
    /\ scopes' = <<{}>>

\* Names a program can give to a local; the hidden ones are the compiler's own.
Givable == {n \in Names \ {This} : Kind[n] # "hidden"}
Small == {ns \in SUBSET Givable : Cardinality(ns) <= MaxLocals}

WalkNext ==
    \/ \E o \in Owners, ps \in Small, t \in Givable : \E ts \in {{}, {t}}, receiver \in {{}, {This}} :
           BeginDefinition(o, ps \cup receiver, ts)
    \/ BeginBody
    \/ Block
    \/ \E n \in Givable : IfLet(n) \/ Catch(n)
    \/ \E ns \in Small : Closure(ns) \/ (ns # {} /\ Let(ns))
    \/ Leave
    \/ EndDefinition

WalkSpec == WalkInit /\ [][WalkNext]_walkVars

-----------------------------------------------------------------------------
(* The forms in which a name n occurs:                                     *)
(*   value     n                    callee   n(...)                        *)
(*   path      n::m, n::m(...)      apply    n<T>(...), n<T>::m(...)       *)
(*   type      n as a type          literal  n { ... }                     *)

Forms == {"value", "callee", "path", "apply", "type", "literal"}

\* Faulty variant: a local with the name of a function does not shadow it.
QualifiedCallee(f, n) ==
    \/ Kind[n] = "alias"
    \/ f \in {"type", "literal"} /\ Kind[n] \in Types
    \/ f \in {"value", "apply", "callee"} /\ Kind[n] \in Types \cup {"function", "constant"}
                                          /\ (n \notin Shadow \/ f = "callee")
    \/ f = "path" /\ Kind[n] \in Types \cup {"native"} /\ n \notin Shadow

\* Whether the renamer puts the module's namespace before n: an import alias
\* always, a type in the place of a type always, else what the module defines
\* and no local shadows; in a path that is a type or the namespace of a native
\* module.  Names of hidden definitions stay as they are.
Qualified(f, n) ==
    \/ Kind[n] = "alias"
    \/ f \in {"type", "literal"} /\ Kind[n] \in Types
    \/ f \in {"value", "apply", "callee"} /\ Kind[n] \in Types \cup {"function", "constant"}
                                          /\ n \notin Shadow
    \/ f = "path" /\ Kind[n] \in Types \cup {"native"} /\ n \notin Shadow

Nothing == [of |-> "nobody", kind |-> "none"]
Local == [of |-> "local", kind |-> "none"]
Own(n) == IF Kind[n] = "none" THEN Nothing ELSE [of |-> "own", kind |-> Kind[n]]
OfRoot(n) == IF RootKind[n] = "none" THEN Nothing ELSE [of |-> "root", kind |-> RootKind[n]]

\* The definition a name leads to in the tables of the analysis, when the module
\* is the root and when it is imported, where a bare name is one of the root's.
AsRootDefinition(n) == Own(n)
ImportedDefinition(f, n) ==
    IF Qualified(f, n) \/ Kind[n] = "hidden" THEN Own(n) ELSE OfRoot(n)

\* What an occurrence means, where d is the definition of that name, local says
\* whether it is the name of a local and var whether it is that of a type
\* parameter.  A name that is read, or called: a class comes before a local only
\* in a call.
Defined(d, kinds) == IF d.kind \in kinds THEN d ELSE Nothing
ValueMeaning(d, local) == IF local THEN Local ELSE Defined(d, {"function", "constant", "hidden"})
CallMeaning(d, local) ==
    IF d.kind = "class" THEN d ELSE IF local THEN Local ELSE Defined(d, {"function", "hidden"})

\* Locals are not looked at in a path, nor before type arguments.
PathMeaning(f, d) == Defined(d, IF f = "path" THEN {"class", "alias", "native"} ELSE {"class"})
TypeMeaning(d, var) == IF var THEN Local ELSE Defined(d, Types)
LiteralMeaning(d) == Defined(d, {"struct"})

Meaning(f, d, local, var) ==
    CASE f = "value"             -> ValueMeaning(d, local)
      [] f = "callee"            -> CallMeaning(d, local)
      [] f \in {"path", "apply"} -> PathMeaning(f, d)
      [] f = "type"              -> TypeMeaning(d, var)
      [] f = "literal"           -> LiteralMeaning(d)

AsRoot(f, n) == Meaning(f, AsRootDefinition(n), n \in Locals, n \in typeParams)

\* A qualified name is neither that of a local nor of a type parameter.
Imported(f, n) ==
    Meaning(f, ImportedDefinition(f, n), n \in Locals /\ ~Qualified(f, n),
            n \in typeParams /\ ~Qualified(f, n))

-----------------------------------------------------------------------------
(* Properties *)

\* The variables have their types, and both walks are in equally many blocks.
WalkTypeOK ==
    /\ place \in {"outside", "default", "body"}
    /\ owner \in Owners
    /\ params \subseteq Names /\ typeParams \subseteq Names
    /\ Len(scopes) \in 1..(MaxDepth + 1) /\ Len(shadowed) = Len(scopes)
    /\ Locals \subseteq Names /\ Shadow \subseteq Names

\* In a body the renamer takes for shadowed exactly what the analysis will find
\* to be a local, through every nesting of blocks, closures, if-let and catch
\* (block, statement and expression in namespace_program; push_scope, pop_scope
\* and define_local in the analysis).
ShadowIsScope ==
    /\ WalkTypeOK
    /\ place = "body" => /\ Shadow \ {This} = Locals \ {This}
                         /\ This \in Locals => This \in Shadow

\* The names of which the property below is not true, each a deviation of its
\* own: a local called like an import alias, a class or a native module's
\* namespace; a type parameter called like a type or an alias; a default value
\* that uses a name of a parameter; a name that the module does not define and
\* the root file does, or that is a namespace in the module only; and one that
\* the root file defines as a type, an alias or a namespace and the module as no
\* type (a local of the module that is called then is a class of the root file).
Ambiguous(n) ==
    \/ n \in Locals /\ Kind[n] \in {"alias", "class", "native"}
    \/ n \in typeParams /\ Kind[n] \in Types \cup {"alias"}
    \/ place = "default" /\ n \in params
    \/ Kind[n] = "none" /\ RootKind[n] # "none" /\ n \notin Locals
    \/ Kind[n] = "native" /\ RootKind[n] \notin {"none", "alias", "native"}
    \/ Kind[n] \in {"none", "function", "constant"} /\ RootKind[n] \in Types \cup {"alias", "native"}
    \/ Kind[n] = "struct" /\ n \in Locals /\ RootKind[n] \in {"class", "alias", "native"}

\* A module means the same when it is imported as when it is compiled by itself:
\* no other name in it turns into another definition, a local or an error by
\* being renamed, whatever the root file defines (namespace_program, lower_expr,
\* lower_call, resolve_type_node).
MeaningKept == \A f \in Forms, n \in Names : ~Ambiguous(n) => Imported(f, n) = AsRoot(f, n)
=============================================================================
