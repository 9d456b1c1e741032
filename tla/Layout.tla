------------------------------- MODULE Layout -------------------------------
(***************************************************************************)
(* From the types of a program to the C text that defines them.  Two       *)
(* depth-first passes of the analysis (validate_struct_layouts and         *)
(* validate_managed_struct_cycles, semantic.py) refuse structs that        *)
(* contain or own themselves.  The backend (c.py) then collects the types  *)
(* of the program and writes their definitions, each after those it needs; *)
(* it has no message for a type that needs itself and a C compiler none a  *)
(* user could read for one that is used before it is complete.             *)
(***************************************************************************)
EXTENDS Naturals, Sequences, FiniteSets, SequencesExt

CONSTANTS Types,      \* the types considered, closed under their arguments
          Structs,    \* the structs in the order of their declaration: types
          Classes,    \* the instances of classes in that order: types
          BodyTypes,  \* the types the bodies of functions use, in order
          Programs    \* the fields considered, by struct and class

\* A type is a kind, the name of what it is an instance of, and its arguments;
\* those of a function type are its parameters and its result.
Kinds == {"prim", "struct", "class", "list", "box", "optional", "tuple", "fn"}
Args(t) == ToSet(t.args)

ASSUME TypesAssumption ==
    /\ \A t \in Types : t.kind \in Kinds /\ t.args \in Seq(Types)
    /\ {Structs, Classes, BodyTypes} \subseteq Seq(Types)
    /\ ToSet(Structs) = {t \in Types : t.kind = "struct"}
    /\ ToSet(Classes) = {t \in Types : t.kind = "class"}

\* The text of a type is finite: among any types is one without another of them
\* in its arguments.
ASSUME TextAssumption == \A ts \in SUBSET Types : ts # {} => \E t \in ts : Args(t) \cap ts = {}

\* The function value ABI: no list, box, optional or tuple in a function type.
ASSUME AbiAssumption ==
    \A t \in Types : t.kind = "fn" =>
        \A u \in Args(t) : u.kind \in {"prim", "struct", "class", "fn"}

\* A type is its kind, its arguments and, if it has one, its name.  A name is of a
\* struct or of a class and takes one number of arguments.
Declarable == {"struct", "class"}
Called == Declarable \cup {"prim"}
ASSUME NamesAssumption ==
    /\ \A t, u \in Types :
           (t.kind = u.kind /\ t.args = u.args /\ (t.kind \in Called => t.name = u.name)) => t = u
    /\ \A t, u \in {v \in Types : v.kind \in Declarable} :
           t.name = u.name => t.kind = u.kind /\ Len(t.args) = Len(u.args)
    /\ \A t \in Types : t.kind = "prim" => t.args = <<>>
    /\ \A t \in Types : t.kind \in {"list", "box", "optional"} => Len(t.args) = 1
    /\ \A t \in Types : t.kind = "fn" => t.args # <<>>

ASSUME ProgramsAssumption ==
    Programs \subseteq [ToSet(Structs) \cup ToSet(Classes) -> Seq(Types)]

VARIABLES fields,    \* the types of the fields, in order
          pass,      \* the pass over the types that is running
          roots,     \* where it has still to start from
          visiting,  \* the nodes it is in, each with what it has still to look at
          complete,  \* the nodes it is through with; in the backend emitted_types
          text,      \* the definitions written, in order
          verdict    \* how the program fared

layoutVars == <<fields, pass, roots, visiting, complete, text, verdict>>

Leaf == {t \in Types : t.kind = "prim"}
Payload(c) == [kind |-> "payload", name |-> c.name, args |-> <<c>>]

Concat(f, s) == FlattenSeq([i \in DOMAIN s |-> f[s[i]]])

\* The structs a type contains, and those it owns by whatever way.
ByValue[t \in Types] ==
    IF t.kind = "struct" THEN <<t>>
    ELSE IF t.kind \in {"optional", "tuple"} THEN Concat(ByValue, t.args)
    ELSE <<>>

Owned[t \in Types] ==
    IF t.kind = "struct" THEN <<t>>
    ELSE IF t.kind \in {"list", "box", "optional", "tuple"} THEN Concat(Owned, t.args)
    ELSE <<>>

\* A type, when it is a function type.
FunctionType == [t \in Types |-> IF t.kind = "fn" THEN <<t>> ELSE <<>>]

\* Faulty variant: a definition with only pointers to a type does not need it.
ComponentsByValue(t) ==
    CASE t.kind \in {"optional", "tuple"} -> t.args
      [] t.kind = "struct"                -> fields[t]
      [] t.kind = "payload"               -> fields[t.args[1]]
      [] OTHER                            -> <<>>

\* The types that emit_type_definition writes before t.
Components(t) ==
    CASE t.kind \in {"list", "box", "optional", "tuple"} -> t.args
      [] t.kind = "fn"      -> Concat(FunctionType, t.args)
      [] t.kind = "struct"  -> fields[t]
      [] t.kind = "payload" -> fields[t.args[1]]
      [] OTHER              -> <<>>

\* What a pass looks at from a node.
DependsOn(t) == CASE pass = "layout"    -> Concat(ByValue, fields[t])
              [] pass = "ownership" -> Concat(Owned, fields[t])
              [] OTHER              -> Components(t)

\* The types of the program: each with its arguments after it.
WithArgs[t \in Types] == <<t>> \o Concat(WithArgs, t.args)
Declared(s) == FlattenSeq([i \in DOMAIN s |-> WithArgs[s[i]] \o Concat(WithArgs, fields[s[i]])])
Collected == Declared(Structs) \o Declared(Classes) \o Concat(WithArgs, BodyTypes)

-----------------------------------------------------------------------------

LayoutInit ==
    /\ fields \in Programs
    /\ pass = "layout"
    /\ roots = Structs
    /\ visiting = <<>>
    /\ complete = {}
    /\ text = <<>>
    /\ verdict = "running"

InVisit(t) == \E i \in DOMAIN visiting : visiting[i].node = t
Push(v, t) == Append(v, [node |-> t, todo |-> DependsOn(t)])

\* The cycle ends the analysis with a message, the backend without one.
Refuse ==
    /\ verdict' = IF pass \in {"layout", "ownership"} THEN "refused" ELSE "failed"
    /\ UNCHANGED <<fields, pass, roots, visiting, complete, text>>

Visit(t, v) ==
    IF t \in complete
    THEN visiting' = v /\ UNCHANGED <<fields, pass, complete, text, verdict>>
    ELSE visiting' = Push(v, t) /\ UNCHANGED <<fields, pass, complete, text, verdict>>

VisitRoot ==
    /\ verdict = "running" /\ visiting = <<>> /\ roots # <<>>
    /\ roots' = Tail(roots)
    /\ Visit(Head(roots), <<>>)

\* Faulty variant: a node met before is taken for one in progress.
VisitOnce ==
    /\ verdict = "running" /\ visiting # <<>> /\ Last(visiting).todo # <<>>
    /\ LET t == Head(Last(visiting).todo) IN
       IF InVisit(t) \/ t \in complete \ (Leaf \cup ToSet(Classes)) THEN Refuse
       ELSE /\ Visit(t, [visiting EXCEPT ![Len(visiting)].todo = Tail(@)])
            /\ UNCHANGED roots

VisitNext ==
    /\ verdict = "running" /\ visiting # <<>> /\ Last(visiting).todo # <<>>
    /\ LET t == Head(Last(visiting).todo) IN
       IF InVisit(t) THEN Refuse
       ELSE /\ Visit(t, [visiting EXCEPT ![Len(visiting)].todo = Tail(@)])
            /\ UNCHANGED roots

Leave ==
    /\ verdict = "running" /\ visiting # <<>> /\ Last(visiting).todo = <<>>
    /\ complete' = complete \cup {Last(visiting).node}
    /\ visiting' = Front(visiting)
    /\ text' = IF pass \in {"types", "payloads"} THEN Append(text, Last(visiting).node) ELSE text
    /\ UNCHANGED <<fields, pass, roots, verdict>>

PassDone(p) == verdict = "running" /\ visiting = <<>> /\ roots = <<>> /\ pass = p

CheckOwnership ==
    /\ PassDone("layout")
    /\ pass' = "ownership"
    /\ roots' = Structs
    /\ complete' = {}
    /\ UNCHANGED <<fields, visiting, text, verdict>>

\* The handles of all classes are written before any other type, and structs named.
EmitTypes ==
    /\ PassDone("ownership")
    /\ pass' = "types"
    /\ roots' = Collected
    /\ complete' = Leaf \cup ToSet(Classes)
    /\ UNCHANGED <<fields, visiting, text, verdict>>

EmitClasses ==
    /\ PassDone("types")
    /\ pass' = "payloads"
    /\ roots' = [i \in DOMAIN Classes |-> Payload(Classes[i])]
    /\ UNCHANGED <<fields, visiting, complete, text, verdict>>

FinishText ==
    /\ PassDone("payloads")
    /\ verdict' = "written"
    /\ UNCHANGED <<fields, pass, roots, visiting, complete, text>>

LayoutNext == VisitRoot \/ VisitNext \/ Leave \/ CheckOwnership \/ EmitTypes \/ EmitClasses \/ FinishText

LayoutSpec == LayoutInit /\ [][LayoutNext]_layoutVars

-----------------------------------------------------------------------------
(* What a type is called in C *)

\* What the name of a type is joined from: a word or its own name, then the
\* names of its arguments, with a word before the result of a function.  (A word
\* for having no parameters says no more: it is the name of a type that none has.)
To == [kind |-> "word", name |-> "to", args |-> <<>>]
Parts(t) == IF t.kind = "fn" THEN Front(t.args) \o <<To, Last(t.args)>> ELSE t.args
Word(t) == IF t.kind \in {"list", "box", "optional", "tuple", "fn"} THEN t.kind ELSE t.name

\* Faulty variant: an optional type is called like what it holds.
SlugPlain ==
    LET N[t \in Types \cup {To}] ==
        (IF t.kind = "optional" THEN <<>> ELSE <<Word(t)>>) \o Concat(N, Parts(t))
    IN N

\* type_slug, which every C name of a type is made of, as the words it joins.
Slug ==
    LET N[t \in Types \cup {To}] == <<Word(t)>> \o Concat(N, Parts(t))
    IN N

-----------------------------------------------------------------------------
(* Properties *)

LayoutTypeOK ==
    /\ fields \in [ToSet(Structs) \cup ToSet(Classes) -> Seq(Types)]
    /\ pass \in {"layout", "ownership", "types", "payloads"}
    /\ ToSet(roots) \subseteq Types \cup {Payload(c) : c \in ToSet(Classes)}
    /\ \A i \in DOMAIN visiting : ToSet(visiting[i].todo) \subseteq Types
    /\ pass \in {"layout", "ownership"} => complete \subseteq ToSet(Structs) /\ text = <<>>
    /\ verdict \in {"running", "refused", "failed", "written"}

\* Some structs each contain, or own, another one of them.
Circular(dependencies) ==
    \E ss \in SUBSET ToSet(Structs) :
        ss # {} /\ \A s \in ss : ss \cap ToSet(Concat(dependencies, fields[s])) # {}

\* A program is refused for its structs exactly when they contain or own
\* themselves, wherever the passes start from and in whatever order they meet the
\* fields (validate_struct_layouts, validate_managed_struct_cycles), and then the
\* backend never meets a type that needs its own definition: the checks, which
\* know lists, boxes and options only by name, are strict enough for everything
\* emit_type_definition follows.
RefusedIfCircular ==
    /\ LayoutTypeOK
    /\ verdict = "refused" => Circular(IF pass = "layout" THEN ByValue ELSE Owned)
    /\ pass \in {"types", "payloads"} => ~Circular(Owned)
    /\ verdict # "failed"

\* What a C definition of t needs complete: what it holds by value, and what it
\* takes the size of; a function type needs the names of its arguments only, and
\* those of structs and classes are written first.
NeededComplete(t) ==
    CASE t.kind \in {"list", "box", "optional", "tuple"} -> Args(t)
      [] t.kind = "struct"  -> ToSet(fields[t])
      [] t.kind = "payload" -> ToSet(fields[t.args[1]])
      [] t.kind = "fn"      -> {u \in Args(t) : u.kind \notin {"struct", "class"}}
      [] OTHER              -> {}

\* No type is defined twice, and when the text is written none is missing.
EachOnce ==
    /\ \A i, j \in DOMAIN text : text[i] = text[j] => i = j
    /\ verdict = "written" =>
           ToSet(text) = (ToSet(Collected) \ (Leaf \cup ToSet(Classes))) \cup {Payload(c) : c \in ToSet(Classes)}

\* Every definition comes after all it needs complete, no type is defined twice,
\* and none is missing.
DefinedBeforeUse ==
    /\ EachOnce
    /\ \A i \in DOMAIN text : \A u \in NeededComplete(text[i]) :
           u \in Leaf \cup ToSet(Classes) \/ \E j \in 1..(i - 1) : text[j] = u

\* The words of type_slug itself.
Words == {"list", "box", "optional", "tuple", "fn", "to"}

\* Deviations: the name of a tuple does not tell its end, so that what comes after
\* it could belong to it; and a type may be called like a word of type_slug, or
\* like a primitive type.
HasTuple(t) == \E u \in ToSet(WithArgs[t]) : u.kind = "tuple"
Blurred(t) ==
    \E u \in ToSet(WithArgs[t]) :
        \/ u.kind \in Called /\ u.name \in Words
        \/ u.kind \in Declarable /\ \E v \in Leaf : u.name = v.name
        \/ \E i \in 1..(Len(u.args) - 1) : HasTuple(u.args[i])

\* Different types have different names in C (type_slug).
NamesDistinct ==
    verdict = "written" =>
        \A t, u \in ToSet(text) \cap Types : t # u /\ ~Blurred(t) /\ ~Blurred(u) => Slug[t] # Slug[u]
=============================================================================
