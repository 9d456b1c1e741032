------------------------------ MODULE Instances ------------------------------
(***************************************************************************)
(* How the analysis (Lowerer.lower, semantic.py) finds out which instances *)
(* of generic classes and functions a program needs.  Nothing lists them:  *)
(* an instance is registered where an expression or a type first mentions  *)
(* it, its bodies join the list of functions still to be lowered, and      *)
(* lowering them may register more.  Several passes lower expressions      *)
(* before that list is made, and one after it is empty.                    *)
(*                                                                         *)
(* A program is what its parts use: pairs <<site, use>>.  The order in     *)
(* which a part uses things is left open.                                  *)
(***************************************************************************)
EXTENDS Naturals, Sequences, FiniteSets, SequencesExt

CONSTANTS ClassTypes,    \* classes, each with its type arguments
          PlainClasses,  \* those of a class without type parameters
          Functions,     \* functions without type parameters
          Generics,      \* generic functions, each with its type arguments
          Oversized,     \* those of both with types too large to work with
          Programs       \* the programs considered

ASSUME PlainAssumption == PlainClasses \subseteq ClassTypes
ASSUME OversizedAssumption == Oversized \subseteq ClassTypes \cup Generics
ASSUME FunctionsAssumption == IsFiniteSet(Functions)
ASSUME DisjointAssumption ==
    ClassTypes \cap Generics = {} /\ (ClassTypes \cup Generics) \cap Functions = {}

\* The functions that can be lowered; that of a class stands for all its members.
Bodies == ClassTypes \cup Functions \cup Generics

\* A use names a class as a type, constructs one, or calls a generic function.
Uses == ({"type", "new"} \X ClassTypes) \cup ({"call"} \X Generics)
TypeUses == {"type"} \X ClassTypes

\* The parts of a program that hold types only, and those that hold expressions.
\* Templates are the generic functions as they are written, and the values the
\* parameters of native functions default to.
TypeSites == ({"fields"} \X ClassTypes) \cup ({"signature"} \X Bodies) \cup {<<"structs", "fields">>}
ExprSites == ({"body"} \X Bodies) \cup ({"defaults"} \X ClassTypes)
             \cup {<<"structs", "defaults">>, <<"templates", "bodies">>}

ASSUME ProgramsAssumption ==
    \A p \in Programs : p \subseteq (TypeSites \X TypeUses) \cup (ExprSites \X Uses)

VARIABLES program,   \* what each part of the program uses
          phase,     \* the pass of lower() that is running
          stack,     \* the calls of instantiate_class and lower_expr in progress
          classes,   \* class_instances
          generics,  \* generic_instances
          saved,     \* generic_instances, while the templates are looked at
          pending,   \* pending_functions from the index on
          lowered,   \* the functions whose lowering has begun
          left,      \* lower_classes: the instances its loop has still to visit
          verdict    \* how the analysis ended

vars == <<program, phase, stack, classes, generics, saved, pending, lowered, left, verdict>>

At(kind, of) == {u \in Uses : <<<<kind, of>>, u>> \in program}

\* One call in progress: the uses it has still to look at, and the classes that
\* were registered when it began.
Call(stage, of, todo) == [stage |-> stage, of |-> of, todo |-> todo, known |-> classes]
Top == Last(stack)
Idle == verdict = "running" /\ stack = <<>>
InProgress(stage, t) == {i \in DOMAIN stack : stack[i].stage = stage /\ stack[i].of = t}
WithoutUse(u) == [stack EXCEPT ![Len(stack)].todo = @ \ {u}]

Init ==
    /\ program \in Programs
    /\ phase = "start"
    /\ stack = <<>>
    /\ classes = {} /\ generics = {} /\ saved = {}
    /\ pending = <<>>
    /\ lowered = {} /\ left = {}
    /\ verdict = "running"

-----------------------------------------------------------------------------
(* Looking at one use *)

\* The tables are left as they were.
GivesUp(v) ==
    /\ verdict' = v
    /\ UNCHANGED <<program, phase, stack, classes, generics, saved, pending, lowered, left>>

\* Python gives up on a recursion that has no end: the same instance is made
\* inside itself.
Overflow == GivesUp("recursion")

\* The types of instances may grow for ever, grow<T> calling grow<(T, T)>, and
\* nothing in the code limits them.  The model follows them up to the sizes there
\* is no room for, where the compiler ends in Python's recursion over one type, or
\* goes on until it is out of memory.
Outgrow(u) == u[2] \in Oversized /\ GivesUp("outgrown")

\* The types of the fields come before the class is registered, those of its
\* members after, and then the members are pending.
InstantiateFields(t) == Append(stack, Call("fields", t, At("fields", t)))

Register ==
    /\ verdict = "running" /\ stack # <<>>
    /\ Top.stage = "fields" /\ Top.todo = {}
    /\ classes' = classes \cup {Top.of}
    /\ stack' = Append(Front(stack), Call("members", Top.of, At("signature", Top.of)))
    /\ UNCHANGED <<program, phase, generics, saved, pending, lowered, left, verdict>>

AddMembers ==
    /\ verdict = "running" /\ stack # <<>>
    /\ Top.stage = "members" /\ Top.todo = {}
    /\ pending' = Append(pending, Top.of)
    /\ stack' = Front(stack)
    /\ UNCHANGED <<program, phase, classes, generics, saved, lowered, left, verdict>>

\* A class is named, as a type or to be constructed.
EnsureClass(u) ==
    /\ u \notin {"call"} \X Generics
    /\ u[2] \notin classes
    /\ IF \E i \in InProgress("fields", u[2]) : stack[i].known = classes THEN Overflow
       ELSE /\ stack' = InstantiateFields(u[2])
            /\ UNCHANGED <<program, phase, classes, generics, saved, pending, lowered, left, verdict>>

KnownType(u) ==
    /\ u \in TypeUses
    /\ u[2] \in classes
    /\ stack' = WithoutUse(u)
    /\ UNCHANGED <<program, phase, classes, generics, saved, pending, lowered, left, verdict>>

\* A construction lowers the values the fields of the class default to.
Construct(u) ==
    /\ u \in {"new"} \X ClassTypes
    /\ u[2] \in classes
    /\ IF InProgress("new", u[2]) # {} THEN Overflow
       ELSE /\ stack' = Append(WithoutUse(u), Call("new", u[2], At("defaults", u[2])))
            /\ UNCHANGED <<program, phase, classes, generics, saved, pending, lowered, left, verdict>>

\* Faulty variant: a generic function is pending again at every call.
CallGenericAgain(u) ==
    /\ u \in {"call"} \X Generics
    /\ generics' = generics \cup {u[2]}
    /\ pending' = IF u[2] \in ToSet(pending) THEN pending ELSE Append(pending, u[2])
    /\ stack' = WithoutUse(u)
    /\ UNCHANGED <<program, phase, classes, saved, lowered, left, verdict>>

\* The types of an instance's parameters and result are substituted, not ensured.
CallGeneric(u) ==
    /\ u \in {"call"} \X Generics
    /\ generics' = generics \cup {u[2]}
    /\ pending' = IF u[2] \in generics THEN pending ELSE Append(pending, u[2])
    /\ stack' = WithoutUse(u)
    /\ UNCHANGED <<program, phase, classes, saved, lowered, left, verdict>>

LookAt ==
    /\ verdict = "running" /\ stack # <<>>
    /\ \E u \in Top.todo :
           \/ Outgrow(u)
           \/ u[2] \notin Oversized /\ (EnsureClass(u) \/ KnownType(u) \/ Construct(u) \/ CallGeneric(u))

Return ==
    /\ verdict = "running" /\ stack # <<>>
    /\ Top.stage \in {"lower", "new"} /\ Top.todo = {}
    /\ stack' = Front(stack)
    /\ UNCHANGED <<program, phase, classes, generics, saved, pending, lowered, left, verdict>>

-----------------------------------------------------------------------------
(* The passes of lower() *)

Lower(of, todo) == stack' = <<Call("lower", of, todo)>>

CollectFunctions ==
    /\ Idle /\ phase = "start"
    /\ phase' = "functions"
    /\ Lower("signatures", UNION {At("signature", f) : f \in Functions})
    /\ UNCHANGED <<program, classes, generics, saved, pending, lowered, left, verdict>>

\* The types of struct fields are not ensured, the values they default to lowered.
LowerStructs ==
    /\ Idle /\ phase = "functions"
    /\ phase' = "structs"
    /\ Lower("structs", At("structs", "defaults"))
    /\ UNCHANGED <<program, classes, generics, saved, pending, lowered, left, verdict>>

\* Generic functions are lowered once as they are written; the generic instances
\* this comes to are dropped, the classes stay.
ValidateTemplates ==
    /\ Idle /\ phase = "structs"
    /\ phase' = "templates"
    /\ saved' = generics
    /\ generics' = {}
    /\ pending' = <<>>
    /\ Lower("templates", At("templates", "bodies"))
    /\ UNCHANGED <<program, classes, lowered, left, verdict>>

\* Here the list of pending functions starts anew.
InstantiateClasses ==
    /\ Idle /\ phase = "templates"
    /\ phase' = "classes"
    /\ generics' = saved
    /\ saved' = {}
    /\ pending' = SetToSeq(Functions)
    /\ Lower("classes", {"type"} \X PlainClasses)
    /\ UNCHANGED <<program, classes, lowered, left, verdict>>

\* Faulty variants: the members of the classes seen before are forgotten, or those
\* of the others pending twice.
ForgetMembers ==
    /\ Idle /\ phase = "classes"
    /\ phase' = "bodies"
    /\ UNCHANGED <<program, stack, classes, generics, saved, pending, lowered, left, verdict>>
RepeatMembers ==
    /\ Idle /\ phase = "classes"
    /\ phase' = "bodies"
    /\ pending' = pending \o SetToSeq(classes)
    /\ UNCHANGED <<program, stack, classes, generics, saved, lowered, left, verdict>>

\* The members of the classes the earlier passes came to are added.
AddMissingMembers ==
    /\ Idle /\ phase = "classes"
    /\ phase' = "bodies"
    /\ pending' = pending \o SetToSeq(classes \ ToSet(pending))
    /\ UNCHANGED <<program, stack, classes, generics, saved, lowered, left, verdict>>

LowerFunction ==
    /\ Idle /\ phase = "bodies" /\ pending # <<>>
    /\ pending' = Tail(pending)
    /\ lowered' = lowered \cup {Head(pending)}
    /\ Lower(Head(pending), At("body", Head(pending)))
    /\ UNCHANGED <<program, phase, classes, generics, saved, left, verdict>>

LowerClasses ==
    /\ Idle /\ phase = "bodies" /\ pending = <<>>
    /\ phase' = "lowerClasses"
    /\ left' = classes
    /\ saved' = classes
    /\ UNCHANGED <<program, stack, classes, generics, pending, lowered, verdict>>

\* The loop runs over the table of instances itself and fails when the values the
\* fields default to have added to it.  (saved is the table the loop began with.)
LowerClass ==
    /\ Idle /\ phase = "lowerClasses"
    /\ IF classes # saved
       THEN verdict' = "changed" /\ UNCHANGED <<stack, left>>
       ELSE IF left = {}
       THEN verdict' = "done" /\ UNCHANGED <<stack, left>>
       ELSE \E t \in left : /\ left' = left \ {t}
                            /\ Lower("class", At("defaults", t))
                            /\ UNCHANGED verdict
    /\ UNCHANGED <<program, phase, classes, generics, saved, pending, lowered>>

Next ==
    \/ Register \/ AddMembers \/ LookAt \/ Return
    \/ CollectFunctions \/ LowerStructs \/ ValidateTemplates \/ InstantiateClasses
    \/ AddMissingMembers \/ LowerFunction \/ LowerClasses \/ LowerClass

\* The analysis runs on one thread until it ends.
Spec == Init /\ [][Next]_vars /\ WF_vars(Next)

-----------------------------------------------------------------------------
(* Properties *)

Phases == {"start", "functions", "structs", "templates", "classes", "bodies", "lowerClasses"}

TypeOK ==
    /\ program \subseteq (TypeSites \X TypeUses) \cup (ExprSites \X Uses)
    /\ phase \in Phases
    /\ \A i \in DOMAIN stack :
           /\ stack[i].stage \in {"fields", "members", "lower", "new"}
           /\ stack[i].todo \subseteq Uses
           /\ stack[i].stage \in {"fields", "members"} =>
                  stack[i].of \in ClassTypes /\ stack[i].todo \subseteq TypeUses
    /\ classes \subseteq ClassTypes /\ left \subseteq classes
    /\ generics \subseteq Generics /\ saved \subseteq ClassTypes \cup Generics
    /\ ToSet(pending) \subseteq Bodies /\ lowered \subseteq Bodies
    /\ verdict \in {"running", "done", "recursion", "changed", "outgrown"}

\* A class that no function lowered constructs: the values its fields default to
\* are looked at for the first time when the list of functions is empty.
Late(t) == \A b \in lowered : <<"new", t>> \notin At("body", b)

\* t is reached from the classes in start along the classes a class leads to.
Reached(t, start, LeadsTo(_)) ==
    \A ts \in SUBSET ClassTypes :
        start \subseteq ts /\ (\A s \in ts : LeadsTo(s) \subseteq ts) => t \in ts

Named(us) == {u[2] : u \in us \ ({"call"} \X Generics)}
Constructed(kind, of) == {u[2] : u \in At(kind, of) \cap ({"new"} \X ClassTypes)}
DefaultsConstruct(t) == Constructed("defaults", t)

\* The values its fields default to are looked at for a struct already.
Early(t) == Reached(t, Constructed("structs", "defaults"), DefaultsConstruct)

\* What comes to the table of generic instances before the list of functions is
\* made, or after it is empty: these are not lowered, which is a deviation.
Untimely == {g \in Generics : \/ <<"call", g>> \in At("structs", "defaults")
                              \/ \E t \in classes : /\ Early(t) \/ Late(t)
                                                    /\ <<"call", g>> \in At("defaults", t)}


\* A class that the classes of its fields need in turn, for their fields or their
\* members.  It is made inside itself and registered twice, which is a deviation.
Needs(t) == Named(At("fields", t) \cup At("signature", t))
Entwined(t) == Reached(t, Named(At("fields", t)), Needs)

\* A class is only registered once the classes of its fields are, and so no class
\* on a cycle of fields is ever registered.
FieldsFirst == \A t \in classes : Named(At("fields", t)) \subseteq classes

\* No function is lowered twice, which would define it twice in the C text, though
\* several passes make a class known (the list is searched before a member is
\* added to it, the table before an instance is).
OnceOnly ==
    /\ TypeOK /\ FieldsFirst
    /\ phase = "bodies" /\ ~(\E t \in ClassTypes : Entwined(t)) =>
           /\ \A i, j \in DOMAIN pending : pending[i] = pending[j] => i = j
           /\ ToSet(pending) \cap lowered = {}

\* What the lowered functions and the registered classes use is registered:
\* instances are closed under use.  Not so for the types of struct fields and those
\* of a generic instance's parameters and result.
InstancesClosed ==
    \A u \in UNION ({At("body", b) : b \in lowered} \cup {At("signature", f) : f \in Functions \cup classes}
                    \cup {At(k, t) : k \in {"fields", "defaults"}, t \in classes}
                    \cup {At("structs", "defaults")}) :
        u[2] \in classes \cup generics

\* Every function and every member of a class that the program refers to has been
\* lowered when the analysis accepts it, whichever pass came to it first: the C
\* text calls no function it does not define (Lowerer.lower).
AllLowered ==
    verdict = "done" => /\ InstancesClosed
                        /\ Functions \cup classes \subseteq lowered
                        /\ generics \ Untimely \subseteq lowered

\* Classes that hold each other, or construct each other where they are declared.
Cyclic(kind, how) ==
    \E ts \in SUBSET ClassTypes :
        ts # {} /\ \A t \in ts : \E u \in ts : <<how, u>> \in At(kind, t)

\* A part of the program that is looked at refers to an instance too large.
Grows == \E b \in classes \cup lowered \cup Functions \cup {"templates", "structs"} :
             \E k \in {"fields", "signature", "body", "defaults", "bodies"} :
                 \E u \in At(k, b) : u[2] \in Oversized

\* The analysis only fails to end, or loses its loop, on a program whose classes
\* hold each other or construct each other where their fields are declared, that
\* declares a field with a value of a class nothing else uses, or that asks for
\* instances of ever larger types.
FailuresExplained ==
    /\ verdict = "recursion" => Cyclic("fields", "type") \/ Cyclic("defaults", "new")
    /\ verdict = "changed" => \E t \in classes : Late(t) /\ Named(At("defaults", t)) # {}
    /\ verdict = "outgrown" => Grows

\* The analysis of a program that comes to finitely many instances ends, and fails
\* only with an explanation: none is made again and again (the look into
\* generic_instances, class_instances and pending_functions).  With infinitely many
\* it has no end of its own; then it comes to one that is too large.
Ends == []FailuresExplained /\ <>(verdict # "running")
=============================================================================
