--------------------------- MODULE AnalysisProofs ---------------------------
(***************************************************************************)
(* Theorems about two parts of the analysis that go over a whole program:  *)
(* Instances, for any classes, functions and programs over them; and       *)
(* Names, for any names of any kinds, in the module and in the root file,  *)
(* and any nesting.                                                        *)
(***************************************************************************)
EXTENDS Instances, Names, FiniteSetTheorems, SequenceTheorems, TLAPS

-----------------------------------------------------------------------------
(* The inductive invariant of OnceOnly *)

CallOf == Bodies \cup {"signatures", "structs", "templates", "classes", "class"}
Frames == [stage : {"fields", "members", "lower", "new"}, of : CallOf,
           todo : SUBSET Uses, known : SUBSET ClassTypes]

Tables ==
    /\ program \subseteq (TypeSites \X TypeUses) \cup (ExprSites \X Uses)
    /\ phase \in Phases
    /\ stack \in Seq(Frames)
    /\ classes \subseteq ClassTypes /\ IsFiniteSet(classes)
    /\ generics \subseteq Generics
    /\ saved \subseteq IF phase = "lowerClasses" THEN classes ELSE Generics
    /\ pending \in Seq(Bodies) /\ lowered \subseteq Bodies /\ left \subseteq classes
    /\ verdict \in {"running", "done", "recursion", "changed", "outgrown"}

\* What a call has still to look at is part of what it is about.
Fits(f) ==
    /\ f.stage \in {"fields", "members", "new"} => f.of \in ClassTypes
    /\ f.stage = "fields" => f.todo \subseteq At("fields", f.of)
    /\ f.stage = "members" => f.todo \subseteq At("signature", f.of) /\ f.of \in classes
    /\ f.stage = "new" => f.todo \subseteq At("defaults", f.of) /\ f.of \in classes
FramesFit == \A i \in DOMAIN stack : Fits(stack[i])

\* The classes of the fields that a call has looked at are registered.
FieldsSeen ==
    \A i \in DOMAIN stack :
        stack[i].stage = "fields" => Named(At("fields", stack[i].of) \ stack[i].todo) \subseteq classes

\* v is a class that the fields of t lead to.
Below(t, v) == Reached(v, Named(At("fields", t)), Needs)

\* Within the call that makes a class are calls for classes its fields lead to.
Nested ==
    \A i \in DOMAIN stack : stack[i].stage = "fields" =>
        /\ stack[i].of \notin classes
        /\ \A j \in DOMAIN stack : j > i =>
               stack[j].stage \in {"fields", "members"} /\ Below(stack[i].of, stack[j].of)

MembersOnce ==
    \A i, j \in DOMAIN stack :
        stack[i].stage = "members" /\ stack[j].stage = "members" /\ stack[i].of = stack[j].of => i = j

\* The list of functions has no function twice, from the pass that makes it on.
NoRepeats ==
    /\ \A i, j \in DOMAIN pending : pending[i] = pending[j] => i = j
    /\ \A i \in DOMAIN pending : pending[i] \notin lowered
Listable(b) == b \in Functions \cup classes \cup generics
Listed ==
    phase \in {"classes", "bodies", "lowerClasses"} =>
        /\ NoRepeats
        /\ \A b \in ToSet(pending) \cup lowered : Listable(b)
        /\ \A i \in DOMAIN stack : stack[i].stage = "members" => stack[i].of \notin ToSet(pending) \cup lowered

NotBegun == phase \notin {"bodies", "lowerClasses"} => lowered = {}
Plain == \A t \in ClassTypes : ~Entwined(t)

OnceInv == /\ Tables /\ FramesFit /\ FieldsSeen /\ FieldsFirst /\ NotBegun
           /\ Plain => Nested /\ MembersOnce /\ Listed

-----------------------------------------------------------------------------
(* Uses *)

LEMMA AtTyped ==
  ASSUME Tables
  PROVE  /\ \A k, o : At(k, o) \subseteq Uses
         /\ \A t : At("fields", t) \subseteq TypeUses /\ At("signature", t) \subseteq TypeUses
<1>1. ASSUME NEW t, NEW k \in {"fields", "signature"}, NEW u, <<<<k, t>>, u>> \in program
      PROVE  u \in TypeUses
  <2>1. <<k, t>> \notin ExprSites
    BY DEF ExprSites
  <2> QED
    BY <1>1, <2>1 DEF Tables
<1> QED
  BY <1>1 DEF At

LEMMA UseTyped ==
  /\ \A u \in TypeUses : u \notin {"call"} \X Generics /\ u[2] \in ClassTypes /\ u \in Uses
  /\ \A u \in Uses : u \notin {"call"} \X Generics => u[2] \in ClassTypes
  /\ \A u \in {"call"} \X Generics : u[2] \in Generics
  /\ \A us \in SUBSET TypeUses : Named(us) = {u[2] : u \in us}
<1>1. \A u \in TypeUses : u \notin {"call"} \X Generics /\ u[2] \in ClassTypes /\ u \in Uses
  BY DEF TypeUses, Uses
<1>2. \A u \in Uses : u \notin {"call"} \X Generics => u[2] \in ClassTypes
  BY DEF Uses
<1>3. \A us \in SUBSET TypeUses : Named(us) = {u[2] : u \in us}
  BY <1>1 DEF Named
<1> QED
  BY <1>1, <1>2, <1>3

\* Every step leaves the program as it is, and what is said of it alone.
LEMMA ProgramKept ==
  ASSUME UNCHANGED program
  PROVE  /\ \A k, o : At(k, o)' = At(k, o)
         /\ \A t, v : Below(t, v)' <=> Below(t, v)
         /\ Plain' <=> Plain
<1>1. \A k, o : At(k, o)' = At(k, o)
  BY DEF At
<1>2. \A t : Needs(t)' = Needs(t) /\ Named(At("fields", t))' = Named(At("fields", t))
  BY <1>1 DEF Needs, Named
<1>3. \A t, v : Below(t, v)' <=> Below(t, v)
  BY <1>2 DEF Below, Reached
<1>4. Plain' <=> Plain
  BY <1>2 DEF Plain, Entwined, Reached
<1> QED
  BY <1>1, <1>3, <1>4

LEMMA BelowStarts ==
  ASSUME NEW t, NEW v \in Named(At("fields", t))
  PROVE  Below(t, v)
BY DEF Below, Reached

LEMMA BelowGoesOn ==
  ASSUME NEW t, NEW s \in ClassTypes, Below(t, s), NEW v \in Needs(s)
  PROVE  Below(t, v)
BY DEF Below, Reached

-----------------------------------------------------------------------------
(* The stack *)

\* Frame i is still there, perhaps with less to look at.
Older(i) == /\ i \in DOMAIN stack /\ i \in DOMAIN stack'
            /\ stack'[i].stage = stack[i].stage /\ stack'[i].of = stack[i].of
            /\ stack'[i].todo \subseteq stack[i].todo
\* Frame i is there as it was, but for use u.
Keeps(i, u) == Older(i) /\ stack'[i].todo = stack[i].todo \ {u}
\* Frame i is the new one.
Newest(i, f) == i \in DOMAIN stack' /\ i = Len(stack') /\ stack'[i] = f

LEMMA StackTyped ==
  ASSUME Tables
  PROVE  /\ Len(stack) \in Nat /\ DOMAIN stack = 1..Len(stack)
         /\ \A i \in DOMAIN stack : stack[i] \in Frames
         /\ stack # <<>> => Len(stack) \in DOMAIN stack /\ Top = stack[Len(stack)]
BY DEF Tables, Top, Last

LEMMA Pushed ==
  ASSUME Tables, NEW f \in Frames, stack' = Append(stack, f)
  PROVE  /\ stack' \in Seq(Frames) /\ Len(stack') = Len(stack) + 1
         /\ \A i \in DOMAIN stack : Older(i) /\ stack'[i] = stack[i]
         /\ \A i \in DOMAIN stack' : i \in DOMAIN stack \/ Newest(i, f)
         /\ Newest(Len(stack'), f)
BY DEF Tables, Older, Newest

LEMMA Popped ==
  ASSUME Tables, stack # <<>>, stack' = Front(stack)
  PROVE  /\ stack' \in Seq(Frames)
         /\ \A i \in DOMAIN stack : i # Len(stack) => Older(i) /\ stack'[i] = stack[i]
         /\ \A i \in DOMAIN stack' : i \in DOMAIN stack /\ i # Len(stack)
BY DEF Tables, Older, Front

LEMMA Lessened ==
  ASSUME Tables, stack # <<>>, NEW u, stack' = WithoutUse(u)
  PROVE  /\ stack' \in Seq(Frames) /\ DOMAIN stack' = DOMAIN stack
         /\ Keeps(Len(stack), u)
         /\ \A i \in DOMAIN stack : i # Len(stack) => Older(i) /\ stack'[i] = stack[i]
<1> DEFINE n == Len(stack)
<1>1. n \in DOMAIN stack /\ stack[n] \in Frames /\ n \in 1..n /\ n \in Nat /\ DOMAIN stack = 1..n
  BY StackTyped
<1>2. PICK f \in Frames : f = [stack[n] EXCEPT !.todo = @ \ {u}]
  BY <1>1 DEF Frames
<1>3. stack' = [stack EXCEPT ![n] = f]
  BY <1>1, <1>2 DEF WithoutUse
<1>4. f.stage = stack[n].stage /\ f.of = stack[n].of /\ f.todo = stack[n].todo \ {u}
  BY <1>1, <1>2 DEF Frames
<1> HIDE DEF n
<1>5. stack \in Seq(Frames) /\ Len(stack) = n
  BY DEF Tables, n
<1>6. stack' \in Seq(Frames) /\ DOMAIN stack' = DOMAIN stack
  BY <1>1, <1>2, <1>3, <1>5
<1>7. stack'[n] = f /\ \A i \in DOMAIN stack : i # n => stack'[i] = stack[i]
  BY <1>1, <1>3, <1>5
<1> QED
  BY <1>1, <1>4, <1>5, <1>6, <1>7 DEF Keeps, Older

LEMMA LessenedAndPushed ==
  ASSUME Tables, stack # <<>>, NEW u, NEW f \in Frames, stack' = Append(WithoutUse(u), f)
  PROVE  /\ stack' \in Seq(Frames) /\ Len(stack') = Len(stack) + 1
         /\ Keeps(Len(stack), u)
         /\ \A i \in DOMAIN stack : i # Len(stack) => Older(i) /\ stack'[i] = stack[i]
         /\ \A i \in DOMAIN stack' : i \in DOMAIN stack \/ Newest(i, f)
         /\ Newest(Len(stack'), f)
<1> DEFINE n == Len(stack)
<1>1. n \in DOMAIN stack /\ stack[n] \in Frames /\ n \in 1..n /\ n \in Nat /\ DOMAIN stack = 1..n
  BY StackTyped
<1>2. PICK g \in Frames : g = [stack[n] EXCEPT !.todo = @ \ {u}]
  BY <1>1 DEF Frames
<1>3. stack' = Append([stack EXCEPT ![n] = g], f)
  BY <1>1, <1>2 DEF WithoutUse
<1>4. g.stage = stack[n].stage /\ g.of = stack[n].of /\ g.todo = stack[n].todo \ {u}
  BY <1>1, <1>2 DEF Frames
<1> HIDE DEF n
<1>5. stack \in Seq(Frames) /\ Len(stack) = n
  BY DEF Tables, n
<1>6. PICK s : s = [stack EXCEPT ![n] = g]
  OBVIOUS
<1>7. /\ s \in Seq(Frames) /\ Len(s) = n /\ DOMAIN s = 1..n
      /\ s[n] = g /\ \A i \in DOMAIN stack : i # n => s[i] = stack[i]
  BY <1>1, <1>2, <1>5, <1>6
<1>8. /\ stack' \in Seq(Frames) /\ Len(stack') = n + 1 /\ DOMAIN stack' = 1..(n + 1)
      /\ stack'[n + 1] = f /\ \A i \in 1..n : stack'[i] = s[i]
  BY <1>1, <1>3, <1>6, <1>7
<1>9. Keeps(n, u)
  BY <1>1, <1>4, <1>7, <1>8 DEF Keeps, Older
<1>10. \A i \in DOMAIN stack : i # n => Older(i) /\ stack'[i] = stack[i]
  BY <1>1, <1>7, <1>8 DEF Older
<1>11. Newest(n + 1, f)
  BY <1>1, <1>8 DEF Newest
<1>12. \A i \in DOMAIN stack' : i \in DOMAIN stack \/ i = n + 1
  BY <1>1, <1>8
<1> QED
  BY <1>5, <1>8, <1>9, <1>10, <1>11, <1>12

LEMMA PoppedAndPushed ==
  ASSUME Tables, stack # <<>>, NEW f \in Frames, stack' = Append(Front(stack), f)
  PROVE  /\ stack' \in Seq(Frames) /\ Len(stack') = Len(stack)
         /\ \A i \in DOMAIN stack : i # Len(stack) => Older(i) /\ stack'[i] = stack[i]
         /\ \A i \in DOMAIN stack' : (i \in DOMAIN stack /\ i # Len(stack)) \/ Newest(i, f)
         /\ Newest(Len(stack'), f)
<1>1. Len(stack) \in DOMAIN stack /\ stack \in Seq(Frames)
  BY StackTyped DEF Tables
<1>2. PICK s : s = Front(stack)
  OBVIOUS
<1>3. /\ s \in Seq(Frames) /\ Len(s) = Len(stack) - 1
      /\ \A i \in 1..(Len(stack) - 1) : s[i] = stack[i]
  <2> DEFINE n == Len(stack)
  <2>1. n \in Nat /\ n >= 1 /\ n - 1 \in Nat /\ s = SubSeq(stack, 1, n - 1)
    BY <1>1, <1>2 DEF Front
  <2>2. \A i \in 1..(n - 1) : i \in 1..n
    BY <2>1
  <2> HIDE DEF n
  <2>3. Len(stack) = n
    BY DEF n
  <2> QED
    BY <1>1, <2>1, <2>2, <2>3
<1>4. /\ stack' \in Seq(Frames) /\ Len(stack') = Len(stack) /\ stack'[Len(stack)] = f
      /\ \A i \in 1..(Len(stack) - 1) : stack'[i] = stack[i]
  <2>1. stack' = Append(s, f) /\ Len(stack) \in Nat
    BY <1>1, <1>2
  <2>2. /\ stack' \in Seq(Frames) /\ Len(stack') = Len(s) + 1 /\ stack'[Len(s) + 1] = f
        /\ \A i \in 1..Len(s) : stack'[i] = s[i]
    BY <1>3, <2>1
  <2> QED
    BY <1>3, <2>1, <2>2
<1>5. \A i \in DOMAIN stack : i = Len(stack)
          \/ i \in 1..(Len(stack) - 1)
  BY <1>1
<1>6. Newest(Len(stack'), f)
  BY <1>1, <1>4 DEF Newest
<1>7. DOMAIN stack' = DOMAIN stack
  BY <1>1, <1>4
<1>8. \A i \in DOMAIN stack : i # Len(stack) => Older(i) /\ stack'[i] = stack[i]
  BY <1>4, <1>5, <1>7 DEF Older
<1> QED
  BY <1>4, <1>6, <1>7, <1>8

-----------------------------------------------------------------------------
(* Sequences of functions *)

LEMMA SetToSeqOnce ==
  ASSUME NEW S, IsFiniteSet(S)
  PROVE  /\ SetToSeq(S) \in Seq(S)
         /\ \A i, j \in DOMAIN SetToSeq(S) : SetToSeq(S)[i] = SetToSeq(S)[j] => i = j
         /\ \A x \in S : \E i \in DOMAIN SetToSeq(S) : SetToSeq(S)[i] = x
<1>1. PICK n : n = Cardinality(S)
  OBVIOUS
<1>2. n \in Nat /\ ExistsBijection(1..n, S)
  BY <1>1, FS_CardinalityType, Zenon
<1>3. \E f \in [1..n -> S] : IsInjective(f)
  BY <1>2 DEF ExistsBijection, Bijection, Injection
<1>4. PICK q : q = SetToSeq(S)
  OBVIOUS
<1>5. q = CHOOSE f \in [1..n -> S] : IsInjective(f)
  BY <1>1, <1>4, Zenon DEF SetToSeq
<1>6. q \in [1..n -> S] /\ IsInjective(q)
  BY <1>3, <1>5, Zenon
<1>7. IsFiniteSet(1..n) /\ Cardinality(1..n) = n
  BY <1>2, FS_Interval
<1>8. q \in Injection(1..n, S)
  BY <1>6 DEF Injection
<1>9. q \in Surjection(1..n, S)
  BY <1>1, <1>7, <1>8, FS_Injection, Zenon
<1>10. q \in Seq(S) /\ DOMAIN q = 1..n
  BY <1>2, <1>6
<1>11. \A i, j \in DOMAIN q : q[i] = q[j] => i = j
  BY <1>6 DEF IsInjective
<1>12. \A x \in S : \E i \in DOMAIN q : q[i] = x
  BY <1>9, <1>10 DEF Surjection
<1> QED
  BY <1>4, <1>10, <1>11, <1>12

-----------------------------------------------------------------------------
(* What a step does to the calls in progress *)

\* Frame i is as it was, or without a use that is done with, or has just begun.
Continues(i) == i \in DOMAIN stack /\ stack'[i] = stack[i]
Used(i, u) == Keeps(i, u) /\ (stack[i].stage = "fields" => u[2] \in classes)
Starts(f) == Fits(f) /\ (f.stage = "fields" => f.todo = At("fields", f.of))
Sound(i) == Continues(i) \/ (\E u \in Uses : Used(i, u)) \/ Starts(stack[i])'

LEMMA FramesGoOn ==
  ASSUME Tables, FramesFit, FieldsSeen, UNCHANGED program, classes \subseteq classes',
         \A i \in DOMAIN stack' : Sound(i)
  PROVE  FramesFit' /\ FieldsSeen'
<1>1. ASSUME NEW i \in DOMAIN stack'
      PROVE  /\ Fits(stack[i])'
             /\ stack'[i].stage = "fields" =>
                    (Named(At("fields", stack[i].of) \ stack[i].todo))' \subseteq classes'
  <2>1. CASE Continues(i)
    BY <2>1, ProgramKept DEF Continues, FramesFit, FieldsSeen, Fits, Named
  <2>2. ASSUME NEW u \in Uses, Used(i, u)
        PROVE  /\ Fits(stack[i])'
               /\ stack'[i].stage = "fields" =>
                    (Named(At("fields", stack[i].of) \ stack[i].todo))' \subseteq classes'
    <3>1. /\ i \in DOMAIN stack
          /\ stack'[i].stage = stack[i].stage /\ stack'[i].of = stack[i].of
          /\ stack'[i].todo = stack[i].todo \ {u}
          /\ stack[i].stage = "fields" => u[2] \in classes
      BY <2>2 DEF Used, Keeps, Older
    <3>2. Fits(stack[i])'
      BY <3>1, ProgramKept DEF FramesFit, Fits
    <3>3. ASSUME stack[i].stage = "fields"
          PROVE  (Named(At("fields", stack[i].of) \ stack[i].todo))' \subseteq classes'
      BY <3>1, <3>3, ProgramKept DEF FieldsSeen, Named
    <3> QED
      BY <3>1, <3>2, <3>3
  <2>3. CASE Starts(stack[i])'
    BY <2>3 DEF Starts, Named
  <2> QED
    BY <2>1, <2>2, <2>3 DEF Sound
<1> QED
  BY <1>1 DEF FramesFit, FieldsSeen

\* f may be the innermost call: the classes being made lead to what it makes.
Fitting(f) ==
  /\ f.stage = "fields" => f.of \notin classes
  /\ \A i \in DOMAIN stack : stack[i].stage = "fields" /\ i # Len(stack') =>
         f.stage \in {"fields", "members"} /\ Below(stack[i].of, f.of)

LEMMA NestedGoesOn ==
  ASSUME Tables, Nested, UNCHANGED <<program, classes>>, NEW f,
         stack' \in Seq(Frames),
         \A i \in DOMAIN stack' : Older(i) \/ Newest(i, f),
         (\E i \in DOMAIN stack' : Newest(i, f)) => Fitting(f)
  PROVE  Nested'
<1>1. DOMAIN stack' = 1..Len(stack') /\ Len(stack') \in Nat /\ DOMAIN stack = 1..Len(stack) /\ Len(stack) \in Nat
  BY DEF Tables
<1>2. ASSUME NEW i \in DOMAIN stack', stack'[i].stage = "fields"
      PROVE  stack'[i].of \notin classes
  BY <1>2 DEF Nested, Older, Newest, Fitting
<1>3. ASSUME NEW i \in DOMAIN stack', stack'[i].stage = "fields", NEW j \in DOMAIN stack', j > i
      PROVE  stack'[j].stage \in {"fields", "members"} /\ Below(stack'[i].of, stack'[j].of)
  <2>1. Older(i) /\ i # Len(stack')
    BY <1>1, <1>3 DEF Newest
  <2>2. CASE Older(j)
    BY <1>3, <2>1, <2>2 DEF Nested, Older
  <2>3. CASE Newest(j, f)
    BY <1>3, <2>1, <2>3 DEF Newest, Fitting, Older
  <2> QED
    BY <2>2, <2>3
<1>4. \A t, v : Below(t, v)' <=> Below(t, v)
  BY ProgramKept
<1> QED
  BY <1>2, <1>3, <1>4 DEF Nested

LEMMA MembersOnceGoesOn ==
  ASSUME MembersOnce, NEW f,
         \A i \in DOMAIN stack' : Older(i) \/ Newest(i, f),
         \A i \in DOMAIN stack : stack[i].stage = "members" /\ f.stage = "members"
                                  /\ stack[i].of = f.of => i = Len(stack')
  PROVE  MembersOnce'
BY DEF MembersOnce, Older, Newest

\* A pass begins with one call, about no class.
LEMMA PassBegins ==
  ASSUME Tables, NEW of \in CallOf, NEW todo \in SUBSET Uses, Lower(of, todo)
  PROVE  /\ stack' \in Seq(Frames)
         /\ FramesFit' /\ FieldsSeen' /\ Nested' /\ MembersOnce'
         /\ DOMAIN stack' = {1} /\ stack'[1].stage = "lower"
         /\ stack'[1].of = of /\ stack'[1].todo = todo
<1>1. PICK f \in Frames : f = Call("lower", of, todo)
  BY DEF Call, Frames, Tables
<1>2. f.stage = "lower" /\ f.of = of /\ f.todo = todo
  BY <1>1 DEF Call
<1>3. stack' = <<f>>
  BY <1>1 DEF Lower
<1>4. stack' \in Seq(Frames) /\ DOMAIN stack' = {1} /\ stack'[1] = f
  BY <1>3
<1> QED
  BY <1>2, <1>4 DEF FramesFit, FieldsSeen, Nested, MembersOnce, Fits

LEMMA NothingInProgress ==
  ASSUME stack' = <<>>
  PROVE  FramesFit' /\ FieldsSeen' /\ Nested' /\ MembersOnce'
BY DEF FramesFit, FieldsSeen, Nested, MembersOnce

\* The classes being made lead to every class the innermost call names.
LEMMA UseBelow ==
  ASSUME Tables, FramesFit, Nested, stack # <<>>, NEW u \in Top.todo,
         NEW i \in DOMAIN stack, stack[i].stage = "fields"
  PROVE  u \in TypeUses /\ Below(stack[i].of, u[2])
<1> DEFINE n == Len(stack)
<1>1. n \in DOMAIN stack /\ Top = stack[n] /\ stack[n] \in Frames /\ Fits(stack[n]) /\ i \in 1..n /\ n \in Nat
  BY StackTyped DEF FramesFit
<1>2. CASE i = n
  <2>1. u \in At("fields", stack[i].of)
    BY <1>1, <1>2 DEF Fits
  <2>2. u \in TypeUses
    BY <2>1, AtTyped
  <2>3. u[2] \in Named(At("fields", stack[i].of))
    BY <2>1, <2>2, UseTyped DEF Named
  <2> QED
    BY <2>2, <2>3, BelowStarts
<1>3. CASE i # n
  <2>1. stack[n].stage \in {"fields", "members"} /\ Below(stack[i].of, stack[n].of)
    BY <1>1, <1>3 DEF Nested
  <2>2. u \in At("fields", stack[n].of) \cup At("signature", stack[n].of) /\ stack[n].of \in ClassTypes
    BY <1>1, <2>1 DEF Fits
  <2>3. u \in TypeUses
    BY <2>2, AtTyped
  <2>4. u[2] \in Needs(stack[n].of)
    BY <2>2, <2>3, UseTyped DEF Needs, Named
  <2> QED
    BY <2>1, <2>2, <2>3, <2>4, BelowGoesOn
<1> QED
  BY <1>2, <1>3

\* The list of functions is as it was, and no call makes a class that is in it.
LEMMA ListedGoesOn ==
  ASSUME Listed, UNCHANGED <<phase, pending, lowered>>,
         classes \subseteq classes', generics \subseteq generics',
         phase \in {"classes", "bodies", "lowerClasses"} =>
             \A i \in DOMAIN stack' : stack'[i].stage = "members" =>
                 Older(i) \/ stack'[i].of \notin ToSet(pending) \cup lowered
  PROVE  Listed'
<1>1. \A b : Listable(b) => Listable(b)'
  BY DEF Listable
<1> QED
  BY <1>1 DEF Listed, NoRepeats, Older

LEMMA ToSetGrows ==
  ASSUME Tables, NEW b, pending' = Append(pending, b)
  PROVE  ToSet(pending)' = ToSet(pending) \cup {b}
<1>1. PICK m : m = Len(pending)
  OBVIOUS
<1>2. /\ m \in Nat /\ DOMAIN pending = 1..m /\ DOMAIN pending' = 1..(m + 1)
      /\ pending'[m + 1] = b /\ \A i \in 1..m : pending'[i] = pending[i]
  BY <1>1 DEF Tables
<1>3. /\ \A i \in DOMAIN pending' : i \in 1..m \/ i = m + 1
      /\ \A i \in 1..m : i \in DOMAIN pending'
      /\ m + 1 \in DOMAIN pending'
  BY <1>2
<1> QED
  BY <1>2, <1>3 DEF ToSet

\* An element is added to the list of functions that is not in it and not lowered.
LEMMA ListGrows ==
  ASSUME Tables, NoRepeats, NEW b, b \notin ToSet(pending) \cup lowered,
         pending' = Append(pending, b), lowered' = lowered
  PROVE  NoRepeats' /\ ToSet(pending)' = ToSet(pending) \cup {b}
<1>1. PICK m : m = Len(pending)
  OBVIOUS
<1>2. /\ m \in Nat /\ DOMAIN pending = 1..m /\ DOMAIN pending' = 1..(m + 1)
      /\ pending'[m + 1] = b /\ \A i \in 1..m : pending'[i] = pending[i]
  BY <1>1 DEF Tables
<1>3. \A i \in 1..m : pending[i] # b
  BY <1>2 DEF ToSet
<1>4. \A i \in DOMAIN pending' : i \in 1..m \/ i = m + 1
  BY <1>2
<1>5. NoRepeats'
  BY <1>2, <1>3, <1>4 DEF NoRepeats
<1> QED
  BY <1>5, ToSetGrows

-----------------------------------------------------------------------------
(* One lemma for each thing a call does *)

LEMMA RegisterOnce ==
  ASSUME OnceInv, Register
  PROVE  OnceInv'
<1> DEFINE n == Len(stack)
           t == Top.of
           f == Call("members", t, At("signature", t))
<1>1. /\ n \in DOMAIN stack /\ Top = stack[n] /\ stack[n] \in Frames /\ Fits(stack[n])
      /\ DOMAIN stack = 1..n /\ n \in Nat
  BY StackTyped DEF OnceInv, FramesFit, Register
<1>2. /\ Top.stage = "fields" /\ Top.todo = {} /\ stack # <<>> /\ t \in ClassTypes
      /\ classes' = classes \cup {t} /\ stack' = Append(Front(stack), f)
      /\ UNCHANGED <<program, phase, generics, saved, pending, lowered, left, verdict>>
  BY <1>1 DEF Register, Fits
<1>3. /\ f \in Frames /\ f.stage = "members" /\ f.of = t /\ f.todo = At("signature", t)
  <2>1. At("signature", t) \in SUBSET Uses /\ t \in CallOf
    BY <1>2, AtTyped DEF OnceInv, CallOf, Bodies
  <2> QED
    BY <1>2, <2>1 DEF Call, Frames, OnceInv, Tables
<1> HIDE DEF f
<1>4. /\ stack' \in Seq(Frames) /\ Len(stack') = n
      /\ \A i \in DOMAIN stack : i # n => Older(i) /\ stack'[i] = stack[i]
      /\ \A i \in DOMAIN stack' : (i \in DOMAIN stack /\ i # n) \/ Newest(i, f)
      /\ Newest(Len(stack'), f)
  BY <1>2, <1>3, PoppedAndPushed DEF OnceInv
<1>5. Tables'
  <2>1. IsFiniteSet(classes')
    BY <1>2, FS_AddElement DEF OnceInv, Tables
  <2> QED
    BY <1>2, <1>4, <2>1 DEF OnceInv, Tables
<1>6. FramesFit' /\ FieldsSeen'
  <2>1. \A i \in DOMAIN stack' : Sound(i)
    <3>1. ASSUME NEW i \in DOMAIN stack', Newest(i, f)
          PROVE  Starts(stack[i])'
      BY <1>2, <1>3, <3>1, ProgramKept DEF Newest, Starts, Fits
    <3> QED
      BY <1>4, <3>1 DEF Sound, Continues
  <2> QED
    BY <1>2, <2>1, FramesGoOn DEF OnceInv
<1>7. FieldsFirst'
  <2>1. Named(At("fields", t)) \subseteq classes
    <3>1. Named(At("fields", t) \ {}) \subseteq classes
      BY <1>1, <1>2 DEF OnceInv, FieldsSeen
    <3>2. At("fields", t) \ {} = At("fields", t)
      OBVIOUS
    <3> QED
      BY <3>1, <3>2
  <2> QED
    BY <1>2, <2>1, ProgramKept DEF OnceInv, FieldsFirst, Named
<1>8. NotBegun'
  BY <1>2 DEF OnceInv, NotBegun
<1>9. ASSUME Plain
      PROVE  Nested' /\ MembersOnce' /\ Listed'
  <2>1. Nested /\ MembersOnce /\ Listed
    BY <1>9 DEF OnceInv
  <2>2. t \notin classes
    BY <1>1, <1>2, <2>1 DEF Nested
  <2>3. \A i \in DOMAIN stack : i # n /\ stack[i].stage = "fields" => stack[i].of # t /\ Below(stack[i].of, t)
    <3>1. ~Below(t, t)
      BY <1>2, <1>9 DEF Plain, Entwined, Below
    <3> QED
      BY <1>1, <2>1, <3>1 DEF Nested
  <2>4. Nested'
    <3>1. \A i \in DOMAIN stack' : \A j \in DOMAIN stack' :
              stack'[i].stage = "fields" =>
                  /\ stack'[i].of \notin classes'
                  /\ j > i => stack'[j].stage \in {"fields", "members"} /\ Below(stack'[i].of, stack'[j].of)
      <4> TAKE i \in DOMAIN stack'
      <4> TAKE j \in DOMAIN stack'
      <4> HAVE stack'[i].stage = "fields"
      <4>1. i \in DOMAIN stack /\ i # n /\ stack'[i] = stack[i]
        BY <1>3, <1>4 DEF Newest
      <4>2. stack'[i].of \notin classes'
        BY <1>2, <2>1, <2>3, <4>1 DEF Nested
      <4>3. CASE j \in DOMAIN stack /\ j # n
        BY <1>4, <2>1, <4>1, <4>2, <4>3 DEF Nested
      <4>4. CASE Newest(j, f)
        BY <1>3, <2>3, <4>1, <4>2, <4>4 DEF Newest
      <4> QED
        BY <1>4, <4>3, <4>4
    <3> QED
      BY <1>2, <3>1, ProgramKept DEF Nested
  <2>5. \A i \in DOMAIN stack : stack[i].stage = "members" => stack[i].of # t
    BY <2>2 DEF OnceInv, FramesFit, Fits
  <2>6. MembersOnce'
    <3>1. \A i \in DOMAIN stack' : Older(i) \/ Newest(i, f)
      BY <1>4
    <3> QED
      BY <1>3, <2>1, <2>5, <3>1, MembersOnceGoesOn
  <2>7. Listed'
    <3>1. ~Listable(t)
      BY <1>2, <2>2, DisjointAssumption DEF Listable, OnceInv, Tables
    <3>2. ASSUME NEW i \in DOMAIN stack', Newest(i, f),
                 phase \in {"classes", "bodies", "lowerClasses"}
          PROVE  stack'[i].of \notin ToSet(pending) \cup lowered
      BY <1>3, <2>1, <3>1, <3>2 DEF Newest, Listed
    <3> QED
      BY <1>2, <1>4, <2>1, <3>2, ListedGoesOn
  <2> QED
    BY <2>4, <2>6, <2>7
<1> QED
  BY <1>2, <1>5, <1>6, <1>7, <1>8, <1>9, ProgramKept DEF OnceInv

LEMMA AddMembersOnce ==
  ASSUME OnceInv, AddMembers
  PROVE  OnceInv'
<1> DEFINE n == Len(stack)
           t == Top.of
<1>1. /\ n \in DOMAIN stack /\ Top = stack[n] /\ stack[n] \in Frames /\ Fits(stack[n])
      /\ DOMAIN stack = 1..n /\ n \in Nat
  BY StackTyped DEF OnceInv, FramesFit, AddMembers
<1>2. /\ Top.stage = "members" /\ stack # <<>> /\ t \in ClassTypes /\ t \in classes
      /\ pending' = Append(pending, t) /\ stack' = Front(stack)
      /\ UNCHANGED <<program, phase, classes, generics, saved, lowered, left, verdict>>
  BY <1>1 DEF AddMembers, Fits
<1>3. /\ stack' \in Seq(Frames)
      /\ \A i \in DOMAIN stack : i # n => Older(i) /\ stack'[i] = stack[i]
      /\ \A i \in DOMAIN stack' : i \in DOMAIN stack /\ i # n
  BY <1>2, Popped DEF OnceInv
<1>4. Tables'
  <2>1. t \in Bodies /\ pending \in Seq(Bodies)
    BY <1>2 DEF OnceInv, Tables, Bodies
  <2>2. pending' \in Seq(Bodies)
    BY <1>2, <2>1
  <2> QED
    BY <1>2, <1>3, <2>2 DEF OnceInv, Tables
<1>5. FramesFit' /\ FieldsSeen'
  <2>1. \A i \in DOMAIN stack' : Sound(i)
    BY <1>3 DEF Sound, Continues
  <2> QED
    BY <1>2, <2>1, FramesGoOn DEF OnceInv
<1>6. FieldsFirst' /\ NotBegun'
  BY <1>2, ProgramKept DEF OnceInv, FieldsFirst, NotBegun, Named
<1>7. ASSUME Plain
      PROVE  Nested' /\ MembersOnce' /\ Listed'
  <2>1. Nested /\ MembersOnce /\ Listed
    BY <1>7 DEF OnceInv
  <2>2. Nested'
    <3>1. \A i \in DOMAIN stack' : \A j \in DOMAIN stack' :
              stack'[i].stage = "fields" =>
                  /\ stack'[i].of \notin classes
                  /\ j > i => stack'[j].stage \in {"fields", "members"} /\ Below(stack'[i].of, stack'[j].of)
      BY <1>3, <2>1 DEF Nested
    <3> QED
      BY <1>2, <3>1, ProgramKept DEF Nested
  <2>3. MembersOnce'
    BY <1>3, <2>1 DEF MembersOnce
  <2>4. Listed'
    <3>1. CASE phase \in {"classes", "bodies", "lowerClasses"}
      <4>1. /\ NoRepeats /\ \A b \in ToSet(pending) \cup lowered : Listable(b)
            /\ \A i \in DOMAIN stack : stack[i].stage = "members" => stack[i].of \notin ToSet(pending) \cup lowered
        BY <2>1, <3>1 DEF Listed
      <4>2. t \notin ToSet(pending) /\ t \notin lowered
        BY <1>1, <1>2, <4>1
      <4>3. NoRepeats' /\ ToSet(pending)' = ToSet(pending) \cup {t}
        BY <1>2, <4>1, <4>2, ListGrows DEF OnceInv
      <4>4. \A b : Listable(b)' <=> Listable(b)
        BY <1>2 DEF Listable
      <4>5. Listable(t)
        BY <1>2 DEF Listable
      <4>6. \A i \in DOMAIN stack' : stack'[i].stage = "members" => stack'[i].of # t
        BY <1>1, <1>2, <1>3, <2>1 DEF MembersOnce
      <4>7. \A i \in DOMAIN stack' : stack'[i].stage = "members" => stack'[i].of \notin ToSet(pending)' \cup lowered'
        BY <1>2, <1>3, <4>1, <4>3, <4>6
      <4>8. \A b \in ToSet(pending)' \cup lowered' : Listable(b)'
        BY <1>2, <4>1, <4>3, <4>4, <4>5
      <4> QED
        BY <4>3, <4>7, <4>8 DEF Listed
    <3>2. CASE phase \notin {"classes", "bodies", "lowerClasses"}
      BY <1>2, <3>2 DEF Listed
    <3> QED
      BY <3>1, <3>2
  <2> QED
    BY <2>2, <2>3, <2>4
<1> QED
  BY <1>2, <1>4, <1>5, <1>6, <1>7, ProgramKept DEF OnceInv

\* Of the calls in progress, as a step of the innermost one finds them.
LEMMA TopFacts ==
  ASSUME OnceInv, stack # <<>>
  PROVE  /\ Len(stack) \in DOMAIN stack /\ Top = stack[Len(stack)] /\ DOMAIN stack = 1..Len(stack)
         /\ Top \in Frames /\ Fits(Top) /\ Len(stack) \in Nat
         /\ Top.todo \subseteq Uses
BY StackTyped DEF OnceInv, FramesFit, Frames

\* Nothing but the outcome is changed.
LEMMA GivesUpOnce ==
  ASSUME OnceInv, NEW v \in {"recursion", "outgrown"}, GivesUp(v)
  PROVE  OnceInv'
<1>1. UNCHANGED <<program, phase, stack, classes, generics, saved, pending, lowered, left>> /\ verdict' = v
  BY DEF GivesUp
<1>2. Tables' /\ NotBegun'
  BY <1>1 DEF OnceInv, Tables, NotBegun
<1>3. \A i \in DOMAIN stack' : Sound(i)
  BY <1>1 DEF Sound, Continues
<1>4. FramesFit' /\ FieldsSeen'
  BY <1>1, <1>3, FramesGoOn DEF OnceInv
<1>5. FieldsFirst'
  BY <1>1, ProgramKept DEF OnceInv, FieldsFirst, Named
<1>6. Nested' <=> Nested
  BY <1>1, ProgramKept DEF Nested
<1>7. (MembersOnce' <=> MembersOnce) /\ (Listed' <=> Listed)
  BY <1>1 DEF MembersOnce, Listed, NoRepeats, Listable
<1> QED
  BY <1>1, <1>2, <1>4, <1>5, <1>6, <1>7, ProgramKept DEF OnceInv

LEMMA EnsureClassOnce ==
  ASSUME OnceInv, stack # <<>>, NEW u \in Top.todo, EnsureClass(u)
  PROVE  OnceInv'
<1> DEFINE n == Len(stack)
           v == u[2]
           f == Call("fields", v, At("fields", v))
<1>1. CASE Overflow
  BY <1>1, GivesUpOnce DEF Overflow
<1>2. CASE stack' = InstantiateFields(v)
           /\ UNCHANGED <<program, phase, classes, generics, saved, pending, lowered, left, verdict>>
  <2>1. /\ n \in DOMAIN stack /\ Top = stack[n] /\ DOMAIN stack = 1..n /\ n \in Nat
        /\ u \in Uses /\ v \notin classes /\ v \in ClassTypes
    BY TopFacts, UseTyped DEF EnsureClass
  <2>2. /\ f \in Frames /\ f.stage = "fields" /\ f.of = v /\ f.todo = At("fields", v)
    <3>1. At("fields", v) \in SUBSET Uses /\ v \in CallOf
      BY <2>1, AtTyped DEF OnceInv, CallOf, Bodies
    <3> QED
      BY <3>1 DEF Call, Frames, OnceInv, Tables
  <2>3. stack' = Append(stack, f)
    BY <1>2 DEF InstantiateFields
  <2> HIDE DEF f
  <2>4. /\ stack' \in Seq(Frames) /\ Len(stack') = n + 1
        /\ \A i \in DOMAIN stack : Older(i) /\ stack'[i] = stack[i]
        /\ \A i \in DOMAIN stack' : i \in DOMAIN stack \/ Newest(i, f)
        /\ Newest(Len(stack'), f)
    BY <2>2, <2>3, Pushed DEF OnceInv
  <2>5. Tables' /\ NotBegun'
    BY <1>2, <2>4 DEF OnceInv, Tables, NotBegun
  <2>6. FramesFit' /\ FieldsSeen'
    <3>1. ASSUME NEW i \in DOMAIN stack', Newest(i, f)
          PROVE  Starts(stack[i])'
      BY <2>1, <2>2, <3>1, <1>2, ProgramKept DEF Newest, Starts, Fits
    <3>2. \A i \in DOMAIN stack' : Sound(i)
      BY <2>4, <3>1 DEF Sound, Continues
    <3> QED
      BY <1>2, <3>2, FramesGoOn DEF OnceInv
  <2>7. FieldsFirst'
    BY <1>2, ProgramKept DEF OnceInv, FieldsFirst, Named
  <2>8. ASSUME Plain
        PROVE  Nested' /\ MembersOnce' /\ Listed'
    <3>1. Nested /\ MembersOnce /\ Listed
      BY <2>8 DEF OnceInv
    <3>2. \A i \in DOMAIN stack : stack[i].stage = "fields" => Below(stack[i].of, v)
      BY <3>1, UseBelow DEF OnceInv
    <3>3. Fitting(f)
      BY <2>1, <2>2, <3>2 DEF Fitting
    <3>4. \A i \in DOMAIN stack' : Older(i) \/ Newest(i, f)
      BY <2>4
    <3>5. Nested'
      BY <1>2, <2>4, <3>1, <3>3, <3>4, NestedGoesOn DEF OnceInv
    <3>6. MembersOnce'
      BY <2>2, <3>1, <3>4, MembersOnceGoesOn
    <3>7. Listed'
      <4>1. \A i \in DOMAIN stack' : stack'[i].stage = "members" => Older(i)
        BY <2>2, <3>4 DEF Newest
      <4> QED
        BY <1>2, <3>1, <4>1, ListedGoesOn
    <3> QED
      BY <3>5, <3>6, <3>7
  <2> QED
    BY <1>2, <2>5, <2>6, <2>7, <2>8, ProgramKept DEF OnceInv
<1> QED
  BY <1>1, <1>2 DEF EnsureClass

\* A use that is done with: no call begins or ends.
LEMMA UseDoneOnce ==
  ASSUME OnceInv, stack # <<>>, NEW u \in Top.todo, stack' = WithoutUse(u),
         UNCHANGED <<program, phase, classes, lowered>>, generics \subseteq generics',
         Top.stage = "fields" => u[2] \in classes, Tables'
  PROVE  /\ FramesFit' /\ FieldsSeen' /\ FieldsFirst' /\ NotBegun'
         /\ Plain => Nested' /\ MembersOnce'
         /\ \A i \in DOMAIN stack' : Older(i)
<1> DEFINE n == Len(stack)
<1>1. /\ n \in DOMAIN stack /\ Top = stack[n] /\ DOMAIN stack = 1..n /\ n \in Nat /\ u \in Uses
  BY TopFacts
<1>2. /\ stack' \in Seq(Frames) /\ DOMAIN stack' = DOMAIN stack
      /\ Keeps(n, u)
      /\ \A i \in DOMAIN stack : i # n => Older(i) /\ stack'[i] = stack[i]
  BY Lessened DEF OnceInv
<1>3. \A i \in DOMAIN stack' : Older(i)
  BY <1>2 DEF Keeps
<1>4. \A i \in DOMAIN stack' : Sound(i)
  BY <1>1, <1>2 DEF Sound, Continues, Used
<1>5. FramesFit' /\ FieldsSeen'
  BY <1>4, FramesGoOn DEF OnceInv
<1>6. FieldsFirst' /\ NotBegun'
  BY ProgramKept DEF OnceInv, FieldsFirst, NotBegun, Named
<1>7. ASSUME Plain
      PROVE  Nested' /\ MembersOnce'
  <2>1. Nested /\ MembersOnce
    BY <1>7 DEF OnceInv
  <2>2. MembersOnce'
    BY <1>3, <2>1 DEF MembersOnce, Older
  <2>3. ASSUME NEW i \in DOMAIN stack', stack'[i].stage = "fields"
        PROVE  /\ stack'[i].of \notin classes'
               /\ \A j \in DOMAIN stack' : j > i =>
                     stack'[j].stage \in {"fields", "members"} /\ Below(stack'[i].of, stack'[j].of)
    BY <1>3, <2>1, <2>3 DEF Nested, Older
  <2> QED
    BY <2>2, <2>3, ProgramKept DEF Nested
<1> QED
  BY <1>3, <1>5, <1>6, <1>7

LEMMA KnownTypeOnce ==
  ASSUME OnceInv, stack # <<>>, NEW u \in Top.todo, KnownType(u)
  PROVE  OnceInv'
<1>1. /\ u[2] \in classes /\ stack' = WithoutUse(u)
      /\ UNCHANGED <<program, phase, classes, generics, saved, pending, lowered, left, verdict>>
  BY DEF KnownType
<1>2. Tables'
  BY <1>1, Lessened DEF OnceInv, Tables
<1>3. /\ FramesFit' /\ FieldsSeen' /\ FieldsFirst' /\ NotBegun'
      /\ Plain => Nested' /\ MembersOnce'
      /\ \A i \in DOMAIN stack' : Older(i)
  BY <1>1, <1>2, UseDoneOnce
<1>4. Listed => Listed'
  BY <1>1, <1>3, ListedGoesOn
<1> QED
  BY <1>1, <1>2, <1>3, <1>4, ProgramKept DEF OnceInv

\* A call that looks at an expression is not part of making a class.
LEMMA ExpressionCall ==
  ASSUME OnceInv, stack # <<>>, NEW u \in Top.todo, u \notin TypeUses
  PROVE  /\ Top.stage \notin {"fields", "members"}
         /\ Plain => \A i \in DOMAIN stack : stack[i].stage # "fields"
<1>1. Fits(Top)
  BY TopFacts
<1>2. Top.stage \notin {"fields", "members"}
  BY <1>1, AtTyped DEF Fits, OnceInv
<1>3. ASSUME Plain, NEW i \in DOMAIN stack, stack[i].stage = "fields"
      PROVE  FALSE
  BY <1>3, UseBelow DEF OnceInv
<1> QED
  BY <1>2, <1>3

LEMMA ConstructOnce ==
  ASSUME OnceInv, stack # <<>>, NEW u \in Top.todo, Construct(u)
  PROVE  OnceInv'
<1> DEFINE n == Len(stack)
           v == u[2]
           f == Call("new", v, At("defaults", v))
<1>1. CASE Overflow
  BY <1>1, GivesUpOnce DEF Overflow
<1>2. CASE stack' = Append(WithoutUse(u), f)
           /\ UNCHANGED <<program, phase, classes, generics, saved, pending, lowered, left, verdict>>
  <2>1. /\ n \in DOMAIN stack /\ Top = stack[n] /\ DOMAIN stack = 1..n /\ n \in Nat
        /\ u \in Uses /\ v \in classes /\ v \in ClassTypes /\ u \notin TypeUses
    BY TopFacts DEF Construct, OnceInv, Tables, TypeUses
  <2>2. /\ f \in Frames /\ f.stage = "new" /\ f.of = v /\ f.todo = At("defaults", v)
    <3>1. At("defaults", v) \in SUBSET Uses /\ v \in CallOf
      BY <2>1, AtTyped DEF OnceInv, CallOf, Bodies
    <3> QED
      BY <3>1 DEF Call, Frames, OnceInv, Tables
  <2>3. stack' = Append(WithoutUse(u), f)
    BY <1>2
  <2> HIDE DEF f
  <2>4. /\ stack' \in Seq(Frames) /\ Len(stack') = n + 1
        /\ Keeps(n, u)
        /\ \A i \in DOMAIN stack : i # n => Older(i) /\ stack'[i] = stack[i]
        /\ \A i \in DOMAIN stack' : i \in DOMAIN stack \/ Newest(i, f)
        /\ Newest(Len(stack'), f)
    BY <2>2, <2>3, LessenedAndPushed DEF OnceInv
  <2>5. Tables' /\ NotBegun'
    BY <1>2, <2>4 DEF OnceInv, Tables, NotBegun
  <2>6. FramesFit' /\ FieldsSeen'
    <3>1. ASSUME NEW i \in DOMAIN stack', Newest(i, f)
          PROVE  Starts(stack[i])'
      BY <2>1, <2>2, <3>1, <1>2, ProgramKept DEF Newest, Starts, Fits
    <3>2. Used(n, u)
      BY <2>1, <2>4 DEF Used
    <3>3. \A i \in DOMAIN stack' : Sound(i)
      BY <2>1, <2>4, <3>1, <3>2 DEF Sound, Continues
    <3> QED
      BY <1>2, <3>3, FramesGoOn DEF OnceInv
  <2>7. FieldsFirst'
    BY <1>2, ProgramKept DEF OnceInv, FieldsFirst, Named
  <2>8. ASSUME Plain
        PROVE  Nested' /\ MembersOnce' /\ Listed'
    <3>1. Nested /\ MembersOnce /\ Listed
      BY <2>8 DEF OnceInv
    <3>2. \A i \in DOMAIN stack : stack[i].stage # "fields"
      BY <2>1, <2>8, ExpressionCall
    <3>3. Fitting(f)
      BY <2>2, <3>2 DEF Fitting
    <3>4. \A i \in DOMAIN stack' : Older(i) \/ Newest(i, f)
      BY <2>4 DEF Keeps
    <3>5. Nested'
      BY <1>2, <2>4, <3>1, <3>3, <3>4, NestedGoesOn DEF OnceInv
    <3>6. MembersOnce'
      BY <2>2, <3>1, <3>4, MembersOnceGoesOn
    <3>7. Listed'
      <4>1. \A i \in DOMAIN stack' : stack'[i].stage = "members" => Older(i)
        BY <2>2, <3>4 DEF Newest
      <4> QED
        BY <1>2, <3>1, <4>1, ListedGoesOn
    <3> QED
      BY <3>5, <3>6, <3>7
  <2> QED
    BY <1>2, <2>5, <2>6, <2>7, <2>8, ProgramKept DEF OnceInv
<1> QED
  BY <1>1, <1>2 DEF Construct

LEMMA CallGenericOnce ==
  ASSUME OnceInv, stack # <<>>, NEW u \in Top.todo, CallGeneric(u)
  PROVE  OnceInv'
<1> DEFINE g == u[2]
<1>1. /\ g \in Generics /\ generics' = generics \cup {g} /\ stack' = WithoutUse(u)
      /\ pending' = IF g \in generics THEN pending ELSE Append(pending, g)
      /\ UNCHANGED <<program, phase, classes, saved, lowered, left, verdict>>
  BY UseTyped DEF CallGeneric
<1>2. u \notin TypeUses
  BY UseTyped DEF CallGeneric
<1>3. Tables'
  <2>1. pending' \in Seq(Bodies)
    BY <1>1 DEF OnceInv, Tables, Bodies
  <2>2. stack' \in Seq(Frames)
    BY <1>1, Lessened DEF OnceInv
  <2> QED
    BY <1>1, <2>1, <2>2 DEF OnceInv, Tables
<1>4. /\ FramesFit' /\ FieldsSeen' /\ FieldsFirst' /\ NotBegun'
      /\ Plain => Nested' /\ MembersOnce'
      /\ \A i \in DOMAIN stack' : Older(i)
  <2>1. Top.stage \notin {"fields", "members"}
    BY <1>2, ExpressionCall
  <2> QED
    BY <1>1, <1>3, <2>1, UseDoneOnce
<1>5. ASSUME Plain
      PROVE  Listed'
  <2>1. Listed
    BY <1>5 DEF OnceInv
  <2>2. CASE g \in generics
    BY <1>1, <1>4, <2>1, <2>2, ListedGoesOn
  <2>3. CASE g \notin generics /\ phase \in {"classes", "bodies", "lowerClasses"}
    <3>1. /\ NoRepeats /\ \A b \in ToSet(pending) \cup lowered : Listable(b)
          /\ \A i \in DOMAIN stack : stack[i].stage = "members" => stack[i].of \notin ToSet(pending) \cup lowered
      BY <2>1, <2>3 DEF Listed
    <3>2. ~Listable(g) /\ g \notin ClassTypes
      BY <1>1, <2>3, DisjointAssumption DEF Listable, OnceInv, Tables
    <3>3. NoRepeats' /\ ToSet(pending)' = ToSet(pending) \cup {g}
      BY <1>1, <2>3, <3>1, <3>2, ListGrows DEF OnceInv
    <3>4. (\A b : Listable(b) => Listable(b)') /\ Listable(g)'
      BY <1>1 DEF Listable
    <3>5. \A i \in DOMAIN stack' : stack'[i].stage = "members" => stack'[i].of \notin ToSet(pending)' \cup lowered'
      <4> TAKE i \in DOMAIN stack'
      <4>1. i \in DOMAIN stack /\ stack'[i].stage = stack[i].stage /\ stack'[i].of = stack[i].of
        BY <1>4 DEF Older
      <4>2. stack[i].stage = "members" => stack[i].of \in ClassTypes
        BY <4>1 DEF OnceInv, FramesFit, Fits
      <4> QED
        BY <1>1, <3>1, <3>2, <3>3, <4>1, <4>2
    <3>6. \A b \in ToSet(pending)' \cup lowered' : Listable(b)'
      BY <1>1, <3>1, <3>3, <3>4
    <3> QED
      BY <3>3, <3>5, <3>6 DEF Listed
  <2>4. CASE phase \notin {"classes", "bodies", "lowerClasses"}
    BY <1>1, <2>4 DEF Listed
  <2> QED
    BY <2>2, <2>3, <2>4
<1> QED
  BY <1>1, <1>3, <1>4, <1>5, ProgramKept DEF OnceInv

LEMMA ReturnOnce ==
  ASSUME OnceInv, Return
  PROVE  OnceInv'
<1>1. /\ stack # <<>> /\ stack' = Front(stack)
      /\ UNCHANGED <<program, phase, classes, generics, saved, pending, lowered, left, verdict>>
  BY DEF Return
<1>2. /\ stack' \in Seq(Frames)
      /\ \A i \in DOMAIN stack' : i \in DOMAIN stack /\ Older(i) /\ stack'[i] = stack[i]
  BY <1>1, Popped DEF OnceInv
<1>3. Tables' /\ NotBegun'
  BY <1>1, <1>2 DEF OnceInv, Tables, NotBegun
<1>4. FramesFit' /\ FieldsSeen'
  <2>1. \A i \in DOMAIN stack' : Sound(i)
    BY <1>2 DEF Sound, Continues
  <2> QED
    BY <1>1, <2>1, FramesGoOn DEF OnceInv
<1>5. FieldsFirst'
  BY <1>1, ProgramKept DEF OnceInv, FieldsFirst, Named
<1>6. ASSUME Plain
      PROVE  Nested' /\ MembersOnce' /\ Listed'
  <2>1. Nested /\ MembersOnce /\ Listed
    BY <1>6 DEF OnceInv
  <2>2. ASSUME NEW i \in DOMAIN stack', stack'[i].stage = "fields"
        PROVE  /\ stack'[i].of \notin classes'
               /\ \A j \in DOMAIN stack' : j > i =>
                     stack'[j].stage \in {"fields", "members"} /\ Below(stack'[i].of, stack'[j].of)
    BY <1>1, <1>2, <2>1, <2>2 DEF Nested
  <2>3. Nested'
    BY <1>1, <2>2, ProgramKept DEF Nested
  <2>4. MembersOnce'
    BY <1>2, <2>1 DEF MembersOnce
  <2>5. Listed'
    BY <1>1, <1>2, <2>1, ListedGoesOn
  <2> QED
    BY <2>3, <2>4, <2>5
<1> QED
  BY <1>1, <1>3, <1>4, <1>5, <1>6, ProgramKept DEF OnceInv

-----------------------------------------------------------------------------
(* One lemma for each pass *)

LEMMA PassOnce ==
  ASSUME OnceInv, NEW of \in CallOf, NEW todo \in SUBSET Uses, Lower(of, todo),
         UNCHANGED <<program, classes>>, Tables', NotBegun',
         (\A i \in DOMAIN stack' : stack'[i].stage # "members") => Listed'
  PROVE  OnceInv'
<1>1. /\ FramesFit' /\ FieldsSeen' /\ Nested' /\ MembersOnce'
      /\ DOMAIN stack' = {1} /\ stack'[1].stage = "lower"
  BY PassBegins DEF OnceInv
<1>2. Listed'
  BY <1>1
<1>3. FieldsFirst'
  BY ProgramKept DEF OnceInv, FieldsFirst, Named
<1> QED
  BY <1>1, <1>2, <1>3 DEF OnceInv

LEMMA TodoTyped ==
  ASSUME Tables
  PROVE  /\ UNION {At("signature", f) : f \in Functions} \in SUBSET Uses
         /\ {"type"} \X PlainClasses \in SUBSET Uses
         /\ \A k, o : At(k, o) \in SUBSET Uses
         /\ \A t \in {"signatures", "structs", "templates", "classes", "class"} : t \in CallOf
BY AtTyped, PlainAssumption DEF Uses, CallOf

LEMMA CollectFunctionsOnce ==
  ASSUME OnceInv, CollectFunctions
  PROVE  OnceInv'
<1> DEFINE todo == UNION {At("signature", f) : f \in Functions}
<1>1. /\ phase = "start" /\ phase' = "functions" /\ Lower("signatures", todo)
      /\ UNCHANGED <<program, classes, generics, saved, pending, lowered, left, verdict>>
  BY DEF CollectFunctions
<1>2. "signatures" \in CallOf /\ todo \in SUBSET Uses
  BY TodoTyped DEF OnceInv
<1> HIDE DEF todo
<1>3. stack' \in Seq(Frames)
  BY <1>1, <1>2, PassBegins DEF OnceInv
<1>4. Tables'
  BY <1>1, <1>3 DEF OnceInv, Tables, Phases
<1>5. NotBegun' /\ Listed'
  BY <1>1 DEF OnceInv, NotBegun, Listed
<1> QED
  BY <1>1, <1>2, <1>4, <1>5, PassOnce

LEMMA LowerStructsOnce ==
  ASSUME OnceInv, LowerStructs
  PROVE  OnceInv'
<1>1. /\ phase = "functions" /\ phase' = "structs" /\ Lower("structs", At("structs", "defaults"))
      /\ UNCHANGED <<program, classes, generics, saved, pending, lowered, left, verdict>>
  BY DEF LowerStructs
<1>2. "structs" \in CallOf /\ At("structs", "defaults") \in SUBSET Uses
  BY TodoTyped DEF OnceInv
<1>3. stack' \in Seq(Frames)
  BY <1>1, <1>2, PassBegins DEF OnceInv
<1>4. Tables'
  BY <1>1, <1>3 DEF OnceInv, Tables, Phases
<1>5. NotBegun' /\ Listed'
  BY <1>1 DEF OnceInv, NotBegun, Listed
<1> QED
  BY <1>1, <1>2, <1>4, <1>5, PassOnce

LEMMA ValidateTemplatesOnce ==
  ASSUME OnceInv, ValidateTemplates
  PROVE  OnceInv'
<1>1. /\ phase = "structs" /\ phase' = "templates" /\ saved' = generics /\ generics' = {} /\ pending' = <<>>
      /\ Lower("templates", At("templates", "bodies"))
      /\ UNCHANGED <<program, classes, lowered, left, verdict>>
  BY DEF ValidateTemplates
<1>2. "templates" \in CallOf /\ At("templates", "bodies") \in SUBSET Uses
  BY TodoTyped DEF OnceInv
<1>3. stack' \in Seq(Frames)
  BY <1>1, <1>2, PassBegins DEF OnceInv
<1>4. Tables'
  BY <1>1, <1>3 DEF OnceInv, Tables, Phases
<1>5. NotBegun' /\ Listed'
  BY <1>1 DEF OnceInv, NotBegun, Listed
<1> QED
  BY <1>1, <1>2, <1>4, <1>5, PassOnce

LEMMA InstantiateClassesOnce ==
  ASSUME OnceInv, InstantiateClasses
  PROVE  OnceInv'
<1> DEFINE todo == {"type"} \X PlainClasses
<1>1. /\ phase = "templates" /\ phase' = "classes" /\ generics' = saved /\ saved' = {}
      /\ pending' = SetToSeq(Functions) /\ Lower("classes", todo)
      /\ UNCHANGED <<program, classes, lowered, left, verdict>>
  BY DEF InstantiateClasses
<1>2. "classes" \in CallOf /\ todo \in SUBSET Uses
  BY TodoTyped DEF OnceInv
<1> HIDE DEF todo
<1>3. stack' \in Seq(Frames)
  BY <1>1, <1>2, PassBegins DEF OnceInv
<1>4. /\ pending' \in Seq(Functions)
      /\ \A i, j \in DOMAIN pending' : pending'[i] = pending'[j] => i = j
  BY <1>1, SetToSeqOnce, FunctionsAssumption
<1>5. Tables'
  <2>1. pending' \in Seq(Bodies)
    BY <1>4 DEF Bodies
  <2> QED
    BY <1>1, <1>3, <2>1 DEF OnceInv, Tables, Phases
<1>6. lowered' = {}
  BY <1>1 DEF OnceInv, NotBegun
<1>7. ASSUME \A i \in DOMAIN stack' : stack'[i].stage # "members"
      PROVE  Listed'
  <2>1. NoRepeats'
    BY <1>4, <1>6 DEF NoRepeats
  <2>2. \A b \in ToSet(pending)' \cup lowered' : Listable(b)'
    BY <1>4, <1>6 DEF Listable, ToSet
  <2> QED
    BY <1>7, <2>1, <2>2 DEF Listed
<1>8. NotBegun'
  BY <1>6 DEF NotBegun
<1> QED
  BY <1>1, <1>2, <1>5, <1>7, <1>8, PassOnce

LEMMA AddMissingMembersOnce ==
  ASSUME OnceInv, AddMissingMembers
  PROVE  OnceInv'
<1> DEFINE q == SetToSeq(classes \ ToSet(pending))
<1>1. /\ stack = <<>> /\ phase = "classes" /\ phase' = "bodies" /\ pending' = pending \o q
      /\ UNCHANGED <<program, stack, classes, generics, saved, lowered, left, verdict>>
  BY DEF AddMissingMembers, Idle
<1>2. /\ q \in Seq(classes \ ToSet(pending))
      /\ \A i, j \in DOMAIN q : q[i] = q[j] => i = j
  <2>1. IsFiniteSet(classes \ ToSet(pending))
    BY FS_Subset DEF OnceInv, Tables
  <2> QED
    BY <2>1, SetToSeqOnce
<1>3. q \in Seq(Bodies) /\ pending \in Seq(Bodies)
  BY <1>2 DEF OnceInv, Tables, Bodies
<1> HIDE DEF q
<1>4. PICK m, k : m = Len(pending) /\ k = Len(q)
  OBVIOUS
<1>5. /\ m \in Nat /\ k \in Nat /\ DOMAIN pending = 1..m /\ DOMAIN q = 1..k
      /\ pending' \in Seq(Bodies) /\ DOMAIN pending' = 1..(m + k)
      /\ \A i \in 1..(m + k) : pending'[i] = IF i <= m THEN pending[i] ELSE q[i - m]
  BY <1>1, <1>3, <1>4
<1>6. \A i \in DOMAIN pending' : \/ i \in DOMAIN pending /\ pending'[i] = pending[i] /\ pending[i] \in ToSet(pending)
                                 \/ i - m \in DOMAIN q /\ i \in Int /\ pending'[i] = q[i - m] /\ q[i - m] \in classes \ ToSet(pending)
  BY <1>2, <1>5 DEF ToSet
<1>7. Tables'
  BY <1>1, <1>5 DEF OnceInv, Tables, Phases
<1>8. /\ FramesFit' /\ FieldsSeen' /\ Nested' /\ MembersOnce'
  BY <1>1, NothingInProgress
<1>9. FieldsFirst'
  BY <1>1, ProgramKept DEF OnceInv, FieldsFirst, Named
<1>10. lowered' = {} /\ NotBegun'
  BY <1>1 DEF OnceInv, NotBegun
<1>11. ASSUME Plain
       PROVE  Listed'
  <2>1. NoRepeats /\ \A b \in ToSet(pending) \cup lowered : Listable(b)
    BY <1>1, <1>11 DEF OnceInv, Listed
  <2>2. \A i, j \in DOMAIN pending' : pending'[i] = pending'[j] => i = j
    <3> SUFFICES ASSUME NEW i \in DOMAIN pending', NEW j \in DOMAIN pending', pending'[i] = pending'[j]
                 PROVE  i = j
      OBVIOUS
    <3>1. CASE i \in DOMAIN pending /\ j \in DOMAIN pending
      BY <1>5, <2>1, <3>1 DEF NoRepeats
    <3>2. CASE i - m \in DOMAIN q /\ j - m \in DOMAIN q /\ i \in Int /\ j \in Int /\ q[i - m] = q[j - m]
      <4>1. i - m = j - m
        BY <1>2, <3>2
      <4> QED
        BY <1>5, <3>2, <4>1
    <3> QED
      BY <1>6, <3>1, <3>2
  <2>3. NoRepeats'
    BY <1>10, <2>2 DEF NoRepeats
  <2>4. \A b \in ToSet(pending)' : b \in ToSet(pending) \cup classes
    BY <1>6 DEF ToSet
  <2>5. \A b : (b \in classes => Listable(b)') /\ (Listable(b) => Listable(b)')
    BY <1>1 DEF Listable
  <2>6. \A b \in ToSet(pending)' \cup lowered' : Listable(b)'
    BY <1>10, <2>1, <2>4, <2>5
  <2>7. DOMAIN stack' = {}
    BY <1>1
  <2> QED
    BY <2>3, <2>6, <2>7 DEF Listed
<1> QED
  BY <1>1, <1>7, <1>8, <1>9, <1>10, <1>11, ProgramKept DEF OnceInv

LEMMA LowerFunctionOnce ==
  ASSUME OnceInv, LowerFunction
  PROVE  OnceInv'
<1>1. /\ phase = "bodies" /\ pending # <<>> /\ pending' = Tail(pending) /\ lowered' = lowered \cup {Head(pending)}
      /\ UNCHANGED <<program, phase, classes, generics, saved, left, verdict>>
  BY DEF LowerFunction
<1>2. PICK m : m = Len(pending)
  OBVIOUS
<1>3. /\ m \in Nat /\ m >= 1 /\ DOMAIN pending = 1..m /\ Head(pending) = pending[1]
      /\ pending' \in Seq(Bodies) /\ DOMAIN pending' = 1..(m - 1) /\ Head(pending) \in Bodies
      /\ \A i \in 1..(m - 1) : pending'[i] = pending[i + 1]
  BY <1>1, <1>2 DEF OnceInv, Tables
<1>4. PICK h : h = Head(pending)
  OBVIOUS
<1>5. At("body", h) \in SUBSET Uses /\ h \in CallOf /\ Lower(h, At("body", h))
  BY <1>3, <1>4, TodoTyped DEF OnceInv, CallOf, LowerFunction
<1>6. stack' \in Seq(Frames)
  BY <1>5, PassBegins DEF OnceInv
<1>7. Tables'
  BY <1>1, <1>3, <1>6 DEF OnceInv, Tables
<1>8. NotBegun'
  BY <1>1 DEF NotBegun
<1>9. ASSUME Plain, \A i \in DOMAIN stack' : stack'[i].stage # "members"
      PROVE  Listed'
  <2>1. NoRepeats /\ \A b \in ToSet(pending) \cup lowered : Listable(b)
    BY <1>1, <1>9 DEF OnceInv, Listed
  <2>2. \A i \in DOMAIN pending' : i + 1 \in DOMAIN pending /\ pending'[i] = pending[i + 1] /\ i \in Nat /\ i + 1 # 1
    BY <1>3
  <2>3. h = pending[1] /\ 1 \in DOMAIN pending /\ h \in ToSet(pending)
    BY <1>3, <1>4 DEF ToSet
  <2>4. \A i, j \in DOMAIN pending' : pending'[i] = pending'[j] => i = j
    <3> SUFFICES ASSUME NEW i \in DOMAIN pending', NEW j \in DOMAIN pending', pending'[i] = pending'[j]
                 PROVE  i = j
      OBVIOUS
    <3>1. i + 1 = j + 1
      BY <2>1, <2>2 DEF NoRepeats
    <3> QED
      BY <2>2, <3>1
  <2>5. \A i \in DOMAIN pending' : pending'[i] \notin lowered'
    BY <1>1, <1>4, <2>1, <2>2, <2>3 DEF NoRepeats
  <2>6. \A b \in ToSet(pending)' : b \in ToSet(pending)
    BY <2>2 DEF ToSet
  <2>7. \A b \in ToSet(pending)' \cup lowered' : Listable(b)'
    BY <1>1, <1>4, <2>1, <2>3, <2>6 DEF Listable
  <2>8. NoRepeats'
    BY <2>4, <2>5 DEF NoRepeats
  <2> QED
    BY <1>9, <2>7, <2>8 DEF Listed
<1>10. Plain' <=> Plain
  BY <1>1, ProgramKept
<1>11. /\ FramesFit' /\ FieldsSeen' /\ Nested' /\ MembersOnce'
       /\ \A i \in DOMAIN stack' : stack'[i].stage # "members"
  BY <1>5, PassBegins DEF OnceInv
<1>12. FieldsFirst'
  BY <1>1, ProgramKept DEF OnceInv, FieldsFirst, Named
<1> QED
  BY <1>7, <1>8, <1>9, <1>10, <1>11, <1>12 DEF OnceInv

LEMMA LowerClassesOnce ==
  ASSUME OnceInv, LowerClasses
  PROVE  OnceInv'
<1>1. /\ stack = <<>> /\ phase = "bodies" /\ phase' = "lowerClasses" /\ left' = classes /\ saved' = classes
      /\ UNCHANGED <<program, stack, classes, generics, pending, lowered, verdict>>
  BY DEF LowerClasses, Idle
<1>2. Tables' /\ NotBegun'
  BY <1>1 DEF OnceInv, Tables, Phases, NotBegun
<1>3. /\ FramesFit' /\ FieldsSeen' /\ Nested' /\ MembersOnce'
  BY <1>1, NothingInProgress
<1>4. FieldsFirst'
  BY <1>1, ProgramKept DEF OnceInv, FieldsFirst, Named
<1>5. Listed => Listed'
  BY <1>1 DEF Listed, NoRepeats, Listable
<1> QED
  BY <1>1, <1>2, <1>3, <1>4, <1>5, ProgramKept DEF OnceInv

LEMMA LowerClassOnce ==
  ASSUME OnceInv, LowerClass
  PROVE  OnceInv'
<1>1. /\ stack = <<>> /\ phase = "lowerClasses"
      /\ UNCHANGED <<program, phase, classes, generics, saved, pending, lowered>>
  BY DEF LowerClass, Idle
<1>2. CASE verdict' \in {"changed", "done"} /\ UNCHANGED <<stack, left>>
  <2>1. Tables' /\ NotBegun'
    BY <1>1, <1>2 DEF OnceInv, Tables, NotBegun
  <2>2. /\ FramesFit' /\ FieldsSeen' /\ Nested' /\ MembersOnce'
    BY <1>1, <1>2, NothingInProgress
  <2>3. FieldsFirst'
    BY <1>1, ProgramKept DEF OnceInv, FieldsFirst, Named
  <2>4. Listed => Listed'
    BY <1>1, <1>2 DEF Listed, NoRepeats, Listable
  <2> QED
    BY <1>1, <2>1, <2>2, <2>3, <2>4, ProgramKept DEF OnceInv
<1>3. ASSUME NEW t \in left, left' = left \ {t}, Lower("class", At("defaults", t)), UNCHANGED verdict
      PROVE  OnceInv'
  <2>1. "class" \in CallOf /\ At("defaults", t) \in SUBSET Uses
    BY TodoTyped DEF OnceInv
  <2>2. /\ stack' \in Seq(Frames)
        /\ FramesFit' /\ FieldsSeen' /\ Nested' /\ MembersOnce'
        /\ \A i \in DOMAIN stack' : stack'[i].stage # "members"
    BY <1>3, <2>1, PassBegins DEF OnceInv
  <2>3. Tables' /\ NotBegun'
    BY <1>1, <1>3, <2>2 DEF OnceInv, Tables, NotBegun
  <2>4. Listed => Listed'
    BY <1>1, <2>2, ListedGoesOn
  <2>5. FieldsFirst'
    BY <1>1, ProgramKept DEF OnceInv, FieldsFirst, Named
  <2> QED
    BY <1>1, <2>2, <2>3, <2>4, <2>5, ProgramKept DEF OnceInv
<1> QED
  BY <1>1, <1>2, <1>3 DEF LowerClass

-----------------------------------------------------------------------------
(* The invariant *)

LEMMA OnceInit == Init => OnceInv
<1> SUFFICES ASSUME Init
             PROVE  OnceInv
  OBVIOUS
<1>1. Tables
  BY ProgramsAssumption, FS_EmptySet DEF Init, Tables, Phases
<1>2. DOMAIN stack = {} /\ lowered = {} /\ phase = "start" /\ classes = {}
  BY DEF Init
<1> QED
  BY <1>1, <1>2 DEF OnceInv, FramesFit, FieldsSeen, FieldsFirst, NotBegun, Nested, MembersOnce, Listed

LEMMA OnceNext == OnceInv /\ [Next]_vars => OnceInv'
<1> SUFFICES ASSUME OnceInv, [Next]_vars
             PROVE  OnceInv'
  OBVIOUS
<1>1. CASE LookAt
  <2>1. /\ stack # <<>>
        /\ \E u \in Top.todo :
               GivesUp("outgrown") \/ EnsureClass(u) \/ KnownType(u) \/ Construct(u) \/ CallGeneric(u)
    BY <1>1 DEF LookAt, Outgrow
  <2> QED
    BY <2>1, GivesUpOnce, EnsureClassOnce, KnownTypeOnce, ConstructOnce, CallGenericOnce
<1>2. CASE UNCHANGED vars
  <2>1. UNCHANGED <<program, phase, stack, classes, generics, saved, pending, lowered, left, verdict>>
    BY <1>2 DEF vars
  <2>2. Tables' /\ NotBegun'
    BY <2>1 DEF OnceInv, Tables, NotBegun
  <2>3. FramesFit' /\ FieldsSeen'
    <3>1. \A i \in DOMAIN stack' : Sound(i)
      BY <2>1 DEF Sound, Continues
    <3> QED
      BY <2>1, <3>1, FramesGoOn DEF OnceInv
  <2>4. FieldsFirst' /\ (Nested' <=> Nested)
    BY <2>1, ProgramKept DEF OnceInv, FieldsFirst, Named, Nested
  <2>5. (MembersOnce' <=> MembersOnce) /\ (Listed' <=> Listed)
    BY <2>1 DEF MembersOnce, Listed, NoRepeats, Listable
  <2> QED
    BY <2>1, <2>2, <2>3, <2>4, <2>5, ProgramKept DEF OnceInv
<1> QED
  BY <1>1, <1>2, RegisterOnce, AddMembersOnce, ReturnOnce, CollectFunctionsOnce, LowerStructsOnce,
     ValidateTemplatesOnce, InstantiateClassesOnce, AddMissingMembersOnce, LowerFunctionOnce,
     LowerClassesOnce, LowerClassOnce DEF Next

LEMMA OnceSuffices == OnceInv => OnceOnly
<1> SUFFICES ASSUME OnceInv
             PROVE  OnceOnly
  OBVIOUS
<1>1. ASSUME NEW i \in DOMAIN stack
      PROVE  /\ stack[i].stage \in {"fields", "members", "lower", "new"}
             /\ stack[i].todo \subseteq Uses
             /\ stack[i].stage \in {"fields", "members"} =>
                  stack[i].of \in ClassTypes /\ stack[i].todo \subseteq TypeUses
  <2>1. stack[i] \in Frames /\ Fits(stack[i])
    BY StackTyped DEF OnceInv, FramesFit
  <2> QED
    BY <2>1, AtTyped DEF Frames, Fits, OnceInv
<1>2. ToSet(pending) \subseteq Bodies
  BY DEF OnceInv, Tables, ToSet
<1>3. TypeOK
  <2>1. saved \subseteq ClassTypes \cup Generics
    BY DEF OnceInv, Tables
  <2> QED
    BY <1>1, <1>2, <2>1 DEF TypeOK, OnceInv, Tables
<1>4. ASSUME phase = "bodies", Plain
      PROVE  /\ \A i, j \in DOMAIN pending : pending[i] = pending[j] => i = j
             /\ ToSet(pending) \cap lowered = {}
  BY <1>4 DEF OnceInv, Listed, NoRepeats, ToSet
<1> QED
  BY <1>3, <1>4 DEF OnceInv, OnceOnly, Plain

\* No function and no member of a class is lowered twice, whichever pass makes a
\* class known first, in every program whose classes do not need themselves for
\* their fields (Lowerer.lower); a class is registered after those of its fields.
THEOREM NoneLoweredTwice == Spec => []OnceOnly
<1>1. Spec => []OnceInv
  BY OnceInit, OnceNext, PTL DEF Spec
<1> QED
  BY <1>1, OnceSuffices, PTL

-----------------------------------------------------------------------------
(* The inductive invariant of AllLowered *)

\* The parts of the program whose uses have been looked at, or are being.
Due(u) ==
    \/ phase # "start" /\ \E f \in Functions : u \in At("signature", f)
    \/ phase \notin {"start", "functions"} /\ u \in At("structs", "defaults")
    \/ \E b \in lowered : u \in At("body", b)
    \/ phase = "lowerClasses" /\ \E t \in saved \ left : u \in At("defaults", t)

\* The uses a pass has still to look at.
Ahead(u) == \E i \in DOMAIN stack : stack[i].stage = "lower" /\ u \in stack[i].todo

\* The pass that looks at the templates keeps aside the table it found.
Known == classes \cup IF phase = "templates" THEN saved ELSE generics
DueSeen == \A u \in Uses : Due(u) => u[2] \in Known \/ (phase # "templates" /\ Ahead(u))

\* The members of t are being made, and use u has still to be looked at.
Making(t) == \E i \in DOMAIN stack : stack[i].stage = "members" /\ stack[i].of = t
SignaturesSeen ==
    \A t \in classes : \A u \in At("signature", t) :
        \/ u[2] \in classes
        \/ \E i \in DOMAIN stack : stack[i].stage = "members" /\ stack[i].of = t /\ u \in stack[i].todo

\* What is still to be lowered is in the list.
Queued ==
    /\ phase \in {"classes", "bodies", "lowerClasses"} => Functions \subseteq ToSet(pending) \cup lowered
    /\ phase = "bodies" => \A t \in classes : t \in ToSet(pending) \cup lowered \/ Making(t)
    /\ phase = "lowerClasses" => Functions \cup saved \subseteq lowered

\* What a call in progress may come to.
Scope(f) ==
    /\ f.stage = "lower" =>
          /\ phase \in {"functions", "classes"} => f.todo \subseteq TypeUses
          /\ phase = "structs" => f.todo \subseteq At("structs", "defaults")
          /\ phase = "lowerClasses" => \A u \in f.todo : \E t \in classes : u \in At("defaults", t)
    /\ f.stage = "new" =>
          /\ phase \notin {"functions", "classes"}
          /\ phase = "structs" => Early(f.of)
InScope == /\ \A i \in DOMAIN stack : Scope(stack[i])
           /\ phase = "start" => stack = <<>>

\* The generic instances that a value of a field of a struct comes to.
BeforeList(q) == \/ <<"call", q>> \in At("structs", "defaults")
                 \/ \E t \in classes : Early(t) /\ <<"call", q>> \in At("defaults", t)

Counted ==
    /\ phase \in {"start", "functions", "structs"} => \A q \in generics : BeforeList(q)
    /\ phase = "templates" => \A q \in saved : BeforeList(q)
    /\ phase \in {"classes", "bodies"} => \A q \in generics : BeforeList(q) \/ q \in ToSet(pending) \cup lowered
    /\ phase = "lowerClasses" => \A q \in generics : q \in Untimely \cup lowered

\* A function that has been lowered and constructs a class has come to the calls
\* in the values of its fields.
Constructing(t, q) == \E i \in DOMAIN stack : /\ stack[i].stage = "new" /\ stack[i].of = t
                                              /\ <<"call", q>> \in stack[i].todo
Expanded ==
    \A b \in lowered : \A t \in ClassTypes : <<"new", t>> \in At("body", b) =>
        \/ phase = "bodies" /\ Ahead(<<"new", t>>)
        \/ \A q \in Generics : <<"call", q>> \in At("defaults", t) =>
               q \in generics \/ (phase = "bodies" /\ Constructing(t, q))

LoweredInv == /\ OnceInv
          /\ DueSeen /\ SignaturesSeen /\ Queued /\ InScope /\ Counted /\ Expanded /\ AllLowered

-----------------------------------------------------------------------------
(* What a call does to it *)

LEMMA EarlyKept ==
  ASSUME UNCHANGED program
  PROVE  \A t : Early(t)' <=> Early(t)
<1>1. \A k, o : Constructed(k, o)' = Constructed(k, o)
  BY ProgramKept DEF Constructed
<1>2. Constructed("structs", "defaults")' = Constructed("structs", "defaults")
      /\ \A t : DefaultsConstruct(t)' = DefaultsConstruct(t)
  BY <1>1 DEF DefaultsConstruct
<1> QED
  BY <1>2 DEF Early, Reached

LEMMA EarlyStarts ==
  ASSUME NEW t \in Constructed("structs", "defaults")
  PROVE  Early(t)
BY DEF Early, Reached

LEMMA EarlyGoesOn ==
  ASSUME NEW s \in ClassTypes, Early(s), NEW t \in Constructed("defaults", s)
  PROVE  Early(t)
BY DEF Early, Reached, DefaultsConstruct

\* Frame i has come to nothing but the uses in done, or has come to its end.
Rests(i, done) == /\ Older(i)
                  /\ stack[i].todo \ done \subseteq stack'[i].todo

\* A use that has been looked at is in its table, and the values of a class that
\* is constructed are looked at next.
Handled(u) ==
  /\ u \in {"call"} \X Generics => u[2] \in generics'
  /\ u \notin {"call"} \X Generics => u[2] \in classes'
  /\ \A t : u = <<"new", t>> =>
         \E i \in DOMAIN stack' : /\ stack'[i].stage = "new" /\ stack'[i].of = t
                                  /\ At("defaults", t) \subseteq stack'[i].todo

\* An instance that is new in the table is pending, or was to be expected.
Expected(q) ==
  /\ phase \in {"start", "functions", "structs"} => BeforeList(q)
  /\ phase \in {"classes", "bodies"} => q \in ToSet(pending)'
  /\ phase = "lowerClasses" => q \in Untimely

LEMMA UntimelyGrows ==
  ASSUME UNCHANGED <<program, lowered>>, classes \subseteq classes'
  PROVE  /\ \A q : BeforeList(q) => BeforeList(q)'
         /\ Untimely \subseteq Untimely'
<1>1. \A t : (Early(t)' <=> Early(t)) /\ (Late(t)' <=> Late(t))
  BY EarlyKept, ProgramKept DEF Late
<1> QED
  BY <1>1, ProgramKept DEF BeforeList, Untimely

CallStep(done, f) ==
  /\ UNCHANGED <<program, phase, lowered, saved, left, verdict>>
  /\ verdict = "running" /\ stack # <<>>
  /\ classes \subseteq classes' /\ generics \subseteq generics'
  /\ ToSet(pending) \subseteq ToSet(pending)'
  /\ done \subseteq Uses /\ \A u \in done : Handled(u)
  /\ \A i \in DOMAIN stack : Rests(i, done) \/ stack[i].todo = {}
  /\ \A i \in DOMAIN stack' : Older(i) \/ (Newest(i, f) /\ Scope(f)')
  /\ \A t \in classes' : t \in classes \/ \E i \in DOMAIN stack' :
         stack'[i].stage = "members" /\ stack'[i].of = t /\ At("signature", t) \subseteq stack'[i].todo
  /\ \A i \in DOMAIN stack : stack[i].stage = "members" =>
         Rests(i, done) \/ stack[i].of \in ToSet(pending)'
  /\ \A q \in generics' : q \in generics \/ Expected(q)

LEMMA AheadGoesOn ==
  ASSUME NEW done, NEW f, CallStep(done, f), NEW u, Ahead(u), u \notin done
  PROVE  Ahead(u)'
<1>1. PICK i \in DOMAIN stack : stack[i].stage = "lower" /\ u \in stack[i].todo
  BY DEF Ahead
<1>2. Rests(i, done)
  BY <1>1 DEF CallStep
<1> QED
  BY <1>1, <1>2 DEF Rests, Older, Ahead

LEMMA DueGoesOn ==
  ASSUME OnceInv, DueSeen, NEW done, NEW f, CallStep(done, f)
  PROVE  DueSeen'
<1>1. UNCHANGED <<program, phase, lowered, saved, left>>
  BY DEF CallStep
<1>2. \A u : Due(u)' <=> Due(u)
  BY <1>1, ProgramKept DEF Due
<1>3. Known \subseteq Known'
  BY <1>1 DEF Known, CallStep
<1>4. \A u \in done : phase # "templates" => u[2] \in Known'
  BY <1>1 DEF Known, CallStep, Handled
<1>5. \A u : Ahead(u) => u \in done \/ Ahead(u)'
  BY AheadGoesOn
<1> QED
  BY <1>1, <1>2, <1>3, <1>4, <1>5 DEF DueSeen

LEMMA SignaturesGoOn ==
  ASSUME OnceInv, SignaturesSeen, NEW done, NEW f, CallStep(done, f)
  PROVE  SignaturesSeen'
<1>1. /\ UNCHANGED program /\ classes \subseteq classes' /\ \A t : At("signature", t)' = At("signature", t)
  BY ProgramKept DEF CallStep
<1>2. ASSUME NEW t \in classes', NEW u \in At("signature", t)
      PROVE  \/ u[2] \in classes'
             \/ \E i \in DOMAIN stack' : stack'[i].stage = "members" /\ stack'[i].of = t /\ u \in stack'[i].todo
  <2>1. CASE t \notin classes
    BY <1>2, <2>1 DEF CallStep
  <2>2. CASE t \in classes /\ u[2] \in classes
    BY <1>1, <2>2
  <2>3. ASSUME NEW i \in DOMAIN stack, stack[i].stage = "members", stack[i].of = t, u \in stack[i].todo
        PROVE  \/ u[2] \in classes'
               \/ \E j \in DOMAIN stack' : stack'[j].stage = "members" /\ stack'[j].of = t /\ u \in stack'[j].todo
    <3>1. Rests(i, done)
      BY <2>3 DEF CallStep
    <3>2. CASE u \in done
      <4>1. u \notin {"call"} \X Generics
        BY <1>2, AtTyped, UseTyped DEF OnceInv
      <4> QED
        BY <3>2, <4>1 DEF CallStep, Handled
    <3>3. CASE u \notin done
      BY <2>3, <3>1, <3>3 DEF Rests, Older
    <3> QED
      BY <3>2, <3>3
  <2> QED
    BY <1>2, <2>1, <2>2, <2>3 DEF SignaturesSeen
<1> QED
  BY <1>1, <1>2 DEF SignaturesSeen

LEMMA QueuedGoesOn ==
  ASSUME Queued, NEW done, NEW f, CallStep(done, f)
  PROVE  Queued'
<1>1. /\ UNCHANGED <<phase, lowered, saved>> /\ ToSet(pending) \subseteq ToSet(pending)'
  BY DEF CallStep
<1>2. ASSUME phase = "bodies", NEW t \in classes'
      PROVE  t \in ToSet(pending)' \cup lowered' \/ Making(t)'
  <2>1. CASE t \notin classes
    BY <1>2, <2>1 DEF CallStep, Making
  <2>2. CASE t \in ToSet(pending) \cup lowered
    BY <1>1, <2>2
  <2>3. ASSUME NEW i \in DOMAIN stack, stack[i].stage = "members", stack[i].of = t
        PROVE  t \in ToSet(pending)' \/ Making(t)'
    BY <2>3 DEF CallStep, Rests, Older, Making
  <2> QED
    BY <1>2, <2>1, <2>2, <2>3 DEF Queued, Making
<1> QED
  BY <1>1, <1>2 DEF Queued

LEMMA ScopeGoesOn ==
  ASSUME InScope, NEW done, NEW f, CallStep(done, f)
  PROVE  InScope'
<1>1. /\ UNCHANGED <<program, phase>> /\ classes \subseteq classes' /\ stack # <<>>
  BY DEF CallStep
<1>2. phase # "start"
  BY <1>1 DEF InScope
<1>3. ASSUME NEW i \in DOMAIN stack'
      PROVE  Scope(stack[i])'
  <2>1. CASE Older(i)
    BY <1>1, <2>1, ProgramKept, EarlyKept DEF Older, InScope, Scope
  <2>2. CASE Newest(i, f) /\ Scope(f)'
    BY <2>2 DEF Newest
  <2> QED
    BY <2>1, <2>2 DEF CallStep
<1> QED
  BY <1>1, <1>2, <1>3 DEF InScope

LEMMA CountedGoesOn ==
  ASSUME Counted, NEW done, NEW f, CallStep(done, f)
  PROVE  Counted'
<1>1. /\ UNCHANGED <<program, phase, lowered, saved>> /\ ToSet(pending) \subseteq ToSet(pending)'
      /\ classes \subseteq classes' /\ \A q \in generics' : q \in generics \/ Expected(q)
  BY DEF CallStep
<1>2. /\ \A q : BeforeList(q) => BeforeList(q)'
      /\ Untimely \subseteq Untimely'
  BY <1>1, UntimelyGrows
<1> QED
  BY <1>1, <1>2 DEF Counted, Expected

LEMMA ExpandedGoesOn ==
  ASSUME Expanded, NEW done, NEW f, CallStep(done, f)
  PROVE  Expanded'
<1>1. /\ UNCHANGED <<program, phase, lowered>> /\ generics \subseteq generics'
      /\ \A k, o : At(k, o)' = At(k, o)
  BY ProgramKept DEF CallStep
<1>2. ASSUME NEW b \in lowered, NEW t \in ClassTypes, <<"new", t>> \in At("body", b)
      PROVE  \/ phase = "bodies" /\ Ahead(<<"new", t>>)'
             \/ \A q \in Generics : <<"call", q>> \in At("defaults", t) =>
                   q \in generics' \/ (phase = "bodies" /\ Constructing(t, q)')
  <2>1. CASE phase = "bodies" /\ Ahead(<<"new", t>>)
    <3>1. CASE <<"new", t>> \notin done
      BY <2>1, <3>1, AheadGoesOn
    <3>2. CASE <<"new", t>> \in done
      <4>1. Handled(<<"new", t>>)
        BY <3>2 DEF CallStep
      <4>2. PICK i \in DOMAIN stack' : /\ stack'[i].stage = "new" /\ stack'[i].of = t
                                       /\ At("defaults", t) \subseteq stack'[i].todo
        BY <4>1 DEF Handled
      <4> QED
        BY <2>1, <4>2 DEF Constructing
    <3> QED
      BY <3>1, <3>2
  <2>2. ASSUME NEW q \in Generics, phase = "bodies", Constructing(t, q)
        PROVE  q \in generics' \/ Constructing(t, q)'
    <3>1. PICK i \in DOMAIN stack : /\ stack[i].stage = "new" /\ stack[i].of = t
                                    /\ <<"call", q>> \in stack[i].todo
      BY <2>2 DEF Constructing
    <3>2. Rests(i, done)
      BY <3>1 DEF CallStep
    <3>3. CASE <<"call", q>> \in done
      BY <3>3 DEF CallStep, Handled
    <3>4. CASE <<"call", q>> \notin done
      BY <3>1, <3>2, <3>4 DEF Rests, Older, Constructing
    <3> QED
      BY <3>3, <3>4
  <2> QED
    BY <1>1, <1>2, <2>1, <2>2 DEF Expanded
<1> QED
  BY <1>1, <1>2 DEF Expanded

LEMMA CallStepKeeps ==
  ASSUME LoweredInv, NEW done, NEW f, CallStep(done, f), OnceInv'
  PROVE  LoweredInv'
<1>1. AllLowered'
  BY DEF CallStep, AllLowered
<1> QED
  BY <1>1, DueGoesOn, SignaturesGoOn, QueuedGoesOn, ScopeGoesOn, CountedGoesOn, ExpandedGoesOn DEF LoweredInv

-----------------------------------------------------------------------------
(* Each thing a call does is such a step *)

LEMMA RegisterStep ==
  ASSUME LoweredInv, Register
  PROVE  \E done, f : CallStep(done, f)
<1> DEFINE n == Len(stack)
           t == Top.of
<1>1. /\ n \in DOMAIN stack /\ Top = stack[n] /\ Top \in Frames /\ Fits(Top)
      /\ DOMAIN stack = 1..n /\ n \in Nat
  BY TopFacts DEF LoweredInv, Register
<1>2. /\ Top.stage = "fields" /\ Top.todo = {} /\ stack # <<>> /\ t \in ClassTypes /\ verdict = "running"
      /\ classes' = classes \cup {t} /\ stack' = Append(Front(stack), Call("members", t, At("signature", t)))
      /\ UNCHANGED <<program, phase, generics, saved, pending, lowered, left, verdict>>
  BY <1>1 DEF Register, Fits
<1>3. PICK f : f = Call("members", t, At("signature", t))
  OBVIOUS
<1>4. /\ f \in Frames /\ f.stage = "members" /\ f.of = t /\ f.todo = At("signature", t)
  <2>1. At("signature", t) \in SUBSET Uses /\ t \in CallOf
    BY <1>2, AtTyped DEF LoweredInv, OnceInv, CallOf, Bodies
  <2> QED
    BY <1>2, <1>3, <2>1 DEF Call, Frames, LoweredInv, OnceInv, Tables
<1>5. /\ \A i \in DOMAIN stack : i # n => Older(i) /\ stack'[i] = stack[i]
      /\ \A i \in DOMAIN stack' : (i \in DOMAIN stack /\ i # n) \/ Newest(i, f)
      /\ Newest(Len(stack'), f)
  BY <1>2, <1>4, <1>3, PoppedAndPushed DEF LoweredInv, OnceInv
<1>6. \A i \in DOMAIN stack : Rests(i, {}) \/ (i = n /\ stack[i].todo = {} /\ stack[i].stage = "fields")
  BY <1>1, <1>2, <1>5 DEF Rests
<1>7. \A i \in DOMAIN stack' : Older(i) \/ (Newest(i, f) /\ Scope(f)')
  BY <1>4, <1>5 DEF Scope
<1>8. \A v \in classes' : v \in classes \/ \E i \in DOMAIN stack' :
         stack'[i].stage = "members" /\ stack'[i].of = v /\ At("signature", v) \subseteq stack'[i].todo
  BY <1>2, <1>4, <1>5 DEF Newest
<1>9. CallStep({}, f)
  BY <1>2, <1>6, <1>7, <1>8 DEF CallStep
<1> QED
  BY <1>9

LEMMA AddMembersStep ==
  ASSUME LoweredInv, AddMembers
  PROVE  \E done, f : CallStep(done, f)
<1> DEFINE n == Len(stack)
           t == Top.of
<1>1. /\ n \in DOMAIN stack /\ Top = stack[n] /\ Top \in Frames /\ Fits(Top)
      /\ DOMAIN stack = 1..n /\ n \in Nat
  BY TopFacts DEF LoweredInv, AddMembers
<1>2. /\ Top.stage = "members" /\ Top.todo = {} /\ stack # <<>> /\ t \in ClassTypes /\ verdict = "running"
      /\ pending' = Append(pending, t) /\ stack' = Front(stack)
      /\ UNCHANGED <<program, phase, classes, generics, saved, lowered, left, verdict>>
  BY <1>1 DEF AddMembers, Fits
<1>3. /\ \A i \in DOMAIN stack : i # n => Older(i) /\ stack'[i] = stack[i]
      /\ \A i \in DOMAIN stack' : i \in DOMAIN stack /\ i # n
  BY <1>2, Popped DEF LoweredInv, OnceInv
<1>4. ToSet(pending)' = ToSet(pending) \cup {t}
  BY <1>2, ToSetGrows DEF LoweredInv, OnceInv
<1>5. \A i \in DOMAIN stack : Rests(i, {}) \/ (i = n /\ stack[i].todo = {} /\ stack[i].of \in ToSet(pending)')
  BY <1>1, <1>2, <1>3, <1>4 DEF Rests
<1>6. \A i \in DOMAIN stack' : Older(i)
  BY <1>3
<1>7. CallStep({}, {})
  BY <1>2, <1>4, <1>5, <1>6 DEF CallStep
<1> QED
  BY <1>7

LEMMA EnsureClassStep ==
  ASSUME LoweredInv, verdict = "running", stack # <<>>, NEW u \in Top.todo, EnsureClass(u)
  PROVE  Overflow \/ \E done, f : CallStep(done, f)
<1> DEFINE v == u[2]
<1>1. CASE Overflow
  BY <1>1
<1>2. CASE stack' = InstantiateFields(v)
           /\ UNCHANGED <<program, phase, classes, generics, saved, pending, lowered, left, verdict>>
  <2>1. v \in ClassTypes
    BY TopFacts, UseTyped DEF EnsureClass, LoweredInv
  <2>2. PICK f : f = Call("fields", v, At("fields", v))
    OBVIOUS
  <2>3. /\ f \in Frames /\ f.stage = "fields"
    <3>1. At("fields", v) \in SUBSET Uses /\ v \in CallOf
      BY <2>1, AtTyped DEF LoweredInv, OnceInv, CallOf, Bodies
    <3> QED
      BY <2>2, <3>1 DEF Call, Frames, LoweredInv, OnceInv, Tables
  <2>4. stack' = Append(stack, f)
    BY <1>2, <2>2 DEF InstantiateFields
  <2>5. /\ \A i \in DOMAIN stack : Older(i) /\ stack'[i] = stack[i]
        /\ \A i \in DOMAIN stack' : i \in DOMAIN stack \/ Newest(i, f)
    BY <2>3, <2>4, Pushed DEF LoweredInv, OnceInv
  <2>6. \A i \in DOMAIN stack : Rests(i, {})
    BY <2>5 DEF Rests
  <2>7. \A i \in DOMAIN stack' : Older(i) \/ (Newest(i, f) /\ Scope(f)')
    BY <2>3, <2>5 DEF Scope
  <2>8. CallStep({}, f)
    BY <1>2, <2>6, <2>7 DEF CallStep
  <2> QED
    BY <2>8
<1> QED
  BY <1>1, <1>2 DEF EnsureClass

LEMMA KnownTypeStep ==
  ASSUME LoweredInv, verdict = "running", stack # <<>>, NEW u \in Top.todo, KnownType(u)
  PROVE  \E done, f : CallStep(done, f)
<1>1. /\ u[2] \in classes /\ u \in TypeUses /\ u \in Uses /\ stack' = WithoutUse(u)
      /\ UNCHANGED <<program, phase, classes, generics, saved, pending, lowered, left, verdict>>
  BY TopFacts DEF KnownType, LoweredInv
<1>2. /\ DOMAIN stack' = DOMAIN stack
      /\ Keeps(Len(stack), u)
      /\ \A i \in DOMAIN stack : i # Len(stack) => Older(i) /\ stack'[i] = stack[i]
  BY <1>1, Lessened DEF LoweredInv, OnceInv
<1>3. \A i \in DOMAIN stack : Rests(i, {u}) /\ Older(i)
  BY <1>2 DEF Rests, Keeps
<1>4. Handled(u)
  <2>1. \A t : u # <<"new", t>>
    BY <1>1 DEF TypeUses
  <2> QED
    BY <1>1, <2>1, UseTyped DEF Handled
<1>5. CallStep({u}, {})
  BY <1>1, <1>2, <1>3, <1>4 DEF CallStep
<1> QED
  BY <1>5

LEMMA ConstructStep ==
  ASSUME LoweredInv, verdict = "running", stack # <<>>, NEW u \in Top.todo, Construct(u)
  PROVE  Overflow \/ \E done, f : CallStep(done, f)
<1> DEFINE n == Len(stack)
           v == u[2]
<1>1. CASE Overflow
  BY <1>1
<1>2. CASE stack' = Append(WithoutUse(u), Call("new", v, At("defaults", v)))
           /\ UNCHANGED <<program, phase, classes, generics, saved, pending, lowered, left, verdict>>
  <2>1. /\ n \in DOMAIN stack /\ Top = stack[n] /\ n \in Nat
        /\ u \in Uses /\ v \in classes /\ v \in ClassTypes /\ u = <<"new", v>> /\ u \notin TypeUses
    BY TopFacts DEF Construct, LoweredInv, OnceInv, Tables, TypeUses
  <2>2. PICK f : f = Call("new", v, At("defaults", v))
    OBVIOUS
  <2>3. /\ f \in Frames /\ f.stage = "new" /\ f.of = v /\ f.todo = At("defaults", v)
    <3>1. At("defaults", v) \in SUBSET Uses /\ v \in CallOf
      BY <2>1, AtTyped DEF LoweredInv, OnceInv, CallOf, Bodies
    <3> QED
      BY <2>2, <3>1 DEF Call, Frames, LoweredInv, OnceInv, Tables
  <2>4. stack' = Append(WithoutUse(u), f)
    BY <1>2, <2>2
  <2>5. /\ Keeps(n, u)
        /\ \A i \in DOMAIN stack : i # n => Older(i) /\ stack'[i] = stack[i]
        /\ \A i \in DOMAIN stack' : i \in DOMAIN stack \/ Newest(i, f)
        /\ Newest(Len(stack'), f)
    BY <2>3, <2>4, LessenedAndPushed DEF LoweredInv, OnceInv
  <2>6. \A i \in DOMAIN stack : Rests(i, {u}) /\ Older(i)
    BY <2>5 DEF Rests, Keeps
  <2>7. Scope(f)
    <3>1. Scope(Top) /\ Fits(Top) /\ phase # "start" /\ Top.stage \in {"lower", "new"}
      BY <2>1, ExpressionCall, TopFacts DEF LoweredInv, InScope, Frames
    <3>2. phase \notin {"functions", "classes"}
      BY <2>1, <3>1 DEF Scope
    <3>3. ASSUME phase = "structs"
          PROVE  Early(v)
      <4>1. CASE Top.stage = "lower"
        <5>1. u \in At("structs", "defaults") \cap ({"new"} \X ClassTypes)
          BY <2>1, <3>1, <3>3, <4>1 DEF Scope
        <5> QED
          BY <5>1, EarlyStarts DEF Constructed
      <4>2. CASE Top.stage = "new"
        <5>1. Early(Top.of) /\ Top.of \in ClassTypes /\ u \in At("defaults", Top.of) \cap ({"new"} \X ClassTypes)
          BY <2>1, <3>1, <3>3, <4>2 DEF Scope, Fits
        <5>2. v \in Constructed("defaults", Top.of)
          BY <5>1 DEF Constructed
        <5> QED
          BY <5>1, <5>2, EarlyGoesOn
      <4> QED
        BY <3>1, <4>1, <4>2
    <3> QED
      BY <2>3, <3>2, <3>3 DEF Scope
  <2>8. Scope(f)'
    BY <1>2, <2>3, <2>7, ProgramKept, EarlyKept DEF Scope
  <2>9. \A i \in DOMAIN stack' : Older(i) \/ (Newest(i, f) /\ Scope(f)')
    BY <2>5, <2>6, <2>8
  <2>10. Handled(u)
    <3>1. \A t : u = <<"new", t>> => t = v
      BY <2>1
    <3>2. u \notin {"call"} \X Generics
      BY <2>1
    <3> QED
      BY <1>2, <2>1, <2>3, <2>5, <3>1, <3>2 DEF Handled, Newest
  <2>11. CallStep({u}, f)
    BY <1>2, <2>1, <2>6, <2>9, <2>10 DEF CallStep
  <2> QED
    BY <2>11
<1> QED
  BY <1>1, <1>2 DEF Construct

\* A call of a generic function is looked at in a value of a field.
LEMMA CallExpected ==
  ASSUME LoweredInv, stack # <<>>, NEW q \in Generics, <<"call", q>> \in Top.todo, q \notin generics,
         phase = "bodies" => q \in ToSet(pending)'
  PROVE  Expected(q)
<1> DEFINE u == <<"call", q>>
<1>1. /\ Scope(Top) /\ Fits(Top) /\ phase # "start" /\ Top \in Frames
  BY TopFacts DEF LoweredInv, InScope
<1>2. u \notin TypeUses
  BY DEF TypeUses
<1>3. Top.stage \in {"lower", "new"}
  BY <1>1, <1>2, ExpressionCall DEF LoweredInv, Frames
<1>4. phase \notin {"functions", "classes"}
  BY <1>1, <1>2, <1>3 DEF Scope
<1>5. ASSUME phase = "structs"
      PROVE  BeforeList(q)
  BY <1>1, <1>3, <1>5 DEF Scope, Fits, BeforeList
<1>6. ASSUME phase = "lowerClasses"
      PROVE  q \in Untimely
  <2>1. PICK t \in classes : u \in At("defaults", t)
    BY <1>1, <1>3, <1>6 DEF Scope, Fits
  <2>2. CASE Late(t)
    BY <2>1, <2>2 DEF Untimely
  <2>3. ASSUME NEW b \in lowered, <<"new", t>> \in At("body", b)
        PROVE  FALSE
    <3>1. t \in ClassTypes
      BY DEF LoweredInv, OnceInv, Tables
    <3> QED
      BY <1>6, <2>1, <2>3, <3>1 DEF LoweredInv, Expanded
  <2> QED
    BY <2>2, <2>3 DEF Late
<1> QED
  BY <1>1, <1>4, <1>5, <1>6 DEF Expected

LEMMA CallGenericStep ==
  ASSUME LoweredInv, verdict = "running", stack # <<>>, NEW u \in Top.todo, CallGeneric(u)
  PROVE  \E done, f : CallStep(done, f)
<1> DEFINE q == u[2]
<1>1. /\ q \in Generics /\ u = <<"call", q>> /\ generics' = generics \cup {q} /\ stack' = WithoutUse(u)
      /\ pending' = IF q \in generics THEN pending ELSE Append(pending, q)
      /\ UNCHANGED <<program, phase, classes, saved, lowered, left, verdict>>
  BY DEF CallGeneric
<1>2. u \in Uses
  BY TopFacts DEF LoweredInv
<1>3. ToSet(pending) \subseteq ToSet(pending)' /\ (q \notin generics => q \in ToSet(pending)')
  <2>1. CASE q \in generics
    BY <1>1, <2>1
  <2>2. CASE q \notin generics
    BY <1>1, <2>2, ToSetGrows DEF LoweredInv, OnceInv
  <2> QED
    BY <2>1, <2>2
<1>4. \A p \in generics' : p \in generics \/ Expected(p)
  BY <1>1, <1>3, CallExpected
<1>5. /\ DOMAIN stack' = DOMAIN stack
      /\ Keeps(Len(stack), u)
      /\ \A i \in DOMAIN stack : i # Len(stack) => Older(i) /\ stack'[i] = stack[i]
  BY <1>1, Lessened DEF LoweredInv, OnceInv
<1>6. \A i \in DOMAIN stack : Rests(i, {u}) /\ Older(i)
  BY <1>5 DEF Rests, Keeps
<1>7. Handled(u)
  <2>1. \A t : u # <<"new", t>>
    BY <1>1
  <2>2. u \in {"call"} \X Generics
    BY <1>1
  <2> QED
    BY <1>1, <2>1, <2>2 DEF Handled
<1>8. CallStep({u}, {})
  BY <1>1, <1>2, <1>3, <1>4, <1>5, <1>6, <1>7 DEF CallStep
<1> QED
  BY <1>8

LEMMA ReturnStep ==
  ASSUME LoweredInv, Return
  PROVE  \E done, f : CallStep(done, f)
<1>1. /\ stack # <<>> /\ stack' = Front(stack) /\ Top.stage \in {"lower", "new"} /\ Top.todo = {} /\ verdict = "running"
      /\ UNCHANGED <<program, phase, classes, generics, saved, pending, lowered, left, verdict>>
  BY DEF Return
<1>2. Top = stack[Len(stack)]
  BY <1>1, TopFacts DEF LoweredInv
<1>3. /\ \A i \in DOMAIN stack : i # Len(stack) => Older(i) /\ stack'[i] = stack[i]
      /\ \A i \in DOMAIN stack' : i \in DOMAIN stack /\ Older(i)
  BY <1>1, Popped DEF LoweredInv, OnceInv
<1>4. \A i \in DOMAIN stack : Rests(i, {}) \/ (stack[i].todo = {} /\ stack[i].stage # "members")
  BY <1>1, <1>2, <1>3 DEF Rests
<1>5. CallStep({}, {})
  BY <1>1, <1>3, <1>4 DEF CallStep
<1> QED
  BY <1>5

-----------------------------------------------------------------------------
(* Each pass finds everything looked at, and keeps the invariant *)

LEMMA Quiet ==
  ASSUME LoweredInv, Idle
  PROVE  /\ \A u \in Uses : Due(u) => u[2] \in Known
         /\ \A t \in classes : \A u \in At("signature", t) : u[2] \in classes
         /\ phase = "bodies" => classes \subseteq ToSet(pending) \cup lowered
         /\ \A b \in lowered : \A t \in ClassTypes : <<"new", t>> \in At("body", b) =>
                \A q \in Generics : <<"call", q>> \in At("defaults", t) => q \in generics
<1>1. DOMAIN stack = {}
  BY DEF Idle
<1> QED
  BY <1>1 DEF LoweredInv, DueSeen, Ahead, SignaturesSeen, Queued, Making, Expanded, Constructing

LEMMA PassKeeps ==
  ASSUME LoweredInv, Idle, NEW of \in CallOf, NEW todo \in SUBSET Uses, Lower(of, todo),
         UNCHANGED <<program, classes, verdict>>, OnceInv', phase' # "start",
         \A u \in Uses : Due(u)' => u[2] \in Known' \/ (phase' # "templates" /\ u \in todo),
         \A f : f.stage = "lower" /\ f.todo = todo => Scope(f)',
         Queued', Counted',
         \A b \in lowered' : \A t \in ClassTypes : <<"new", t>> \in At("body", b) =>
             \/ phase' = "bodies" /\ <<"new", t>> \in todo
             \/ \A q \in Generics : <<"call", q>> \in At("defaults", t) => q \in generics'
  PROVE  LoweredInv'
<1>1. DOMAIN stack' = {1} /\ stack'[1].stage = "lower" /\ stack'[1].todo = todo
  BY PassBegins DEF LoweredInv, OnceInv
<1>2. \A u : Ahead(u)' <=> u \in todo
  BY <1>1 DEF Ahead
<1>3. DueSeen'
  BY <1>2 DEF DueSeen
<1>4. SignaturesSeen'
  BY Quiet, ProgramKept DEF SignaturesSeen
<1>5. InScope'
  <2>1. Scope(stack[1])'
    BY <1>1
  <2> QED
    BY <1>1, <2>1 DEF InScope
<1>6. Expanded'
  BY <1>2, ProgramKept DEF Expanded
<1>7. AllLowered'
  BY DEF AllLowered, Idle
<1> QED
  BY <1>3, <1>4, <1>5, <1>6, <1>7 DEF LoweredInv

LEMMA CollectFunctionsKeeps ==
  ASSUME LoweredInv, CollectFunctions, OnceInv'
  PROVE  LoweredInv'
<1> DEFINE todo == UNION {At("signature", f) : f \in Functions}
<1>1. /\ Idle /\ phase = "start" /\ phase' = "functions" /\ Lower("signatures", todo)
      /\ UNCHANGED <<program, classes, generics, saved, pending, lowered, left, verdict>>
  BY DEF CollectFunctions
<1>2. "signatures" \in CallOf /\ todo \in SUBSET Uses /\ todo \subseteq TypeUses
  BY TodoTyped, AtTyped DEF LoweredInv, OnceInv
<1>3. lowered' = {}
  BY <1>1 DEF OnceInv, NotBegun
<1>4. \A u \in Uses : Due(u)' => u \in todo
  BY <1>1, <1>3, ProgramKept DEF Due
<1> HIDE DEF todo
<1>5. \A f : f.stage = "lower" /\ f.todo = todo => Scope(f)'
  BY <1>1, <1>2 DEF Scope
<1>6. Queued' /\ Counted'
  BY <1>1, UntimelyGrows DEF Queued, Counted, LoweredInv
<1> QED
  BY <1>1, <1>2, <1>3, <1>4, <1>5, <1>6, PassKeeps

LEMMA LowerStructsKeeps ==
  ASSUME LoweredInv, LowerStructs, OnceInv'
  PROVE  LoweredInv'
<1>1. /\ Idle /\ phase = "functions" /\ phase' = "structs" /\ Lower("structs", At("structs", "defaults"))
      /\ UNCHANGED <<program, classes, generics, saved, pending, lowered, left, verdict>>
  BY DEF LowerStructs
<1>2. "structs" \in CallOf /\ At("structs", "defaults") \in SUBSET Uses
  BY TodoTyped DEF LoweredInv, OnceInv
<1>3. lowered' = {}
  BY <1>1 DEF OnceInv, NotBegun
<1>4. \A u \in Uses : Due(u)' => u[2] \in Known' \/ u \in At("structs", "defaults")
  <2>1. \A u : Due(u)' => Due(u) \/ u \in At("structs", "defaults")
    BY <1>1, <1>3, ProgramKept DEF Due
  <2>2. Known' = Known
    BY <1>1 DEF Known
  <2> QED
    BY <1>1, <2>1, <2>2, Quiet
<1>5. \A f : f.stage = "lower" /\ f.todo = At("structs", "defaults") => Scope(f)'
  BY <1>1, ProgramKept DEF Scope
<1>6. Queued' /\ Counted'
  BY <1>1, UntimelyGrows DEF Queued, Counted, LoweredInv
<1> QED
  BY <1>1, <1>2, <1>3, <1>4, <1>5, <1>6, PassKeeps

LEMMA ValidateTemplatesKeeps ==
  ASSUME LoweredInv, ValidateTemplates, OnceInv'
  PROVE  LoweredInv'
<1>1. /\ Idle /\ phase = "structs" /\ phase' = "templates" /\ saved' = generics
      /\ Lower("templates", At("templates", "bodies"))
      /\ UNCHANGED <<program, classes, lowered, left, verdict>>
  BY DEF ValidateTemplates
<1>2. "templates" \in CallOf /\ At("templates", "bodies") \in SUBSET Uses
  BY TodoTyped DEF LoweredInv, OnceInv
<1>3. lowered' = {}
  BY <1>1 DEF OnceInv, NotBegun
<1>4. \A u \in Uses : Due(u)' => u[2] \in Known'
  <2>1. \A u : Due(u)' => Due(u)
    BY <1>1, <1>3, ProgramKept DEF Due
  <2>2. Known' = Known
    BY <1>1 DEF Known
  <2> QED
    BY <1>1, <2>1, <2>2, Quiet
<1>5. \A f : f.stage = "lower" /\ f.todo = At("templates", "bodies") => Scope(f)'
  BY <1>1 DEF Scope
<1>6. Queued' /\ Counted'
  BY <1>1, UntimelyGrows DEF Queued, Counted, LoweredInv
<1> QED
  BY <1>1, <1>2, <1>3, <1>4, <1>5, <1>6, PassKeeps

LEMMA InstantiateClassesKeeps ==
  ASSUME LoweredInv, InstantiateClasses, OnceInv'
  PROVE  LoweredInv'
<1> DEFINE todo == {"type"} \X PlainClasses
<1>1. /\ Idle /\ phase = "templates" /\ phase' = "classes" /\ generics' = saved
      /\ pending' = SetToSeq(Functions) /\ Lower("classes", todo)
      /\ UNCHANGED <<program, classes, lowered, left, verdict>>
  BY DEF InstantiateClasses
<1>2. "classes" \in CallOf /\ todo \in SUBSET Uses /\ todo \subseteq TypeUses
  BY TodoTyped, PlainAssumption DEF LoweredInv, OnceInv, TypeUses
<1> HIDE DEF todo
<1>3. lowered' = {}
  BY <1>1 DEF LoweredInv, OnceInv, NotBegun
<1>4. \A u \in Uses : Due(u)' => u[2] \in Known'
  <2>1. \A u : Due(u)' => Due(u)
    BY <1>1, <1>3, ProgramKept DEF Due
  <2>2. Known' = Known
    BY <1>1 DEF Known
  <2> QED
    BY <1>1, <2>1, <2>2, Quiet
<1>5. \A f : f.stage = "lower" /\ f.todo = todo => Scope(f)'
  BY <1>1, <1>2 DEF Scope
<1>6. Functions \subseteq ToSet(pending)'
  BY <1>1, SetToSeqOnce, FunctionsAssumption DEF ToSet
<1>7. Queued' /\ Counted'
  BY <1>1, <1>6, UntimelyGrows DEF Queued, Counted, LoweredInv
<1> QED
  BY <1>1, <1>2, <1>3, <1>4, <1>5, <1>7, PassKeeps

\* With no call in progress the invariant only depends on the tables.
LEMMA StillQuiet ==
  ASSUME LoweredInv, Idle, OnceInv', stack' = <<>>, UNCHANGED <<program, classes, generics, lowered>>,
         phase # "templates", phase' \notin {"start", "templates"},
         \A u : Due(u)' => Due(u), Queued', Counted', AllLowered'
  PROVE  LoweredInv'
<1>1. DOMAIN stack' = {}
  OBVIOUS
<1>2. DueSeen'
  <2>1. Known' = Known
    BY DEF Known
  <2> QED
    BY <2>1, Quiet DEF DueSeen
<1>3. SignaturesSeen'
  BY Quiet, ProgramKept DEF SignaturesSeen
<1>4. InScope'
  BY <1>1 DEF InScope
<1>5. Expanded'
  BY Quiet, ProgramKept DEF Expanded
<1> QED
  BY <1>2, <1>3, <1>4, <1>5 DEF LoweredInv

LEMMA AddMissingMembersKeeps ==
  ASSUME LoweredInv, AddMissingMembers, OnceInv'
  PROVE  LoweredInv'
<1> DEFINE q == SetToSeq(classes \ ToSet(pending))
<1>1. /\ Idle /\ stack = <<>> /\ phase = "classes" /\ phase' = "bodies" /\ pending' = pending \o q
      /\ UNCHANGED <<program, stack, classes, generics, saved, lowered, left, verdict>>
  BY DEF AddMissingMembers, Idle
<1>2. q \in Seq(classes \ ToSet(pending)) /\ \A t \in classes \ ToSet(pending) : \E i \in DOMAIN q : q[i] = t
  <2>1. IsFiniteSet(classes \ ToSet(pending))
    BY FS_Subset DEF LoweredInv, OnceInv, Tables
  <2> QED
    BY <2>1, SetToSeqOnce
<1>3. q \in Seq(Bodies) /\ pending \in Seq(Bodies)
  BY <1>2 DEF LoweredInv, OnceInv, Tables, Bodies
<1> HIDE DEF q
<1>4. PICK m, k : m = Len(pending) /\ k = Len(q)
  OBVIOUS
<1>5. /\ m \in Nat /\ k \in Nat /\ DOMAIN pending = 1..m /\ DOMAIN q = 1..k
      /\ DOMAIN pending' = 1..(m + k)
      /\ \A i \in 1..(m + k) : pending'[i] = IF i <= m THEN pending[i] ELSE q[i - m]
  BY <1>1, <1>3, <1>4
<1>6. /\ \A i \in DOMAIN pending : i \in DOMAIN pending' /\ pending'[i] = pending[i]
      /\ \A i \in DOMAIN q : m + i \in DOMAIN pending' /\ pending'[m + i] = q[i]
  BY <1>5
<1>7. ToSet(pending) \cup classes \subseteq ToSet(pending)'
  BY <1>2, <1>6 DEF ToSet
<1>8. \A u : Due(u)' => Due(u)
  BY <1>1, ProgramKept DEF Due
<1>9. Queued' /\ Counted'
  BY <1>1, <1>7, UntimelyGrows DEF Queued, Counted, LoweredInv
<1>10. AllLowered'
  BY <1>1 DEF AllLowered, Idle
<1> QED
  BY <1>1, <1>8, <1>9, <1>10, StillQuiet

LEMMA LowerFunctionKeeps ==
  ASSUME LoweredInv, LowerFunction, OnceInv'
  PROVE  LoweredInv'
<1>1. PICK h : h = Head(pending)
  OBVIOUS
<1>2. /\ Idle /\ phase = "bodies" /\ pending # <<>> /\ pending' = Tail(pending) /\ lowered' = lowered \cup {h}
      /\ Lower(h, At("body", h)) /\ UNCHANGED <<program, phase, classes, generics, saved, left, verdict>>
  BY <1>1 DEF LowerFunction
<1>3. h \in CallOf /\ At("body", h) \in SUBSET Uses
  BY <1>1, <1>2, TodoTyped DEF LoweredInv, OnceInv, Tables, CallOf
<1>4. ToSet(pending) \subseteq ToSet(pending)' \cup {h}
  <2>1. PICK m : m = Len(pending)
    OBVIOUS
  <2>2. /\ m \in Nat /\ DOMAIN pending = 1..m /\ h = pending[1] /\ DOMAIN pending' = 1..(m - 1)
        /\ \A i \in 1..(m - 1) : pending'[i] = pending[i + 1]
    BY <1>1, <1>2, <2>1 DEF LoweredInv, OnceInv, Tables
  <2>3. ASSUME NEW i \in DOMAIN pending, i # 1
        PROVE  pending[i] \in ToSet(pending)'
    <3>1. i - 1 \in DOMAIN pending' /\ pending'[i - 1] = pending[i]
      BY <2>2, <2>3
    <3> QED
      BY <3>1 DEF ToSet
  <2> QED
    BY <2>2, <2>3 DEF ToSet
<1>5. \A u \in Uses : Due(u)' => u[2] \in Known' \/ u \in At("body", h)
  <2>1. \A u : Due(u)' => Due(u) \/ u \in At("body", h)
    BY <1>2, ProgramKept DEF Due
  <2>2. Known' = Known
    BY <1>2 DEF Known
  <2> QED
    BY <1>2, <2>1, <2>2, Quiet
<1>6. \A f : f.stage = "lower" /\ f.todo = At("body", h) => Scope(f)'
  BY <1>2 DEF Scope
<1>7. Queued'
  BY <1>2, <1>4, Quiet DEF Queued, LoweredInv
<1>8. Counted'
  <2>1. \A q : BeforeList(q)' <=> BeforeList(q)
    BY <1>2, EarlyKept, ProgramKept DEF BeforeList
  <2> QED
    BY <1>2, <1>4, <2>1 DEF Counted, LoweredInv
<1> QED
  BY <1>2, <1>3, <1>5, <1>6, <1>7, <1>8, Quiet, PassKeeps

LEMMA LowerClassesKeeps ==
  ASSUME LoweredInv, LowerClasses, OnceInv'
  PROVE  LoweredInv'
<1>1. /\ Idle /\ stack = <<>> /\ phase = "bodies" /\ phase' = "lowerClasses" /\ left' = classes /\ saved' = classes
      /\ pending = <<>> /\ UNCHANGED <<program, stack, classes, generics, pending, lowered, verdict>>
  BY DEF LowerClasses, Idle
<1>2. ToSet(pending) = {}
  BY <1>1 DEF ToSet
<1>3. \A u : Due(u)' => Due(u)
  BY <1>1, ProgramKept DEF Due
<1>4. Queued'
  BY <1>1, <1>2, Quiet DEF Queued, LoweredInv
<1>5. Counted'
  <2>1. \A q \in Generics : BeforeList(q) => q \in Untimely
    BY DEF BeforeList, Untimely
  <2>2. Untimely \subseteq Untimely'
    BY <1>1, UntimelyGrows
  <2>3. generics \subseteq Generics
    BY DEF LoweredInv, OnceInv, Tables
  <2> QED
    BY <1>1, <1>2, <2>1, <2>2, <2>3 DEF Counted, LoweredInv
<1>6. AllLowered'
  BY <1>1 DEF AllLowered, Idle
<1> QED
  BY <1>1, <1>3, <1>4, <1>5, <1>6, StillQuiet

LEMMA DoneLowered ==
  ASSUME LoweredInv, Idle, phase = "lowerClasses", classes = saved, left = {}
  PROVE  /\ InstancesClosed
         /\ Functions \cup classes \subseteq lowered
         /\ generics \ Untimely \subseteq lowered
<1>1. \A u \in Uses : Due(u) => u[2] \in classes \cup generics
  BY Quiet DEF Known
<1>2. \A k, o : At(k, o) \subseteq Uses
  BY AtTyped DEF LoweredInv, OnceInv
<1>3. ASSUME NEW b \in lowered, NEW u \in At("body", b)
      PROVE  u[2] \in classes \cup generics
  BY <1>1, <1>2, <1>3 DEF Due
<1>4. ASSUME NEW f \in Functions \cup classes, NEW u \in At("signature", f)
      PROVE  u[2] \in classes \cup generics
  <2>1. CASE f \in Functions
    BY <1>1, <1>2, <1>4, <2>1 DEF Due
  <2>2. CASE f \in classes
    BY <1>4, <2>2, Quiet
  <2> QED
    BY <2>1, <2>2
<1>5. ASSUME NEW t \in classes, NEW u \in At("fields", t)
      PROVE  u[2] \in classes
  <2>1. Named(At("fields", t)) \subseteq classes /\ u \notin {"call"} \X Generics
    BY <1>5, AtTyped, UseTyped DEF LoweredInv, OnceInv, FieldsFirst
  <2> QED
    BY <1>5, <2>1 DEF Named
<1>6. ASSUME NEW t \in classes, NEW u \in At("defaults", t)
      PROVE  u[2] \in classes \cup generics
  BY <1>1, <1>2, <1>6 DEF Due
<1>7. ASSUME NEW u \in At("structs", "defaults")
      PROVE  u[2] \in classes \cup generics
  BY <1>1, <1>2, <1>7 DEF Due
<1>8. InstancesClosed
  BY <1>3, <1>4, <1>5, <1>6, <1>7 DEF InstancesClosed
<1> QED
  BY <1>8 DEF LoweredInv, Queued, Counted

LEMMA LowerClassKeeps ==
  ASSUME LoweredInv, LowerClass, OnceInv'
  PROVE  LoweredInv'
<1>1. /\ Idle /\ stack = <<>> /\ phase = "lowerClasses"
      /\ UNCHANGED <<program, phase, classes, generics, saved, pending, lowered>>
  BY DEF LowerClass, Idle
<1>2. Queued' /\ Counted'
  BY <1>1, UntimelyGrows DEF Queued, Counted, LoweredInv
<1>3. CASE /\ verdict' \in {"changed", "done"} /\ UNCHANGED <<stack, left>>
           /\ verdict' = "done" => classes = saved /\ left = {}
  <2>1. \A u : Due(u)' => Due(u)
    BY <1>1, <1>3, ProgramKept DEF Due
  <2>2. AllLowered'
    <3>1. InstancesClosed' <=> InstancesClosed
      BY <1>1, ProgramKept DEF InstancesClosed
    <3>2. Untimely \subseteq Untimely'
      BY <1>1, UntimelyGrows
    <3> QED
      BY <1>1, <1>3, <3>1, <3>2, DoneLowered DEF AllLowered
  <2> QED
    BY <1>1, <1>2, <1>3, <2>1, <2>2, StillQuiet
<1>4. ASSUME NEW t \in left, left' = left \ {t}, Lower("class", At("defaults", t)), UNCHANGED verdict
      PROVE  LoweredInv'
  <2>1. "class" \in CallOf /\ At("defaults", t) \in SUBSET Uses /\ t \in classes
    BY TodoTyped DEF LoweredInv, OnceInv, Tables
  <2>2. \A u \in Uses : Due(u)' => u[2] \in Known' \/ u \in At("defaults", t)
    <3>1. \A u : Due(u)' => Due(u) \/ u \in At("defaults", t)
      BY <1>1, <1>4, ProgramKept DEF Due
    <3>2. Known' = Known
      BY <1>1 DEF Known
    <3> QED
      BY <1>1, <3>1, <3>2, Quiet
  <2>3. \A f : f.stage = "lower" /\ f.todo = At("defaults", t) => Scope(f)'
    BY <1>1, <2>1, ProgramKept DEF Scope
  <2> QED
    BY <1>1, <1>2, <1>4, <2>1, <2>2, <2>3, Quiet, PassKeeps
<1> QED
  BY <1>3, <1>4 DEF LowerClass

LEMMA LoweredInit == Init => LoweredInv
<1> SUFFICES ASSUME Init
             PROVE  LoweredInv
  OBVIOUS
<1>1. /\ DOMAIN stack = {} /\ stack = <<>> /\ lowered = {} /\ phase = "start" /\ classes = {} /\ generics = {}
      /\ verdict = "running"
  BY DEF Init
<1> QED
  BY <1>1, OnceInit DEF LoweredInv, DueSeen, Due, SignaturesSeen, Queued, InScope, Counted, Expanded, AllLowered

LEMMA LoweredNext == LoweredInv /\ [Next]_vars => LoweredInv'
<1> SUFFICES ASSUME LoweredInv, [Next]_vars
             PROVE  LoweredInv'
  OBVIOUS
<1>1. OnceInv'
  BY OnceNext DEF LoweredInv
<1>2. ASSUME UNCHANGED <<program, phase, stack, classes, generics, saved, pending, lowered, left>>,
             verdict' \in {verdict, "recursion", "outgrown"}
      PROVE  LoweredInv'
  <2>1. DueSeen' /\ SignaturesSeen'
    <3>1. \A u : (Due(u)' <=> Due(u)) /\ (Ahead(u)' <=> Ahead(u))
      BY <1>2, ProgramKept DEF Due, Ahead
    <3>2. Known' = Known
      BY <1>2 DEF Known
    <3> QED
      BY <1>2, <3>1, <3>2, ProgramKept DEF LoweredInv, DueSeen, SignaturesSeen
  <2>2. InScope'
    BY <1>2, ProgramKept, EarlyKept DEF LoweredInv, InScope, Scope
  <2>3. Queued' /\ Counted'
    <3>1. \A t : Making(t)' <=> Making(t)
      BY <1>2 DEF Making
    <3>2. /\ \A q : BeforeList(q) => BeforeList(q)'
          /\ Untimely \subseteq Untimely'
      BY <1>2, UntimelyGrows
    <3> QED
      BY <1>2, <3>1, <3>2 DEF LoweredInv, Queued, Counted
  <2>4. Expanded'
    <3>1. \A u, t, q : (Ahead(u)' <=> Ahead(u)) /\ (Constructing(t, q)' <=> Constructing(t, q))
      BY <1>2 DEF Ahead, Constructing
    <3> QED
      BY <1>2, <3>1, ProgramKept DEF LoweredInv, Expanded
  <2>5. AllLowered'
    <3>1. InstancesClosed' <=> InstancesClosed
      BY <1>2, ProgramKept DEF InstancesClosed
    <3>2. Untimely \subseteq Untimely'
      BY <1>2, UntimelyGrows
    <3> QED
      BY <1>2, <3>1, <3>2 DEF LoweredInv, AllLowered
  <2> QED
    BY <1>1, <2>1, <2>2, <2>3, <2>4, <2>5 DEF LoweredInv
<1>3. CASE Overflow \/ GivesUp("outgrown")
  BY <1>2, <1>3 DEF Overflow, GivesUp
<1>4. ASSUME NEW done, NEW f, CallStep(done, f)
      PROVE  LoweredInv'
  BY <1>1, <1>4, CallStepKeeps
<1>5. CASE LookAt
  <2>1. /\ stack # <<>> /\ verdict = "running"
        /\ \E u \in Top.todo :
               GivesUp("outgrown") \/ EnsureClass(u) \/ KnownType(u) \/ Construct(u) \/ CallGeneric(u)
    BY <1>5 DEF LookAt, Outgrow
  <2> QED
    BY <1>3, <1>4, <2>1, EnsureClassStep, KnownTypeStep, ConstructStep, CallGenericStep
<1>6. CASE Register \/ AddMembers \/ Return
  BY <1>4, <1>6, RegisterStep, AddMembersStep, ReturnStep
<1>7. CASE UNCHANGED vars
  BY <1>2, <1>7 DEF vars
<1> QED
  BY <1>1, <1>5, <1>6, <1>7, CollectFunctionsKeeps, LowerStructsKeeps, ValidateTemplatesKeeps,
     InstantiateClassesKeeps, AddMissingMembersKeeps, LowerFunctionKeeps, LowerClassesKeeps, LowerClassKeeps DEF Next

\* What an accepted program uses is registered, and every function and member it
\* refers to has been lowered, whichever pass came to it first: the C text calls
\* no function it does not define (Lowerer.lower).
THEOREM NoneForgotten == Spec => []AllLowered
<1>1. Spec => []LoweredInv
  BY LoweredInit, LoweredNext, PTL DEF Spec
<1>2. LoweredInv => AllLowered
  BY DEF LoweredInv
<1> QED
  BY <1>1, <1>2, PTL

-----------------------------------------------------------------------------
(* The two walks *)

\* n is in one of the first i sets: a local of one of the outermost i scopes.
InFirst(s, n, i) == \E j \in 1..i : n \in s[j]

\* In each open block the renamer takes for shadowed the locals of that block
\* and of those around it, and besides them at most `this`.
Agree ==
  \A i \in 1..Len(scopes) :
    /\ \A n \in Names : InFirst(scopes, n, i) => n \in shadowed[i]
    /\ \A n \in shadowed[i] : n # This => InFirst(scopes, n, i)

\* Before the body there is one scope with no local in it.
Before ==
  place # "body" =>
    /\ Len(scopes) = 1 /\ scopes[1] = {}
    /\ place = "outside" => shadowed[1] = {} /\ typeParams = {}
    /\ place = "default" =>
         /\ shadowed[1] = ShadowedBy(owner, params)
         /\ owner = "deinit" => params = {}

Shapes ==
  /\ place \in {"outside", "default", "body"}
  /\ owner \in Owners
  /\ params \subseteq Names /\ typeParams \subseteq Names
  /\ scopes \in Seq(SUBSET Names) /\ shadowed \in Seq(SUBSET Names)
  /\ Len(scopes) \in 1..(MaxDepth + 1) /\ Len(shadowed) = Len(scopes)

WalksInv == Shapes /\ Before /\ (place = "body" => Agree)

LEMMA LocalsVisible ==
  ASSUME Shapes
  PROVE  /\ Locals = {n \in Names : InFirst(scopes, n, Len(scopes))}
         /\ Locals \subseteq Names
         /\ Shadow = shadowed[Len(scopes)]
         /\ Shadow \subseteq Names
<1>1. scopes \in Seq(SUBSET Names) /\ shadowed \in Seq(SUBSET Names)
      /\ Len(shadowed) = Len(scopes) /\ Len(scopes) \in 1..Len(scopes) /\ DOMAIN scopes = 1..Len(scopes)
  BY BoundsAssumption DEF Shapes
<1>2. \A i \in 1..Len(scopes) : scopes[i] \subseteq Names /\ shadowed[i] \subseteq Names
  BY <1>1
<1> QED
  BY <1>1, <1>2 DEF Locals, ToSet, InFirst, Shadow, Last

LEMMA InitAgrees ==
  ASSUME WalkInit
  PROVE  WalksInv
BY BoundsAssumption DEF WalkInit, WalksInv, Shapes, Before, Owners

LEMMA BeginDefinitionAgrees ==
  ASSUME WalksInv, NEW o \in Owners, NEW ps \in SUBSET Names, NEW ts \in SUBSET Names,
         BeginDefinition(o, ps, ts)
  PROVE  WalksInv'
BY BoundsAssumption, KindsAssumption DEF BeginDefinition, WalksInv, Shapes, Before, ShadowedBy

\* Receiver and parameters are what was shadowed while the definition began,
\* but for `this` in a static function.
LEMMA BeginBodyAgrees ==
  ASSUME WalksInv, BeginBody
  PROVE  WalksInv'
<1> DEFINE first == IF owner = "deinit" THEN {This} ELSE params
<1>1. /\ Len(scopes) = 1 /\ shadowed \in Seq(SUBSET Names) /\ Len(shadowed) = 1
      /\ shadowed[1] = ShadowedBy(owner, params) /\ (owner = "deinit" => params = {})
  BY DEF BeginBody, WalksInv, Before, Shapes
<1>2. /\ place' = "body" /\ scopes' = <<first>> /\ shadowed' = shadowed
      /\ UNCHANGED <<owner, params, typeParams>>
  BY DEF BeginBody
<1>3. first \in SUBSET Names
  BY KindsAssumption DEF WalksInv, Shapes
<1>4. first \subseteq shadowed[1] /\ shadowed[1] \subseteq first \cup {This}
  BY <1>1 DEF ShadowedBy
<1> HIDE DEF first
<1>5. Shapes'
  BY <1>1, <1>2, <1>3, BoundsAssumption DEF WalksInv, Shapes
<1>6. \A n \in Names : InFirst(scopes', n, 1) <=> n \in first
  BY <1>2 DEF InFirst
<1>7. Agree'
  BY <1>1, <1>2, <1>4, <1>6 DEF Agree, WalksInv, Shapes
<1> QED
  BY <1>2, <1>5, <1>7 DEF WalksInv, Before

LEMMA EnterAgrees ==
  ASSUME WalksInv, NEW ns \in SUBSET Names, Enter(ns)
  PROVE  WalksInv'
<1> DEFINE k == Len(scopes)
<1>1. /\ scopes \in Seq(SUBSET Names) /\ shadowed \in Seq(SUBSET Names)
      /\ k \in 1..k /\ k \in Nat /\ Len(shadowed) = k /\ Agree /\ Shapes
  BY BoundsAssumption DEF Enter, WalksInv, Shapes
<1>2. Shadow = shadowed[k] /\ Shadow \in SUBSET Names
  BY <1>1, LocalsVisible
<1>3. /\ scopes' \in Seq(SUBSET Names) /\ Len(scopes') = k + 1 /\ scopes'[k + 1] = ns
      /\ \A i \in 1..k : scopes'[i] = scopes[i]
  BY <1>1 DEF Enter
<1>4. /\ shadowed' \in Seq(SUBSET Names) /\ Len(shadowed') = k + 1
      /\ shadowed'[k + 1] = shadowed[k] \cup ns
      /\ \A i \in 1..k : shadowed'[i] = shadowed[i]
  <2>1. PICK new \in SUBSET Names : new = Shadow \cup ns
    BY <1>2
  <2>2. shadowed' = Append(shadowed, new)
    BY <2>1 DEF Enter
  <2> QED
    BY <1>1, <1>2, <2>1, <2>2
<1>5. Shapes'
  BY <1>1, <1>3, <1>4, BoundsAssumption DEF Enter, Shapes
<1> HIDE DEF k
<1>6. ASSUME NEW i \in 1..k, NEW n
      PROVE  InFirst(scopes', n, i) <=> InFirst(scopes, n, i)
  <2>1. \A j \in 1..i : scopes'[j] = scopes[j]
    BY <1>1, <1>3
  <2> QED
    BY <2>1 DEF InFirst
<1>7. ASSUME NEW n
      PROVE  InFirst(scopes', n, k + 1) <=> InFirst(scopes, n, k) \/ n \in ns
  <2>1. \A j \in 1..(k + 1) : j \in 1..k \/ j = k + 1
    BY <1>1
  <2>2. \A j \in 1..k : j \in 1..(k + 1)
    BY <1>1
  <2>3. k + 1 \in 1..(k + 1)
    BY <1>1
  <2> QED
    BY <1>3, <2>1, <2>2, <2>3 DEF InFirst
<1>8. Agree'
  <2> SUFFICES ASSUME NEW i \in 1..(k + 1)
               PROVE  /\ \A n \in Names : InFirst(scopes', n, i) => n \in shadowed'[i]
                      /\ \A n \in shadowed'[i] : n # This => InFirst(scopes', n, i)
    BY <1>3 DEF Agree
  <2>1. CASE i \in 1..k
    BY <1>1, <1>4, <1>6, <2>1 DEF Agree, k
  <2>2. CASE i = k + 1
    BY <1>1, <1>4, <1>7, <2>2 DEF Agree, k
  <2> QED
    BY <1>1, <2>1, <2>2
<1> QED
  BY <1>5, <1>8 DEF WalksInv, Before, Enter

LEMMA LeaveAgrees ==
  ASSUME WalksInv, Leave
  PROVE  WalksInv'
<1> DEFINE k == Len(scopes)
<1>1. /\ scopes \in Seq(SUBSET Names) /\ shadowed \in Seq(SUBSET Names)
      /\ k \in Nat /\ k > 1 /\ Len(shadowed) = k /\ Agree /\ Shapes
  BY BoundsAssumption DEF Leave, Outermost, WalksInv, Shapes
<1>2. /\ scopes' \in Seq(SUBSET Names) /\ Len(scopes') = k - 1
      /\ \A i \in 1..(k - 1) : scopes'[i] = scopes[i]
  BY <1>1 DEF Leave, Front
<1>3. /\ shadowed' \in Seq(SUBSET Names) /\ Len(shadowed') = k - 1
      /\ \A i \in 1..(k - 1) : shadowed'[i] = shadowed[i]
  BY <1>1 DEF Leave, Front
<1>4. Shapes'
  BY <1>1, <1>2, <1>3, BoundsAssumption DEF Leave, Shapes
<1> HIDE DEF k
<1>5. ASSUME NEW i \in 1..(k - 1), NEW n
      PROVE  InFirst(scopes', n, i) <=> InFirst(scopes, n, i)
  <2>1. \A j \in 1..i : scopes'[j] = scopes[j]
    BY <1>1, <1>2
  <2> QED
    BY <2>1 DEF InFirst
<1>6. Agree'
  <2> SUFFICES ASSUME NEW i \in 1..(k - 1)
               PROVE  /\ \A n \in Names : InFirst(scopes', n, i) => n \in shadowed'[i]
                      /\ \A n \in shadowed'[i] : n # This => InFirst(scopes', n, i)
    BY <1>2 DEF Agree
  <2>1. i \in 1..k
    BY <1>1
  <2> QED
    BY <1>1, <1>3, <1>5, <2>1 DEF Agree, k
<1> QED
  BY <1>4, <1>6 DEF WalksInv, Before, Leave

LEMMA LetAgrees ==
  ASSUME WalksInv, NEW ns \in SUBSET Names, Let(ns)
  PROVE  WalksInv'
<1> DEFINE k == Len(scopes)
<1>1. /\ scopes \in Seq(SUBSET Names) /\ shadowed \in Seq(SUBSET Names)
      /\ k \in 1..k /\ k \in Nat /\ Len(shadowed) = k /\ Agree /\ Shapes
  BY BoundsAssumption DEF Let, WalksInv, Shapes
<1>2. scopes[k] \in SUBSET Names /\ shadowed[k] \in SUBSET Names
  BY <1>1
<1>3. /\ scopes' \in Seq(SUBSET Names) /\ Len(scopes') = k
      /\ \A i \in 1..k : scopes'[i] = IF i = k THEN scopes[k] \cup ns ELSE scopes[i]
  <2>1. PICK new \in SUBSET Names : new = scopes[k] \cup ns
    BY <1>2
  <2>2. scopes' = [scopes EXCEPT ![k] = new]
    BY <2>1 DEF Let
  <2> QED
    BY <1>1, <2>1, <2>2, ExceptSeq
<1>4. /\ shadowed' \in Seq(SUBSET Names) /\ Len(shadowed') = k
      /\ \A i \in 1..k : shadowed'[i] = IF i = k THEN shadowed[k] \cup ns ELSE shadowed[i]
  <2>1. PICK new \in SUBSET Names : new = shadowed[k] \cup ns
    BY <1>2
  <2>2. shadowed' = [shadowed EXCEPT ![k] = new]
    BY <1>1, <2>1 DEF Let
  <2> QED
    BY <1>1, <2>1, <2>2, ExceptSeq
<1>5. Shapes'
  BY <1>1, <1>3, <1>4, BoundsAssumption DEF Let, Shapes
<1> HIDE DEF k
<1>6. ASSUME NEW i \in 1..k, i # k, NEW n
      PROVE  InFirst(scopes', n, i) <=> InFirst(scopes, n, i)
  <2>1. \A j \in 1..i : scopes'[j] = scopes[j]
    BY <1>1, <1>3, <1>6
  <2> QED
    BY <2>1 DEF InFirst
<1>7. ASSUME NEW n
      PROVE  InFirst(scopes', n, k) <=> InFirst(scopes, n, k) \/ n \in ns
  <2>1. \A j \in 1..k : n \in scopes'[j] <=> n \in scopes[j] \/ (j = k /\ n \in ns)
    BY <1>3
  <2> QED
    BY <1>1, <2>1 DEF InFirst
<1>8. Agree'
  <2> SUFFICES ASSUME NEW i \in 1..k
               PROVE  /\ \A n \in Names : InFirst(scopes', n, i) => n \in shadowed'[i]
                      /\ \A n \in shadowed'[i] : n # This => InFirst(scopes', n, i)
    BY <1>3 DEF Agree
  <2>1. CASE i # k
    BY <1>1, <1>4, <1>6, <2>1 DEF Agree, k
  <2>2. CASE i = k
    BY <1>1, <1>4, <1>7, <2>2 DEF Agree, k
  <2> QED
    BY <2>1, <2>2
<1> QED
  BY <1>5, <1>8 DEF WalksInv, Before, Let

LEMMA EndDefinitionAgrees ==
  ASSUME WalksInv, EndDefinition
  PROVE  WalksInv'
BY BoundsAssumption DEF EndDefinition, WalksInv, Shapes, Before, Owners

LEMMA NextAgrees ==
  ASSUME WalksInv, [WalkNext]_walkVars
  PROVE  WalksInv'
<1>1. CASE UNCHANGED walkVars
  BY <1>1 DEF walkVars, WalksInv, Shapes, Before, Agree, InFirst, ShadowedBy
<1>2. CASE \E o \in Owners, ps \in Small, t \in Givable :
             \E ts \in {{}, {t}}, receiver \in {{}, {This}} : BeginDefinition(o, ps \cup receiver, ts)
  <2>1. PICK o \in Owners, ps \in Small, t \in Givable :
          \E ts \in {{}, {t}}, receiver \in {{}, {This}} : BeginDefinition(o, ps \cup receiver, ts)
    BY <1>2
  <2>2. PICK ts \in {{}, {t}}, receiver \in {{}, {This}} : BeginDefinition(o, ps \cup receiver, ts)
    BY <2>1
  <2>3. ps \cup receiver \in SUBSET Names /\ ts \in SUBSET Names
    BY KindsAssumption DEF Small, Givable
  <2> QED
    BY <2>2, <2>3, BeginDefinitionAgrees
<1>3. ASSUME NEW ns \in SUBSET Givable, Enter(ns) \/ Let(ns)
      PROVE  WalksInv'
  <2>1. ns \in SUBSET Names
    BY DEF Givable
  <2> QED
    BY <1>3, <2>1, EnterAgrees, LetAgrees
<1>4. CASE Block \/ (\E n \in Givable : IfLet(n) \/ Catch(n))
           \/ \E ns \in Small : Closure(ns) \/ (ns # {} /\ Let(ns))
  <2>1. {} \in SUBSET Givable /\ \A n \in Givable : {n} \in SUBSET Givable
    OBVIOUS
  <2>2. Small \subseteq SUBSET Givable
    BY DEF Small
  <2> QED
    BY <1>3, <1>4, <2>1, <2>2 DEF Block, IfLet, Catch, Closure
<1>5. CASE Leave \/ BeginBody \/ EndDefinition
  BY <1>5, BeginBodyAgrees, LeaveAgrees, EndDefinitionAgrees
<1> QED
  BY <1>1, <1>2, <1>4, <1>5 DEF WalkNext

LEMMA WalksAgree == WalkSpec => []WalksInv
BY InitAgrees, NextAgrees, PTL DEF WalkSpec

\* namespace_program and the analysis agree on which names are locals, at every
\* point of every text.
THEOREM RenamerKnowsScopes == WalkSpec => []ShadowIsScope
<1>1. WalksInv => ShadowIsScope
  <2> SUFFICES ASSUME WalksInv
               PROVE  ShadowIsScope
    OBVIOUS
  <2>1. Shapes /\ Len(scopes) \in 1..Len(scopes)
    BY BoundsAssumption DEF WalksInv, Shapes
  <2>2. WalkTypeOK
    BY <2>1, LocalsVisible DEF Shapes, WalkTypeOK
  <2>3. ASSUME place = "body"
        PROVE  Shadow \ {This} = Locals \ {This} /\ (This \in Locals => This \in Shadow)
    <3>1. Agree
      BY <2>3 DEF WalksInv
    <3>2. /\ \A n \in Names : InFirst(scopes, n, Len(scopes)) => n \in Shadow
          /\ \A n \in Shadow : n # This => InFirst(scopes, n, Len(scopes))
      BY <2>1, <3>1, LocalsVisible DEF Agree
    <3> QED
      BY <2>1, <3>2, LocalsVisible
  <2> QED
    BY <2>2, <2>3 DEF ShadowIsScope
<1> QED
  BY <1>1, WalksAgree, PTL

-----------------------------------------------------------------------------
(* The meaning of a name *)

\* Outside of default values that use parameters, what is shadowed is local.
LEMMA ShadowedIsLocal ==
  ASSUME WalksInv, NEW n \in Names, n # This, place = "default" => n \notin params
  PROVE  n \in Shadow <=> n \in Locals
<1>1. /\ Shapes /\ Before /\ (place = "body" => Agree) /\ Len(scopes) \in 1..Len(scopes)
      /\ Shadow = shadowed[Len(scopes)]
  BY LocalsVisible, BoundsAssumption DEF WalksInv, Shapes
<1>2. CASE place = "body"
  BY <1>1, <1>2, LocalsVisible DEF Agree
<1>3. CASE place # "body"
  <2>1. n \notin Locals
    <3>1. Len(scopes) = 1 /\ scopes[1] = {}
      BY <1>1, <1>3 DEF Before
    <3>2. ~InFirst(scopes, n, Len(scopes))
      BY <3>1 DEF InFirst
    <3> QED
      BY <1>1, <3>2, LocalsVisible
  <2>2. n \notin Shadow
    BY <1>1, <1>3 DEF Before, Shapes, ShadowedBy
  <2> QED
    BY <2>1, <2>2
<1> QED
  BY <1>2, <1>3

\* `this` is nobody's definition, and is never qualified.
LEMMA ThisKept ==
  ASSUME NEW f \in Forms
  PROVE  Imported(f, This) = AsRoot(f, This)
<1>1. ~Qualified(f, This)
  BY KindsAssumption DEF Qualified, Types
<1>2. ImportedDefinition(f, This) = AsRootDefinition(This)
  BY <1>1, KindsAssumption DEF ImportedDefinition, AsRootDefinition, Own, OfRoot
<1> QED
  BY <1>1, <1>2 DEF Imported, AsRoot

\* An occurrence that is qualified finds the module's own definition, and so
\* does one of a hidden name; any other finds what the root file defines.
LEMMA DefinitionFound ==
  ASSUME NEW f \in Forms, NEW n \in Names
  PROVE  /\ Kind[n] \in Kinds /\ RootKind[n] \in Kinds
         /\ AsRootDefinition(n).kind = Kind[n]
         /\ Qualified(f, n) => ImportedDefinition(f, n) = AsRootDefinition(n)
         /\ Kind[n] = "hidden" => ImportedDefinition(f, n) = AsRootDefinition(n)
         /\ ~Qualified(f, n) /\ Kind[n] # "hidden" =>
              /\ ImportedDefinition(f, n).kind = RootKind[n]
              /\ RootKind[n] = "none" => ImportedDefinition(f, n) = Nothing
         /\ Kind[n] = "none" => AsRootDefinition(n) = Nothing
BY KindsAssumption DEF AsRootDefinition, ImportedDefinition, Own, OfRoot, Nothing

LEMMA NameKept ==
  ASSUME WalksInv, NEW f \in Forms, NEW n \in Names, n # This, ~Ambiguous(n)
  PROVE  Imported(f, n) = AsRoot(f, n)
<1> DEFINE own == AsRootDefinition(n)
           found == ImportedDefinition(f, n)
<1>1. n \in Shadow <=> n \in Locals
  BY ShadowedIsLocal DEF Ambiguous
<1>2. /\ n \in Locals => Kind[n] \notin {"alias", "class", "native"}
      /\ n \in typeParams => Kind[n] \notin Types \cup {"alias"}
      /\ Kind[n] = "none" => RootKind[n] = "none" \/ n \in Locals
      /\ Kind[n] = "native" => RootKind[n] \in {"none", "alias", "native"}
      /\ Kind[n] \in {"none", "function", "constant"} =>
              RootKind[n] \notin Types \cup {"alias", "native"}
      /\ Kind[n] = "struct" /\ n \in Locals => RootKind[n] \notin {"class", "alias", "native"}
  BY DEF Ambiguous
<1>3. /\ Kind[n] \in Kinds /\ RootKind[n] \in Kinds /\ own.kind = Kind[n]
      /\ Qualified(f, n) \/ Kind[n] = "hidden" => found = own
      /\ ~Qualified(f, n) /\ Kind[n] # "hidden" =>
              found.kind = RootKind[n] /\ (RootKind[n] = "none" => found = Nothing)
      /\ Kind[n] = "none" => own = Nothing
  BY DefinitionFound
<1> HIDE DEF own, found
<1>4. /\ AsRoot(f, n) = Meaning(f, own, n \in Locals, n \in typeParams)
      /\ Imported(f, n) = Meaning(f, found, n \in Locals /\ ~Qualified(f, n),
                                  n \in typeParams /\ ~Qualified(f, n))
  BY DEF AsRoot, Imported, own, found
<1>5. CASE f = "value"
  BY <1>1, <1>2, <1>3, <1>4, <1>5 DEF Meaning, ValueMeaning, Defined, Qualified, Types, Kinds, Nothing
<1>6. CASE f = "callee"
  BY <1>1, <1>2, <1>3, <1>4, <1>6 DEF Meaning, CallMeaning, Defined, Qualified, Types, Kinds, Nothing
<1>7. CASE f = "path"
  BY <1>1, <1>2, <1>3, <1>4, <1>7 DEF Meaning, PathMeaning, Defined, Qualified, Types, Kinds, Nothing
<1>8. CASE f = "apply"
  BY <1>1, <1>2, <1>3, <1>4, <1>8 DEF Meaning, PathMeaning, Defined, Qualified, Types, Kinds, Nothing
<1>9. CASE f = "type"
  BY <1>1, <1>2, <1>3, <1>4, <1>9 DEF Meaning, TypeMeaning, Defined, Qualified, Types, Kinds, Nothing
<1>10. CASE f = "literal"
  BY <1>1, <1>2, <1>3, <1>4, <1>10 DEF Meaning, LiteralMeaning, Defined, Qualified, Types, Kinds, Nothing
<1> QED
  BY <1>5, <1>6, <1>7, <1>8, <1>9, <1>10 DEF Forms

\* Every occurrence of a name that is not one of the listed ambiguities means
\* the same in an imported module as in the module compiled by itself, for any
\* names of any kinds in the module and in the root file.
THEOREM ImportKeepsMeaning == WalkSpec => []MeaningKept
<1>1. WalksInv => MeaningKept
  BY ThisKept, NameKept DEF MeaningKept
<1> QED
  BY <1>1, WalksAgree, PTL
=============================================================================
