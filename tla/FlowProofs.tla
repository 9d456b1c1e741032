----------------------------- MODULE FlowProofs -----------------------------
(***************************************************************************)
(* Proofs about Flow, for any locals, tasks and nesting depth: the type    *)
(* invariant; that reads find values in programs without the shapes that   *)
(* disturb them; and that tasks are joined exactly once in programs        *)
(* without the shapes that disturb that.                                   *)
(***************************************************************************)
EXTENDS Flow, TLAPS

\* The shapes that make the checker's beliefs about values wrong ...
ValueShapes == {"branch_init", "loop_null", "lend_null"}

\* ... and those that make its beliefs about tasks wrong.
TaskShapes == {"task_exit", "block_task", "loop_await", "short_await"}

-----------------------------------------------------------------------------
(* Types *)

USE DEF Levels, Names

\* Joining tasks and leaving blocks keeps each task in one of its states.
LEMMA TaskStates ==
  ASSUME TypeOK, NEW T \in SUBSET Tasks, NEW k \in Levels
  PROVE  /\ Join(T) \in [Tasks -> {"none", "running", "joined", "lost", "twice"}]
         /\ Leave(Join(T), k) \in [Tasks -> {"none", "running", "joined", "lost", "twice"}]
         /\ Leave(task, k) \in [Tasks -> {"none", "running", "joined", "lost", "twice"}]
  BY DEF TypeOK, Join, Leave

\* What a loop's iteration did first to a local is one of three things.
LEMMA TouchType ==
  ASSUME TypeOK, NEW x \in Locals, NEW what \in {"read", "written"}, Touch(x, what)
  PROVE  first' \in [Levels -> [Locals -> {"untouched", "read", "written"}]]
<1> DEFINE F(k) == IF Running /\ k <= depth /\ kind[k] = "loop" /\ first[k][x] = "untouched"
                      /\ (what = "read" => NarrowedOutside(x, k))
                   THEN [first[k] EXCEPT ![x] = what] ELSE first[k]
<1>1. ASSUME NEW k \in Levels PROVE F(k) \in [Locals -> {"untouched", "read", "written"}]
  <2>1. first[k] \in [Locals -> {"untouched", "read", "written"}]
    BY DEF TypeOK
  <2>2. [first[k] EXCEPT ![x] = what] \in [Locals -> {"untouched", "read", "written"}]
    BY <2>1
  <2> QED
    BY <2>1, <2>2
<1>2. first' = [k \in Levels |-> F(k)]
  BY DEF Touch
<1> QED
  BY <1>1, <1>2

\* The initial state is well typed.
LEMMA InitType == Init => TypeOK
  BY DepthAssumption DEF Init, TypeOK, Kinds

\* Every statement keeps the types.
LEMMA NextType == TypeOK /\ [Next]_vars => TypeOK'
<1> SUFFICES ASSUME TypeOK, [Next]_vars PROVE TypeOK'
  OBVIOUS
<1> USE DEF TypeOK, Open
<1>1. ASSUME NEW x \in Locals, NEW v \in {"held", "null"}, Let(x, v) PROVE TypeOK'
  BY <1>1 DEF Let, text, beliefs
<1>2. ASSUME NEW x \in Locals, NEW v \in {"held", "null"}, Lend(x, v) PROVE TypeOK'
  <2>1. first' \in [Levels -> [Locals -> {"untouched", "read", "written"}]]
    BY <1>2, TouchType DEF Lend
  <2> QED
    BY <1>2, <2>1 DEF Lend, text, beliefs
<1>3. ASSUME NEW x \in Locals, NEW v \in {"held", "null"}, NEW some \in BOOLEAN,
             Assign(x, v, some)
      PROVE  TypeOK'
  <2>1. first' \in [Levels -> [Locals -> {"untouched", "read", "written"}]]
    BY <1>3, TouchType DEF Assign
  <2> QED
    BY <1>3, <2>1 DEF Assign, text
<1>4. ASSUME NEW x \in Locals, Read(x) PROVE TypeOK'
  <2>1. first' \in [Levels -> [Locals -> {"untouched", "read", "written"}]]
    BY <1>4, TouchType DEF Read
  <2> QED
    BY <1>4, <2>1 DEF Read, text, beliefs
<1>5. ASSUME NEW x \in Locals, Drop(x) PROVE TypeOK'
  BY <1>5 DEF Drop, text, InScope
<1>6. ASSUME NEW t \in Tasks, Spawn(t) PROVE TypeOK'
  BY <1>6 DEF Spawn, beliefs
<1>7. ASSUME NEW t \in Tasks, NEW evaluated \in BOOLEAN, Await(t, evaluated) PROVE TypeOK'
  <2>1. task' \in [Tasks -> {"none", "running", "joined", "lost", "twice"}]
    BY <1>7 DEF Await, Join
  <2> QED
    BY <1>7, <2>1 DEF Await, text
<1>8. ASSUME NEW what \in Kinds, NEW taken \in BOOLEAN, OpenBlock(what, taken) PROVE TypeOK'
  BY <1>8, DepthAssumption DEF OpenBlock, Push, Running
<1>9. ASSUME NEW x \in Locals, NEW taken \in BOOLEAN, OpenNarrowed(x, taken) PROVE TypeOK'
  BY <1>9, DepthAssumption DEF OpenNarrowed, Push, Running, Kinds
<1>10. ASSUME NEW taken \in BOOLEAN, NEW T \in SUBSET Tasks, OpenLoop(taken, T) PROVE TypeOK'
  <2>1. task' \in [Tasks -> {"none", "running", "joined", "lost", "twice"}]
    BY <1>10 DEF OpenLoop, Join
  <2> QED
    BY <1>10, <2>1, DepthAssumption DEF OpenLoop, Push, Running, Kinds
<1>11. ASSUME Close PROVE TypeOK'
  <2>1. depth \in Levels /\ condition[depth] \in SUBSET Tasks
    BY <1>11, DepthAssumption DEF Close
  <2>2. task' \in [Tasks -> {"none", "running", "joined", "lost", "twice"}]
    <3>1. CASE Running
      BY <1>11, <2>1, <3>1, TaskStates DEF Close
    <3>2. CASE ~Running
      BY <1>11, <3>2 DEF Close
    <3> QED
      BY <3>1, <3>2
  <2>3. level' \in [Names -> 0..MaxDepth]
    <3>1. level' = [n \in Names |-> IF level[n] = depth THEN 0 ELSE level[n]]
      BY <1>11 DEF Close, Forget
    <3> QED
      BY <3>1, DepthAssumption
  <2> QED
    BY <1>11, <2>1, <2>2, <2>3, DepthAssumption DEF Close, Forget
<1>12. ASSUME Repeat PROVE TypeOK'
  BY <1>12 DEF Repeat, text, beliefs
<1>13. ASSUME NEW k \in Levels, Exit(k) PROVE TypeOK'
  <2>1. task' \in [Tasks -> {"none", "running", "joined", "lost", "twice"}]
    BY <1>13, TaskStates DEF Exit
  <2>2. runs' \in [Levels -> BOOLEAN]
    BY <1>13 DEF Exit
  <2> QED
    BY <1>13, <2>1, <2>2 DEF Exit, text, beliefs
<1>14. CASE UNCHANGED vars
  BY <1>14 DEF vars, text, beliefs, run
<1> QED
  BY <1>1, <1>2, <1>3, <1>4, <1>5, <1>6, <1>7, <1>8, <1>9, <1>10, <1>11, <1>12, <1>13,
     <1>14 DEF Next, LocalStatement, TaskStatement, BlockStep

\* The tables of the checker and the state of the run keep their types.
THEOREM TypeCorrect == Spec => []TypeOK
  BY InitType, NextType, PTL DEF Spec
-----------------------------------------------------------------------------
(* Values *)

\* Control is in a block only if it is in the blocks around it.
Nested == \A j, k \in 1..depth : j <= k /\ runs[k] => runs[j]

\* What is noted of a name concerns a name in scope, and a block narrows only
\* locals declared outside it.
Scoped ==
  /\ \A n \in Names : level[n] <= depth
  /\ \A x \in dropped : 1 <= level[x]
  /\ \A k \in Levels : \A x \in narrowed[k] : k <= depth /\ 1 <= level[x] /\ level[x] < k

\* In every block where control is, not only the innermost, the narrowed
\* locals hold a T: control may come back to it.
NarrowedWhereRunning ==
  \A k \in 1..depth, x \in Locals : runs[k] /\ x \in narrowed[k] => value[x] = "held"

\* What an iteration of a loop read as a T is narrowed outside the loop.
LoopReads ==
  \A k \in 1..depth, x \in Locals :
    kind[k] = "loop" /\ first[k][x] = "read" => \E j \in 1..(k - 1) : x \in narrowed[j]

ValuesInv ==
  /\ TypeOK
  /\ Nested
  /\ Scoped
  /\ DroppedKnown
  /\ NarrowedWhereRunning
  /\ LoopReads
  /\ misread = {}

\* Open blocks are at possible levels, and so are the blocks around them.
LEMMA OpenLevels ==
  ASSUME TypeOK
  PROVE  /\ depth \in Nat
         /\ \A k \in 1..depth : k \in Levels /\ k \in Nat
         /\ \A k \in 1..depth : \A j \in 1..(k - 1) : j \in Levels /\ j \in 1..depth /\ j < k
  BY DepthAssumption DEF TypeOK

\* The strengthened invariant covers the property of the innermost block.
LEMMA NarrowedHeldHolds == ValuesInv => NarrowedHeld
  BY DEF ValuesInv, TypeOK, Nested, NarrowedWhereRunning, NarrowedHeld, Running, Open, Narrowed

\* Nothing is known of any local initially.
LEMMA InitValues == Init => ValuesInv
<1> SUFFICES ASSUME Init PROVE ValuesInv
  OBVIOUS
<1>1. TypeOK
  BY InitType
<1> QED
  BY <1>1, DepthAssumption
     DEF Init, ValuesInv, Nested, Scoped, DroppedKnown, InScope, Open, NarrowedWhereRunning,
         LoopReads

\* The run writes to x first, or has done something with it before: no read
\* is added.
LEMMA TouchWritten ==
  ASSUME TypeOK, NEW x \in Locals, Touch(x, "written"),
         NEW k \in Levels, NEW y \in Locals, first'[k][y] = "read"
  PROVE  first[k][y] = "read"
  BY DEF TypeOK, Touch

\* Reading x adds x only to the loops outside which it is narrowed.
LEMMA TouchRead ==
  ASSUME TypeOK, NEW x \in Locals, Touch(x, "read"),
         NEW k \in Levels, NEW y \in Locals, first'[k][y] = "read"
  PROVE  first[k][y] = "read" \/ (y = x /\ k <= depth /\ NarrowedOutside(x, k))
  BY DEF TypeOK, Touch
\* A declaration concerns a name that is not in scope, of which nothing is
\* known.
LEMMA LetValues ==
  ASSUME ValuesInv, TypeOK', NEW x \in Locals, NEW v \in {"held", "null"}, Let(x, v)
  PROVE  ValuesInv'
<1> USE DEF ValuesInv
<1>1. Open /\ level[x] = 0 /\ depth \in Levels
  BY DEF Let, InScope, TypeOK, Scoped, Open
<1>2. x \notin dropped /\ \A k \in Levels : x \notin narrowed[k]
  BY <1>1 DEF Scoped
<1>3. UNCHANGED <<depth, kind, runs, dropped, narrowed, first, misread>>
  BY DEF Let, beliefs
<1>4. \A y \in Locals : y # x => value'[y] = value[y]
  BY DEF Let, TypeOK
<1>5. level' = [level EXCEPT ![x] = depth]
  BY DEF Let
<1>6. Nested'
  BY <1>3 DEF Nested
<1>7. Scoped'
  BY <1>1, <1>2, <1>3, <1>5 DEF Scoped, TypeOK
<1>8. DroppedKnown'
  <2> SUFFICES ASSUME NEW y \in Locals, InScope(y)', runs'[level'[y]]
               PROVE  (y \in dropped <=> value'[y] = "dropped")
    BY <1>3 DEF DroppedKnown
  <2>1. CASE y = x
    <3>1. level'[y] = depth
      BY <2>1, <1>5 DEF TypeOK
    <3>2. Running
      BY <3>1, <1>1, <1>3 DEF Running
    <3>3. value'[x] = v
      BY <3>2 DEF Let, TypeOK
    <3> QED
      BY <2>1, <3>3, <1>2
  <2>2. CASE y # x
    BY <2>2, <1>3, <1>4, <1>5 DEF DroppedKnown, InScope, Open, TypeOK
  <2> QED
    BY <2>1, <2>2
<1>9. NarrowedWhereRunning'
  BY <1>2, <1>3, <1>4, OpenLevels DEF NarrowedWhereRunning, TypeOK
<1>10. LoopReads'
  BY <1>3 DEF LoopReads
<1> QED
  BY <1>3, <1>6, <1>7, <1>8, <1>9, <1>10

\* A callee changes only a local that is not narrowed.
LEMMA LendValues ==
  ASSUME ValuesInv, TypeOK', NEW x \in Locals, NEW v \in {"held", "null"}, Lend(x, v),
         ValueShapes \cap Shapes = {}
  PROVE  ValuesInv'
<1> USE DEF ValuesInv
<1>1. InScope(x) /\ x \notin dropped /\ ~Narrowed(x)
  BY DEF Lend, ValueShapes
<1>2. UNCHANGED <<depth, kind, runs, level, dropped, narrowed, misread>>
  BY DEF Lend, text, beliefs
<1>3. \A y \in Locals : y # x => value'[y] = value[y]
  BY DEF Lend, TypeOK
<1>4. value'[x] \in {v, value[x]}
  BY DEF Lend, TypeOK
<1>5. Nested' /\ Scoped'
  BY <1>2 DEF Nested, Scoped
<1>6. DroppedKnown'
  <2> SUFFICES ASSUME NEW y \in Locals, InScope(y), runs[level[y]]
               PROVE  (y \in dropped <=> value'[y] = "dropped")
    BY <1>2 DEF DroppedKnown, InScope, Open
  <2> QED
    BY <1>1, <1>3, <1>4 DEF DroppedKnown
<1>7. NarrowedWhereRunning'
  BY <1>1, <1>2, <1>3, OpenLevels DEF NarrowedWhereRunning, Narrowed, TypeOK
<1>8. LoopReads'
  BY <1>2, TouchWritten, OpenLevels DEF LoopReads, Lend
<1> QED
  BY <1>2, <1>5, <1>6, <1>7, <1>8

\* A dropped local is assigned only where it is declared, and a local that a
\* loop has relied on is not set to null inside it.
LEMMA AssignValues ==
  ASSUME ValuesInv, TypeOK', NEW x \in Locals, NEW v \in {"held", "null"},
         NEW some \in BOOLEAN, Assign(x, v, some), ValueShapes \cap Shapes = {}
  PROVE  ValuesInv'
<1> USE DEF ValuesInv
<1>1. InScope(x) /\ (x \in dropped => level[x] = depth)
  <2>1. InScope(x) /\ ~(x \in dropped /\ level[x] < depth)
    BY DEF Assign, ValueShapes
  <2> QED
    BY <2>1 DEF Scoped, TypeOK
<1>2. UNCHANGED <<depth, kind, runs, level, misread>> /\ dropped' = dropped \ {x}
  BY DEF Assign, text
<1>3. \A y \in Locals : y # x => value'[y] = value[y]
  BY DEF Assign, TypeOK
<1>4. value'[x] = IF Running THEN v ELSE value[x]
  BY DEF Assign, TypeOK
<1>5. /\ some => v = "held" /\ narrowed' = narrowed
      /\ ~some => narrowed' = [k \in Levels |-> narrowed[k] \ {x}]
  BY DEF Assign
<1>6. Nested'
  BY <1>2 DEF Nested
<1>7. Scoped'
  BY <1>2, <1>5 DEF Scoped
<1>8. DroppedKnown'
  <2> SUFFICES ASSUME NEW y \in Locals, InScope(y), runs[level[y]]
               PROVE  (y \in dropped' <=> value'[y] = "dropped")
    BY <1>2 DEF DroppedKnown, InScope, Open
  <2>1. CASE y # x
    BY <2>1, <1>2, <1>3 DEF DroppedKnown
  <2>2. CASE y = x /\ Running
    BY <2>2, <1>2, <1>4
  <2>3. CASE y = x /\ ~Running
    <3>1. x \notin dropped
      BY <2>3, <1>1 DEF Running, InScope
    <3> QED
      BY <2>3, <3>1, <1>2, <1>4 DEF DroppedKnown
  <2> QED
    BY <2>1, <2>2, <2>3
<1>9. NarrowedWhereRunning'
  <2> SUFFICES ASSUME NEW k \in 1..depth, NEW y \in Locals, runs[k], y \in narrowed'[k]
               PROVE  value'[y] = "held"
    BY <1>2 DEF NarrowedWhereRunning
  <2>0. k \in Levels
    BY OpenLevels
  <2>1. y \in narrowed[k]
    BY <1>5, <2>0
  <2>3. value[y] = "held"
    BY <2>1 DEF NarrowedWhereRunning
  <2>2. y = x => some
    BY <1>5, <2>0
  <2> QED
    BY <2>2, <2>3, <1>3, <1>4, <1>5
<1>10. LoopReads'
  <2> SUFFICES ASSUME NEW k \in 1..depth, NEW y \in Locals, kind[k] = "loop",
                      first'[k][y] = "read"
               PROVE  \E j \in 1..(k - 1) : y \in narrowed'[j]
    BY <1>2 DEF LoopReads
  <2>1. k \in Levels
    BY OpenLevels
  <2>2. PICK j \in 1..(k - 1) : y \in narrowed[j]
    BY <2>1, TouchWritten DEF LoopReads, Assign
  <2>3. j \in Levels /\ j \in 1..depth /\ j < k
    BY <2>1, <2>2, OpenLevels
  <2>4. y = x => some
    BY <2>2, <2>3 DEF Assign, ValueShapes
  <2> QED
    BY <2>2, <2>3, <2>4, <1>5
<1> QED
  BY <1>2, <1>6, <1>7, <1>8, <1>9, <1>10

\* A read finds a value, and what a loop relies on is narrowed outside it.
LEMMA ReadValues ==
  ASSUME ValuesInv, TypeOK', NEW x \in Locals, Read(x)
  PROVE  ValuesInv'
<1> USE DEF ValuesInv
<1>1. InScope(x) /\ x \notin dropped
  BY DEF Read
<1>2. UNCHANGED <<depth, kind, runs, level, dropped, narrowed, value>>
  BY DEF Read, text, beliefs
<1>3. misread' = {}
  <2>1. Running => runs[level[x]]
    BY <1>1 DEF Running, InScope, Nested, Open, TypeOK
  <2>2. Running => value[x] # "dropped"
    BY <1>1, <2>1 DEF DroppedKnown
  <2>3. Running /\ Narrowed(x) => value[x] = "held"
    BY NarrowedHeldHolds DEF NarrowedHeld
  <2> QED
    BY <2>2, <2>3 DEF Read
<1>4. Nested' /\ Scoped' /\ DroppedKnown' /\ NarrowedWhereRunning'
  BY <1>2 DEF Nested, Scoped, DroppedKnown, InScope, Open, NarrowedWhereRunning
<1>5. LoopReads'
  <2> SUFFICES ASSUME NEW k \in 1..depth, NEW y \in Locals, kind[k] = "loop",
                      first'[k][y] = "read"
               PROVE  \E j \in 1..(k - 1) : y \in narrowed[j]
    BY <1>2 DEF LoopReads
  <2>0. k \in Levels
    BY OpenLevels
  <2>1. CASE first[k][y] = "read"
    BY <2>1 DEF LoopReads
  <2>2. CASE first[k][y] # "read"
    <3>1. Narrowed(x) /\ Touch(x, "read")
      BY <2>2 DEF Read
    <3>2. y = x /\ NarrowedOutside(x, k)
      BY <2>0, <2>2, <3>1, TouchRead
    <3>3. PICK j \in 1..depth : x \in narrowed[j]
      BY <3>1 DEF Narrowed
    <3>4. ~(j \in k..depth)
      BY <3>2, <3>3 DEF NarrowedOutside
    <3> QED
      BY <3>2, <3>3, <3>4, <2>0 DEF TypeOK
  <2> QED
    BY <2>1, <2>2
<1> QED
  BY <1>3, <1>4, <1>5

\* A local is dropped in its own block, where nothing narrows it.
LEMMA DropValues ==
  ASSUME ValuesInv, TypeOK', NEW x \in Locals, Drop(x)
  PROVE  ValuesInv'
<1> USE DEF ValuesInv
<1>1. InScope(x) /\ level[x] = depth /\ depth \in Levels
  BY DEF Drop, InScope, Open, TypeOK
<1>2. UNCHANGED <<depth, kind, runs, level, first, misread>> /\ dropped' = dropped \cup {x}
  BY DEF Drop, text
<1>3. \A k \in Levels : x \notin narrowed[k]
  BY <1>1 DEF Scoped, TypeOK
<1>4. narrowed' = narrowed
  <2>1. narrowed[depth] \ {x} = narrowed[depth]
    BY <1>1, <1>3
  <2> QED
    BY <2>1 DEF Drop, TypeOK
<1>5. \A y \in Locals : y # x => value'[y] = value[y]
  BY DEF Drop, TypeOK
<1>6. Nested'
  BY <1>2 DEF Nested
<1>7. Scoped'
  BY <1>1, <1>2, <1>4 DEF Scoped
<1>8. DroppedKnown'
  <2> SUFFICES ASSUME NEW y \in Locals, InScope(y), runs[level[y]]
               PROVE  (y \in dropped' <=> value'[y] = "dropped")
    BY <1>2 DEF DroppedKnown, InScope, Open
  <2>1. CASE y # x
    BY <2>1, <1>2, <1>5 DEF DroppedKnown
  <2>2. CASE y = x
    BY <2>2, <1>1, <1>2 DEF Drop, Running, InScope, TypeOK
  <2> QED
    BY <2>1, <2>2
<1>9. NarrowedWhereRunning'
  BY <1>2, <1>3, <1>4, <1>5, OpenLevels DEF NarrowedWhereRunning, TypeOK
<1>10. LoopReads'
  BY <1>2, <1>4 DEF LoopReads
<1> QED
  BY <1>2, <1>6, <1>7, <1>8, <1>9, <1>10
\* Tasks have names of their own: spawning and awaiting them says nothing of
\* any local.
LEMMA TaskStatementValues ==
  ASSUME ValuesInv, TypeOK', NEW t \in Tasks,
         Spawn(t) \/ \E evaluated \in BOOLEAN : Await(t, evaluated)
  PROVE  ValuesInv'
<1> USE DEF ValuesInv
<1>1. UNCHANGED <<depth, kind, runs, dropped, narrowed, value, first, misread>>
  BY DEF Spawn, Await, text, beliefs
<1>2. \A n \in Names : level'[n] = level[n] \/ (n = t /\ level'[n] = depth)
  BY DEF Spawn, Await, text, TypeOK
<1>3. \A x \in Locals : x \in Names /\ level'[x] = level[x]
  BY <1>2, NamesAssumption
<1>4. Nested'
  BY <1>1 DEF Nested
<1>5. Scoped'
  <2>1. \A n \in Names : level'[n] <= depth
    BY <1>2, OpenLevels DEF Scoped
  <2>2. \A x \in dropped : 1 <= level'[x]
    BY <1>3 DEF Scoped, TypeOK
  <2>3. \A k \in Levels : \A x \in narrowed[k] : k <= depth /\ 1 <= level'[x] /\ level'[x] < k
    BY <1>3 DEF Scoped, TypeOK
  <2> QED
    BY <1>1, <2>1, <2>2, <2>3 DEF Scoped
<1>6. DroppedKnown'
  BY <1>1, <1>3 DEF DroppedKnown, InScope, Open
<1>7. NarrowedWhereRunning' /\ LoopReads'
  BY <1>1 DEF NarrowedWhereRunning, LoopReads
<1> QED
  BY <1>1, <1>4, <1>5, <1>6, <1>7

\* A new block is entered from the block around it, and what it narrows has
\* just been tested.
LEMMA PushValues ==
  ASSUME ValuesInv, TypeOK', NEW what \in Kinds, NEW taken \in BOOLEAN,
         NEW known \in SUBSET Locals, Push(what, taken, known),
         \A x \in known : InScope(x) /\ (Running /\ taken => value[x] = "held")
  PROVE  ValuesInv'
<1> USE DEF ValuesInv
<1>1. /\ depth \in Nat /\ 1 <= depth /\ depth + 1 \in Levels /\ depth' = depth + 1
      /\ UNCHANGED <<level, dropped, value, misread>>
  BY OpenLevels DEF Push, Open, TypeOK
<1>2. /\ runs'[depth + 1] = (Running /\ taken)
      /\ narrowed'[depth + 1] = known
      /\ first'[depth + 1] = [x \in Locals |-> "untouched"]
  BY <1>1 DEF Push, TypeOK
<1>3. \A k \in Levels : k # depth + 1 =>
        /\ runs'[k] = runs[k]
        /\ narrowed'[k] = narrowed[k]
        /\ kind'[k] = kind[k]
        /\ first'[k] = first[k]
  BY <1>1 DEF Push, TypeOK
<1>4. \A k \in 1..depth' : k \in 1..depth \/ k = depth + 1
  BY <1>1
<1>5. \A k \in 1..depth : k \in Levels /\ k # depth + 1
  BY OpenLevels, <1>1
<1>6. Nested'
  <2> SUFFICES ASSUME NEW j \in 1..depth', NEW k \in 1..depth', j <= k, runs'[k]
               PROVE  runs'[j]
    BY DEF Nested
  <2>1. CASE k \in 1..depth
    <3>1. j \in 1..depth
      BY <2>1, <1>1
    <3> QED
      BY <2>1, <3>1, <1>3, <1>5 DEF Nested
  <2>2. CASE k = depth + 1 /\ j \in 1..depth
    <3>0. Running
      BY <2>2, <1>2
    <3>1. runs[depth] /\ depth \in 1..depth
      BY <3>0, <1>1 DEF Running
    <3>2. j <= depth
      BY <2>2
    <3> QED
      BY <2>2, <3>1, <3>2, <1>3, <1>5 DEF Nested
  <2>3. CASE k = depth + 1 /\ j = depth + 1
    BY <2>3
  <2> QED
    BY <1>4, <2>1, <2>2, <2>3
<1>7. Scoped'
  <2>1. \A n \in Names : level[n] <= depth'
    BY <1>1 DEF Scoped, TypeOK
  <2>2. \A k \in Levels : \A x \in narrowed'[k] : k <= depth' /\ 1 <= level[x] /\ level[x] < k
    <3> SUFFICES ASSUME NEW k \in Levels, NEW x \in narrowed'[k]
                 PROVE  k <= depth' /\ 1 <= level[x] /\ level[x] < k
      OBVIOUS
    <3>1. CASE k = depth + 1
      <4>1. level[x] \in 1..depth
        BY <3>1, <1>2 DEF InScope
      <4> QED
        BY <3>1, <4>1, <1>1
    <3>2. CASE k # depth + 1
      BY <3>2, <1>1, <1>3 DEF Scoped
    <3> QED
      BY <3>1, <3>2
  <2> QED
    BY <1>1, <2>1, <2>2 DEF Scoped
<1>8. DroppedKnown'
  <2> SUFFICES ASSUME NEW x \in Locals, level[x] \in 1..depth', runs'[level[x]]
               PROVE  (x \in dropped <=> value[x] = "dropped")
    BY <1>1 DEF DroppedKnown, InScope
  <2>1. level[x] \in 1..depth
    BY <1>1 DEF Scoped, TypeOK
  <2>2. runs[level[x]]
    BY <2>1, <1>3, <1>5
  <2> QED
    BY <2>1, <2>2, <1>1 DEF DroppedKnown, InScope, Open
<1>9. NarrowedWhereRunning'
  <2> SUFFICES ASSUME NEW k \in 1..depth', NEW x \in Locals, runs'[k], x \in narrowed'[k]
               PROVE  value[x] = "held"
    BY <1>1 DEF NarrowedWhereRunning
  <2>1. CASE k \in 1..depth
    BY <2>1, <1>3, <1>5 DEF NarrowedWhereRunning
  <2>2. CASE k = depth + 1
    BY <2>2, <1>2
  <2> QED
    BY <1>4, <2>1, <2>2
<1>10. LoopReads'
  <2> SUFFICES ASSUME NEW k \in 1..depth', NEW x \in Locals, kind'[k] = "loop",
                      first'[k][x] = "read"
               PROVE  \E j \in 1..(k - 1) : x \in narrowed'[j]
    BY DEF LoopReads
  <2>1. k # depth + 1
    BY <1>2
  <2>2. k \in 1..depth /\ k \in Levels
    BY <2>1, <1>4, <1>5
  <2>3. PICK j \in 1..(k - 1) : x \in narrowed[j]
    BY <2>1, <2>2, <1>3 DEF LoopReads
  <2>4. j \in Levels /\ j # depth + 1
    BY <2>2, <2>3, OpenLevels, <1>5
  <2> QED
    BY <2>3, <2>4, <1>3
<1> QED
  BY <1>1, <1>6, <1>7, <1>8, <1>9, <1>10

\* Control comes back to the block around the one that ends, where the same
\* is known as before.
LEMMA CloseValues ==
  ASSUME ValuesInv, TypeOK', Close
  PROVE  ValuesInv'
<1> USE DEF ValuesInv
<1>1. /\ depth \in Levels /\ depth \in 1..depth /\ depth' = depth - 1
      /\ UNCHANGED <<kind, runs, value, first, misread>>
  BY OpenLevels DEF Close, Forget, Open, TypeOK
<1>2. \A n \in Names : level'[n] = IF level[n] = depth THEN 0 ELSE level[n]
  BY DEF Close, Forget
<1>3. dropped' = {x \in dropped : level[x] # depth}
  BY DEF Close, Forget
<1>4. /\ narrowed'[depth] = {}
      /\ \A k \in Levels : k # depth => narrowed'[k] = narrowed[k]
  BY <1>1 DEF Close, Forget, TypeOK
<1>5. \A k \in 1..depth' : k \in 1..depth /\ k \in Levels /\ k # depth
  BY <1>1, OpenLevels
<1>6. Nested'
  BY <1>1, <1>5 DEF Nested
<1>7. Scoped'
  <2>1. \A n \in Names : level'[n] <= depth'
    <3> SUFFICES ASSUME NEW n \in Names PROVE level'[n] <= depth - 1
      BY <1>1
    <3>1. level[n] \in Int /\ level[n] <= depth /\ depth \in Int /\ 1 <= depth
      BY <1>1, OpenLevels, DepthAssumption DEF Scoped, TypeOK
    <3> QED
      BY <3>1, <1>2
  <2>2. \A x \in dropped' : 1 <= level'[x]
    BY <1>2, <1>3 DEF Scoped, TypeOK
  <2>3. \A k \in Levels : \A x \in narrowed'[k] : k <= depth' /\ 1 <= level'[x] /\ level'[x] < k
    <3> SUFFICES ASSUME NEW k \in Levels, NEW x \in narrowed'[k]
                 PROVE  k <= depth' /\ 1 <= level'[x] /\ level'[x] < k
      OBVIOUS
    <3>1. k # depth /\ x \in narrowed[k] /\ x \in Names
      BY <1>4 DEF TypeOK
    <3>2. k <= depth /\ 1 <= level[x] /\ level[x] < k
      BY <3>1 DEF Scoped
    <3>3. level[x] # depth
      BY <3>1, <3>2, <1>1 DEF TypeOK
    <3> QED
      BY <3>1, <3>2, <3>3, <1>1, <1>2
  <2> QED
    BY <2>1, <2>2, <2>3 DEF Scoped
<1>8. DroppedKnown'
  <2> SUFFICES ASSUME NEW x \in Locals, level'[x] \in 1..depth', runs[level'[x]]
               PROVE  (x \in dropped' <=> value[x] = "dropped")
    BY <1>1 DEF DroppedKnown, InScope
  <2>1. level'[x] = level[x] /\ level[x] # depth /\ level[x] \in 1..depth
    BY <1>1, <1>2, <1>5
  <2> QED
    BY <2>1, <1>3 DEF DroppedKnown, InScope, Close
<1>9. NarrowedWhereRunning'
  BY <1>1, <1>4, <1>5 DEF NarrowedWhereRunning
<1>10. LoopReads'
  <2> SUFFICES ASSUME NEW k \in 1..depth', NEW x \in Locals, kind[k] = "loop",
                      first[k][x] = "read"
               PROVE  \E j \in 1..(k - 1) : x \in narrowed'[j]
    BY <1>1 DEF LoopReads
  <2>1. k \in 1..depth /\ k < depth
    BY <1>1, <1>5
  <2>2. PICK j \in 1..(k - 1) : x \in narrowed[j]
    BY <2>1 DEF LoopReads
  <2>3. j \in Levels /\ j # depth
    BY <2>1, <2>2, OpenLevels, <1>1
  <2> QED
    BY <2>2, <2>3, <1>4
<1> QED
  BY <1>1, <1>6, <1>7, <1>8, <1>9, <1>10

\* What the next iteration reads as a T is still narrowed outside the loop.
LEMMA RepeatValues ==
  ASSUME ValuesInv, TypeOK', Repeat
  PROVE  ValuesInv'
<1> USE DEF ValuesInv
<1>1. UNCHANGED <<depth, kind, runs, level, dropped, narrowed, value, first>>
  BY DEF Repeat, text, beliefs
<1>2. misread' = {}
  <2>1. depth \in 1..depth /\ runs[depth] /\ kind[depth] = "loop"
    BY OpenLevels DEF Repeat, Running, Open
  <2>2. ASSUME NEW x \in Locals, first[depth][x] = "read" PROVE value[x] = "held"
    <3>1. PICK j \in 1..(depth - 1) : x \in narrowed[j]
      BY <2>1, <2>2 DEF LoopReads
    <3>2. j \in 1..depth /\ j <= depth
      BY <2>1, <3>1, OpenLevels
    <3>3. runs[j]
      BY <2>1, <3>2 DEF Nested
    <3> QED
      BY <3>1, <3>2, <3>3 DEF NarrowedWhereRunning
  <2> QED
    BY <2>2 DEF Repeat
<1> QED
  BY <1>1, <1>2 DEF Nested, Scoped, DroppedKnown, InScope, Open, NarrowedWhereRunning, LoopReads

\* Leaving blocks only takes control away from them.
LEMMA ExitValues ==
  ASSUME ValuesInv, TypeOK', NEW k \in Levels, Exit(k)
  PROVE  ValuesInv'
<1> USE DEF ValuesInv
<1>1. UNCHANGED <<depth, kind, level, dropped, narrowed, value, first, misread>>
  BY DEF Exit, text, beliefs
<1>2. \A j \in Levels : runs'[j] = (runs[j] /\ ~(Running /\ j >= k))
  BY DEF Exit
<1>3. Nested'
  <2> SUFFICES ASSUME NEW i \in 1..depth, NEW j \in 1..depth, i <= j, runs'[j]
               PROVE  runs'[i]
    BY <1>1 DEF Nested
  <2>1. i \in Levels /\ j \in Levels
    BY OpenLevels
  <2>2. runs[j] /\ ~(Running /\ j >= k)
    BY <2>1, <1>2
  <2>3. runs[i]
    BY <2>2 DEF Nested
  <2>4. ~(Running /\ i >= k)
    BY <2>1, <2>2
  <2> QED
    BY <2>1, <2>3, <2>4, <1>2
<1>4. \A j \in 1..depth : runs'[j] => runs[j]
  BY <1>2, OpenLevels
<1>5. Scoped' /\ LoopReads'
  BY <1>1 DEF Scoped, LoopReads
<1>6. DroppedKnown' /\ NarrowedWhereRunning'
  BY <1>1, <1>4 DEF DroppedKnown, InScope, Open, NarrowedWhereRunning
<1> QED
  BY <1>1, <1>3, <1>5, <1>6

\* Every step keeps the invariant.
LEMMA NextValues ==
  ASSUME ValuesInv, [Next]_vars, ValueShapes \cap Shapes = {}
  PROVE  ValuesInv'
<1>1. TypeOK'
  BY NextType DEF ValuesInv
<1>2. ASSUME LocalStatement PROVE ValuesInv'
  BY <1>1, <1>2, LetValues, LendValues, AssignValues, ReadValues, DropValues
     DEF LocalStatement
<1>3. ASSUME TaskStatement PROVE ValuesInv'
  BY <1>1, <1>3, TaskStatementValues DEF TaskStatement
<1>4. ASSUME NEW what \in Kinds, NEW taken \in BOOLEAN, OpenBlock(what, taken) PROVE ValuesInv'
  BY <1>1, <1>4, PushValues DEF OpenBlock
<1>5. ASSUME NEW x \in Locals, NEW taken \in BOOLEAN, OpenNarrowed(x, taken) PROVE ValuesInv'
  <2>1. Push("branch", taken, {x}) /\ InScope(x) /\ (Running /\ taken => value[x] = "held")
    BY <1>5 DEF OpenNarrowed
  <2>2. "branch" \in Kinds
    BY DEF Kinds
  <2> QED
    BY <1>1, <2>1, <2>2, PushValues
<1>6. ASSUME NEW taken \in BOOLEAN, NEW T \in SUBSET Tasks, OpenLoop(taken, T) PROVE ValuesInv'
  <2>1. Push("loop", taken, {}) /\ "loop" \in Kinds
    BY <1>6 DEF OpenLoop, Kinds
  <2> QED
    BY <1>1, <2>1, PushValues
<1>7. ASSUME UNCHANGED vars PROVE ValuesInv'
  <2>1. UNCHANGED <<depth, kind, runs, level, dropped, narrowed, value, first, misread>>
    BY <1>7 DEF vars, text, beliefs, run
  <2> QED
    BY <1>1, <2>1 DEF ValuesInv, Nested, Scoped, DroppedKnown, InScope, Open,
                      NarrowedWhereRunning, LoopReads
<1> QED
  BY <1>1, <1>2, <1>3, <1>4, <1>5, <1>6, <1>7, CloseValues, RepeatValues, ExitValues
     DEF Next, BlockStep

\* What the checker knows of locals holds in every run of such a program.
LEMMA ValuesThroughout ==
  ASSUME ValueShapes \cap Shapes = {}
  PROVE  Spec => []ValuesInv
<1>1. Init => ValuesInv
  BY InitValues
<1>2. ValuesInv /\ [Next]_vars => ValuesInv'
  BY NextValues
<1> QED
  BY <1>1, <1>2, PTL DEF Spec

\* In a program that does not initialize a dropped local in a nested block,
\* nor sets a narrowed local to null inside a loop or through a reference,
\* every read the checker accepts finds a value: whatever the number of locals
\* and the nesting.
THEOREM ValuesKnown ==
  ASSUME ValueShapes \cap Shapes = {}
  PROVE  Spec => []ReadsFindValues
<1>1. ValuesInv => ReadsFindValues
  BY NarrowedHeldHolds DEF ValuesInv, ReadsFindValues
<1> QED
  BY <1>1, ValuesThroughout, PTL

\* In such a program a local that has been dropped where control is is known to
\* be, and one narrowed holds a value, at every point of every run.
THEOREM BeliefsHold ==
  ASSUME ValueShapes \cap Shapes = {}
  PROVE  Spec => []BeliefsTrue
<1>1. ValuesInv => BeliefsTrue
  BY NarrowedHeldHolds DEF ValuesInv, BeliefsTrue
<1> QED
  BY <1>1, ValuesThroughout, PTL
-----------------------------------------------------------------------------
(* Tasks *)

\* What is noted of a task concerns a task in scope, declared in a block whose
\* end is validated; no condition awaits.
TasksScoped ==
  /\ \A n \in Names : level[n] <= depth
  /\ \A t \in consumed : 1 <= level[t]
  /\ \A t \in Tasks : 1 <= level[t] => kind[level[t]] \notin {"if_let", "handler"}
  /\ \A k \in Levels : condition[k] = {}

\* The tasks still running are the ones the checker has yet to see awaited in
\* blocks where control is.
TasksMatch ==
  \A t \in Tasks :
    /\ task[t] \in {"none", "running", "joined"}
    /\ task[t] = "running" <=> (1 <= level[t] /\ runs[level[t]] /\ t \notin consumed)

TasksInv == TypeOK /\ TasksScoped /\ TasksMatch

\* Nothing is spawned initially.
LEMMA InitTasks == Init => TasksInv
<1> SUFFICES ASSUME Init PROVE TasksInv
  OBVIOUS
<1>1. TypeOK
  BY InitType
<1> QED
  BY <1>1, DepthAssumption DEF Init, TasksInv, TasksScoped, TasksMatch

\* Awaiting no task changes none.
LEMMA JoinNone == ASSUME TypeOK, NEW t \in Tasks PROVE Join({})[t] = task[t]
  BY DEF Join

\* Statements about locals leave tasks alone.
LEMMA LocalStatementTasks ==
  ASSUME TasksInv, TypeOK', LocalStatement
  PROVE  TasksInv'
<1> USE DEF TasksInv
<1>1. UNCHANGED <<depth, kind, runs, consumed, task, condition>>
  BY DEF LocalStatement, Let, Lend, Assign, Read, Drop, text, beliefs
<1>2. \A n \in Names : level'[n] = level[n] \/ (n \in Locals /\ level'[n] = depth)
  BY DEF LocalStatement, Let, Lend, Assign, Read, Drop, text, TypeOK
<1>3. \A t \in Tasks : t \in Names /\ level'[t] = level[t]
  BY <1>2, NamesAssumption
<1>4. \A n \in Names : level'[n] <= depth
  BY <1>2, OpenLevels DEF TasksScoped
<1>5. TasksScoped'
  BY <1>1, <1>3, <1>4 DEF TasksScoped, TypeOK
<1>6. TasksMatch'
  BY <1>1, <1>3 DEF TasksMatch
<1> QED
  BY <1>5, <1>6

\* A task is spawned in a block whose end is validated.
LEMMA SpawnTasks ==
  ASSUME TasksInv, TypeOK', NEW t \in Tasks, Spawn(t), TaskShapes \cap Shapes = {}
  PROVE  TasksInv'
<1> USE DEF TasksInv
<1>1. UNCHANGED <<depth, kind, runs, consumed, condition>>
  BY DEF Spawn, beliefs
<1>2. /\ depth \in Levels /\ 1 <= depth /\ level[t] = 0 /\ t \notin consumed
      /\ kind[depth] \notin {"if_let", "handler"}
  <2>1. Open /\ ~InScope(t) /\ kind[depth] \notin {"if_let", "handler"}
    BY DEF Spawn, TaskShapes
  <2>2. depth \in 1..depth /\ depth \in Levels
    BY <2>1, OpenLevels DEF Open
  <2>3. level[t] = 0
    BY <2>1, DepthAssumption DEF InScope, TasksScoped, TypeOK
  <2> QED
    BY <2>1, <2>2, <2>3 DEF TasksScoped
<1>3. \A n \in Names : level'[n] = IF n = t THEN depth ELSE level[n]
  BY DEF Spawn, TypeOK
<1>4. \A u \in Tasks : task'[u] = IF u = t /\ Running THEN "running" ELSE task[u]
  BY DEF Spawn, TypeOK
<1>5. TasksScoped'
  <2>1. \A n \in Names : level'[n] <= depth
    BY <1>2, <1>3 DEF TasksScoped
  <2>2. \A u \in consumed : 1 <= level'[u]
    BY <1>2, <1>3 DEF TasksScoped, TypeOK
  <2>3. \A u \in Tasks : 1 <= level'[u] => kind[level'[u]] \notin {"if_let", "handler"}
    BY <1>2, <1>3 DEF TasksScoped
  <2> QED
    BY <1>1, <2>1, <2>2, <2>3 DEF TasksScoped
<1>6. TasksMatch'
  <2> SUFFICES ASSUME NEW u \in Tasks
               PROVE  /\ task'[u] \in {"none", "running", "joined"}
                      /\ task'[u] = "running" <=>
                           (1 <= level'[u] /\ runs[level'[u]] /\ u \notin consumed)
    BY <1>1 DEF TasksMatch
  <2>1. CASE u = t /\ Running
    BY <2>1, <1>2, <1>3, <1>4 DEF Running
  <2>2. CASE u = t /\ ~Running
    <3>1. ~runs[depth]
      BY <2>2, <1>2 DEF Running, Open
    <3>2. task[t] # "running"
      BY <1>2 DEF TasksMatch
    <3> QED
      BY <2>2, <3>1, <3>2, <1>3, <1>4 DEF TasksMatch
  <2>3. CASE u # t
    BY <2>3, <1>3, <1>4 DEF TasksMatch
  <2> QED
    BY <2>1, <2>2, <2>3
<1> QED
  BY <1>5, <1>6

\* An await that the text contains is executed where control is.
LEMMA AwaitTasks ==
  ASSUME TasksInv, TypeOK', NEW t \in Tasks, NEW evaluated \in BOOLEAN, Await(t, evaluated),
         TaskShapes \cap Shapes = {}
  PROVE  TasksInv'
<1> USE DEF TasksInv
<1>1. UNCHANGED <<depth, kind, runs, level, condition>> /\ consumed' = consumed \cup {t}
  BY DEF Await, text
<1>2. evaluated /\ level[t] \in 1..depth /\ level[t] = depth /\ t \notin consumed
  BY DEF Await, MayAwait, InScope, TaskShapes
<1>3. 1 <= level[t]
  BY <1>2
<1>4. TasksScoped'
  BY <1>1, <1>3 DEF TasksScoped
<1>5. TasksMatch'
  <2> SUFFICES ASSUME NEW u \in Tasks
               PROVE  /\ task'[u] \in {"none", "running", "joined"}
                      /\ task'[u] = "running" <=>
                           (1 <= level[u] /\ runs[level[u]] /\ u \notin consumed')
    BY <1>1 DEF TasksMatch
  <2>1. CASE u # t
    <3>1. task'[u] = task[u]
      BY <2>1 DEF Await, Join
    <3> QED
      BY <2>1, <3>1, <1>1 DEF TasksMatch
  <2>2. CASE u = t /\ Running
    <3>1. task[t] = "running"
      BY <2>2, <1>2, <1>3 DEF TasksMatch, Running
    <3>2. task'[t] = "joined"
      BY <2>2, <3>1, <1>2 DEF Await, Join
    <3> QED
      BY <2>2, <3>2, <1>1
  <2>3. CASE u = t /\ ~Running
    <3>1. ~runs[level[t]]
      BY <2>3, <1>2 DEF Running, Await, MayAwait, InScope
    <3>2. task'[t] = task[t]
      BY <2>3 DEF Await
    <3> QED
      BY <2>3, <3>1, <3>2, <1>1 DEF TasksMatch
  <2> QED
    BY <2>1, <2>2, <2>3
<1> QED
  BY <1>4, <1>5

\* Opening a block concerns no task that is in scope.
LEMMA PushTasks ==
  ASSUME TasksInv, TypeOK', NEW what \in Kinds, NEW taken \in BOOLEAN,
         NEW known \in SUBSET Locals, Push(what, taken, known),
         consumed' = consumed, condition' = condition,
         \A t \in Tasks : task'[t] = task[t]
  PROVE  TasksInv'
<1> USE DEF TasksInv
<1>1. /\ depth \in Nat /\ depth' = depth + 1 /\ level' = level
      /\ \A k \in Levels : k # depth + 1 => runs'[k] = runs[k] /\ kind'[k] = kind[k]
  BY OpenLevels DEF Push, TypeOK
<1>2. \A n \in Names : level[n] # depth + 1 /\ level[n] <= depth + 1 /\ level[n] \in Int
  BY <1>1, DepthAssumption DEF TasksScoped, TypeOK
<1>3. \A t \in Tasks : 1 <= level[t] =>
        /\ level[t] \in Levels
        /\ runs'[level[t]] = runs[level[t]]
        /\ kind'[level[t]] = kind[level[t]]
  BY <1>1, <1>2, DepthAssumption DEF TypeOK
<1>4. TasksScoped'
  BY <1>1, <1>2, <1>3 DEF TasksScoped
<1>5. TasksMatch'
  BY <1>1, <1>3 DEF TasksMatch
<1> QED
  BY <1>4, <1>5

\* A validated block ends with all its tasks joined.
LEMMA CloseTasks ==
  ASSUME TasksInv, TypeOK', Close
  PROVE  TasksInv'
<1> USE DEF TasksInv
<1>1. /\ depth \in Levels /\ 1 <= depth /\ depth' = depth - 1
      /\ UNCHANGED <<kind, runs>>
  BY OpenLevels DEF Close, Forget, Open, TypeOK
<1>2. \A n \in Names : level'[n] = IF level[n] = depth THEN 0 ELSE level[n]
  BY DEF Close, Forget
<1>3. consumed' = {t \in consumed : level[t] # depth}
  BY DEF Close, Forget
<1>4. \A t \in Tasks : level[t] = depth => t \in consumed
  BY <1>1 DEF Close, Validated, TasksScoped
<1>5. \A t \in Tasks : task'[t] = task[t]
  <2> SUFFICES ASSUME NEW t \in Tasks PROVE task'[t] = task[t]
    OBVIOUS
  <2>1. CASE Running
    <3>1. condition[depth] = {}
      BY <1>1 DEF TasksScoped
    <3>2. Join(condition[depth])[t] = task[t]
      BY <3>1, JoinNone
    <3>3. level[t] <= depth /\ level[t] \in Int
      BY DepthAssumption DEF TasksScoped, TypeOK
    <3>4. ~(task[t] = "running" /\ level[t] >= depth)
      BY <3>3, <1>1, <1>4 DEF TasksMatch
    <3>5. task' = Leave(Join(condition[depth]), depth)
      BY <2>1 DEF Close
    <3> QED
      BY <3>2, <3>4, <3>5 DEF Leave
  <2>2. CASE ~Running
    BY <2>2 DEF Close
  <2> QED
    BY <2>1, <2>2
<1>6. TasksScoped'
  <2>1. \A n \in Names : level'[n] <= depth'
    <3> SUFFICES ASSUME NEW n \in Names PROVE level'[n] <= depth - 1
      BY <1>1
    <3>1. level[n] \in Int /\ level[n] <= depth /\ depth \in Int /\ 1 <= depth
      BY <1>1, OpenLevels, DepthAssumption DEF TasksScoped, TypeOK
    <3> QED
      BY <3>1, <1>2
  <2>2. \A t \in consumed' : 1 <= level'[t]
    BY <1>2, <1>3 DEF TasksScoped, TypeOK
  <2>3. \A t \in Tasks : 1 <= level'[t] => kind[level'[t]] \notin {"if_let", "handler"}
    BY <1>2 DEF TasksScoped
  <2>4. \A k \in Levels : condition'[k] = {}
    BY <1>1 DEF TasksScoped, Close, Forget, TypeOK
  <2> QED
    BY <1>1, <2>1, <2>2, <2>3, <2>4 DEF TasksScoped
<1>7. TasksMatch'
  <2> SUFFICES ASSUME NEW t \in Tasks
               PROVE  /\ task[t] \in {"none", "running", "joined"}
                      /\ task[t] = "running" <=>
                           (1 <= level'[t] /\ runs[level'[t]] /\ t \notin consumed')
    BY <1>1, <1>5 DEF TasksMatch
  <2>1. CASE level[t] = depth
    BY <2>1, <1>2, <1>4 DEF TasksMatch
  <2>2. CASE level[t] # depth
    BY <2>2, <1>2, <1>3 DEF TasksMatch
  <2> QED
    BY <2>1, <2>2
<1> QED
  BY <1>6, <1>7

\* Blocks are left early only when their tasks have been awaited.
LEMMA ExitTasks ==
  ASSUME TasksInv, TypeOK', NEW k \in Levels, Exit(k), TaskShapes \cap Shapes = {}
  PROVE  TasksInv'
<1> USE DEF TasksInv
<1>1. UNCHANGED <<depth, kind, level, consumed, condition>>
  BY DEF Exit, text, beliefs
<1>2. \A j \in Levels : runs'[j] = (runs[j] /\ ~(Running /\ j >= k))
  BY DEF Exit
<1>3. \A t \in Tasks : level[t] \in Int /\ level[t] <= depth /\ (1 <= level[t] => level[t] \in Levels)
  BY DepthAssumption DEF TasksScoped, TypeOK
<1>4. \A t \in Tasks : level[t] >= k => t \in consumed
  <2>1. \A t \in Tasks : level[t] \in k..depth => t \in consumed
    BY DEF Exit, TaskShapes
  <2> QED
    BY <2>1, <1>3, OpenLevels
<1>5. \A t \in Tasks : task'[t] = task[t]
  BY <1>4 DEF Exit, Leave, TasksMatch
<1>6. TasksScoped'
  BY <1>1 DEF TasksScoped
<1>7. TasksMatch'
  <2> SUFFICES ASSUME NEW t \in Tasks
               PROVE  task[t] = "running" <=>
                        (1 <= level[t] /\ runs'[level[t]] /\ t \notin consumed)
    BY <1>1, <1>5 DEF TasksMatch
  <2> QED
    BY <1>2, <1>3, <1>4 DEF TasksMatch
<1> QED
  BY <1>6, <1>7

\* Every step keeps the invariant.
LEMMA NextTasks ==
  ASSUME TasksInv, [Next]_vars, TaskShapes \cap Shapes = {}
  PROVE  TasksInv'
<1>1. TypeOK'
  BY NextType DEF TasksInv
<1>2. ASSUME NEW what \in Kinds, NEW taken \in BOOLEAN, OpenBlock(what, taken) PROVE TasksInv'
  BY <1>1, <1>2, PushTasks DEF OpenBlock
<1>3. ASSUME NEW x \in Locals, NEW taken \in BOOLEAN, OpenNarrowed(x, taken) PROVE TasksInv'
  BY <1>1, <1>3, PushTasks DEF OpenNarrowed, Kinds
<1>4. ASSUME NEW taken \in BOOLEAN, NEW T \in SUBSET Tasks, OpenLoop(taken, T) PROVE TasksInv'
  <2>1. T = {} /\ Push("loop", taken, {}) /\ "loop" \in Kinds /\ depth + 1 \in Levels
    <3>1. T = {}
      BY <1>4 DEF OpenLoop, TaskShapes
    <3>2. Push("loop", taken, {}) /\ "loop" \in Kinds
      BY <1>4 DEF OpenLoop, Kinds
    <3>3. depth + 1 \in Levels
      BY <3>2, OpenLevels, DepthAssumption DEF Push, Open, TasksInv
    <3> QED
      BY <3>1, <3>2, <3>3
  <2>2. consumed' = consumed /\ condition' = condition
    BY <1>4, <2>1 DEF OpenLoop, TasksInv, TasksScoped, TypeOK
  <2>3. \A t \in Tasks : task'[t] = task[t]
    BY <1>4, <2>1, JoinNone DEF OpenLoop, TasksInv
  <2> QED
    BY <1>1, <2>1, <2>2, <2>3, PushTasks
<1>5. ASSUME Repeat \/ UNCHANGED vars PROVE TasksInv'
  <2>1. UNCHANGED <<depth, kind, runs, level, consumed, task, condition>>
    BY <1>5 DEF Repeat, vars, text, beliefs, run
  <2> QED
    BY <1>1, <2>1 DEF TasksInv, TasksScoped, TasksMatch
<1> QED
  BY <1>1, <1>2, <1>3, <1>4, <1>5, LocalStatementTasks, SpawnTasks, AwaitTasks, CloseTasks,
     ExitTasks
     DEF Next, TaskStatement, BlockStep

\* In a program that leaves no block early with a task pending, spawns none in
\* an if-let body or a handler, and awaits only outside conditions and the
\* operands of && and ||, every task is joined once and none is lost.
THEOREM TasksJoined ==
  ASSUME TaskShapes \cap Shapes = {}
  PROVE  Spec => []TasksJoinedOnce
<1>1. Init => TasksInv
  BY InitTasks
<1>2. TasksInv /\ [Next]_vars => TasksInv'
  BY NextTasks
<1>3. TasksInv => TasksJoinedOnce
  BY DEF TasksInv, TasksMatch, TasksJoinedOnce
<1> QED
  BY <1>1, <1>2, <1>3, PTL DEF Spec
=============================================================================
