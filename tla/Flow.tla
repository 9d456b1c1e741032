-------------------------------- MODULE Flow --------------------------------
(***************************************************************************)
(* What the checker of src/zyenlang/compiler/semantic.py believes about    *)
(* the locals of a function, beside what one run of the function finds in  *)
(* them.                                                                   *)
(*                                                                         *)
(* The checker walks the text once.  It notes which locals DROP__ has      *)
(* consumed (dropped_scopes), which optional locals a test has shown not   *)
(* to be null (narrowed_scopes), and which tasks have been awaited         *)
(* (task_scopes).  A run executes some blocks, skips others, leaves early  *)
(* and repeats loops.  Each step here is one statement of the text: the    *)
(* checker lowers it, and the run executes it when runs[depth] says that   *)
(* control is there.  The text is accepted when depth reaches 0.           *)
(***************************************************************************)
EXTENDS Integers

CONSTANTS
  Locals,    \* locals of a type `T | null` with a managed T
  Tasks,     \* locals that hold the result of `spawn`
  MaxDepth,  \* how deep blocks nest
  Shapes     \* which of the statement shapes below the programs contain

(***************************************************************************)
(* "branch_init"  a dropped local is assigned in a nested block            *)
(* "task_exit"    return, break, continue or a thrown error leaves a block *)
(*                while a task in it has not been awaited                  *)
(* "block_task"   a task is spawned in an if-let body or a catch handler   *)
(* "loop_await"   a loop's condition awaits a task                         *)
(* "short_await"  the right operand of && or || awaits a task              *)
(* "loop_null"    a loop body assigns null to a local narrowed outside it  *)
(* "lend_null"    a narrowed local is lent to a function as &mut           *)
(***************************************************************************)
AllShapes == {"branch_init", "task_exit", "block_task", "loop_await",
              "short_await", "loop_null", "lend_null"}

ASSUME DepthAssumption == MaxDepth \in Nat \ {0}
ASSUME ShapesAssumption == Shapes \subseteq AllShapes
ASSUME NamesAssumption == Locals \cap Tasks = {}

Levels == 1..MaxDepth
Names == Locals \cup Tasks

Kinds == {"body", "branch", "loop", "if_let", "handler"}

VARIABLES
  depth,      \* number of open blocks; 0 when the whole text is accepted
  kind,       \* kind[k]: what block k is the body of
  runs,       \* runs[k]: control is in block k
  level,      \* level[n]: the block that declares n, 0 when n is not in scope
  dropped,    \* checker: locals consumed by DROP__
  narrowed,   \* checker: narrowed[k], locals that block k takes to hold a T
  consumed,   \* checker: tasks that have been awaited
  value,      \* run: what each local holds
  task,       \* run: what became of each task
  first,      \* run: first[k][n], what this iteration of loop k did first to n
  condition,  \* condition[k]: the tasks that the condition of loop k awaits
  misread     \* run: locals read where they did not hold what the text needs

text == <<depth, kind, level, condition>>
beliefs == <<dropped, narrowed, consumed>>
run == <<runs, value, task, first, misread>>
vars == <<text, beliefs, run>>

TypeOK ==
  /\ depth \in 0..MaxDepth
  /\ kind \in [Levels -> Kinds]
  /\ runs \in [Levels -> BOOLEAN]
  /\ level \in [Names -> 0..MaxDepth]
  /\ dropped \subseteq Locals
  /\ narrowed \in [Levels -> SUBSET Locals]
  /\ consumed \subseteq Tasks
  /\ value \in [Locals -> {"none", "held", "null", "dropped"}]
  /\ task \in [Tasks -> {"none", "running", "joined", "lost", "twice"}]
  /\ first \in [Levels -> [Locals -> {"untouched", "read", "written"}]]
  /\ condition \in [Levels -> SUBSET Tasks]
  /\ misread \subseteq Locals

-----------------------------------------------------------------------------

Open == depth > 0
Running == Open /\ runs[depth]
InScope(n) == Open /\ level[n] \in 1..depth

\* find_narrowed_local: some open block takes x to hold a T.
Narrowed(x) == \E k \in 1..depth : x \in narrowed[k]

\* Block k, or one around it, is the body of a loop inside which x is not
\* tested again.
NarrowedOutside(x, k) ==
  /\ kind[k] = "loop"
  /\ \A j \in k..depth : x \notin narrowed[j]

\* The run touches x: it matters to the next iteration of a loop whether the
\* first thing an iteration does is to rely on the narrowing or to write.
Touch(x, what) ==
  first' = [k \in Levels |->
    IF Running /\ k <= depth /\ kind[k] = "loop" /\ first[k][x] = "untouched"
       /\ (what = "read" => NarrowedOutside(x, k))
    THEN [first[k] EXCEPT ![x] = what] ELSE first[k]]

\* The run awaits the tasks in T.
Join(T) == [t \in Tasks |->
  CASE t \in T /\ task[t] = "running" -> "joined"
    [] t \in T /\ task[t] = "joined"  -> "twice"
    [] OTHER -> task[t]]

\* The run leaves the blocks from k inwards: a task that nothing has awaited
\* can no longer be awaited.
Leave(joined, k) == [t \in Tasks |->
  IF joined[t] = "running" /\ level[t] >= k THEN "lost" ELSE joined[t]]

-----------------------------------------------------------------------------
(* Locals *)

\* let x: T | null = <expression>
Let(x, v) ==
  /\ Open
  /\ ~InScope(x)
  /\ level' = [level EXCEPT ![x] = depth]
  /\ value' = [value EXCEPT ![x] = IF Running THEN v ELSE @]
  /\ UNCHANGED <<depth, kind, condition, beliefs, runs, task, first, misread>>

\* An expression reads x, as a T when it is narrowed.
Read(x) ==
  /\ InScope(x)
  /\ x \notin dropped
  /\ misread' = IF Running /\ (value[x] = "dropped" \/ (Narrowed(x) /\ value[x] # "held"))
                THEN misread \cup {x} ELSE misread
  /\ IF Narrowed(x) THEN Touch(x, "read") ELSE UNCHANGED first
  /\ UNCHANGED <<text, beliefs, runs, value, task>>

\* Faulty variant: only the innermost block forgets the narrowing.
AssignForgetInnermost(x, v, some) ==
  /\ InScope(x)
  /\ x \in dropped /\ level[x] < depth => "branch_init" \in Shapes
  /\ some => v = "held"
  /\ ~some /\ (\E j, k \in 1..depth : j < k /\ kind[k] = "loop" /\ x \in narrowed[j])
       => "loop_null" \in Shapes
  /\ dropped' = dropped \ {x}
  /\ narrowed' = IF some THEN narrowed ELSE [narrowed EXCEPT ![depth] = @ \ {x}]
  /\ value' = [value EXCEPT ![x] = IF Running THEN v ELSE @]
  /\ Touch(x, "written")
  /\ UNCHANGED <<text, consumed, runs, task, misread>>

\* x = <expression>, of type T ("some") or T | null.  The local counts as
\* initialized from here on, wherever the statement stands; a narrowing ends.
Assign(x, v, some) ==
  /\ InScope(x)
  /\ x \in dropped /\ level[x] < depth => "branch_init" \in Shapes
  /\ some => v = "held"
  /\ ~some /\ (\E j, k \in 1..depth : j < k /\ kind[k] = "loop" /\ x \in narrowed[j])
       => "loop_null" \in Shapes
  /\ dropped' = dropped \ {x}
  /\ narrowed' = IF some THEN narrowed ELSE [k \in Levels |-> narrowed[k] \ {x}]
  /\ value' = [value EXCEPT ![x] = IF Running THEN v ELSE @]
  /\ Touch(x, "written")
  /\ UNCHANGED <<text, consumed, runs, task, misread>>

\* f(&mut x): the callee may store anything.
Lend(x, v) ==
  /\ InScope(x)
  /\ x \notin dropped
  /\ Narrowed(x) => "lend_null" \in Shapes
  /\ value' = [value EXCEPT ![x] = IF Running THEN v ELSE @]
  /\ Touch(x, "written")
  /\ UNCHANGED <<text, beliefs, runs, task, misread>>

\* Faulty variant: a nested block may drop the local.
DropAnywhere(x) ==
  /\ InScope(x)
  /\ x \notin dropped
  /\ dropped' = dropped \cup {x}
  /\ narrowed' = [narrowed EXCEPT ![depth] = @ \ {x}]
  /\ value' = [value EXCEPT ![x] = IF Running THEN "dropped" ELSE @]
  /\ UNCHANGED <<text, consumed, runs, task, first, misread>>

\* DROP__(x), in the block that declares x
Drop(x) ==
  /\ InScope(x)
  /\ level[x] = depth
  /\ x \notin dropped
  /\ dropped' = dropped \cup {x}
  /\ narrowed' = [narrowed EXCEPT ![depth] = @ \ {x}]
  /\ value' = [value EXCEPT ![x] = IF Running THEN "dropped" ELSE @]
  /\ UNCHANGED <<text, consumed, runs, task, first, misread>>

-----------------------------------------------------------------------------
(* Tasks *)

\* let t = spawn f()
Spawn(t) ==
  /\ Open
  /\ ~InScope(t)
  /\ kind[depth] \in {"if_let", "handler"} => "block_task" \in Shapes
  /\ level' = [level EXCEPT ![t] = depth]
  /\ task' = [task EXCEPT ![t] = IF Running THEN "running" ELSE @]
  /\ UNCHANGED <<depth, kind, condition, beliefs, runs, value, first, misread>>

MayAwait(t) == InScope(t) /\ level[t] = depth /\ t \notin consumed

\* await t, in the block that spawned t.  It is not evaluated when it stands
\* in the right operand of && or || and the left one decides.
Await(t, evaluated) ==
  /\ MayAwait(t)
  /\ ~evaluated => "short_await" \in Shapes
  /\ consumed' = consumed \cup {t}
  /\ task' = IF Running /\ evaluated THEN Join({t}) ELSE task
  /\ UNCHANGED <<text, dropped, narrowed, runs, value, first, misread>>

-----------------------------------------------------------------------------
(* Blocks *)

\* push_scope for a block that control enters or not
Push(what, taken, known) ==
  /\ Open
  /\ depth < MaxDepth
  /\ depth' = depth + 1
  /\ kind' = [kind EXCEPT ![depth + 1] = what]
  /\ runs' = [runs EXCEPT ![depth + 1] = Running /\ taken]
  /\ narrowed' = [narrowed EXCEPT ![depth + 1] = known]
  /\ first' = [first EXCEPT ![depth + 1] = [x \in Locals |-> "untouched"]]
  /\ UNCHANGED <<level, dropped, value, misread>>

\* if or else with a condition that narrows nothing; the body of `if let`,
\* whose binding is another local; the handler of a call that may throw
OpenBlock(what, taken) ==
  /\ what \in {"branch", "if_let", "handler"}
  /\ Push(what, taken, {})
  /\ UNCHANGED <<condition, consumed, task>>

\* if x != null { ... }   or   if x == null { } else { ... }
OpenNarrowed(x, taken) ==
  /\ InScope(x)
  /\ x \notin dropped
  /\ Running => (taken <=> value[x] = "held")
  /\ Push("branch", taken, {x})
  /\ UNCHANGED <<condition, consumed, task>>

\* while <condition> { ... }, whose condition awaits the tasks in T
OpenLoop(taken, T) ==
  /\ T # {} => "loop_await" \in Shapes
  /\ \A t \in T : MayAwait(t)
  /\ Push("loop", taken, {})
  /\ condition' = [condition EXCEPT ![depth + 1] = T]
  /\ consumed' = consumed \cup T
  /\ task' = IF Running THEN Join(T) ELSE task

\* The end of a block: validate_current_task_scope refuses a block with a
\* task not awaited, but it is not called for if-let bodies and handlers.
Validated ==
  \/ kind[depth] \in {"if_let", "handler"}
  \/ \A t \in Tasks : level[t] = depth => t \in consumed

Forget ==
  /\ depth' = depth - 1
  /\ level' = [n \in Names |-> IF level[n] = depth THEN 0 ELSE level[n]]
  /\ dropped' = {x \in dropped : level[x] # depth}
  /\ consumed' = {t \in consumed : level[t] # depth}
  /\ narrowed' = [narrowed EXCEPT ![depth] = {}]
  /\ condition' = [condition EXCEPT ![depth] = {}]
  /\ UNCHANGED <<kind, runs, value>>

\* Faulty variant: the tasks of the block are not looked at.
CloseUnchecked ==
  /\ Open
  /\ Forget
  /\ IF Running THEN task' = Leave(Join(condition[depth]), depth) ELSE UNCHANGED task
  /\ UNCHANGED <<first, misread>>

\* pop_scope.  A loop evaluates its condition again.
Close ==
  /\ Open
  /\ Validated
  /\ Forget
  /\ IF Running THEN task' = Leave(Join(condition[depth]), depth) ELSE UNCHANGED task
  /\ UNCHANGED <<first, misread>>

\* The body of the loop runs again, along the same path: what it first read
\* as a T has to be there again.
Repeat ==
  /\ Running
  /\ kind[depth] = "loop"
  /\ misread' = misread \cup
       {x \in Locals : first[depth][x] = "read" /\ value[x] # "held"}
  /\ UNCHANGED <<text, beliefs, runs, value, task, first>>

\* return, stop or a propagated error leaves every block (k = 1); break and
\* continue leave the blocks of loop k.  The text after it is still checked.
Exit(k) ==
  /\ Open
  /\ k \in 1..depth
  /\ k = 1 \/ (kind[k] = "loop" /\ \A j \in (k + 1)..depth : kind[j] # "loop")
  /\ (\E t \in Tasks : level[t] \in k..depth /\ t \notin consumed) => "task_exit" \in Shapes
  /\ runs' = [j \in Levels |-> runs[j] /\ ~(Running /\ j >= k)]
  /\ task' = IF Running THEN Leave(task, k) ELSE task
  /\ UNCHANGED <<text, beliefs, value, first, misread>>

-----------------------------------------------------------------------------

Init ==
  /\ depth = 1
  /\ kind = [k \in Levels |-> "body"]
  /\ runs = [k \in Levels |-> k = 1]
  /\ level = [n \in Names |-> 0]
  /\ dropped = {}
  /\ narrowed = [k \in Levels |-> {}]
  /\ consumed = {}
  /\ value = [x \in Locals |-> "none"]
  /\ task = [t \in Tasks |-> "none"]
  /\ first = [k \in Levels |-> [x \in Locals |-> "untouched"]]
  /\ condition = [k \in Levels |-> {}]
  /\ misread = {}

LocalStatement == \E x \in Locals :
  \/ \E v \in {"held", "null"} : Let(x, v) \/ Lend(x, v)
  \/ \E v \in {"held", "null"}, some \in BOOLEAN : Assign(x, v, some)
  \/ Read(x)
  \/ Drop(x)

TaskStatement == \E t \in Tasks :
  \/ Spawn(t)
  \/ \E evaluated \in BOOLEAN : Await(t, evaluated)

BlockStep ==
  \/ \E what \in Kinds, taken \in BOOLEAN : OpenBlock(what, taken)
  \/ \E x \in Locals, taken \in BOOLEAN : OpenNarrowed(x, taken)
  \/ \E taken \in BOOLEAN, T \in SUBSET Tasks : OpenLoop(taken, T)
  \/ Close
  \/ Repeat
  \/ \E k \in Levels : Exit(k)

Next == LocalStatement \/ TaskStatement \/ BlockStep

Spec == Init /\ [][Next]_vars

-----------------------------------------------------------------------------
(* Properties *)

\* A run never uses a local that holds nothing, and never uses null as a T.
ReadsFindValues == misread = {}

\* Where control is, the locals the checker takes for dropped are the ones
\* that are dropped: every other local can be released at the block's end.
DroppedKnown ==
  \A x \in Locals : InScope(x) /\ runs[level[x]] =>
     (x \in dropped <=> value[x] = "dropped")

\* Where control is, a narrowed local holds a T.
NarrowedHeld == Running => \A x \in Locals : Narrowed(x) => value[x] = "held"

\* The tables have their types, and what they say of the locals is true of the
\* run wherever control is.
BeliefsTrue == TypeOK /\ DroppedKnown /\ NarrowedHeld

\* Every task that was spawned is awaited exactly once: none is left behind
\* by a block, and none is awaited again.
TasksJoinedOnce == \A t \in Tasks : task[t] \notin {"lost", "twice"}
=============================================================================
