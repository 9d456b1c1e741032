------------------------------ MODULE Cleanup ------------------------------
(***************************************************************************)
(* The ownership operations that src/zyenlang/compiler/backends/c.py emits *)
(* for one function, along one path through it.  The back end keeps, for   *)
(* each open block, the managed locals and the deferred calls it has       *)
(* emitted (managed_scopes, deferred_scopes), and cleanup_lines releases   *)
(* them at every way out.  Text that the path does not execute leaves no   *)
(* trace in either, because its blocks are popped before control returns,  *)
(* so the model follows the executed text only.                            *)
(***************************************************************************)
EXTENDS Integers, Sequences, FiniteSets, SequencesExt

CONSTANTS
  Names,     \* managed locals and the bindings of `if let`
  Objects,   \* reference-counted objects
  MaxDepth,  \* how deep blocks nest
  MaxTemps,  \* how many owned operands a call has, and deferred calls a block
  Nil,       \* null, and the zero value of a released local
  Shapes     \* which of the statement shapes below the function contains

(***************************************************************************)
(* "args_exit"      an operand throws, returns or breaks after owned ones  *)
(*                  of the same call, literal or `==` have been evaluated  *)
(* "iflet_owned"    `if let` tests a value that no local owns              *)
(* "iflet_drop"     the body of an `if let` drops the binding              *)
(* "iflet_source"   the body of an `if let` assigns the local it tested    *)
(* "recover_early"  a handler goes on after recover                        *)
(* "stop_local"     `stop` throws an error that a local holds              *)
(* "cond_exit"      a handler in the condition of a while loop breaks or   *)
(*                  continues the loop around it                           *)
(***************************************************************************)
AllShapes == {"args_exit", "iflet_owned", "iflet_drop", "iflet_source", "recover_early",
              "stop_local", "cond_exit"}

ASSUME BoundsAssumption == MaxDepth \in Nat \ {0} /\ MaxTemps \in Nat
ASSUME NamesAssumption == IsFiniteSet(Names)
ASSUME NilAssumption == Nil \notin Objects
ASSUME ShapesAssumption == Shapes \subseteq AllShapes

Levels == 1..MaxDepth
Values == Objects \cup {Nil}

VARIABLES
  depth,     \* number of open blocks; 0 when the function has returned
  kind,      \* kind[k]: what block k is the body of
  level,     \* level[n]: the block that declares n, 0 when n is not in scope
  managed,   \* the locals in managed_scopes; the others are if-let bindings
  slot,      \* what each local holds
  deferred,  \* deferred[k]: what the deferred calls of block k have captured
  calling,   \* calling[k]: a call or literal of block k has its operands evaluated
  temps,     \* temps[k]: the owned operands evaluated for it
  recovered, \* recovered[k]: what handler k has stored as the result of catch
  result,    \* what the function returns, or the error it throws
  count,     \* the reference count of each object
  stale      \* a value was used after its object had been freed

blocks == <<depth, kind, level, managed>>
vars == <<blocks, slot, deferred, calling, temps, recovered, result, count, stale>>

TypeOK ==
  /\ depth \in 0..MaxDepth
  /\ kind \in [Levels -> {"body", "branch", "loop", "if_let", "handler", "condition"}]
  /\ level \in [Names -> 0..MaxDepth]
  /\ managed \subseteq Names
  /\ slot \in [Names -> Values]
  /\ deferred \in [Levels -> Seq(Values)]
  /\ calling \in [Levels -> BOOLEAN]
  /\ temps \in [Levels -> Seq(Values)]
  /\ recovered \in [Levels -> Values]
  /\ result \in Values
  /\ count \in [Objects -> Nat]
  /\ stale \in BOOLEAN

-----------------------------------------------------------------------------
(* Reference counts *)

InScope(n) == level[n] # 0
Held == {n \in managed : InScope(n)}

\* retain and release of null do nothing.
Retained(c, v) == IF v = Nil THEN c ELSE [c EXCEPT ![v] = @ + 1]
Released(c, v) == IF v = Nil THEN c ELSE [c EXCEPT ![v] = @ - 1]

\* The owners of o: managed locals, the i-th capture or argument of block k, and
\* the handlers that have it as their result.
Locals(o) == {n \in Held : slot[n] = o}
Slots == Levels \X (1..MaxTemps)
Captures(o) == {at \in Slots : at[2] \in DOMAIN deferred[at[1]] /\ deferred[at[1]][at[2]] = o}
Arguments(o) == {at \in Slots : at[2] \in DOMAIN temps[at[1]] /\ temps[at[1]][at[2]] = o}
Recoveries(o) == {k \in Levels : recovered[k] = o}

\* What an expression yields, with the counts that take_or_retain leaves: a new
\* object, which has one owner; null; or the value of a local, retained.  A new
\* object is not one that a local still points to.
Fresh == {o \in Objects : count[o] = 0 /\ \A n \in Names : slot[n] # o}
New == {[value |-> o, counts |-> [count EXCEPT ![o] = 1], uses |-> {}] : o \in Fresh}
Copies == {[value |-> slot[m], counts |-> Retained(count, slot[m]), uses |-> {slot[m]}] :
             m \in {n \in Names : InScope(n)}}
Nothing == [value |-> Nil, counts |-> count, uses |-> {}]
Outcomes == New \cup Copies \cup {Nothing}

\* An error that is made: its message is a new object or a literal, which nobody
\* has to release.
Errors == New \cup {Nothing}

\* The path uses the values in vs.
Using(vs) == stale' = (stale \/ \E v \in vs \ {Nil} : count[v] <= 0)

\* What leaves the function is used by the caller, after the cleanup.
Yielding(v, uses) ==
  /\ result' = v
  /\ stale' = (stale \/ (\E u \in uses \ {Nil} : count[u] <= 0)
                    \/ (v # Nil /\ count'[v] <= 0))

Idle == depth > 0 /\ ~calling[depth]

\* The binding of an if-let in progress refers to what n holds.
Tested(n) == \E m \in Names \ managed : InScope(m) /\ slot[m] # Nil /\ slot[m] = slot[n]

-----------------------------------------------------------------------------
(* Statements *)

\* let n = <expression>
Let(n, out) ==
  /\ Idle
  /\ ~InScope(n)
  /\ level' = [level EXCEPT ![n] = depth]
  /\ managed' = managed \cup {n}
  /\ slot' = [slot EXCEPT ![n] = out.value]
  /\ count' = out.counts
  /\ Using(out.uses)
  /\ UNCHANGED <<depth, kind, deferred, calling, temps, recovered, result>>

\* Faulty variant: the old value is released before the new one is retained.
AssignReleaseFirst(n, out) ==
  /\ Idle
  /\ n \in Held
  /\ Tested(n) => "iflet_source" \in Shapes
  /\ slot' = [slot EXCEPT ![n] = out.value]
  /\ count' = Released(out.counts, slot[n])
  /\ stale' = (stale \/ \E v \in out.uses \ {Nil} : Released(count, slot[n])[v] <= 0)
  /\ UNCHANGED <<blocks, deferred, calling, temps, recovered, result>>

\* n = <expression>: the new value is taken or retained, then the old one is
\* released.
Assign(n, out) ==
  /\ Idle
  /\ n \in Held
  /\ Tested(n) => "iflet_source" \in Shapes
  /\ slot' = [slot EXCEPT ![n] = out.value]
  /\ count' = Released(out.counts, slot[n])
  /\ Using(out.uses \cup {slot[n]})
  /\ UNCHANGED <<blocks, deferred, calling, temps, recovered, result>>

MayDrop(n) ==
  /\ Idle
  /\ level[n] = depth
  /\ n \notin managed => "iflet_drop" \in Shapes
  /\ n \in managed /\ Tested(n) => "iflet_source" \in Shapes

\* DROP__(n), also of an if-let binding: release, then the zero value
Drop(n) ==
  /\ MayDrop(n)
  /\ count' = Released(count, slot[n])
  /\ slot' = [slot EXCEPT ![n] = Nil]
  /\ Using({slot[n]})
  /\ UNCHANGED <<blocks, deferred, calling, temps, recovered, result>>

\* A statement that uses what n holds.
Use(n) ==
  /\ Idle
  /\ InScope(n)
  /\ Using({slot[n]})
  /\ UNCHANGED <<blocks, slot, deferred, calling, temps, recovered, result, count>>

\* defer f(<expression>): the argument is captured now.
Defer(out) ==
  /\ Idle
  /\ Len(deferred[depth]) < MaxTemps
  /\ deferred' = [deferred EXCEPT ![depth] = Append(@, out.value)]
  /\ count' = out.counts
  /\ Using(out.uses)
  /\ UNCHANGED <<blocks, slot, calling, temps, recovered, result>>

-----------------------------------------------------------------------------
(* Calls *)

BeginCall ==
  /\ Idle
  /\ calling' = [calling EXCEPT ![depth] = TRUE]
  /\ UNCHANGED <<blocks, slot, deferred, temps, recovered, result, count, stale>>

\* An argument that owns its value is kept in a temporary; a local is passed
\* as it is.
PassOwned(out) ==
  /\ depth > 0 /\ calling[depth]
  /\ Len(temps[depth]) < MaxTemps
  /\ temps' = [temps EXCEPT ![depth] = Append(@, out.value)]
  /\ count' = out.counts
  /\ UNCHANGED <<blocks, slot, deferred, calling, recovered, result, stale>>

\* Faulty variant: the owned arguments are not released.
EndCallKeepsTemps ==
  /\ depth > 0 /\ calling[depth]
  /\ calling' = [calling EXCEPT ![depth] = FALSE]
  /\ temps' = [temps EXCEPT ![depth] = <<>>]
  /\ Using(ToSet(temps[depth]))
  /\ UNCHANGED <<blocks, slot, deferred, recovered, result, count>>

\* The call is made and its owned arguments are released, whether it throws or
\* not; an error that is not caught then propagates (Exit).
EndCall ==
  /\ depth > 0 /\ calling[depth]
  /\ calling' = [calling EXCEPT ![depth] = FALSE]
  /\ temps' = [temps EXCEPT ![depth] = <<>>]
  /\ count' = [o \in Objects |->
                 count[o] - Cardinality({at \in Arguments(o) : at[1] = depth})]
  /\ Using(ToSet(temps[depth]))
  /\ UNCHANGED <<blocks, slot, deferred, recovered, result>>

-----------------------------------------------------------------------------
(* Blocks *)

Push(what) ==
  /\ depth > 0 /\ depth < MaxDepth
  /\ depth' = depth + 1
  /\ kind' = [kind EXCEPT ![depth + 1] = what]
  /\ UNCHANGED <<deferred, calling, temps, recovered, result>>

\* A branch or loop body that control enters.
OpenBlock(what) ==
  /\ Idle
  /\ Push(what)
  /\ UNCHANGED <<level, managed, slot, count, stale>>

\* The handler of a call that has thrown, as a statement, in the condition of a
\* while loop, or among the operands of another call.  The error is a managed
\* local of the handler.
OpenHandler(what, n, out) ==
  /\ what = "condition" => Idle
  /\ ~InScope(n)
  /\ Push(what)
  /\ level' = [level EXCEPT ![n] = depth + 1]
  /\ managed' = managed \cup {n}
  /\ slot' = [slot EXCEPT ![n] = out.value]
  /\ count' = out.counts
  /\ UNCHANGED stale

\* if let n = <expression>: the value is not retained, and the binding is not
\* among the managed locals.
OpenIfLet(n, out) ==
  /\ Idle
  /\ ~InScope(n)
  /\ Push("if_let")
  /\ level' = [level EXCEPT ![n] = depth + 1]
  /\ managed' = managed \ {n}
  /\ slot' = [slot EXCEPT ![n] = out.value]
  /\ count' = IF out \in New THEN out.counts ELSE count
  /\ out \in New => "iflet_owned" \in Shapes
  /\ out.value # Nil
  /\ Using(out.uses)

IsHandler(h) == kind[h] \in {"handler", "condition"}

\* recover <expression>: the value becomes the result of the innermost catch.
\* It is the last thing the handler does unless the shape says so.
Recover(h, out) ==
  /\ Idle
  /\ h <= depth
  /\ IsHandler(h) /\ \A j \in (h + 1)..depth : ~IsHandler(j)
  /\ recovered[h] # Nil => "recover_early" \in Shapes
  /\ recovered' = [recovered EXCEPT ![h] = out.value]
  /\ count' = out.counts
  /\ Using(out.uses)
  /\ UNCHANGED <<blocks, slot, deferred, calling, temps, result>>

\* What leaving the blocks from k inwards releases: the captures of their
\* deferred calls, which run innermost block and last call first, and then the
\* managed locals.  Each has a reference of its own, so that the order makes no
\* difference to the counts.
ManagedFrom(k) == {n \in Held : level[n] >= k}
CapturedFrom(k) == UNION {ToSet(deferred[j]) : j \in {i \in Levels : i >= k}}

\* Faulty variant: only the innermost block is cleaned up.
CleanupInnermost(c, k) ==
  [o \in Objects |-> c[o] - Cardinality({at \in Captures(o) : at[1] >= depth})
                         - Cardinality(Locals(o) \cap ManagedFrom(depth))]

\* cleanup_lines
Cleanup(c, k) ==
  [o \in Objects |-> c[o] - Cardinality({at \in Captures(o) : at[1] >= k})
                         - Cardinality(Locals(o) \cap ManagedFrom(k))]

UsedInCleanup(k) == CapturedFrom(k) \cup {slot[n] : n \in ManagedFrom(k)}

\* The blocks from k inwards are left, with everything that belongs to them.
LeaveTo(k) ==
  /\ depth' = k - 1
  /\ level' = [n \in Names |-> IF level[n] >= k THEN 0 ELSE level[n]]
  /\ slot' = [n \in Names |-> IF level[n] >= k THEN Nil ELSE slot[n]]
  /\ deferred' = [j \in Levels |-> IF j >= k THEN <<>> ELSE deferred[j]]
  /\ calling' = [j \in Levels |-> calling[j] /\ j < k]
  /\ recovered' = [j \in Levels |-> IF j >= k THEN Nil ELSE recovered[j]]
  /\ UNCHANGED <<kind, managed>>

\* The end of a block.  The result of a handler becomes an argument of the
\* call around it, or is discarded.
Close ==
  /\ Idle
  /\ depth > 1
  /\ LET got == recovered[depth]
         passed == calling[depth - 1] /\ got # Nil
     IN /\ passed => Len(temps[depth - 1]) < MaxTemps
        /\ temps' = IF passed THEN [temps EXCEPT ![depth - 1] = Append(@, got)] ELSE temps
        /\ count' = IF passed THEN Cleanup(count, depth)
                              ELSE Released(Cleanup(count, depth), got)
  /\ LeaveTo(depth)
  /\ Using(UsedInCleanup(depth))
  /\ UNCHANGED result

\* Control leaves the blocks from k inwards in the middle of a statement.
Abandon(k) ==
  /\ (\E j \in Levels : j >= k /\ temps[j] # <<>>) => "args_exit" \in Shapes
  /\ (\E j \in Levels : j >= k /\ recovered[j] # Nil) => "recover_early" \in Shapes
  /\ temps' = [j \in Levels |-> IF j >= k THEN <<>> ELSE temps[j]]
  /\ LeaveTo(k)

\* The conditions whose handler the path is in, within the body of loop k.
Conditions(k) == {j \in (k + 1)..depth : kind[j] = "condition"}

\* break or continue of loop k, for which what loop k has is cleaned up.  The C
\* statement leaves the innermost loop of the C text, which in the handler of a
\* condition is the loop that has the condition.
Exit(k) ==
  /\ Idle
  /\ k <= depth /\ kind[k] = "loop"
  /\ \A j \in (k + 1)..depth : kind[j] # "loop"
  /\ Conditions(k) # {} => "cond_exit" \in Shapes
  /\ Abandon(Max({k} \cup Conditions(k)))
  /\ count' = Cleanup(count, k)
  /\ Using(UsedInCleanup(k))
  /\ UNCHANGED result

\* An error that is not caught propagates out of the function, possibly thrown by
\* an operand of a call.
Throw(out) ==
  /\ depth > 0
  /\ Abandon(1)
  /\ count' = Cleanup(out.counts, 1)
  /\ Yielding(out.value, UsedInCleanup(1))

\* stop <expression>: unlike a value that is returned, the error is not retained.
Stop(out) ==
  /\ Idle
  /\ out \notin Errors => "stop_local" \in Shapes
  /\ Abandon(1)
  /\ count' = Cleanup(IF out \in Errors THEN out.counts ELSE count, 1)
  /\ Yielding(out.value, out.uses \cup UsedInCleanup(1))

\* return <expression>: the value is taken or retained before the cleanup.
Return(out) ==
  /\ Idle
  /\ Abandon(1)
  /\ count' = Cleanup(out.counts, 1)
  /\ Yielding(out.value, out.uses \cup UsedInCleanup(1))

-----------------------------------------------------------------------------

Init ==
  /\ depth = 1
  /\ kind = [k \in Levels |-> "body"]
  /\ level = [n \in Names |-> 0]
  /\ managed = {}
  /\ slot = [n \in Names |-> Nil]
  /\ deferred = [k \in Levels |-> <<>>]
  /\ calling = [k \in Levels |-> FALSE]
  /\ temps = [k \in Levels |-> <<>>]
  /\ recovered = [k \in Levels |-> Nil]
  /\ result = Nil
  /\ count = [o \in Objects |-> 0]
  /\ stale = FALSE

Statement ==
  \/ \E n \in Names, out \in Outcomes : Let(n, out) \/ Assign(n, out)
  \/ \E n \in Names : Drop(n) \/ Use(n)
  \/ \E out \in Outcomes : Defer(out) \/ Return(out)
  \/ \E out \in Errors \cup Copies : Stop(out)

CallStep ==
  \/ BeginCall
  \/ \E out \in New : PassOwned(out)
  \/ EndCall

BlockStep ==
  \/ \E what \in {"branch", "loop"} : OpenBlock(what)
  \/ \E what \in {"handler", "condition"}, n \in Names, out \in Errors : OpenHandler(what, n, out)
  \/ \E n \in Names, out \in New \cup Copies : OpenIfLet(n, out)
  \/ \E h \in Levels, out \in Outcomes : Recover(h, out)
  \/ Close
  \/ \E k \in Levels : Exit(k)
  \/ \E out \in Errors : Throw(out)

Next == Statement \/ CallStep \/ BlockStep

Spec == Init /\ [][Next]_vars

-----------------------------------------------------------------------------
(* Properties *)

\* Managed locals, deferred calls, operands and results own objects.
Owners(o) ==
  Cardinality(Locals(o)) + Cardinality(Captures(o)) + Cardinality(Arguments(o))
    + Cardinality(Recoveries(o)) + (IF result = o THEN 1 ELSE 0)

\* Every object has as many references as it has owners, on every path: none is
\* released twice, and none is forgotten.
Balanced == TypeOK /\ \A o \in Objects : count[o] = Owners(o)

\* When the function has returned or thrown, only what it yields is left.
NoLeak == depth = 0 => \A o \in Objects : count[o] = (IF o = result THEN 1 ELSE 0)

\* No value is used after its object has been freed, also not by the caller.
NoStaleUse == ~stale
=============================================================================
