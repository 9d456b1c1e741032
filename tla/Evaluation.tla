----------------------------- MODULE Evaluation -----------------------------
(***************************************************************************)
(* From an expression to C statements, and what running them does in which *)
(* order (backends/c.py).  emit_expr turns an expression into a CExpr: C   *)
(* statements to run first (the prelude) and C code for the value (the     *)
(* residual code), with a flag saying whether that value is owned.  What   *)
(* throws, or has to be released, is moved into the prelude; what is left  *)
(* in the residual code runs later, in an order that C leaves open.        *)
(*                                                                         *)
(* An expression is a record [op, args].  A node is named by its path from *)
(* the root.  "read" and "text" read a variable, unmanaged and managed;    *)
(* the four calls differ in whether they may throw ("try", "trymake") and  *)
(* whether their value is managed ("make", "trymake");                     *)
(* "len" stands for the built-in operations that work on a value and       *)
(* return a plain one, "set" for List assignment, "field" and "part" for   *)
(* an unmanaged and a managed field, "unbox" for Box and optional values,  *)
(* "add" for every operator and cast that C evaluates in place.  A value   *)
(* that is owned is a token, named by the node that made it.               *)
(***************************************************************************)
EXTENDS Naturals, Sequences, FiniteSets, SequencesExt

CONSTANTS Programs,  \* expressions to compile
          Uses       \* what the statement does with the value: "let", "discard"

VARIABLES expr,    \* the expression of the statement
          use,     \* the statement it stands in
          todo,    \* C statements not yet run
          trace,   \* nodes evaluated, in order
          skips,   \* operands passed over because an earlier value decided
          live,    \* owned values not yet released or moved
          ended    \* "no", "done", "thrown"

vars == <<expr, use, todo, trace, skips, live, ended>>

Throwing == {"try", "trymake"}
Making   == {"make", "trymake", "catch", "str", "fstr", "list", "new", "unbox"}
Calls    == {"call", "make", "try", "trymake", "len", "set", "catch", "icall"}

RECURSIVE IsManaged(_)
IsManaged(e) == \/ e.op \in Making \cup {"text", "part"}
                \/ e.op = "tuple" /\ \E i \in DOMAIN e.args : IsManaged(e.args[i])

-----------------------------------------------------------------------------
(* C code and C statements.                                                *)

Event(p, code, uses, takes, makes) ==
    [id |-> p, after |-> {x.id : x \in code}, cond |-> {}, decides |-> FALSE,
     uses |-> uses, takes |-> takes, makes |-> makes]

Decision(p, code) == [Event(p, code, {}, {}, FALSE) EXCEPT !.decides = TRUE]

Run(code)        == [kind |-> "run", code |-> code]
Release(tok)     == [kind |-> "release", tok |-> tok]
Branch(outcomes) == [kind |-> "branch", outcomes |-> outcomes]
Move(from, to)   == [kind |-> "move", from |-> from, to |-> to]
Throw            == [kind |-> "throw"]

\* A CExpr; tok is the token of an owned value.
CExpr(prelude, code, owned, tok) ==
    [prelude |-> prelude, code |-> code, owned |-> owned, tok |-> tok]

Each(a, F(_)) == FlattenSeq([i \in DOMAIN a |-> F(a[i])])
Prelude(v)    == v.prelude
Hold(v)       == v.prelude \o <<Run(v.code)>>
HoldOwned(v)  == IF v.owned THEN Hold(v) ELSE v.prelude
FreeOwned(v)  == IF v.owned THEN <<Release(v.tok)>> ELSE <<>>
Owned(a)      == {a[i].tok : i \in {j \in DOMAIN a : a[j].owned}}
Residual(a)   == UNION {a[i].code : i \in {j \in DOMAIN a : ~a[j].owned}}
AllCode(a)    == UNION {a[i].code : i \in DOMAIN a}

\* take_or_retain: the new holder takes an owned value over, and keeps a
\* copy of a managed one that is not.
Kept(e, v) ==
    IF IsManaged(e) /\ ~v.owned
    THEN CExpr(v.prelude, {[x EXCEPT !.makes = (x.id = v.tok)] : x \in v.code}, TRUE, v.tok)
    ELSE v

-----------------------------------------------------------------------------
(* One operator per kind of expression: e at p, with its operands a        *)
(* emitted.                                                                *)

\* A variable is its own code.
EmitName(p) == CExpr(<<>>, {Event(p, {}, {}, {}, FALSE)}, FALSE, p)

\* emit_call: an owned argument is held in a temporary and released after
\* the call; other arguments stay inside the call's own code.
Arguments(a) == Each(a, HoldOwned)
Releases(a)  == Each(a, FreeOwned)
CallCode(p, a, makes) == Residual(a) \cup {Event(p, Residual(a), Owned(a), {}, makes)}

EmitPlain(e, p, a) ==
    IF Releases(a) = <<>>
    THEN CExpr(Arguments(a), CallCode(p, a, IsManaged(e)), IsManaged(e), p)
    ELSE CExpr(Arguments(a) \o <<Run(CallCode(p, a, IsManaged(e)))>> \o Releases(a), {}, IsManaged(e), p)

\* finish_throwing_result: the result is tested in the prelude.
Check == Branch({[then |-> <<>>, skips |-> {}], [then |-> <<Throw>>, skips |-> {}]})
EmitThrowing(e, p, a) ==
    CExpr(Arguments(a) \o <<Run(CallCode(p, a, IsManaged(e)))>> \o Releases(a) \o <<Check>>,
          {}, IsManaged(e), p)

\* Built-in operations leave their result in a temporary.
EmitBuiltin(p, a) == CExpr(Arguments(a) \o <<Run(CallCode(p, a, FALSE))>> \o Releases(a), {}, FALSE, p)

\* List assignment: the index in a temporary, then the bounds test, and
\* only then the code of the new value; its error is caught here.
EmitSet(p, a) ==
    LET value == Residual(<<a[2]>>)
        store == Run(value \cup {Event(p, value, Owned(a), {}, FALSE)})
    IN  CExpr(Arguments(a) \o <<Run(a[1].code)>>
              \o <<Branch({[then |-> <<store>>, skips |-> {}],
                           [then |-> <<>>, skips |-> {Append(p, 2)}]})>>
              \o Releases(a), {}, FALSE, p)

\* emit_indirect_call: the callee is held before the arguments and
\* released after them.
EmitIndirect(p, a) ==
    LET args == Tail(a)
        free == Releases(args) \o FreeOwned(a[1])
        code == Residual(args) \cup {Event(p, Residual(args), Owned(a), {}, FALSE)}
        head == Hold(a[1]) \o Arguments(args)
    IN  IF free = <<>> THEN CExpr(head, code, FALSE, p)
                       ELSE CExpr(head \o <<Run(code)>> \o free, {}, FALSE, p)

\* emit_catch and IRRecover: the value of the call, or the one the handler
\* recovers with, in one variable.
EmitCatch(e, p, a) ==
    LET call     == EmitBuiltin(p, <<a[1]>>)
        fallback == Kept(e.args[2], a[2])
    IN  CExpr(call.prelude
              \o <<Branch({[then |-> <<Move({}, {p})>>, skips |-> {Append(p, 2)}],
                           [then |-> Hold(fallback) \o <<Move({fallback.tok}, {p})>>, skips |-> {}]})>>,
              {}, TRUE, p)

\* emit_binary: both preludes, then both codes side by side.
EmitInPlace(p, a) == CExpr(Each(a, Prelude), AllCode(a), FALSE, p)

\* Faulty variant: the right operand's code is not guarded.
ShortUnguarded(p, a) ==
    CExpr(Each(a, Prelude), AllCode(a) \cup {Decision(p, a[1].code)}, FALSE, p)

\* && and ||: only the residual code of the right operand is guarded.
EmitShort(p, a) ==
    CExpr(Each(a, Prelude),
          a[1].code \cup {Decision(p, a[1].code)}
            \cup {[x EXCEPT !.cond = @ \cup {p}, !.after = @ \cup {p}] : x \in a[2].code},
          FALSE, p)

\* Faulty variant: both preludes first, then the temporaries.
EqualPreludesFirst(p, a) ==
    LET held(v) == <<Run(v.code)>>
    IN  CExpr(Each(a, Prelude) \o Each(a, held) \o Releases(a), {}, FALSE, p)

\* emit_structural_equality, emit_mixed_numeric_comparison: each side in a
\* temporary, in turn.
EmitEqual(p, a) == CExpr(Each(a, Hold) \o Releases(a), {}, FALSE, p)

\* Identity of Box and class values: the preludes first, then the owned
\* sides, then the comparison.
EmitSame(p, a) ==
    LET held(v) == IF v.owned THEN <<Run(v.code)>> ELSE <<>>
    IN  CExpr(Each(a, Prelude) \o Each(a, held) \o <<Run(Residual(a))>> \o Releases(a), {}, FALSE, p)

\* A comparison with null reads has_value off the code of the other side.
EmitIsNull(p, a) == CExpr(a[1].prelude, a[1].code, FALSE, p)

\* A number as text; text built from parts, appended one by one.
EmitText(p, a) ==
    LET append(v) == Hold(v) \o FreeOwned(v)
    IN  CExpr(Each(a, append) \o <<Run({Event(p, {}, {}, {}, TRUE)})>>, {}, TRUE, p)

\* emit_aggregate, IROptionalSome, IRBox: the parts are moved in.
EmitAggregate(e, p, a) ==
    LET parts == [i \in DOMAIN a |-> Kept(e.args[i], a[i])]
    IN  CExpr(Each(parts, Prelude),
              AllCode(parts) \cup {Event(p, AllCode(parts), {}, Owned(parts), IsManaged(e))},
              IsManaged(e), p)

\* emit_list: the list first, then each item evaluated and copied in.
EmitList(p, a) ==
    LET push(v) == Hold(v) \o FreeOwned(v)
    IN  CExpr(<<Run({Event(p, {}, {}, {}, TRUE)})>> \o Each(a, push), {}, TRUE, p)

\* emit_class_new: the argument is owned by a temporary, the default moved
\* into the object, then the initializer runs.
EmitNew(e, p, a) ==
    LET arg     == Kept(e.args[1], a[1])
        default == Kept(e.args[2], a[2])
    IN  CExpr(Hold(arg) \o Hold(default)
              \o <<Run({Event(p, {}, Owned(<<arg>>), Owned(<<default>>), TRUE)})>>
              \o FreeOwned(arg), {}, TRUE, p)

\* Faulty variant: the receiver is released before its field is copied.
FieldAfterRelease(e, p, a) ==
    IF a[1].owned
    THEN CExpr(Hold(a[1]) \o Releases(a) \o <<Run({Event(p, {}, Owned(a), {}, IsManaged(e))})>>,
               {}, IsManaged(e), p)
    ELSE CExpr(a[1].prelude, a[1].code \cup {Event(p, a[1].code, {}, {}, FALSE)}, FALSE, p)

\* A field of an owned value is copied before that value is released.
EmitField(e, p, a) ==
    IF a[1].owned
    THEN CExpr(Hold(a[1]) \o <<Run({Event(p, {}, Owned(a), {}, IsManaged(e))})>> \o Releases(a),
               {}, IsManaged(e), p)
    ELSE CExpr(a[1].prelude, a[1].code \cup {Event(p, a[1].code, {}, {}, FALSE)}, FALSE, p)

\* The content of a Box or an optional is always copied.
EmitUnbox(p, a) ==
    CExpr(Hold(a[1]) \o <<Run({Event(p, {}, Owned(a), {}, TRUE)})>> \o Releases(a), {}, TRUE, p)

RECURSIVE Emit(_, _)
Emit(e, p) ==
    LET a == [i \in DOMAIN e.args |-> Emit(e.args[i], Append(p, i))]
    IN  CASE e.op \in {"read", "text"}  -> EmitName(p)
          [] e.op \in {"call", "make"}  -> EmitPlain(e, p, a)
          [] e.op \in Throwing          -> EmitThrowing(e, p, a)
          [] e.op = "len"               -> EmitBuiltin(p, a)
          [] e.op = "set"               -> EmitSet(p, a)
          [] e.op = "icall"             -> EmitIndirect(p, a)
          [] e.op = "catch"             -> EmitCatch(e, p, a)
          [] e.op = "add"               -> EmitInPlace(p, a)
          [] e.op = "and"               -> EmitShort(p, a)
          [] e.op = "eq"                -> EmitEqual(p, a)
          [] e.op = "same"              -> EmitSame(p, a)
          [] e.op = "isnull"            -> EmitIsNull(p, a)
          [] e.op \in {"str", "fstr"}   -> EmitText(p, a)
          [] e.op = "tuple"             -> EmitAggregate(e, p, a)
          [] e.op = "list"              -> EmitList(p, a)
          [] e.op = "new"               -> EmitNew(e, p, a)
          [] e.op \in {"field", "part"} -> EmitField(e, p, a)
          [] e.op = "unbox"             -> EmitUnbox(p, a)

\* emit_statement: the value is kept by a variable, or thrown away.
EmitStatement(e, u) ==
    LET v == Emit(e, <<>>)
    IN  IF u = "let" THEN Hold(Kept(e, v)) ELSE Hold(v) \o FreeOwned(v)

-----------------------------------------------------------------------------
Init == /\ expr \in Programs
        /\ use \in Uses
        /\ todo = EmitStatement(expr, use)
        /\ trace = <<>>
        /\ skips = {}
        /\ live = {}
        /\ ended = "no"

Statement(kind) == /\ ended = "no"
                   /\ todo # <<>>
                   /\ Head(todo).kind = kind

\* Inside a statement C may evaluate next whatever does not wait for a value.
Ready(code) == {x \in code : x.after \cap {y.id : y \in code} = {}}

\* A read, a call, a construction.
Evaluate ==
    /\ Statement("run")
    /\ \E x \in Ready(Head(todo).code) :
         /\ ~x.decides
         /\ todo' = [todo EXCEPT ![1].code = @ \ {x}]
         /\ trace' = Append(trace, x.id)
         /\ live' = (live \ x.takes) \cup (IF x.makes THEN {x.id} ELSE {})
    /\ UNCHANGED <<expr, use, skips, ended>>

\* The left operand of && or || has its value.
Decide ==
    /\ Statement("run")
    /\ \E x \in Ready(Head(todo).code) :
         /\ x.decides
         /\ \/ /\ todo' = [todo EXCEPT ![1].code = @ \ {x}]
               /\ UNCHANGED skips
            \/ /\ todo' = [todo EXCEPT ![1].code = {y \in @ \ {x} : x.id \notin y.cond}]
               /\ skips' = skips \cup {Append(x.id, 2)}
    /\ UNCHANGED <<expr, use, trace, live, ended>>

NextStatement ==
    /\ Statement("run")
    /\ Head(todo).code = {}
    /\ todo' = Tail(todo)
    /\ UNCHANGED <<expr, use, trace, skips, live, ended>>

ReleaseValue ==
    /\ Statement("release")
    /\ live' = live \ {Head(todo).tok}
    /\ todo' = Tail(todo)
    /\ UNCHANGED <<expr, use, trace, skips, ended>>

MoveValue ==
    /\ Statement("move")
    /\ live' = (live \ Head(todo).from) \cup Head(todo).to
    /\ todo' = Tail(todo)
    /\ UNCHANGED <<expr, use, trace, skips, ended>>

\* A test on a value: whether a call failed, whether an index is in range.
TakeBranch ==
    /\ Statement("branch")
    /\ \E o \in Head(todo).outcomes :
         /\ todo' = o.then \o Tail(todo)
         /\ skips' = skips \cup o.skips
    /\ UNCHANGED <<expr, use, trace, live, ended>>

\* The function returns the error; what it owned is Cleanup's concern.
Propagate ==
    /\ Statement("throw")
    /\ todo' = <<>>
    /\ ended' = "thrown"
    /\ UNCHANGED <<expr, use, trace, skips, live>>

Finish ==
    /\ ended = "no" /\ todo = <<>>
    /\ ended' = "done"
    /\ UNCHANGED <<expr, use, todo, trace, skips, live>>

Next == Evaluate \/ Decide \/ NextStatement \/ ReleaseValue \/ MoveValue \/ TakeBranch \/ Propagate \/ Finish

Spec == Init /\ [][Next]_vars

-----------------------------------------------------------------------------
(* What an expression means, apart from how it is compiled.                *)

RECURSIVE Nodes(_)
Nodes(e) == {<<>>} \cup UNION {{<<i>> \o q : q \in Nodes(e.args[i])} : i \in DOMAIN e.args}
At(p) == FoldLeft(LAMBDA x, i : x.args[i], expr, p)
Prefix(p, k) == SubSeq(p, 1, k)

\* Nodes at which something happens; the others only combine values.
Silent == {"add", "and", "eq", "same", "isnull"}

\* The value has an owner of its own.
RECURSIVE Owns(_)
Owns(e) == \/ e.op \in Making
           \/ e.op = "tuple" /\ IsManaged(e)
           \/ e.op = "part" /\ Owns(e.args[1])

\* Operand i of x has its value before the next operand begins.
Settles(x, i) == \/ x.op \in {"catch", "eq", "str", "fstr", "list", "new", "unbox"}
                 \/ x.op = "icall" /\ i = 1
                 \/ x.op \in Calls \cup {"field", "part"} /\ Owns(x.args[i])

\* The value of x itself does.
Settled(x) == \/ x.op \in (Making \cup Throwing \cup {"len", "set", "eq", "same"}) \ {"make"}
              \/ x.op \in Calls \cup {"field", "part"} /\ \E i \in DOMAIN x.args : Owns(x.args[i])

\* Nothing on the way up from node m to its ancestor at depth k settles m.
Drifts(m, k) == /\ \A l \in k .. Len(m) - 1 : ~Settles(At(Prefix(m, l)), m[l + 1])
                /\ \A l \in k + 1 .. Len(m) : ~Settled(At(Prefix(m, l)))

\* How deep the paths of two nodes agree.
Common(p, q) == Max({k \in 0 .. Len(p) : IsPrefix(Prefix(p, k), q)})

\* In the source, m comes before n and neither is part of the other.
Before(m, n) == LET k == Common(m, n)
                IN  k < Len(m) /\ k < Len(n) /\ m[k + 1] < n[k + 1]

\* What an earlier value decided against: all of a handler, a refused store
\* and, of its value or of a right operand, only what drifts.
Skipped(m) == \/ At(m).op = "set" /\ Append(m, 2) \in skips
              \/ \E s \in skips : /\ IsPrefix(s, m)
                                 /\ (At(Front(s)).op = "catch" \/ Drifts(m, Len(s) - 1))

Times(m) == Cardinality({i \in DOMAIN trace : trace[i] = m})

-----------------------------------------------------------------------------
\* Types; only values that were made are live, and an expression ends in an
\* error only at a call that may throw and has no handler.
TypeOK == /\ ended \in {"no", "done", "thrown"}
          /\ \A i \in DOMAIN trace : trace[i] \in Nodes(expr)
          /\ skips \subseteq Nodes(expr)
          /\ live \subseteq {trace[i] : i \in DOMAIN trace}
          /\ ended = "thrown" => At(Last(trace)).op \in Throwing

\* Two evaluations are in the order of the source, except that a node whose
\* value nothing settles on the way up (a plain call or a read inside plain
\* code) may come after a later one; the two sides of && and of a store
\* only when the later one is settled.  An operation follows its operands,
\* but a List exists before its items and a handler follows its call.
InOrder ==
    \A i, j \in DOMAIN trace : i < j =>
        LET n == trace[i]  m == trace[j]  k == Common(m, n)
        IN  /\ Before(m, n) =>
                   /\ Drifts(m, k)
                   /\ (At(Prefix(m, k)).op \in {"and", "set"} => ~Drifts(n, k))
            /\ k # Len(n) \/ At(n).op = "list" \/ (At(n).op = "catch" /\ m[k + 1] = 2)

\* docs/language_guide_zh_TW.md:321: the callee and every argument are
\* evaluated once.  No node is evaluated twice, and at the end every node
\* has been, except those an earlier value decided against.
OnceEach ==
    /\ TypeOK
    /\ \A m \in Nodes(expr) :
           /\ Times(m) <= 1
           /\ (ended = "done" /\ At(m).op \notin Silent) => ((Times(m) = 0) = Skipped(m))

\* An owned value is alive when a call or a copy uses it, and when it is
\* released: never used after its release, never released twice.
UsesLive ==
    todo # <<>> =>
        LET s == Head(todo)
        IN  /\ s.kind = "release" => s.tok \in live
            /\ s.kind = "move" => s.from \subseteq live
            /\ s.kind = "run" => \A x \in Ready(s.code) : x.uses \cup x.takes \subseteq live

\* After the statement only the value that its variable keeps is live;
\* every other owned value was released or moved, except an owned value
\* compared with null, which nothing releases (backends/c.py:1754).
NothingLeft ==
    ended = "done" =>
        live = {m \in {trace[i] : i \in DOMAIN trace} :
                  \/ m = <<>> /\ use = "let" /\ IsManaged(expr)
                  \/ m # <<>> /\ At(Front(m)).op = "isnull" /\ Owns(At(m))}

\* Every owned value is used alive, and released once or kept.
OwnedOnce == UsesLive /\ NothingLeft
=============================================================================
