------------------------------- MODULE Borrow -------------------------------
(***************************************************************************)
(* The borrow checker of src/zyenlang/compiler/semantic.py (class Lowerer) *)
(* while it lowers one function body.  A behaviour is the run of the       *)
(* checker over some program: each step lowers one statement, or opens or  *)
(* closes a nested block.  Only programs whose statements the checker      *)
(* accepts are continued, so what holds in every state holds of every      *)
(* accepted program.                                                       *)
(*                                                                         *)
(* The checker's liveness comes from the syntax: suffix_uses is the set of *)
(* names the remaining statements of a block mention.  The model promises  *)
(* it in advance (suffix is chosen when a block opens) and every statement *)
(* has to keep the promise: names leave the suffix only at a statement     *)
(* that mentions them.                                                     *)
(***************************************************************************)
EXTENDS Integers, Sequences

CONSTANTS
  Owners,     \* locals of the function's own block that own a value
  Handles,    \* those whose value is an object of a class, which they share
  Fields,     \* fields of an owner; the elements of a list are its one field [*]
  Refs,       \* names a program gives to its references
  MaxDepth,   \* how deep blocks nest
  MaxArgs,    \* how many references one call takes
  Shapes      \* which of the statement shapes below the programs contain

(***************************************************************************)
(* "shadow"   an inner block declares a reference name an outer one uses   *)
(* "handler"  a call has a `catch` handler or closure among its arguments  *)
(* "defer"    a call that takes a reference is deferred                    *)
(* "read"     an owner is read while references to it exist                *)
(* "twice"    one `&mut` name is passed to two parameters of a call        *)
(* "loose"    a reference is bound without a loan of its owner: it is      *)
(*            destructured, comes through `catch`, or is to an element of  *)
(*            what another reference refers to                             *)
(* "alias"    the handles are copies of one, and have their object in      *)
(*            common                                                       *)
(***************************************************************************)
AllShapes == {"shadow", "handler", "defer", "read", "twice", "loose", "alias"}

ASSUME BoundsAssumption == MaxDepth \in Nat \ {0} /\ MaxArgs \in Nat
ASSUME ShapesAssumption == Shapes \subseteq AllShapes
ASSUME HandlesAssumption == Handles \subseteq Owners

Levels == 1..MaxDepth

\* A place is a local, or a field of it; the code's projections are a path
\* of any length, of which one element shows every case of `overlaps`.
Places == [root : Owners, path : {<<>>} \cup {<<f>> : f \in Fields}]

Whole(p) == p.path = <<>>

\* BorrowPlace.overlaps: the same root, and one path a prefix of the other.
Overlaps(p, q) == p.root = q.root /\ (Whole(p) \/ Whole(q) \/ p.path = q.path)

Conflict(a, b) == Overlaps(a.place, b.place) /\ (a.mutable \/ b.mutable)

\* Whether two places really have storage in common, which for handles the
\* names of the locals do not tell.
SameObject(o, q) == o = q \/ ("alias" \in Shapes /\ {o, q} \subseteq Handles)
Meet(p, q) == SameObject(p.root, q.root) /\ (Whole(p) \/ Whole(q) \/ p.path = q.path)

Clash(a, b) == Meet(a.place, b.place) /\ (a.mutable \/ b.mutable)

\* A loan is known by the binding `let n = &place` it was made for; the loan
\* of an argument belongs to no name.
NoName == "no name"
Origins == Levels \X (Refs \cup {NoName})

Loan == [by : Origins, place : Places, mutable : BOOLEAN, aliases : SUBSET Refs]
Binding == [level : Levels, name : Refs, loan : Origins, place : Places, mutable : BOOLEAN]
Target == [place : Places, mutable : BOOLEAN]

Effect == [writes : SUBSET Places, reads : SUBSET Places]
NoEffect == [writes |-> {}, reads |-> {}]

VARIABLES
  depth,     \* number of open blocks
  suffix,    \* suffix[k]: names used from the current statement of block k on
  after,     \* after[k]: names used after the statement of block k in progress
  uses,      \* uses[k]: names the statement in progress may still mention
  stage,     \* stage[k]: "idle", or the kind of statement in progress
  args,      \* args[k]: references evaluated for the call in progress
  deferred,  \* deferred[k]: locals the deferred calls of block k refer to
  binds,     \* the reference bindings in scope (reference_loan_scopes)
  loans,     \* the active loans (borrow_scopes)
  dropped,   \* owners consumed by DROP__ (dropped_scopes)
  effect     \* what the last statement did to the owners

progress == <<depth, suffix, after, uses, stage, args>>
vars == <<progress, deferred, binds, loans, dropped, effect>>

TypeOK ==
  /\ depth \in Levels
  /\ suffix \in [Levels -> SUBSET Refs]
  /\ after \in [Levels -> SUBSET Refs]
  /\ uses \in [Levels -> SUBSET Refs]
  /\ stage \in [Levels -> {"idle", "region", "call"}]
  /\ args \in [Levels -> Seq(Target)]
  /\ deferred \in [Levels -> SUBSET Owners]
  /\ binds \subseteq Binding
  /\ loans \subseteq Loan
  /\ dropped \subseteq Owners
  /\ effect \in Effect

-----------------------------------------------------------------------------
(* What the checker looks up *)

\* protected_borrow_names inside block k: what the enclosing blocks still use.
Outer(k) == UNION {suffix[i] : i \in 1..(k - 1)}

\* The names some statement not yet finished mentions.
Pending == Outer(depth) \cup suffix[depth]

BoundNames == {b.name : b \in binds}

Live(b) == b.name \in Pending

\* lookup_reference_loans: the innermost binding of a name.
Innermost(n) == CHOOSE b \in binds :
  b.name = n /\ \A c \in binds : c.name = n => c.level <= b.level

\* active_borrows
Borrowed(p) == \E l \in loans : Overlaps(l.place, p)
MutablyBorrowed(p) == \E l \in loans : Overlaps(l.place, p) /\ l.mutable

\* Faulty variant: a readonly borrow is always allowed.
MayBorrowReadonly(p, mutable) == p.root \notin dropped /\ (mutable => ~Borrowed(p))

\* register_borrow, and lower_local_access for the borrowed local.  A handle
\* itself cannot be lent, only what is in its object.
MayBorrow(p, mutable) ==
  /\ p.root \notin dropped
  /\ ~(p.root \in Handles /\ Whole(p))
  /\ IF mutable THEN ~Borrowed(p) ELSE ~MutablyBorrowed(p)

\* expire_borrows: a loan survives a statement when an alias of it is the
\* local name of a binding whose source name is live.
Kept(bs, liveNames) == {b.name : b \in {c \in bs : c.name \in liveNames}}
Expired(ls, bs, liveNames) == {l \in ls : l.aliases \cap Kept(bs, liveNames) # {}}

\* The names in U are in scope and mentioned by the statement being lowered;
\* S2 is what the block mentions after it.
Mentions(U, S2) ==
  /\ U \subseteq BoundNames
  /\ S2 \subseteq suffix[depth]
  /\ suffix[depth] \ S2 \subseteq U
  /\ U \subseteq suffix[depth]

\* Faulty variant: the names the enclosing blocks still use are forgotten.
EndWithOwnNames(S2, bs, ls) ==
  /\ suffix' = [suffix EXCEPT ![depth] = S2]
  /\ binds' = bs
  /\ loans' = Expired(ls, bs, S2)

\* Every statement ends with lower_block's call of expire_borrows.
EndWith(S2, bs, ls) ==
  /\ suffix' = [suffix EXCEPT ![depth] = S2]
  /\ binds' = bs
  /\ loans' = Expired(ls, bs, Outer(depth) \cup S2)

Simple == stage[depth] = "idle"

Remains == UNCHANGED <<depth, after, uses, stage, args>>

-----------------------------------------------------------------------------
(* Simple statements *)

Undeclared(n) ==
  \A b \in binds : b.name = n => b.level # depth /\ "shadow" \in Shapes

\* let n = &p   or   let n = &mut p.  When n is one name of several, or the value
\* comes through `catch` (loose), the loan is that of an expression inside the
\* value and ends with the statement.
LetBorrow(n, p, mutable, loose) ==
  /\ Simple
  /\ loose => "loose" \in Shapes
  /\ Undeclared(n)
  /\ MayBorrow(p, mutable)
  /\ LET made == [by |-> <<depth, n>>, place |-> p, mutable |-> mutable, aliases |-> {n}]
         bound == [level |-> depth, name |-> n, loan |-> made.by,
                   place |-> p, mutable |-> mutable]
     IN EndWith(suffix[depth], binds \cup {bound},
                IF loose THEN loans ELSE loans \cup {made})
  /\ effect' = NoEffect
  /\ Remains
  /\ UNCHANGED <<deferred, dropped>>

\* let n = src   where src is a readonly reference: the copy joins its loan.
\* let n = &src[i]   where src is any reference (element): the loan is one of the
\* local src, which nobody can write to, and not of what src refers to.
LetCopy(n, src, S2, element) ==
  /\ Simple
  /\ element => "loose" \in Shapes
  /\ Mentions({src}, S2)
  /\ Undeclared(n)
  /\ LET from == Innermost(src)
         bound == [from EXCEPT !.level = depth, !.name = n]
         Joined(l) == IF l.by = from.loan
                      THEN [l EXCEPT !.aliases = @ \cup {n}] ELSE l
     IN /\ from.mutable => element
        /\ IF element
           THEN EndWith(S2, binds \cup {[bound EXCEPT !.loan = <<depth, n>>, !.mutable = FALSE]}, loans)
           ELSE EndWith(S2, binds \cup {bound}, {Joined(l) : l \in loans})
  /\ effect' = NoEffect
  /\ Remains
  /\ UNCHANGED <<deferred, dropped>>

\* A statement that only uses references: a call, CLONE_REF__, REF_SET__.
Use(U, S2) ==
  /\ Simple
  /\ U # {}
  /\ Mentions(U, S2)
  /\ EndWith(S2, binds, loans)
  /\ effect' = NoEffect
  /\ Remains
  /\ UNCHANGED <<deferred, dropped>>

\* p = <expression that mentions U>.  Assigning a whole local initializes it
\* again; a field of a dropped local cannot be reached.
Assign(p, U, S2) ==
  /\ Simple
  /\ Mentions(U, S2)
  /\ ~Borrowed(p)
  /\ Whole(p) \/ p.root \notin dropped
  /\ dropped' = IF Whole(p) THEN dropped \ {p.root} ELSE dropped
  /\ EndWith(S2, binds, loans)
  /\ effect' = [NoEffect EXCEPT !.writes = {p}]
  /\ Remains
  /\ UNCHANGED deferred

\* A mutating method or list operation with receiver p.
Mutate(p) ==
  /\ Simple
  /\ ~Borrowed(p)
  /\ p.root \notin dropped
  /\ EndWith(suffix[depth], binds, loans)
  /\ effect' = [NoEffect EXCEPT !.writes = {p}]
  /\ Remains
  /\ UNCHANGED <<deferred, dropped>>

\* An expression that reads p: only a dropped local is refused.  A program
\* without the shape "read" does so only while p is not borrowed mutably.
Read(p) ==
  /\ Simple
  /\ p.root \notin dropped
  /\ "read" \in Shapes \/ ~MutablyBorrowed(p)
  /\ EndWith(suffix[depth], binds, loans)
  /\ effect' = [NoEffect EXCEPT !.reads = {p}]
  /\ Remains
  /\ UNCHANGED <<deferred, dropped>>

\* DROP__(o), in the block that declares o
Drop(o) ==
  /\ Simple
  /\ depth = 1
  /\ o \notin dropped
  /\ ~Borrowed([root |-> o, path |-> <<>>])
  /\ dropped' = dropped \cup {o}
  /\ EndWith(suffix[depth], binds, loans)
  /\ effect' = [NoEffect EXCEPT !.writes = {[root |-> o, path |-> <<>>]}]
  /\ Remains
  /\ UNCHANGED deferred

\* defer f(&p): the argument is evaluated now, the call runs when the block
\* ends; its loan has no alias and expires with this statement.
Defer(p, mutable) ==
  /\ Simple
  /\ "defer" \in Shapes
  /\ MayBorrow(p, mutable)
  /\ EndWith(suffix[depth], binds,
       loans \cup {[by |-> <<depth, NoName>>, place |-> p, mutable |-> mutable, aliases |-> {}]})
  /\ deferred' = [deferred EXCEPT ![depth] = @ \cup {p.root}]
  /\ effect' = NoEffect
  /\ Remains
  /\ UNCHANGED dropped

-----------------------------------------------------------------------------
(* Statements that contain blocks *)

\* A control-flow statement ("region") or a call ("call") that mentions U.
Begin(kind, U, S2) ==
  /\ Simple
  /\ U \subseteq suffix[depth]
  /\ S2 \subseteq suffix[depth]
  /\ suffix[depth] \ S2 \subseteq U
  /\ stage' = [stage EXCEPT ![depth] = kind]
  /\ uses' = [uses EXCEPT ![depth] = U]
  /\ after' = [after EXCEPT ![depth] = S2]
  /\ effect' = NoEffect
  /\ UNCHANGED <<depth, suffix, args, deferred, binds, loans, dropped>>

PushArg(target) ==
  /\ stage[depth] = "call"
  /\ Len(args[depth]) < MaxArgs
  /\ args' = [args EXCEPT ![depth] = Append(@, target)]
  /\ effect' = NoEffect
  /\ UNCHANGED <<depth, suffix, after, uses, stage, deferred, binds, dropped>>

\* Faulty variant: the next argument does not see the loan of this one.
PassBorrowUnseen(p, mutable) ==
  /\ PushArg([place |-> p, mutable |-> mutable])
  /\ MayBorrow(p, mutable)
  /\ UNCHANGED loans

\* The next argument is &p or &mut p.
PassBorrow(p, mutable) ==
  /\ PushArg([place |-> p, mutable |-> mutable])
  /\ MayBorrow(p, mutable)
  /\ loans' = loans \cup
       {[by |-> <<depth, NoName>>, place |-> p, mutable |-> mutable, aliases |-> {}]}

Passed(n) ==
  \E k \in 1..depth, i \in 1..MaxArgs :
     i \in DOMAIN args[k] /\ args[k][i].place = Innermost(n).place

\* The next argument is the name of a reference.  Nothing compares it with
\* the arguments before it.
PassRef(n) ==
  /\ n \in uses[depth] \cap BoundNames
  /\ PushArg([place |-> Innermost(n).place, mutable |-> Innermost(n).mutable])
  /\ "twice" \in Shapes \/ ~(Innermost(n).mutable /\ Passed(n))
  /\ UNCHANGED loans

\* lower_block with its scope pushed: the body of a control-flow statement, or
\* of a handler or closure among the arguments of a call.
OpenBlock(W) ==
  /\ depth < MaxDepth
  /\ \/ stage[depth] = "region"
     \/ stage[depth] = "call" /\ "handler" \in Shapes
  /\ W \subseteq uses[depth]
  /\ depth' = depth + 1
  /\ suffix' = [suffix EXCEPT ![depth + 1] = W]
  /\ effect' = NoEffect
  /\ UNCHANGED <<after, uses, stage, args, deferred, binds, loans, dropped>>

\* The end of a block, when nothing of it is left to use: pop_scope takes the
\* local names of the block out of the loans they alias and ends the block's
\* own loans; the deferred calls of the block run.
CloseBlock ==
  /\ depth > 1
  /\ Simple
  /\ suffix[depth] = {}
  /\ depth' = depth - 1
  /\ LET gone == {b \in binds : b.level = depth}
         Left(l) == [l EXCEPT !.aliases =
                       @ \ {b.name : b \in {c \in gone : c.loan = l.by}}]
     IN /\ binds' = binds \ gone
        /\ loans' = {Left(l) : l \in {m \in loans : m.by[1] # depth}}
  /\ deferred' = [deferred EXCEPT ![depth] = {}]
  /\ effect' = NoEffect
  /\ UNCHANGED <<suffix, after, uses, stage, args, dropped>>

\* The statement in progress is complete; a call has been made.
Finish ==
  /\ ~Simple
  /\ stage' = [stage EXCEPT ![depth] = "idle"]
  /\ uses' = [uses EXCEPT ![depth] = {}]
  /\ after' = [after EXCEPT ![depth] = {}]
  /\ args' = [args EXCEPT ![depth] = <<>>]
  /\ EndWith(after[depth], binds, loans)
  /\ effect' = NoEffect
  /\ UNCHANGED <<depth, deferred, dropped>>

-----------------------------------------------------------------------------

Init ==
  /\ depth = 1
  /\ \E S \in SUBSET Refs : suffix = [k \in Levels |-> IF k = 1 THEN S ELSE {}]
  /\ after = [k \in Levels |-> {}]
  /\ uses = [k \in Levels |-> {}]
  /\ stage = [k \in Levels |-> "idle"]
  /\ args = [k \in Levels |-> <<>>]
  /\ deferred = [k \in Levels |-> {}]
  /\ binds = {}
  /\ loans = {}
  /\ dropped = {}
  /\ effect = NoEffect

SimpleStatement ==
  \/ \E n \in Refs, p \in Places, mutable, loose \in BOOLEAN : LetBorrow(n, p, mutable, loose)
  \/ \E n, src \in Refs, S2 \in SUBSET Refs, element \in BOOLEAN : LetCopy(n, src, S2, element)
  \/ \E U, S2 \in SUBSET Refs : Use(U, S2)
  \/ \E p \in Places, U, S2 \in SUBSET Refs : Assign(p, U, S2)
  \/ \E p \in Places : Mutate(p)
  \/ \E p \in Places : Read(p)
  \/ \E o \in Owners : Drop(o)
  \/ \E p \in Places, mutable \in BOOLEAN : Defer(p, mutable)

CompoundStatement ==
  \/ \E kind \in {"region", "call"}, U, S2 \in SUBSET Refs : Begin(kind, U, S2)
  \/ \E p \in Places, mutable \in BOOLEAN : PassBorrow(p, mutable)
  \/ \E n \in Refs : PassRef(n)
  \/ \E W \in SUBSET Refs : OpenBlock(W)
  \/ CloseBlock
  \/ Finish

Next == SimpleStatement \/ CompoundStatement

Spec == Init /\ [][Next]_vars

-----------------------------------------------------------------------------
(* Properties *)

\* The checker's own promise: no two active loans conflict.  It holds for
\* every program, since register_borrow is the only way a loan appears.
LoanExclusion == \A l, m \in loans : l # m => ~Conflict(l, m)

\* What the loans are for: of two references a program still uses, either
\* their places are disjoint or both are readonly.
LiveRefsExclusive ==
  \A b, c \in binds :
     b # c /\ Live(b) /\ Live(c) => ~Clash(b, c)

\* No statement writes or drops a place that a reference still in use sees.
OwnerFrozen ==
  \A b \in binds : Live(b) => \A p \in effect.writes : ~Meet(p, b.place)

\* A reference still in use never points into a dropped local.
NoDangling == \A b \in binds : Live(b) => b.place.root \notin dropped

\* The tables have their types, and every reference a program still uses is
\* guarded: by exclusion, against writes, and against the end of its local.
RefsGuarded == TypeOK /\ LiveRefsExclusive /\ OwnerFrozen /\ NoDangling

\* The references evaluated for the calls in progress: position k, i is the
\* i-th argument of the call in block k.
Positions == {pos \in (1..depth) \X (1..MaxArgs) : pos[2] \in DOMAIN args[pos[1]]}
ArgAt(pos) == args[pos[1]][pos[2]]

\* Two arguments of the calls in progress never conflict: a callee may take
\* each `&mut` parameter for the only way to its place.
ArgsExclusive ==
  \A a, b \in Positions : a # b => ~Clash(ArgAt(a), ArgAt(b))

\* A local is not read while a `&mut` to it is in use.
OwnerUnread ==
  \A b \in binds : Live(b) /\ b.mutable =>
     \A p \in effect.reads : ~Meet(p, b.place)

\* A local is not dropped while a deferred call still has to use it.
DeferredAlive ==
  \A k \in 1..depth : deferred[k] \cap dropped = {}
=============================================================================
