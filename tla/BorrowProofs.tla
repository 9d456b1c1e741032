---------------------------- MODULE BorrowProofs ----------------------------
(***************************************************************************)
(* Theorems about Borrow, for every set of owners, fields and names and    *)
(* every nesting depth.  The safety of references is proved for programs   *)
(* that do not shadow a reference name, bind every reference with a loan,  *)
(* and do not share an object among handles: with any of these it is false.*)
(***************************************************************************)
EXTENDS Borrow, TLAPS

(***************************************************************************)
(* The inductive invariant.  The safety properties speak of bindings, the  *)
(* guards of the actions only of loans, so the strengthening says how the  *)
(* two hang together.                                                      *)
(***************************************************************************)

\* What the properties say of storage, said of the names of places, which is
\* all that the checker compares.
LiveRefsApart == \A b, c \in binds : b # c /\ Live(b) /\ Live(c) => ~Conflict(b, c)
PlaceFrozen == \A b \in binds : Live(b) => \A p \in effect.writes : ~Overlaps(p, b.place)

\* A name has one binding: no shadowing.
UniqueNames == \A b, c \in binds : b.name = c.name => b = c

\* A binding in use is an alias of an active loan of what it refers to.
LoanBehind(b, l) ==
  l.by = b.loan /\ l.place = b.place /\ l.mutable = b.mutable /\ b.name \in l.aliases
LiveRefsLoaned == \A b \in binds : Live(b) => \E l \in loans : LoanBehind(b, l)

\* Only readonly references share a loan.
MutableUnshared == \A b, c \in binds : b.loan = c.loan /\ b.mutable => b = c

\* A binding refers to a loan made in its own block or an outer one, and the
\* binding the loan was made for is still in scope.
OriginInScope ==
  \A b \in binds :
     /\ b.level <= depth
     /\ b.loan[1] <= b.level
     /\ \E c \in binds : b.loan = <<c.level, c.name>> /\ c.loan = b.loan

\* What a statement in progress mentions, its block mentions.
MentionsInSuffix ==
  \A k \in Levels : uses[k] \subseteq suffix[k] /\ after[k] \subseteq suffix[k]

\* Nothing is in progress in a block that is idle or closed.
NothingPending ==
  \A k \in Levels : stage[k] = "idle" \/ k > depth => uses[k] = {} /\ after[k] = {}

-----------------------------------------------------------------------------
(* The checker's own promise, for every program *)

LoansTyped == depth \in Levels /\ loans \subseteq Loan

\* lower_block's expire_borrows only takes loans away.
LEMMA ExpiredSubset ==
  ASSUME NEW ls, NEW bs, NEW names
  PROVE  Expired(ls, bs, names) \subseteq ls
BY DEF Expired

\* register_borrow admits a loan only when no active loan conflicts with it.
LEMMA MayBorrowExclusive ==
  ASSUME NEW p \in Places, NEW mutable \in BOOLEAN, MayBorrow(p, mutable),
         NEW l \in loans, NEW made, made.place = p, made.mutable = mutable
  PROVE  ~Conflict(l, made) /\ ~Conflict(made, l)
BY DEF MayBorrow, Borrowed, MutablyBorrowed, Conflict, Overlaps

\* LoanExclusion as a property of any set of loans.
Exclusive(ls) == \A l, m \in ls : l # m => ~Conflict(l, m)

\* Loans that do not conflict still do not when some of them expire.
LEMMA ExclusiveSubset ==
  ASSUME NEW ls, NEW ms, Exclusive(ls), ms \subseteq ls
  PROVE  Exclusive(ms)
BY DEF Exclusive

\* A loan that register_borrow admits conflicts with none before it.
LEMMA ExclusiveAdd ==
  ASSUME NEW p \in Places, NEW mutable \in BOOLEAN, MayBorrow(p, mutable),
         Exclusive(loans), NEW made, made.place = p, made.mutable = mutable
  PROVE  Exclusive(loans \cup {made})
BY MayBorrowExclusive DEF Exclusive

\* Every step of the checker preserves LoanExclusion, which is inductive as it
\* stands: only register_borrow adds loans.
THEOREM ExclusionInductive ==
  LoansTyped /\ LoanExclusion /\ [Next]_vars => LoansTyped' /\ LoanExclusion'
<1> SUFFICES ASSUME LoansTyped, Exclusive(loans), [Next]_vars
             PROVE  LoansTyped' /\ Exclusive(loans')
  BY DEF LoanExclusion, Exclusive
<1> USE DEF LoansTyped
<1>1. ASSUME NEW n \in Refs, NEW p \in Places, NEW mutable \in BOOLEAN, NEW loose \in BOOLEAN,
             LetBorrow(n, p, mutable, loose)
      PROVE  LoansTyped' /\ Exclusive(loans')
  <2> DEFINE made == [by |-> <<depth, n>>, place |-> p, mutable |-> mutable, aliases |-> {n}]
  <2>1. made \in Loan /\ made.place = p /\ made.mutable = mutable
    BY DEF Loan, Origins
  <2>2. MayBorrow(p, mutable)
    BY <1>1 DEF LetBorrow
  <2> HIDE DEF made
  <2>3. Exclusive(loans \cup {made}) /\ loans \cup {made} \subseteq Loan
    BY <2>1, <2>2, ExclusiveAdd
  <2> USE DEF made
  <2>4. loans' \subseteq loans \cup {made} /\ depth' = depth
    BY <1>1, ExpiredSubset DEF LetBorrow, EndWith, Remains
  <2> QED BY <2>3, <2>4, ExclusiveSubset
<1>2. ASSUME NEW n \in Refs, NEW src \in Refs, NEW S2 \in SUBSET Refs, NEW element \in BOOLEAN,
             LetCopy(n, src, S2, element)
      PROVE  LoansTyped' /\ Exclusive(loans')
  <2> DEFINE Joined(l) == IF l.by = Innermost(src).loan
                          THEN [l EXCEPT !.aliases = @ \cup {n}] ELSE l
             joined == {Joined(l) : l \in loans}
  <2>1. depth' = depth /\ (loans' \subseteq joined \/ loans' \subseteq loans)
    BY <1>2, ExpiredSubset DEF LetCopy, EndWith, Remains
  <2>2. \A l \in loans : /\ Joined(l) \in Loan
                         /\ Joined(l).place = l.place
                         /\ Joined(l).mutable = l.mutable
    BY DEF Loan
  <2> HIDE DEF Joined
  <2>3. joined \subseteq Loan /\ Exclusive(joined)
    BY <2>2 DEF Exclusive, Conflict
  <2> QED BY <2>1, <2>3, ExclusiveSubset
<1>3. ASSUME NEW p \in Places, NEW mutable \in BOOLEAN,
             Defer(p, mutable) \/ PassBorrow(p, mutable)
      PROVE  LoansTyped' /\ Exclusive(loans')
  <2> DEFINE made == [by |-> <<depth, NoName>>, place |-> p, mutable |-> mutable, aliases |-> {}]
  <2>1. made \in Loan /\ made.place = p /\ made.mutable = mutable
    BY DEF Loan, Origins
  <2>2. MayBorrow(p, mutable)
    BY <1>3 DEF Defer, PassBorrow
  <2> HIDE DEF made
  <2>3. Exclusive(loans \cup {made}) /\ loans \cup {made} \subseteq Loan
    BY <2>1, <2>2, ExclusiveAdd
  <2> USE DEF made
  <2>4. loans' \subseteq loans \cup {made} /\ depth' = depth
    BY <1>3, ExpiredSubset DEF Defer, PassBorrow, PushArg, EndWith, Remains
  <2> QED BY <2>3, <2>4, ExclusiveSubset
<1>4. CASE CloseBlock
  <2> DEFINE gone == {b \in binds : b.level = depth}
             Left(l) == [l EXCEPT !.aliases =
                           @ \ {b.name : b \in {c \in gone : c.loan = l.by}}]
             kept == {m \in loans : m.by[1] # depth}
  <2>1. loans' = {Left(l) : l \in kept} /\ depth' \in Levels
    BY <1>4, BoundsAssumption DEF CloseBlock, Levels
  <2>2. \A l \in loans : /\ Left(l) \in Loan
                         /\ Left(l).place = l.place
                         /\ Left(l).mutable = l.mutable
    BY DEF Loan
  <2> HIDE DEF Left
  <2>3. loans' \subseteq Loan /\ Exclusive(loans')
    BY <2>1, <2>2 DEF Exclusive, Conflict
  <2> QED BY <2>1, <2>3
<1>5. ASSUME NEW W \in SUBSET Refs, OpenBlock(W)
      PROVE  LoansTyped' /\ Exclusive(loans')
  BY <1>5, BoundsAssumption DEF OpenBlock, Levels
<1>6. ASSUME loans' \subseteq loans, depth' = depth
      PROVE  LoansTyped' /\ Exclusive(loans')
  BY <1>6, ExclusiveSubset
<1>7. CASE UNCHANGED vars
  BY <1>6, <1>7 DEF vars, progress
<1>8. ASSUME NEW U \in SUBSET Refs, NEW S2 \in SUBSET Refs,
             Use(U, S2) \/ \E p \in Places : Assign(p, U, S2)
      PROVE  LoansTyped' /\ Exclusive(loans')
  BY <1>6, <1>8, ExpiredSubset DEF Use, Assign, EndWith, Remains
<1>9. ASSUME NEW p \in Places, Mutate(p) \/ Read(p)
      PROVE  LoansTyped' /\ Exclusive(loans')
  BY <1>6, <1>9, ExpiredSubset DEF Mutate, Read, EndWith, Remains
<1>10. ASSUME NEW o \in Owners, Drop(o)
       PROVE  LoansTyped' /\ Exclusive(loans')
  BY <1>6, <1>10, ExpiredSubset DEF Drop, EndWith, Remains
<1>11. ASSUME NEW kind, NEW U \in SUBSET Refs, NEW S2 \in SUBSET Refs, Begin(kind, U, S2)
       PROVE  LoansTyped' /\ Exclusive(loans')
  BY <1>6, <1>11 DEF Begin
<1>12. ASSUME NEW n \in Refs, PassRef(n)
       PROVE  LoansTyped' /\ Exclusive(loans')
  BY <1>6, <1>12 DEF PassRef, PushArg
<1>13. CASE Finish
  BY <1>6, <1>13, ExpiredSubset DEF Finish, EndWith
<1> QED
  BY <1>1, <1>2, <1>3, <1>4, <1>5, <1>7, <1>8, <1>9, <1>10, <1>11, <1>12, <1>13
     DEF Next, SimpleStatement, CompoundStatement

\* No two active loans conflict, whatever the program: the invariant that
\* register_borrow and expire_borrows keep (LoanExclusion).
THEOREM LoansExclusive == Spec => []LoanExclusion
<1>1. Init => LoansTyped /\ LoanExclusion
  BY BoundsAssumption DEF Init, LoansTyped, LoanExclusion, Levels
<1> QED
  BY <1>1, ExclusionInductive, PTL DEF Spec
-----------------------------------------------------------------------------
(* References in use, for programs that shadow no name and bind each with a loan *)

\* One binding for a name, and a loan behind each binding.
FirmNames == "shadow" \notin Shapes /\ "loose" \notin Shapes

\* No two handles have their object in common.
NoAlias == "alias" \notin Shapes

\* The part of the invariant about bindings and the loans behind them.
Backed == UniqueNames /\ LiveRefsLoaned /\ MutableUnshared /\ OriginInScope

\* The part about the statements in progress.
Promises == MentionsInSuffix /\ NothingPending

\* A statement that ends leaves no name pending that was not pending before.
LEMMA PendingEnd ==
  ASSUME TypeOK, NEW S2 \in SUBSET suffix[depth], depth' = depth,
         suffix' = [suffix EXCEPT ![depth] = S2]
  PROVE  Pending' = Outer(depth) \cup S2 /\ Pending' \subseteq Pending
<1>1. \A i \in 1..(depth - 1) : suffix'[i] = suffix[i]
  BY BoundsAssumption DEF TypeOK, Levels
<1>2. Outer(depth)' = Outer(depth)
  BY <1>1 DEF Outer
<1>3. suffix'[depth] = S2
  BY DEF TypeOK
<1> QED
  BY <1>2, <1>3 DEF Pending

\* expire_borrows keeps every loan behind a binding still in use.
LEMMA EndKeepsLoans ==
  ASSUME TypeOK, NEW S2 \in SUBSET suffix[depth], NEW bs, NEW ls,
         depth' = depth, EndWith(S2, bs, ls),
         \A b \in bs : b.name \in Pending => \E l \in ls : LoanBehind(b, l)
  PROVE  LiveRefsLoaned'
<1>1. Pending' = Outer(depth) \cup S2 /\ Pending' \subseteq Pending
  BY PendingEnd DEF EndWith
<1> SUFFICES ASSUME NEW b \in bs, b.name \in Pending'
             PROVE  \E l \in loans' : LoanBehind(b, l)
  BY DEF LiveRefsLoaned, Live, EndWith
<1>2. PICK l \in ls : LoanBehind(b, l)
  BY <1>1
<1>3. b.name \in l.aliases \cap Kept(bs, Outer(depth) \cup S2)
  BY <1>1, <1>2 DEF Kept, LoanBehind
<1> QED
  BY <1>2, <1>3 DEF EndWith, Expired

\* A statement that binds no reference keeps the others backed.
LEMMA QuietEnd ==
  ASSUME TypeOK, Backed, NEW S2 \in SUBSET suffix[depth], NEW ls, loans \subseteq ls,
         depth' = depth, EndWith(S2, binds, ls)
  PROVE  Backed' /\ binds' = binds /\ Pending' \subseteq Pending
<1>1. binds' = binds /\ Pending' \subseteq Pending
  BY PendingEnd DEF EndWith
<1>2. LiveRefsLoaned'
  BY EndKeepsLoans DEF Backed, LiveRefsLoaned, Live
<1> QED
  BY <1>1, <1>2 DEF Backed, UniqueNames, MutableUnshared, OriginInScope

\* A place no active loan covers is seen by no reference in use.
LEMMA UnborrowedUnseen ==
  ASSUME Backed, NEW p \in Places, ~Borrowed(p), NEW b \in binds, Live(b)
  PROVE  ~Overlaps(p, b.place)
BY DEF Backed, LiveRefsLoaned, LoanBehind, Borrowed, Overlaps

\* A simple statement leaves the statements around it as they were.
LEMMA SimplePromises ==
  ASSUME TypeOK, Promises, Simple, Remains, NEW S2 \in SUBSET suffix[depth],
         suffix' = [suffix EXCEPT ![depth] = S2]
  PROVE  Promises'
<1>1. \A k \in Levels : k # depth => suffix'[k] = suffix[k]
  BY DEF TypeOK
<1> QED
  BY <1>1 DEF Promises, MentionsInSuffix, NothingPending, Remains, Simple, TypeOK

\* A bound name has one binding, which lookup_reference_loans finds.
LEMMA InnermostUnique ==
  ASSUME TypeOK, UniqueNames, NEW b \in binds
  PROVE  Innermost(b.name) = b
<1>1. \A c \in binds : c.name = b.name => c = b
  BY DEF UniqueNames
<1>2. b.level <= b.level
  BY DEF TypeOK, Binding, Levels
<1> QED
  BY <1>1, <1>2 DEF Innermost

\* The inductive invariant: the two parts above and the properties themselves.
RefsInv ==
  /\ TypeOK
  /\ Backed
  /\ Promises
  /\ NoDangling
  /\ PlaceFrozen

\* Statements that end, bind no reference and neither drop nor write a place
\* some loan covers.
LEMMA QuietStep ==
  ASSUME RefsInv, NEW S2 \in SUBSET suffix[depth], NEW ls \in SUBSET Loan, loans \subseteq ls,
         Simple, Remains, EndWith(S2, binds, ls), deferred' \in [Levels -> SUBSET Owners],
         dropped' \in SUBSET Owners, effect' \in Effect,
         \A p \in effect'.writes : p \in Places /\ ~Borrowed(p),
         \A o \in dropped' : o \in dropped \/ ~Borrowed([root |-> o, path |-> <<>>])
  PROVE  RefsInv'
<1> USE DEF RefsInv
<1>1. depth' = depth
  BY DEF Remains
<1>2. Backed' /\ binds' = binds /\ Pending' \subseteq Pending
  BY <1>1, QuietEnd
<1>3. Promises'
  BY SimplePromises DEF EndWith
<1>4. TypeOK'
  <2>1. suffix' \in [Levels -> SUBSET Refs]
    BY DEF EndWith, TypeOK
  <2>2. loans' \subseteq Loan
    BY ExpiredSubset DEF EndWith
  <2> QED
    BY <2>1, <2>2, <1>2 DEF TypeOK, Remains
<1>5. NoDangling'
  <2> SUFFICES ASSUME NEW b \in binds, b.name \in Pending, b.place.root \in dropped'
               PROVE  FALSE
    BY <1>2 DEF NoDangling, Live
  <2>1. b.place.root \notin dropped
    BY DEF NoDangling, Live
  <2> DEFINE whole == [root |-> b.place.root, path |-> <<>>]
  <2>2. ~Borrowed(whole) /\ whole \in Places
    BY <2>1 DEF TypeOK, Binding, Places
  <2>3. ~Overlaps(whole, b.place)
    BY <2>2, UnborrowedUnseen DEF Live
  <2> QED
    BY <2>3 DEF Overlaps, Whole
<1>6. PlaceFrozen'
  BY <1>2, UnborrowedUnseen DEF PlaceFrozen, Live
<1> QED
  BY <1>2, <1>3, <1>4, <1>5, <1>6

\* The statements that bind no reference preserve the invariant.
LEMMA QuietStatements ==
  ASSUME RefsInv,
         \/ \E U, S2 \in SUBSET Refs : Use(U, S2)
         \/ \E p \in Places, U, S2 \in SUBSET Refs : Assign(p, U, S2)
         \/ \E p \in Places : Mutate(p) \/ Read(p)
         \/ \E o \in Owners : Drop(o)
         \/ \E p \in Places, mutable \in BOOLEAN : Defer(p, mutable)
  PROVE  RefsInv'
<1> USE DEF RefsInv
<1>1. /\ depth \in Levels /\ suffix[depth] \in SUBSET Refs /\ loans \in SUBSET Loan
      /\ deferred \in [Levels -> SUBSET Owners] /\ dropped \in SUBSET Owners
      /\ NoEffect \in Effect
  BY DEF TypeOK, Effect, NoEffect
<1>2. ASSUME NEW U \in SUBSET Refs, NEW S2 \in SUBSET Refs, Use(U, S2)
      PROVE  RefsInv'
  BY <1>1, <1>2, QuietStep DEF Use, Mentions, NoEffect
<1>3. ASSUME NEW p \in Places, NEW U \in SUBSET Refs, NEW S2 \in SUBSET Refs, Assign(p, U, S2)
      PROVE  RefsInv'
  <2>1. effect'.writes = {p} /\ effect' \in Effect
    BY <1>3 DEF Assign, Effect, NoEffect
  <2>2. dropped' \subseteq dropped /\ deferred' = deferred
    BY <1>3 DEF Assign
  <2> QED
    BY <1>1, <1>3, <2>1, <2>2, QuietStep DEF Assign, Mentions
<1>4. ASSUME NEW p \in Places, Mutate(p)
      PROVE  RefsInv'
  <2>1. effect'.writes = {p} /\ effect' \in Effect
    BY <1>4 DEF Mutate, Effect, NoEffect
  <2> QED
    BY <1>1, <1>4, <2>1, QuietStep DEF Mutate
<1>5. ASSUME NEW p \in Places, Read(p)
      PROVE  RefsInv'
  <2>1. effect'.writes = {} /\ effect' \in Effect
    BY <1>5 DEF Read, Effect, NoEffect
  <2> QED
    BY <1>1, <1>5, <2>1, QuietStep DEF Read
<1>6. ASSUME NEW o \in Owners, Drop(o)
      PROVE  RefsInv'
  <2> DEFINE whole == [root |-> o, path |-> <<>>]
  <2>1. effect'.writes = {whole} /\ effect' \in Effect /\ whole \in Places
    BY <1>6 DEF Drop, Effect, NoEffect, Places
  <2>2. dropped' = dropped \cup {o} /\ ~Borrowed(whole) /\ deferred' = deferred
    BY <1>6 DEF Drop
  <2>3. Simple /\ Remains /\ EndWith(suffix[depth], binds, loans)
    BY <1>6 DEF Drop
  <2> QED
    BY <1>1, <2>1, <2>2, <2>3, QuietStep
<1>7. ASSUME NEW p \in Places, NEW mutable \in BOOLEAN, Defer(p, mutable)
      PROVE  RefsInv'
  <2> DEFINE made == [by |-> <<depth, NoName>>, place |-> p, mutable |-> mutable, aliases |-> {}]
  <2>1. made \in Loan
    BY <1>1 DEF Loan, Origins
  <2>2. p.root \in Owners
    BY DEF Places
  <2>3. deferred' \in [Levels -> SUBSET Owners]
    BY <1>1, <1>7, <2>2 DEF Defer
  <2>4. Simple /\ Remains /\ EndWith(suffix[depth], binds, loans \cup {made})
    BY <1>7 DEF Defer
  <2>5. dropped' = dropped /\ effect' = NoEffect /\ effect'.writes = {}
    BY <1>7 DEF Defer, NoEffect
  <2> HIDE DEF made
  <2> QED
    BY <1>1, <2>1, <2>3, <2>4, <2>5, QuietStep
<1> QED
  BY <1>2, <1>3, <1>4, <1>5, <1>6, <1>7

\* A new reference gets a loan of its own, under a name nothing else has.
LEMMA LetBorrowStep ==
  ASSUME FirmNames, RefsInv,
         NEW n \in Refs, NEW p \in Places, NEW mutable \in BOOLEAN,
         NEW loose \in BOOLEAN, LetBorrow(n, p, mutable, loose)
  PROVE  RefsInv'
<1> USE DEF RefsInv
<1>1. loose = FALSE
  BY DEF LetBorrow, FirmNames
<1> DEFINE made == [by |-> <<depth, n>>, place |-> p, mutable |-> mutable, aliases |-> {n}]
           bound == [level |-> depth, name |-> n, loan |-> made.by,
                     place |-> p, mutable |-> mutable]
<1>2. /\ made \in Loan /\ bound \in Binding /\ LoanBehind(bound, made)
      /\ bound.name = n /\ bound.level = depth /\ bound.loan = <<depth, n>>
      /\ bound.place = p /\ bound.mutable = mutable
  BY DEF TypeOK, Loan, Binding, Origins, LoanBehind
<1>3. /\ Simple /\ Remains /\ EndWith(suffix[depth], binds \cup {bound}, loans \cup {made})
      /\ UNCHANGED <<deferred, dropped>> /\ effect' = NoEffect /\ p.root \notin dropped
      /\ depth' = depth
  BY <1>1 DEF LetBorrow, MayBorrow, Remains
<1>4. \A b \in binds : b.name # n
  BY DEF LetBorrow, Undeclared, FirmNames
<1> HIDE DEF made, bound
<1>5. binds' = binds \cup {bound}
  BY <1>3 DEF EndWith
<1>6. Pending' \subseteq Pending
  BY <1>3, PendingEnd DEF EndWith
<1>7. Backed'
  <2>1. LiveRefsLoaned'
    BY <1>2, <1>3, EndKeepsLoans DEF Backed, LiveRefsLoaned, Live
  <2>2. UniqueNames'
    BY <1>2, <1>4, <1>5 DEF Backed, UniqueNames
  <2>3. \A b \in binds : b.loan # bound.loan
    BY <1>2, <1>4 DEF Backed, OriginInScope
  <2>4. MutableUnshared'
    BY <1>2, <1>5, <2>3 DEF Backed, MutableUnshared
  <2>5. OriginInScope'
    <3>1. bound.loan[1] <= bound.level /\ bound.level <= depth
      BY <1>2 DEF TypeOK, Levels
    <3> QED
      BY <1>2, <1>3, <1>5, <3>1 DEF Backed, OriginInScope
  <2> QED
    BY <2>1, <2>2, <2>4, <2>5 DEF Backed
<1>8. Promises'
  BY <1>3, SimplePromises DEF EndWith
<1>9. TypeOK'
  <2>1. loans' \subseteq Loan
    BY <1>2, <1>3, ExpiredSubset DEF EndWith, TypeOK
  <2>2. suffix' \in [Levels -> SUBSET Refs]
    BY <1>3 DEF EndWith, TypeOK
  <2>3. effect' \in Effect
    BY <1>3 DEF Effect, NoEffect
  <2> QED
    BY <1>2, <1>3, <1>5, <2>1, <2>2, <2>3 DEF TypeOK, Remains
<1>10. NoDangling' /\ PlaceFrozen'
  BY <1>2, <1>3, <1>5, <1>6 DEF NoDangling, PlaceFrozen, Live, NoEffect
<1> QED
  BY <1>7, <1>8, <1>9, <1>10

\* A copy joins the loan of its source, which is still in use and readonly.
LEMMA LetCopyStep ==
  ASSUME FirmNames, RefsInv,
         NEW n \in Refs, NEW src \in Refs, NEW S2 \in SUBSET Refs,
         NEW element \in BOOLEAN, LetCopy(n, src, S2, element)
  PROVE  RefsInv'
<1> USE DEF RefsInv
<1>1. element = FALSE
  BY DEF LetCopy, FirmNames
<1>2. PICK from \in binds : from.name = src
  BY DEF LetCopy, Mentions, BoundNames
<1>3. Innermost(src) = from
  BY <1>2, InnermostUnique DEF Backed
<1> DEFINE Joined(l) == IF l.by = from.loan
                        THEN [l EXCEPT !.aliases = @ \cup {n}] ELSE l
           joined == {Joined(l) : l \in loans}
           copy == [from EXCEPT !.level = depth, !.name = n]
<1>4. /\ Simple /\ Remains /\ EndWith(S2, binds \cup {copy}, joined)
      /\ UNCHANGED <<deferred, dropped>> /\ effect' = NoEffect
      /\ depth' = depth /\ S2 \subseteq suffix[depth] /\ src \in suffix[depth]
      /\ ~from.mutable
  BY <1>1, <1>3 DEF LetCopy, Mentions, Remains
<1>5. /\ copy \in Binding /\ copy.name = n /\ copy.level = depth /\ copy.loan = from.loan
      /\ copy.place = from.place /\ copy.mutable = from.mutable
  BY DEF TypeOK, Binding
<1>6. \A l \in loans : /\ Joined(l) \in Loan /\ Joined(l).by = l.by
                       /\ Joined(l).place = l.place /\ Joined(l).mutable = l.mutable
                       /\ l.aliases \subseteq Joined(l).aliases
                       /\ l.by = from.loan => n \in Joined(l).aliases
  BY DEF TypeOK, Loan
<1>7. \A b \in binds : b.name # n
  BY DEF LetCopy, Undeclared, FirmNames
<1> HIDE DEF Joined, copy
<1>8. binds' = binds \cup {copy}
  BY <1>4 DEF EndWith
<1>9. Pending' \subseteq Pending
  BY <1>4, PendingEnd DEF EndWith
<1>10. Live(from)
  BY <1>2, <1>4 DEF Live, Pending
<1>11. LiveRefsLoaned'
  <2>1. ASSUME NEW b \in binds, NEW l \in loans, LoanBehind(b, l)
        PROVE  LoanBehind(b, Joined(l)) /\ Joined(l) \in joined
    BY <1>6, <2>1 DEF LoanBehind
  <2>2. PICK l \in loans : LoanBehind(from, l)
    BY <1>10 DEF Backed, LiveRefsLoaned
  <2>3. LoanBehind(copy, Joined(l)) /\ Joined(l) \in joined
    BY <1>5, <1>6, <2>2 DEF LoanBehind
  <2>4. \A b \in binds \cup {copy} : b.name \in Pending => \E m \in joined : LoanBehind(b, m)
    BY <2>1, <2>3 DEF Backed, LiveRefsLoaned, Live
  <2> HIDE DEF joined
  <2> QED
    BY <1>4, <2>4, EndKeepsLoans
<1>12. Backed'
  <2>1. UniqueNames'
    BY <1>5, <1>7, <1>8 DEF Backed, UniqueNames
  <2>2. \A b \in binds : b.loan = from.loan => ~b.mutable
    BY <1>4 DEF Backed, MutableUnshared
  <2>3. MutableUnshared'
    BY <1>4, <1>5, <1>8, <2>2 DEF Backed, MutableUnshared
  <2>4. OriginInScope'
    <3>1. from.loan[1] <= from.level /\ from.level <= depth
      BY DEF Backed, OriginInScope
    <3>2. from.loan[1] <= depth /\ depth <= depth
      BY <3>1 DEF TypeOK, Binding, Origins, Levels
    <3> QED
      BY <1>4, <1>5, <1>8, <3>2 DEF Backed, OriginInScope
  <2> QED
    BY <1>11, <2>1, <2>3, <2>4 DEF Backed
<1>13. Promises'
  BY <1>4, SimplePromises DEF EndWith
<1>14. TypeOK'
  <2>1. loans' \subseteq Loan
    BY <1>4, <1>6, ExpiredSubset DEF EndWith
  <2>2. suffix' \in [Levels -> SUBSET Refs]
    BY <1>4 DEF EndWith, TypeOK
  <2>3. effect' \in Effect
    BY <1>4 DEF Effect, NoEffect
  <2> QED
    BY <1>4, <1>5, <1>8, <2>1, <2>2, <2>3 DEF TypeOK, Remains
<1>15. NoDangling' /\ PlaceFrozen'
  BY <1>4, <1>5, <1>8, <1>9, <1>10 DEF NoDangling, PlaceFrozen, Live, NoEffect
<1> QED
  BY <1>12, <1>13, <1>14, <1>15

\* Steps that leave the bindings and what is pending alone.
LEMMA InsideStep ==
  ASSUME RefsInv, Promises', UNCHANGED <<depth, suffix, deferred, binds, dropped>>,
         effect' = NoEffect, loans \subseteq loans', loans' \subseteq Loan,
         after' \in [Levels -> SUBSET Refs], uses' \in [Levels -> SUBSET Refs],
         stage' \in [Levels -> {"idle", "region", "call"}], args' \in [Levels -> Seq(Target)]
  PROVE  RefsInv'
<1> USE DEF RefsInv
<1>1. Pending' = Pending
  BY DEF Pending, Outer
<1>2. Backed'
  <2>1. LiveRefsLoaned'
    BY <1>1 DEF Backed, LiveRefsLoaned, Live, LoanBehind
  <2> QED
    BY <2>1 DEF Backed, UniqueNames, MutableUnshared, OriginInScope
<1>3. TypeOK'
  <2>1. effect' \in Effect
    BY DEF Effect, NoEffect
  <2> QED
    BY <2>1 DEF TypeOK
<1>4. NoDangling' /\ PlaceFrozen'
  BY <1>1 DEF NoDangling, PlaceFrozen, Live, NoEffect
<1> QED
  BY <1>2, <1>3, <1>4

\* A compound statement starts by fixing what it will mention.
LEMMA BeginStep ==
  ASSUME RefsInv, NEW kind \in {"region", "call"},
         NEW U \in SUBSET Refs, NEW S2 \in SUBSET Refs, Begin(kind, U, S2)
  PROVE  RefsInv'
<1>1. /\ \A k \in Levels : k # depth => /\ uses'[k] = uses[k] /\ after'[k] = after[k]
                                       /\ stage'[k] = stage[k]
      /\ uses'[depth] = U /\ after'[depth] = S2 /\ stage'[depth] = kind
      /\ depth' = depth /\ suffix' = suffix
      /\ U \subseteq suffix[depth] /\ S2 \subseteq suffix[depth]
  BY DEF RefsInv, Begin, TypeOK
<1>2. Promises'
  <2>1. MentionsInSuffix'
    BY <1>1 DEF RefsInv, Promises, MentionsInSuffix
  <2>2. NothingPending'
    <3>1. \A k \in Levels : stage'[k] = "idle" \/ k > depth => k # depth
      BY <1>1 DEF Levels, RefsInv, TypeOK
    <3> QED
      BY <1>1, <3>1 DEF RefsInv, Promises, NothingPending
  <2> QED
    BY <2>1, <2>2 DEF Promises
<1> QED
  BY <1>2, InsideStep DEF Begin, RefsInv, TypeOK

\* Evaluating an argument at most adds a loan.
LEMMA PushArgStep ==
  ASSUME RefsInv, NEW target \in Target, PushArg(target), loans \subseteq loans', loans' \subseteq Loan
  PROVE  RefsInv'
<1>1. Promises'
  BY DEF RefsInv, Promises, MentionsInSuffix, NothingPending, PushArg
<1>2. args' \in [Levels -> Seq(Target)]
  BY DEF PushArg, RefsInv, TypeOK
<1> QED
  BY <1>1, <1>2, InsideStep DEF PushArg, RefsInv, TypeOK

\* Both kinds of reference argument preserve the invariant.
LEMMA PassStep ==
  ASSUME RefsInv,
         \/ \E p \in Places, mutable \in BOOLEAN : PassBorrow(p, mutable)
         \/ \E n \in Refs : PassRef(n)
  PROVE  RefsInv'
<1>1. ASSUME NEW p \in Places, NEW mutable \in BOOLEAN, PassBorrow(p, mutable)
      PROVE  RefsInv'
  <2> DEFINE made == [by |-> <<depth, NoName>>, place |-> p, mutable |-> mutable, aliases |-> {}]
             target == [place |-> p, mutable |-> mutable]
  <2>1. made \in Loan /\ target \in Target /\ loans' = loans \cup {made} /\ PushArg(target)
    BY <1>1 DEF RefsInv, TypeOK, PassBorrow, Loan, Origins, Target
  <2>2. loans \subseteq loans' /\ loans' \subseteq Loan
    BY <2>1 DEF RefsInv, TypeOK
  <2> HIDE DEF target
  <2> QED
    BY <2>1, <2>2, PushArgStep
<1>2. ASSUME NEW n \in Refs, PassRef(n)
      PROVE  RefsInv'
  <2> DEFINE target == [place |-> Innermost(n).place, mutable |-> Innermost(n).mutable]
  <2>1. PICK b \in binds : b.name = n
    BY <1>2 DEF PassRef, BoundNames
  <2>2. Innermost(n) = b
    BY <2>1, InnermostUnique DEF RefsInv, Backed
  <2>3. target \in Target /\ PushArg(target) /\ loans' = loans
    BY <1>2, <2>2 DEF PassRef, RefsInv, TypeOK, Binding, Target
  <2> HIDE DEF target
  <2> QED
    BY <2>3, PushArgStep DEF RefsInv, TypeOK
<1> QED
  BY <1>1, <1>2

\* A nested block protects all that the enclosing blocks still mention.
LEMMA OpenBlockStep ==
  ASSUME RefsInv, NEW W \in SUBSET Refs, OpenBlock(W)
  PROVE  RefsInv'
<1> USE DEF RefsInv
<1>1. depth' = depth + 1 /\ depth' \in Levels /\ depth \in Levels
  BY BoundsAssumption DEF OpenBlock, TypeOK, Levels
<1>2. /\ suffix' \in [Levels -> SUBSET Refs]
      /\ suffix'[depth + 1] = W
      /\ \A i \in Levels : i # depth + 1 => suffix'[i] = suffix[i]
  BY <1>1 DEF OpenBlock, TypeOK
<1>3. W \subseteq suffix[depth]
  BY <1>1 DEF OpenBlock, Promises, MentionsInSuffix
<1>4. Pending' = Pending
  <2>1. \A i \in 1..depth : suffix'[i] = suffix[i]
    BY <1>1, <1>2, BoundsAssumption DEF Levels
  <2>2. Outer(depth)' = Outer(depth) \cup suffix[depth]
    BY <1>1, <2>1 DEF Outer, Levels
  <2> QED
    BY <1>1, <1>2, <1>3, <2>2 DEF Pending
<1>5. Backed'
  <2>1. LiveRefsLoaned' /\ UniqueNames' /\ MutableUnshared'
    BY <1>4 DEF OpenBlock, Backed, LiveRefsLoaned, Live, LoanBehind, UniqueNames, MutableUnshared
  <2>2. \A b \in binds : b.level <= depth => b.level <= depth + 1
    BY DEF TypeOK, Binding, Levels
  <2>3. OriginInScope'
    BY <1>1, <2>2 DEF OpenBlock, Backed, OriginInScope
  <2> QED
    BY <2>1, <2>3 DEF Backed
<1>6. Promises'
  <2>1. uses[depth + 1] = {} /\ after[depth + 1] = {}
    BY <1>1 DEF Promises, NothingPending, Levels
  <2>2. \A k \in Levels : k > depth + 1 => k > depth
    BY <1>1 DEF Levels
  <2> QED
    BY <1>1, <1>2, <2>1, <2>2 DEF OpenBlock, Promises, NothingPending, MentionsInSuffix
<1>7. TypeOK'
  <2>1. effect' \in Effect
    BY DEF OpenBlock, Effect, NoEffect
  <2> QED
    BY <1>1, <1>2, <2>1 DEF OpenBlock, TypeOK
<1>8. NoDangling' /\ PlaceFrozen'
  BY <1>4 DEF OpenBlock, NoDangling, PlaceFrozen, Live, NoEffect
<1> QED
  BY <1>5, <1>6, <1>7, <1>8

\* pop_scope: without shadowing, a binding that leaves takes no alias of one
\* that stays, and the loans of the block belong to bindings of the block.
LEMMA CloseBlockStep ==
  ASSUME RefsInv, CloseBlock
  PROVE  RefsInv'
<1> USE DEF RefsInv
<1> DEFINE gone == {b \in binds : b.level = depth}
           Left(l) == [l EXCEPT !.aliases =
                         @ \ {b.name : b \in {c \in gone : c.loan = l.by}}]
<1>1. /\ depth' = depth - 1 /\ depth' \in Levels /\ depth \in Levels /\ depth > 1
      /\ suffix' = suffix /\ suffix[depth] = {} /\ Simple
      /\ binds' = binds \ gone
      /\ loans' = {Left(l) : l \in {m \in loans : m.by[1] # depth}}
  BY BoundsAssumption DEF CloseBlock, TypeOK, Levels
<1>2. Pending' = Pending
  <2>1. Outer(depth) = Outer(depth - 1) \cup suffix[depth - 1]
    BY <1>1 DEF Outer, Levels
  <2>2. Outer(depth)' = Outer(depth - 1)
    BY <1>1 DEF Outer
  <2> QED
    BY <1>1, <2>1, <2>2 DEF Pending
<1>3. \A b \in binds' : b \in binds /\ b.level < depth /\ b.loan[1] < depth
  <2> SUFFICES ASSUME NEW b \in binds, b.level # depth
               PROVE  b.level < depth /\ b.loan[1] < depth
    BY <1>1
  <2>1. b.level <= depth /\ b.loan[1] <= b.level
    BY DEF Backed, OriginInScope
  <2>2. b.level \in Int /\ b.loan[1] \in Int /\ depth \in Int
    BY DEF TypeOK, Binding, Origins, Levels
  <2> QED
    BY <2>1, <2>2
<1>4. \A l \in loans : /\ Left(l) \in Loan /\ Left(l).by = l.by
                       /\ Left(l).place = l.place /\ Left(l).mutable = l.mutable
                       /\ Left(l).aliases = l.aliases \ {b.name : b \in {c \in gone : c.loan = l.by}}
  BY DEF TypeOK, Loan
<1> HIDE DEF Left
<1>5. LiveRefsLoaned'
  <2> SUFFICES ASSUME NEW b \in binds', Live(b)
               PROVE  \E l \in loans' : LoanBehind(b, l)
    BY <1>2 DEF LiveRefsLoaned, Live
  <2>1. PICK l \in loans : LoanBehind(b, l)
    BY <1>3 DEF Backed, LiveRefsLoaned
  <2>2. l.by[1] # depth
    BY <1>1, <1>3, <2>1 DEF LoanBehind, Levels
  <2>3. \A c \in gone : c.name # b.name
    BY <1>1, <1>3 DEF Backed, UniqueNames
  <2>4. b.name \in Left(l).aliases
    BY <1>4, <2>1, <2>3 DEF LoanBehind
  <2> QED
    BY <1>1, <1>4, <2>1, <2>2, <2>4 DEF LoanBehind
<1>6. UniqueNames' /\ MutableUnshared'
  BY <1>3 DEF Backed, UniqueNames, MutableUnshared
<1>7. OriginInScope'
  <2> SUFFICES ASSUME NEW b \in binds'
               PROVE  /\ b.level <= depth - 1
                      /\ b.loan[1] <= b.level
                      /\ \E c \in binds' : b.loan = <<c.level, c.name>> /\ c.loan = b.loan
    BY <1>1 DEF OriginInScope
  <2>1. b.loan[1] <= b.level
    BY <1>3 DEF Backed, OriginInScope
  <2>2. b.level <= depth - 1
    BY <1>1, <1>3 DEF TypeOK, Binding, Levels
  <2>3. PICK c \in binds : b.loan = <<c.level, c.name>> /\ c.loan = b.loan
    BY <1>3 DEF Backed, OriginInScope
  <2>4. c.level # depth
    BY <1>1, <1>3, <2>3 DEF Levels
  <2>5. c \in binds'
    BY <1>1, <2>4
  <2> QED
    BY <2>1, <2>2, <2>3, <2>5
<1>8. Promises'
  <2>1. \A k \in Levels : k > depth - 1 => k > depth \/ k = depth
    BY <1>1 DEF Levels
  <2> QED
    BY <1>1, <2>1 DEF CloseBlock, Promises, MentionsInSuffix, NothingPending, Simple
<1>9. TypeOK'
  <2>1. effect' \in Effect
    BY DEF CloseBlock, Effect, NoEffect
  <2>2. loans' \subseteq Loan /\ binds' \subseteq Binding
    BY <1>1, <1>4 DEF TypeOK
  <2>3. deferred' \in [Levels -> SUBSET Owners]
    BY DEF CloseBlock, TypeOK
  <2> QED
    BY <1>1, <2>1, <2>2, <2>3 DEF CloseBlock, TypeOK
<1>10. NoDangling' /\ PlaceFrozen'
  BY <1>2, <1>3 DEF CloseBlock, NoDangling, PlaceFrozen, Live, NoEffect
<1> QED
  BY <1>5, <1>6, <1>7, <1>8, <1>9, <1>10 DEF Backed

\* The end of a compound statement is an end like that of a simple one.
LEMMA FinishStep ==
  ASSUME RefsInv, Finish
  PROVE  RefsInv'
<1> USE DEF RefsInv
<1>1. /\ depth \in Levels /\ depth' = depth /\ after[depth] \subseteq suffix[depth]
      /\ EndWith(after[depth], binds, loans)
  BY DEF Finish, TypeOK, Promises, MentionsInSuffix
<1>2. Backed' /\ binds' = binds /\ Pending' \subseteq Pending
  BY <1>1, QuietEnd
<1>3. Promises'
  <2>1. /\ uses'[depth] = {} /\ after'[depth] = {}
        /\ \A k \in Levels : k # depth => /\ uses'[k] = uses[k] /\ after'[k] = after[k]
                                       /\ stage'[k] = stage[k] /\ suffix'[k] = suffix[k]
    BY <1>1 DEF Finish, TypeOK, EndWith
  <2> QED
    BY <1>1, <2>1 DEF Promises, MentionsInSuffix, NothingPending
<1>4. TypeOK'
  <2>1. loans' \subseteq Loan
    BY <1>1, ExpiredSubset DEF EndWith, TypeOK
  <2>2. suffix' \in [Levels -> SUBSET Refs]
    BY <1>1 DEF EndWith, TypeOK
  <2>3. effect' \in Effect
    BY DEF Finish, Effect, NoEffect
  <2>4. /\ after' \in [Levels -> SUBSET Refs] /\ uses' \in [Levels -> SUBSET Refs]
        /\ stage' \in [Levels -> {"idle", "region", "call"}]
        /\ args' \in [Levels -> Seq(Target)]
    BY DEF Finish, TypeOK
  <2> QED
    BY <1>1, <1>2, <2>1, <2>2, <2>3, <2>4 DEF Finish, TypeOK
<1>5. NoDangling' /\ PlaceFrozen'
  BY <1>2 DEF Finish, NoDangling, PlaceFrozen, Live, NoEffect
<1> QED
  BY <1>2, <1>3, <1>4, <1>5

\* RefsInv is inductive for programs that shadow no name and bind each with a loan.
THEOREM RefsInductive ==
  ASSUME FirmNames
  PROVE  (Init => RefsInv) /\ (RefsInv /\ [Next]_vars => RefsInv')
<1>1. Init => RefsInv
  <2> SUFFICES ASSUME Init PROVE RefsInv
    OBVIOUS
  <2>1. TypeOK
    BY BoundsAssumption DEF Init, TypeOK, Levels, Effect, NoEffect
  <2> QED
    BY <2>1 DEF Init, RefsInv, Backed, UniqueNames, LiveRefsLoaned, MutableUnshared,
         OriginInScope, Promises, MentionsInSuffix, NothingPending, NoDangling, PlaceFrozen
<1>2. ASSUME RefsInv, UNCHANGED vars
      PROVE  RefsInv'
  <2>1. Pending' = Pending
    BY <1>2 DEF vars, progress, Pending, Outer
  <2>2. Backed'
    BY <1>2, <2>1 DEF vars, progress, RefsInv, Backed, UniqueNames, LiveRefsLoaned, LoanBehind,
         MutableUnshared, OriginInScope, Live
  <2>3. TypeOK' /\ Promises'
    BY <1>2 DEF vars, progress, RefsInv, TypeOK, Promises, MentionsInSuffix, NothingPending
  <2>4. NoDangling' /\ PlaceFrozen'
    BY <1>2, <2>1 DEF vars, RefsInv, NoDangling, PlaceFrozen, Live
  <2> QED
    BY <2>2, <2>3, <2>4 DEF RefsInv
<1>3. ASSUME RefsInv, SimpleStatement
      PROVE  RefsInv'
  BY <1>3, LetBorrowStep, LetCopyStep, QuietStatements DEF SimpleStatement
<1>4. ASSUME RefsInv, CompoundStatement
      PROVE  RefsInv'
  BY <1>4, BeginStep, PassStep, OpenBlockStep, CloseBlockStep, FinishStep DEF CompoundStatement
<1> QED
  BY <1>1, <1>2, <1>3, <1>4 DEF Next

\* Every value of the checker's tables has its type.
THEOREM TypeCorrect ==
  ASSUME FirmNames
  PROVE  Spec => []TypeOK
<1>1. RefsInv => TypeOK
  BY DEF RefsInv
<1>2. (Init => RefsInv) /\ (RefsInv /\ [Next]_vars => RefsInv')
  BY RefsInductive
<1> QED
  BY <1>1, <1>2, PTL DEF Spec

\* Two live references with overlapping places come from two loans that
\* overlap, or from one loan that only readonly references share.
LEMMA BackedExclusive ==
  ASSUME Backed, LoanExclusion
  PROVE  LiveRefsApart
<1> SUFFICES ASSUME NEW b \in binds, NEW c \in binds, b # c, Live(b), Live(c), Conflict(b, c)
             PROVE  FALSE
  BY DEF LiveRefsApart
<1>1. PICK l \in loans : LoanBehind(b, l)
  BY DEF Backed, LiveRefsLoaned
<1>2. PICK m \in loans : LoanBehind(c, m)
  BY DEF Backed, LiveRefsLoaned
<1>3. CASE l = m
  BY <1>1, <1>2, <1>3 DEF LoanBehind, Backed, MutableUnshared, Conflict
<1>4. CASE l # m
  BY <1>1, <1>2, <1>4 DEF LoanBehind, LoanExclusion, Conflict
<1> QED
  BY <1>3, <1>4

\* Where no two handles share an object, places with storage in common are
\* places whose names overlap.
LEMMA NamesTell ==
  ASSUME NoAlias
  PROVE  /\ \A p, q : Meet(p, q) <=> Overlaps(p, q)
         /\ \A a, b : Clash(a, b) <=> Conflict(a, b)
BY DEF NoAlias, Meet, SameObject, Overlaps, Clash, Conflict

\* In a program that shadows no reference name, binds each with a loan and copies
\* no handle, references still in use never conflict (LiveRefsExclusive), no
\* statement writes or drops what they see (OwnerFrozen), and they never point
\* into a dropped local (NoDangling).
THEOREM RefsSafe ==
  ASSUME FirmNames, NoAlias
  PROVE  Spec => []RefsGuarded
<1>1. TypeOK /\ RefsInv /\ LoanExclusion => RefsGuarded
  <2> SUFFICES ASSUME TypeOK, RefsInv, LoanExclusion
               PROVE  RefsGuarded
    OBVIOUS
  <2>1. LiveRefsApart /\ PlaceFrozen /\ NoDangling
    BY BackedExclusive DEF RefsInv
  <2>2. LiveRefsExclusive
    BY <2>1, NamesTell DEF LiveRefsApart, LiveRefsExclusive
  <2>3. OwnerFrozen
    BY <2>1, NamesTell DEF PlaceFrozen, OwnerFrozen
  <2> QED
    BY <2>1, <2>2, <2>3 DEF RefsGuarded
<1>2. (Init => RefsInv) /\ (RefsInv /\ [Next]_vars => RefsInv')
  BY RefsInductive
<1> QED
  BY <1>1, <1>2, TypeCorrect, LoansExclusive, PTL DEF Spec

-----------------------------------------------------------------------------
(* The arguments of a call *)

\* No statement is lowered inside the arguments of a call, and no `&mut` name
\* is passed twice.
PlainCalls == "handler" \notin Shapes /\ "twice" \notin Shapes

\* The one call in progress is in the innermost block.
OneCall == \A k \in Levels : args[k] # <<>> => k = depth /\ stage[k] = "call"

\* An argument has a loan of its own, or is a reference that the statement in
\* progress mentions.
Lent(t, ls) == \E l \in ls : l.aliases = {} /\ l.place = t.place /\ l.mutable = t.mutable
Named(t, names) ==
  \E b \in binds : b.name \in names /\ b.place = t.place /\ b.mutable = t.mutable

ArgsBacked ==
  \A i \in 1..Len(args[depth]) :
    Lent(args[depth][i], loans) \/ Named(args[depth][i], uses[depth])

Apart(s) == \A i, j \in 1..Len(s) : i # j => ~Conflict(s[i], s[j])

ArgsInv == OneCall /\ ArgsBacked /\ Apart(args[depth])

\* What the statement in progress mentions is live.
LEMMA UsedLive ==
  ASSUME RefsInv, NEW b \in binds, b.name \in uses[depth]
  PROVE  Live(b) /\ \E l \in loans : LoanBehind(b, l)
<1>1. b.name \in suffix[depth]
  BY DEF RefsInv, Promises, MentionsInSuffix, TypeOK
<1>2. Live(b)
  BY <1>1 DEF Live, Pending
<1> QED
  BY <1>2 DEF RefsInv, Backed, LiveRefsLoaned

\* A place that may be borrowed is that of no argument it would conflict with.
LEMMA BorrowApart ==
  ASSUME RefsInv, NEW p \in Places, NEW mutable \in BOOLEAN, MayBorrow(p, mutable),
         NEW t, Lent(t, loans) \/ Named(t, uses[depth]), NEW made, made.place = p, made.mutable = mutable
  PROVE  ~Conflict(t, made) /\ ~Conflict(made, t)
<1>1. PICK l \in loans : l.place = t.place /\ l.mutable = t.mutable
  BY UsedLive DEF Lent, Named, LoanBehind
<1>2. ~Conflict(l, made) /\ ~Conflict(made, l)
  BY MayBorrowExclusive
<1> QED
  BY <1>1, <1>2 DEF Conflict

\* A name that is not passed a second time conflicts with no argument.
LEMMA NameApart ==
  ASSUME RefsInv, LoanExclusion, NEW b \in binds, b.name \in uses[depth],
         NEW t, Lent(t, loans) \/ Named(t, uses[depth]), b.mutable => t.place # b.place,
         NEW made, made.place = b.place, made.mutable = b.mutable
  PROVE  ~Conflict(t, made) /\ ~Conflict(made, t)
<1>1. Live(b)
  BY UsedLive
<1>2. CASE Lent(t, loans)
  <2>1. PICK m \in loans : m.aliases = {} /\ m.place = t.place /\ m.mutable = t.mutable
    BY <1>2 DEF Lent
  <2>2. PICK l \in loans : LoanBehind(b, l)
    BY UsedLive
  <2>3. l # m
    BY <2>1, <2>2 DEF LoanBehind
  <2>4. ~Conflict(l, m) /\ ~Conflict(m, l)
    BY <2>3 DEF LoanExclusion
  <2> QED
    BY <2>1, <2>2, <2>4 DEF LoanBehind, Conflict
<1>3. CASE Named(t, uses[depth])
  <2>1. PICK c \in binds : c.name \in uses[depth] /\ c.place = t.place /\ c.mutable = t.mutable
    BY <1>3 DEF Named
  <2>2. CASE c = b
    BY <2>1, <2>2 DEF Conflict
  <2>3. CASE c # b
    <3>1. Live(c)
      BY <2>1, UsedLive
    <3>2. ~Conflict(c, b) /\ ~Conflict(b, c)
      BY <1>1, <2>3, <3>1, BackedExclusive DEF RefsInv, LiveRefsApart
    <3> QED
      BY <2>1, <3>2 DEF Conflict
  <2> QED
    BY <2>2, <2>3
<1> QED
  BY <1>2, <1>3

\* The next argument is evaluated.
LEMMA PushKeepsApart ==
  ASSUME RefsInv, ArgsInv, NEW target \in Target, PushArg(target), loans \subseteq loans',
         Lent(target, loans') \/ Named(target, uses[depth]),
         \A i \in 1..Len(args[depth]) :
           ~Conflict(args[depth][i], target) /\ ~Conflict(target, args[depth][i])
  PROVE  ArgsInv'
<1> DEFINE s == args[depth]
<1>1. s \in Seq(Target) /\ depth \in Levels /\ args \in [Levels -> Seq(Target)]
  BY DEF RefsInv, TypeOK
<1>2. /\ UNCHANGED <<depth, uses, stage, binds>>
      /\ args' = [args EXCEPT ![depth] = Append(s, target)] /\ stage[depth] = "call"
  BY DEF PushArg
<1>3. args'[depth] = Append(s, target) /\ \A k \in Levels : k # depth => args'[k] = args[k]
  BY <1>1, <1>2
<1> HIDE DEF s
<1>4. /\ Len(Append(s, target)) = Len(s) + 1 /\ Len(s) \in Nat
      /\ \A i \in 1..Len(s) : Append(s, target)[i] = s[i]
      /\ Append(s, target)[Len(s) + 1] = target
  BY <1>1
<1>5. OneCall'
  BY <1>2, <1>3 DEF OneCall, ArgsInv
<1>6. ArgsBacked'
  <2> SUFFICES ASSUME NEW i \in 1..(Len(s) + 1), NEW t, t = Append(s, target)[i]
               PROVE  Lent(t, loans') \/ Named(t, uses[depth])
    BY <1>2, <1>3, <1>4 DEF ArgsBacked, Named
  <2>1. CASE i \in 1..Len(s)
    <3>1. Lent(t, loans) \/ Named(t, uses[depth])
      BY <1>4, <2>1 DEF ArgsInv, ArgsBacked, s
    <3> QED
      BY <3>1 DEF Lent
  <2>2. CASE i = Len(s) + 1
    BY <1>4, <2>2
  <2> QED
    BY <1>4, <2>1, <2>2
<1>7. Apart(Append(s, target))
  <2> SUFFICES ASSUME NEW i \in 1..(Len(s) + 1), NEW j \in 1..(Len(s) + 1), i # j
               PROVE  ~Conflict(Append(s, target)[i], Append(s, target)[j])
    BY <1>4 DEF Apart
  <2>1. CASE i \in 1..Len(s) /\ j \in 1..Len(s)
    BY <1>4, <2>1 DEF ArgsInv, Apart, s
  <2>2. CASE i = Len(s) + 1 /\ j \in 1..Len(s)
    BY <1>4, <2>2 DEF s
  <2>3. CASE i \in 1..Len(s) /\ j = Len(s) + 1
    BY <1>4, <2>3 DEF s
  <2> QED
    BY <1>4, <2>1, <2>2, <2>3
<1>8. (Apart(args[depth]))'
  BY <1>2, <1>3, <1>7
<1> QED
  BY <1>5, <1>6, <1>8 DEF ArgsInv

LEMMA PassArgs ==
  ASSUME PlainCalls, RefsInv, LoanExclusion, ArgsInv,
         \/ \E p \in Places, mutable \in BOOLEAN : PassBorrow(p, mutable)
         \/ \E n \in Refs : PassRef(n)
  PROVE  ArgsInv'
<1>1. ASSUME NEW p \in Places, NEW mutable \in BOOLEAN, PassBorrow(p, mutable)
      PROVE  ArgsInv'
  <2> DEFINE made == [by |-> <<depth, NoName>>, place |-> p, mutable |-> mutable, aliases |-> {}]
             target == [place |-> p, mutable |-> mutable]
  <2>1. /\ target \in Target /\ target.place = p /\ target.mutable = mutable
        /\ PushArg(target) /\ MayBorrow(p, mutable) /\ loans' = loans \cup {made}
    BY <1>1 DEF PassBorrow, Target
  <2>2. made \in loans' /\ made.aliases = {} /\ made.place = p /\ made.mutable = mutable
    BY <2>1
  <2> HIDE DEF target, made
  <2>3. \E l \in loans' : l.aliases = {} /\ l.place = target.place /\ l.mutable = target.mutable
    BY <2>1, <2>2
  <2>4. PICK t \in Target : t = target
    BY <2>1
  <2>5. Lent(t, loans')
    BY <2>3, <2>4 DEF Lent
  <2>6. \A i \in 1..Len(args[depth]) :
          ~Conflict(args[depth][i], t) /\ ~Conflict(t, args[depth][i])
    BY <2>1, <2>4, BorrowApart DEF ArgsInv, ArgsBacked
  <2> QED
    BY <2>1, <2>4, <2>5, <2>6, PushKeepsApart
<1>2. ASSUME NEW n \in Refs, PassRef(n)
      PROVE  ArgsInv'
  <2>1. PICK b \in binds : b.name = n
    BY <1>2 DEF PassRef, BoundNames
  <2>2. Innermost(n) = b
    BY <2>1, InnermostUnique DEF RefsInv, Backed
  <2>3. PICK t \in Target : t = [place |-> b.place, mutable |-> b.mutable]
    BY DEF RefsInv, TypeOK, Binding, Target
  <2>4. /\ t.place = b.place /\ t.mutable = b.mutable /\ n \in uses[depth]
        /\ PushArg(t) /\ loans' = loans /\ UNCHANGED <<uses, depth, binds>>
    BY <1>2, <2>2, <2>3 DEF PassRef, PushArg
  <2>5. Named(t, uses[depth])
    BY <2>1, <2>4 DEF Named
  <2>6. \A i \in 1..Len(args[depth]) : b.mutable => args[depth][i].place # b.place
    <3>1. ~(b.mutable /\ Passed(n))
      BY <1>2, <2>2 DEF PassRef, PlainCalls
    <3>2. depth \in 1..depth /\ args[depth] \in Seq(Target) /\ Len(args[depth]) < MaxArgs
      BY <2>4, BoundsAssumption DEF RefsInv, TypeOK, Levels, PushArg
    <3>3. ASSUME NEW i \in 1..Len(args[depth]), args[depth][i].place = b.place
          PROVE  Passed(n)
      <4>1. i \in 1..MaxArgs /\ i \in DOMAIN args[depth]
        BY <3>2, BoundsAssumption
      <4> QED
        BY <2>2, <3>2, <3>3, <4>1 DEF Passed
    <3> QED
      BY <3>1, <3>3
  <2>7. \A i \in 1..Len(args[depth]) :
          ~Conflict(args[depth][i], t) /\ ~Conflict(t, args[depth][i])
    BY <2>1, <2>4, <2>6, NameApart DEF ArgsInv, ArgsBacked
  <2> QED
    BY <2>4, <2>5, <2>7, PushKeepsApart
<1> QED
  BY <1>1, <1>2

NoArgs == \A k \in Levels : args[k] = <<>>

\* Outside a call there are no arguments.
LEMMA IdleNoArgs ==
  ASSUME RefsInv, ArgsInv, stage[depth] # "call"
  PROVE  NoArgs
BY DEF ArgsInv, OneCall, NoArgs

\* Where there are no arguments there is nothing to keep.
LEMMA NoArgsInv ==
  ASSUME RefsInv', NoArgs'
  PROVE  ArgsInv'
<1>1. depth' \in Levels /\ args'[depth'] = <<>>
  BY DEF RefsInv, TypeOK, NoArgs
<1>2. Len(args'[depth']) = 0
  BY <1>1
<1>3. OneCall'
  BY DEF OneCall, NoArgs
<1>4. ArgsBacked' /\ (Apart(args[depth]))'
  BY <1>2 DEF ArgsBacked, Apart
<1> QED
  BY <1>3, <1>4 DEF ArgsInv

\* Every step of a program with plain calls keeps the arguments apart.
LEMMA ArgsInductive ==
  ASSUME PlainCalls, RefsInv, RefsInv', LoanExclusion, ArgsInv, [Next]_vars
  PROVE  ArgsInv'
<1>1. depth \in Levels /\ args \in [Levels -> Seq(Target)]
  BY DEF RefsInv, TypeOK
<1>2. CASE SimpleStatement
  <2>1. Simple /\ Remains
    BY <1>2 DEF SimpleStatement, LetBorrow, LetCopy, Use, Assign, Mutate, Read, Drop, Defer
  <2>2. NoArgs /\ args' = args
    BY <2>1, IdleNoArgs DEF Simple, Remains
  <2> QED
    BY <2>2, NoArgsInv DEF NoArgs
<1>3. ASSUME NEW kind, NEW U, NEW S2, Begin(kind, U, S2)
      PROVE  ArgsInv'
  BY <1>3, IdleNoArgs, NoArgsInv DEF Begin, Simple, NoArgs
<1>4. ASSUME NEW W, OpenBlock(W)
      PROVE  ArgsInv'
  BY <1>4, IdleNoArgs, NoArgsInv DEF OpenBlock, PlainCalls, NoArgs
<1>5. CASE CloseBlock
  BY <1>5, IdleNoArgs, NoArgsInv DEF CloseBlock, Simple, NoArgs
<1>6. CASE Finish
  <2>1. \A k \in Levels : args'[k] = IF k = depth THEN <<>> ELSE args[k]
    BY <1>1, <1>6 DEF Finish
  <2>2. NoArgs'
    BY <2>1 DEF NoArgs, ArgsInv, OneCall
  <2> QED
    BY <2>2, NoArgsInv
<1>7. CASE UNCHANGED vars
  <2>1. UNCHANGED <<depth, args, stage, uses, binds, loans>>
    BY <1>7 DEF vars, progress
  <2>2. OneCall' /\ (Apart(args[depth]))'
    BY <2>1 DEF ArgsInv, OneCall, Apart
  <2>3. ArgsBacked'
    BY <2>1 DEF ArgsInv, ArgsBacked, Lent, Named
  <2> QED
    BY <2>2, <2>3 DEF ArgsInv
<1> QED
  BY <1>2, <1>3, <1>4, <1>5, <1>6, <1>7, PassArgs DEF Next, CompoundStatement

\* The arguments evaluated so far are all of the one call in progress.
LEMMA OneCallExclusive ==
  ASSUME NoAlias, RefsInv, ArgsInv
  PROVE  ArgsExclusive
<1>1. depth \in Levels /\ args[depth] \in Seq(Target)
  BY DEF RefsInv, TypeOK
<1>2. args[depth] \in Seq(Target) /\ 1..depth \subseteq Levels
  BY <1>1, BoundsAssumption DEF Levels
<1>3. ASSUME NEW a \in Positions
      PROVE  /\ a = <<depth, a[2]>> /\ a[2] \in 1..Len(args[depth])
             /\ ArgAt(a) = args[depth][a[2]]
  <2>1. a[1] \in Levels /\ a = <<a[1], a[2]>> /\ a[2] \in DOMAIN args[a[1]]
    BY <1>2 DEF Positions
  <2>2. args[a[1]] # <<>>
    BY <2>1
  <2>3. a[1] = depth
    BY <2>1, <2>2 DEF ArgsInv, OneCall
  <2> QED
    BY <1>2, <2>1, <2>3 DEF ArgAt
<1> SUFFICES ASSUME NEW a \in Positions, NEW b \in Positions, a # b
             PROVE  ~Conflict(ArgAt(a), ArgAt(b))
  BY NamesTell DEF ArgsExclusive
<1>4. a[2] # b[2]
  BY <1>3
<1> QED
  BY <1>3, <1>4 DEF ArgsInv, Apart

\* In a program that shadows no reference name, binds each with a loan, copies no
\* handle, lowers no statement among the arguments of a call and passes no `&mut`
\* name twice, two arguments of the call in progress never conflict
\* (ArgsExclusive): nothing compares them, but each has a loan of its own or is a
\* reference still in use.
THEOREM ArgsApart ==
  ASSUME FirmNames, NoAlias, PlainCalls
  PROVE  Spec => []ArgsExclusive
<1> DEFINE IInv == LoansTyped /\ LoanExclusion /\ RefsInv /\ ArgsInv
<1>1. ASSUME Init PROVE IInv
  <2>1. RefsInv
    BY <1>1, RefsInductive
  <2>2. LoansTyped /\ LoanExclusion
    BY <1>1, BoundsAssumption DEF Init, LoansTyped, LoanExclusion, Levels
  <2>3. depth \in Levels /\ args = [k \in Levels |-> <<>>]
    BY <1>1, <2>2 DEF Init, LoansTyped
  <2>4. OneCall /\ args[depth] = <<>> /\ Len(args[depth]) = 0
    BY <2>3 DEF OneCall
  <2>5. ArgsBacked /\ Apart(args[depth])
    BY <2>4 DEF ArgsBacked, Apart
  <2> QED
    BY <2>1, <2>2, <2>4, <2>5 DEF ArgsInv
<1>2. IInv /\ [Next]_vars => IInv'
  BY ExclusionInductive, RefsInductive, ArgsInductive
<1>3. IInv => ArgsExclusive
  BY OneCallExclusive
<1> QED
  BY <1>1, <1>2, <1>3, PTL DEF Spec
=============================================================================
