---------------------------- MODULE CleanupProofs ----------------------------
(***************************************************************************)
(* Theorems about Cleanup, for every set of names and objects and every    *)
(* nesting depth: on every path through a function without the statement   *)
(* shapes named, the emitted code releases each object as often as it      *)
(* retains it.  In the shapes that lose a value it releases some less      *)
(* often, and still uses nothing that it has freed.                        *)
(***************************************************************************)
EXTENDS Cleanup, FiniteSetTheorems, TLAPS

\* No argument leaves the call it belongs to, a handler ends with recover, and
\* an `if let` tests a local.
NothingLost == {"args_exit", "recover_early", "iflet_owned"} \cap Shapes = {}

\* The body of an `if let` does not drop what it binds, `stop` throws no local, and
\* no handler in a condition leaves the loop around: none gives back what it
\* does not have.
GivesOwn == {"iflet_drop", "stop_local", "cond_exit"} \cap Shapes = {}

\* The body of an `if let` leaves the local alone that it tested.
SourceKept == "iflet_source" \notin Shapes

-----------------------------------------------------------------------------
(* The inductive invariant *)

Types ==
  /\ depth \in 0..MaxDepth
  /\ kind \in [Levels -> {"body", "branch", "loop", "if_let", "handler", "condition"}]
  /\ level \in [Names -> 0..MaxDepth]
  /\ managed \subseteq Names
  /\ slot \in [Names -> Values]
  /\ deferred \in [Levels -> Seq(Values)]
  /\ calling \in [Levels -> BOOLEAN]
  /\ temps \in [Levels -> Seq(Values)]
  /\ recovered \in [Levels -> Values]
  /\ result \in Values
  /\ count \in [Objects -> Int]
  /\ stale \in BOOLEAN

\* No local is of a block that is closed, and the result is set last.
LocalsOpen == (\A n \in Names : level[n] <= depth) /\ (depth > 0 => result = Nil)

\* A closed block has nothing deferred, no arguments and no result.
ClosedEmpty ==
  \A k \in Levels : k > depth => deferred[k] = <<>> /\ ~calling[k] /\ recovered[k] = Nil

\* Arguments belong to a call, and there are not too many.
ArgsCalled == \A k \in Levels : ~calling[k] => temps[k] = <<>>
Few == \A k \in Levels : Len(deferred[k]) <= MaxTemps /\ Len(temps[k]) <= MaxTemps

\* Every owner has its reference, and every reference its owner unless one was
\* lost.  What is lost is never found again.
Surplus == [o \in Objects |-> count[o] - Owners(o)]
Counts == \A o \in Objects : Surplus[o] >= 0 /\ (NothingLost => Surplus[o] = 0)
Kept ==
  \A o \in Objects : /\ Surplus'[o] >= Surplus[o]
                     /\ NothingLost => Surplus'[o] = Surplus[o]

CountInv == Types /\ LocalsOpen /\ ClosedEmpty /\ ArgsCalled /\ Few /\ Counts

\* What an `if let` binds, a managed local of an outer block owns, or nobody does.
Bound ==
  \A n \in Names \ managed : InScope(n) /\ slot[n] # Nil =>
    \/ \E m \in Held : slot[m] = slot[n] /\ level[m] < level[n]
    \/ Surplus[slot[n]] > 0

-----------------------------------------------------------------------------
(* Counting *)

Is(v, o) == IF v = o THEN 1 ELSE 0

\* One element more or less.
LEMMA CardAdd ==
  ASSUME NEW S, IsFiniteSet(S), NEW x, x \notin S
  PROVE  Cardinality(S \cup {x}) = Cardinality(S) + 1
BY FS_AddElement, FS_CardinalityType

\* A part and the rest.
LEMMA CardSplit ==
  ASSUME NEW S, IsFiniteSet(S), NEW T \in SUBSET S
  PROVE  /\ IsFiniteSet(T) /\ IsFiniteSet(S \ T)
         /\ Cardinality(S \ T) = Cardinality(S) - Cardinality(T)
         /\ Cardinality(S) \in Nat /\ Cardinality(T) \in Nat
<1>1. PICK R \in SUBSET S : R = S \ T
  OBVIOUS
<1>2. IsFiniteSet(T) /\ IsFiniteSet(R)
  BY FS_Subset
<1>3. Cardinality(T) \in Nat /\ Cardinality(R) \in Nat /\ Cardinality(S) \in Nat
  BY <1>2, FS_CardinalityType
<1>4. T \cup R = S /\ T \cap R = {}
  BY <1>1
<1>5. Cardinality(T \cup R) = Cardinality(T) + Cardinality(R) - Cardinality(T \cap R)
  BY <1>2, FS_Union
<1>6. Cardinality(T \cap R) = 0
  BY <1>4, FS_EmptySet
<1> QED
  <2>1. Cardinality(S) = Cardinality(T \cup R)
    BY <1>4, Zenon
  <2>2. Cardinality(S) = Cardinality(T) + Cardinality(R)
    BY <1>3, <1>5, <1>6, <2>1
  <2>3. Cardinality(R) = Cardinality(S) - Cardinality(T)
    BY <1>3, <2>2
  <2> QED
    BY <1>1, <1>2, <1>3, <2>3

\* The positions of a table that hold o.
At(f, o) == {at \in Slots : at[2] \in DOMAIN f[at[1]] /\ f[at[1]][at[2]] = o}

LEMMA SlotsFinite == IsFiniteSet(Slots)
<1>1. IsFiniteSet(1..MaxDepth) /\ IsFiniteSet(1..MaxTemps)
  BY BoundsAssumption, FS_Interval
<1> QED
  BY <1>1, FS_Product DEF Slots, Levels

LEMMA AtFinite ==
  ASSUME NEW f, NEW o
  PROVE  IsFiniteSet(At(f, o)) /\ Cardinality(At(f, o)) \in Nat
BY SlotsFinite, FS_Subset, FS_CardinalityType DEF At

\* A value is put at the end of a sequence.
Longer(f, g, k, v) == g = [f EXCEPT ![k] = Append(@, v)]

LEMMA AtAppend ==
  ASSUME NEW f \in [Levels -> Seq(Values)], NEW k \in Levels, Len(f[k]) < MaxTemps,
         NEW v \in Values, NEW o, NEW g, Longer(f, g, k, v)
  PROVE  Cardinality(At(g, o)) = Cardinality(At(f, o)) + Is(v, o)
<1> USE DEF Longer
<1> DEFINE i == Len(f[k]) + 1
           new == <<k, i>>
<1>1. f[k] \in Seq(Values) /\ Len(f[k]) \in Nat /\ i \in 1..MaxTemps /\ new \in Slots
  BY BoundsAssumption DEF Slots
<1>2. g[k] = Append(f[k], v) /\ \A j \in Levels : j # k => g[j] = f[j]
  OBVIOUS
<1>3. /\ DOMAIN g[k] = 1..i /\ DOMAIN f[k] = 1..Len(f[k])
      /\ g[k][i] = v /\ \A j \in 1..Len(f[k]) : g[k][j] = f[k][j]
  BY <1>1, <1>2
<1>4. new \notin At(f, o)
  BY <1>1, <1>3 DEF At
<1>5. ASSUME NEW at \in Slots, at # new
      PROVE  at \in At(g, o) <=> at \in At(f, o)
  <2>1. CASE at[1] # k
    BY <1>2, <2>1 DEF At, Slots
  <2>2. CASE at[1] = k
    <3>1. at[2] # i /\ at[2] \in Nat
      BY <1>5, <2>2 DEF Slots
    <3>2. at[2] \in 1..i <=> at[2] \in 1..Len(f[k])
      BY <1>1, <3>1
    <3> QED
      BY <1>3, <2>2, <3>2 DEF At
  <2> QED
    BY <2>1, <2>2
<1>6. new \in At(g, o) <=> v = o
  BY <1>1, <1>3 DEF At
<1> HIDE DEF new
<1>7. At(g, o) \subseteq Slots /\ At(f, o) \subseteq Slots
  BY DEF At
<1>8. CASE v = o
  <2>1. At(g, o) = At(f, o) \cup {new}
    <3>1. \A at \in Slots : at \in At(g, o) <=> at \in At(f, o) \cup {new}
      BY <1>5, <1>6, <1>8
    <3>2. At(f, o) \cup {new} \subseteq Slots
      BY <1>1, <1>7
    <3> QED
      BY <1>7, <3>1, <3>2, Zenon
  <2> QED
    BY <1>4, <1>8, <2>1, AtFinite, CardAdd DEF Is
<1>9. CASE v # o
  <2>1. At(g, o) = At(f, o)
    <3>1. \A at \in Slots : at \in At(g, o) <=> at \in At(f, o)
      BY <1>4, <1>5, <1>6, <1>9
    <3> QED
      BY <1>7, <3>1, Zenon
  <2> QED
    BY <1>9, <2>1, AtFinite DEF Is
<1> QED
  BY <1>8, <1>9

\* The sequences of some blocks are emptied.
Cleared(f, g, K) ==
  \A j \in Levels : (j \in K => g[j] = <<>>) /\ (j \notin K => g[j] = f[j])

LEMMA AtClear ==
  ASSUME NEW f \in [Levels -> Seq(Values)], NEW K \in SUBSET Levels, NEW o, NEW g,
         Cleared(f, g, K), NEW gone, gone = {at \in At(f, o) : at[1] \in K}
  PROVE  /\ Cardinality(At(g, o)) = Cardinality(At(f, o)) - Cardinality(gone)
         /\ Cardinality(gone) \in Nat
<1> USE DEF Cleared
<1>1. At(g, o) = At(f, o) \ gone
  <2>1. ASSUME NEW at \in Slots
        PROVE  at \in At(g, o) <=> at \in At(f, o) /\ at[1] \notin K
    BY DEF At, Slots
  <2>2. At(g, o) \subseteq Slots /\ At(f, o) \subseteq Slots
    BY DEF At
  <2> QED
    BY <2>1, <2>2
<1> QED
  BY <1>1, AtFinite, CardSplit

\* The counts after a retain or a release.
LEMMA CountMoves ==
  ASSUME NEW c \in [Objects -> Int], NEW v \in Values
  PROVE  /\ Retained(c, v) \in [Objects -> Int] /\ Released(c, v) \in [Objects -> Int]
         /\ \A o \in Objects : /\ Retained(c, v)[o] = c[o] + Is(v, o)
                               /\ Released(c, v)[o] = c[o] - Is(v, o)
<1>1. CASE v = Nil
  BY <1>1, NilAssumption DEF Retained, Released, Is
<1>2. CASE v # Nil
  <2>1. v \in Objects
    BY <1>2 DEF Values
  <2> QED
    BY <1>2, <2>1 DEF Retained, Released, Is
<1> QED
  BY <1>1, <1>2

\* What an expression yields has a reference for its new owner.
LEMMA OutcomeCounts ==
  ASSUME Types, NEW out \in Outcomes
  PROVE  /\ out.value \in Values /\ out.counts \in [Objects -> Int]
         /\ \A o \in Objects : out.counts[o] = count[o] + Is(out.value, o)
<1>1. count \in [Objects -> Int] /\ slot \in [Names -> Values]
  BY DEF Types
<1>2. CASE out \in New
  <2>1. PICK p \in Fresh : out = [value |-> p, counts |-> [count EXCEPT ![p] = 1], uses |-> {}]
    BY <1>2 DEF New
  <2>2. p \in Objects /\ count[p] = 0
    BY DEF Fresh
  <2> QED
    BY <1>1, <2>1, <2>2 DEF Values, Is
<1>3. CASE out \in Copies
  <2>1. PICK m \in Names : out = [value |-> slot[m], counts |-> Retained(count, slot[m]),
                                  uses |-> {slot[m]}]
    BY <1>3 DEF Copies
  <2> QED
    BY <1>1, <2>1, CountMoves
<1>4. CASE out = Nothing
  BY <1>1, <1>4, NilAssumption DEF Nothing, Values, Is
<1> QED
  BY <1>2, <1>3, <1>4 DEF Outcomes

-----------------------------------------------------------------------------
(* The owners of an object *)

LEMMA OwnersFinite ==
  ASSUME Types, NEW o
  PROVE  /\ IsFiniteSet(Locals(o)) /\ Cardinality(Locals(o)) \in Nat
         /\ IsFiniteSet(Captures(o)) /\ Cardinality(Captures(o)) \in Nat
         /\ IsFiniteSet(Arguments(o)) /\ Cardinality(Arguments(o)) \in Nat
         /\ IsFiniteSet(Recoveries(o)) /\ Cardinality(Recoveries(o)) \in Nat
<1>1. Locals(o) \subseteq Names /\ Recoveries(o) \subseteq 1..MaxDepth
  BY DEF Types, Locals, Held, Recoveries, Levels
<1>2. IsFiniteSet(1..MaxDepth)
  BY BoundsAssumption, FS_Interval
<1>3. IsFiniteSet(Locals(o)) /\ IsFiniteSet(Recoveries(o))
  BY <1>1, <1>2, NamesAssumption, FS_Subset
<1>4. Captures(o) = At(deferred, o) /\ Arguments(o) = At(temps, o)
  BY DEF Captures, Arguments, At
<1> QED
  BY <1>3, <1>4, AtFinite, FS_CardinalityType

LEMMA OwnersNext ==
  ASSUME Types', NEW o
  PROVE  /\ Cardinality(Locals(o)') \in Nat /\ Cardinality(Captures(o)') \in Nat
         /\ Cardinality(Arguments(o)') \in Nat /\ Cardinality(Recoveries(o)') \in Nat
         /\ Owners(o)' \in Nat
<1>1. Locals(o)' \subseteq Names /\ Recoveries(o)' \subseteq 1..MaxDepth
  BY DEF Types, Locals, Held, Recoveries, Levels
<1>2. IsFiniteSet(1..MaxDepth)
  BY BoundsAssumption, FS_Interval
<1>3. Cardinality(Locals(o)') \in Nat /\ Cardinality(Recoveries(o)') \in Nat
  BY <1>1, <1>2, NamesAssumption, FS_Subset, FS_CardinalityType
<1>4. Captures(o)' = At(deferred', o) /\ Arguments(o)' = At(temps', o)
  BY DEF Captures, Arguments, At
<1>5. Cardinality(Captures(o)') \in Nat /\ Cardinality(Arguments(o)') \in Nat
  BY <1>4, AtFinite
<1> QED
  BY <1>3, <1>5 DEF Owners

\* The counts follow the owners, or fall behind where something is lost.
LEMMA CountsFollow ==
  ASSUME CountInv, Types',
         \A o \in Objects :
           /\ count'[o] - count[o] >= Owners(o)' - Owners(o)
           /\ NothingLost => count'[o] - count[o] = Owners(o)' - Owners(o)
  PROVE  Counts' /\ Kept
<1>1. ASSUME NEW o \in Objects
      PROVE  /\ Surplus'[o] >= Surplus[o] /\ (NothingLost => Surplus'[o] = Surplus[o])
             /\ Surplus'[o] >= 0 /\ (NothingLost => Surplus'[o] = 0)
  <2>1. Owners(o) \in Nat
    BY OwnersFinite DEF CountInv, Owners
  <2>2. Owners(o)' \in Nat
    BY OwnersNext
  <2>3. count[o] \in Int /\ count'[o] \in Int
    BY DEF CountInv, Types
  <2>4. Surplus[o] >= 0 /\ (NothingLost => Surplus[o] = 0)
    BY DEF CountInv, Counts
  <2>5. Surplus[o] = count[o] - Owners(o) /\ Surplus'[o] = count'[o] - Owners(o)'
    BY DEF Surplus
  <2> HIDE DEF NothingLost
  <2> QED
    BY <2>1, <2>2, <2>3, <2>4, <2>5
<1> QED
  BY <1>1 DEF Counts, Kept

LEMMA CountsFollowExactly ==
  ASSUME CountInv, Types',
         \A o \in Objects : count'[o] - count[o] = Owners(o)' - Owners(o)
  PROVE  Counts' /\ Kept
<1>1. \A o \in Objects : Owners(o) \in Nat /\ count[o] \in Int /\ count'[o] \in Int
  BY OwnersFinite DEF CountInv, Types, Owners
<1>2. \A o \in Objects : Owners(o)' \in Nat
  BY OwnersNext
<1> QED
  BY <1>1, <1>2, CountsFollow

\* An object that has an owner has a reference.
LEMMA OwnedCounted ==
  ASSUME Types, Counts, NEW o \in Objects,
         Locals(o) # {} \/ Captures(o) # {} \/ Arguments(o) # {} \/ Recoveries(o) # {}
  PROVE  count[o] > 0
<1>1. \/ Cardinality(Locals(o)) # 0 \/ Cardinality(Captures(o)) # 0
      \/ Cardinality(Arguments(o)) # 0 \/ Cardinality(Recoveries(o)) # 0
  BY OwnersFinite, FS_EmptySet
<1> QED
  <2>1. Owners(o) > 0
    BY <1>1, OwnersFinite DEF Owners
  <2>2. Owners(o) \in Int /\ count[o] \in Int
    BY OwnersFinite DEF Types, Owners
  <2> QED
    BY <2>1, <2>2 DEF Counts, Surplus

\* Neither the counts nor the owners change.
LEMMA CountsUnmoved ==
  ASSUME CountInv, Types', UNCHANGED <<level, managed, slot, deferred, temps, recovered, result, count>>
  PROVE  Counts' /\ Kept
<1>1. ASSUME NEW o \in Objects
      PROVE  count'[o] - count[o] = Owners(o)' - Owners(o)
  <2>1. Owners(o)' = Owners(o)
    BY DEF Owners, Locals, Captures, Arguments, Recoveries, Held, InScope
  <2> QED
    BY <2>1, OwnersNext DEF CountInv, Types
<1> QED
  BY <1>1, CountsFollowExactly

\* A managed local comes into scope.
LEMMA LocalNew ==
  ASSUME Types, NEW n \in Names, NEW v, NEW o, n \notin Held, Held' = Held \cup {n},
         slot'[n] = v, \A m \in Held : slot'[m] = slot[m]
  PROVE  Cardinality(Locals(o)') = Cardinality(Locals(o)) + Is(v, o)
<1>1. CASE v = o
  <2>1. Locals(o)' = Locals(o) \cup {n} /\ n \notin Locals(o)
    BY <1>1 DEF Locals
  <2> QED
    BY <1>1, <2>1, OwnersFinite, CardAdd DEF Is
<1>2. CASE v # o
  <2>1. Locals(o)' = Locals(o)
    BY <1>2 DEF Locals
  <2> QED
    BY <1>2, <2>1, OwnersFinite DEF Is
<1> QED
  BY <1>1, <1>2

\* A managed local gets another value.
LEMMA LocalSet ==
  ASSUME Types, NEW n \in Held, NEW v, NEW o, Held' = Held, slot' = [slot EXCEPT ![n] = v]
  PROVE  Cardinality(Locals(o)') = Cardinality(Locals(o)) - Is(slot[n], o) + Is(v, o)
<1>1. n \in Names /\ slot'[n] = v /\ \A m \in Held \ {n} : slot'[m] = slot[m]
  BY DEF Types, Held
<1>2. PICK R \in SUBSET Names : R = {m \in Held \ {n} : slot[m] = o}
  BY DEF Types, Held
<1>3. n \notin R /\ IsFiniteSet(R) /\ Cardinality(R) \in Nat
  BY <1>2, NamesAssumption, FS_Subset, FS_CardinalityType
<1>4. Cardinality(R \cup {n}) = Cardinality(R) + 1
  BY <1>3, CardAdd
<1>5. Cardinality(Locals(o)) = Cardinality(R) + Is(slot[n], o)
  <2>1. CASE slot[n] = o
    <3>1. Locals(o) = R \cup {n}
      BY <1>2, <2>1 DEF Locals
    <3>2. Cardinality(Locals(o)) = Cardinality(R \cup {n})
      BY <3>1, Zenon
    <3> QED
      BY <1>4, <2>1, <3>2 DEF Is
  <2>2. CASE slot[n] # o
    <3>1. Locals(o) = R
      BY <1>2, <2>2 DEF Locals
    <3> QED
      BY <1>3, <2>2, <3>1 DEF Is
  <2> QED
    BY <2>1, <2>2
<1>6. Cardinality(Locals(o)') = Cardinality(R) + Is(v, o)
  <2>1. CASE v = o
    <3>1. Locals(o)' = R \cup {n}
      BY <1>1, <1>2, <2>1 DEF Locals
    <3>2. Cardinality(Locals(o)') = Cardinality(R \cup {n})
      BY <3>1, Zenon
    <3> QED
      BY <1>4, <2>1, <3>2 DEF Is
  <2>2. CASE v # o
    <3>1. Locals(o)' = R
      BY <1>1, <1>2, <2>2 DEF Locals
    <3> QED
      BY <1>3, <2>2, <3>1 DEF Is
  <2> QED
    BY <2>1, <2>2
<1> QED
  BY <1>3, <1>5, <1>6 DEF Is

\* The managed locals and what they hold are as they were.
LEMMA LocalsSame ==
  ASSUME Held' = Held, \A m \in Held : slot'[m] = slot[m], NEW o
  PROVE  Cardinality(Locals(o)') = Cardinality(Locals(o))
<1>1. Locals(o)' = Locals(o)
  BY DEF Locals
<1> QED
  BY <1>1, Zenon

LEMMA CapturesSame ==
  ASSUME deferred' = deferred, NEW o
  PROVE  Cardinality(Captures(o)') = Cardinality(Captures(o))
<1>1. Captures(o)' = Captures(o)
  BY DEF Captures
<1> QED
  BY <1>1, Zenon

LEMMA ArgumentsSame ==
  ASSUME temps' = temps, NEW o
  PROVE  Cardinality(Arguments(o)') = Cardinality(Arguments(o))
<1>1. Arguments(o)' = Arguments(o)
  BY DEF Arguments
<1> QED
  BY <1>1, Zenon

LEMMA RecoveriesSame ==
  ASSUME recovered' = recovered, NEW o
  PROVE  Cardinality(Recoveries(o)') = Cardinality(Recoveries(o))
<1>1. Recoveries(o)' = Recoveries(o)
  BY DEF Recoveries
<1> QED
  BY <1>1, Zenon

-----------------------------------------------------------------------------
(* Statements *)

\* A statement that changes locals and their counts alike.
LEMMA LocalStep ==
  ASSUME CountInv, UNCHANGED <<depth, kind, deferred, calling, temps, recovered, result>>,
         level' \in [Names -> 0..MaxDepth], \A n \in Names : level'[n] <= depth,
         managed' \subseteq Names, slot' \in [Names -> Values], stale' \in BOOLEAN,
         count' \in [Objects -> Int],
         \A o \in Objects :
           count'[o] - count[o] = Cardinality(Locals(o)') - Cardinality(Locals(o))
  PROVE  CountInv' /\ Kept
<1>1. Types'
  BY DEF CountInv, Types
<1>2. LocalsOpen' /\ ClosedEmpty' /\ ArgsCalled' /\ Few'
  BY DEF CountInv, LocalsOpen, ClosedEmpty, ArgsCalled, Few
<1>3. Counts' /\ Kept
  <2>1. ASSUME NEW o \in Objects
        PROVE  count'[o] - count[o] = Owners(o)' - Owners(o)
    <3>1. /\ Cardinality(Captures(o)') = Cardinality(Captures(o))
          /\ Cardinality(Arguments(o)') = Cardinality(Arguments(o))
          /\ Cardinality(Recoveries(o)') = Cardinality(Recoveries(o))
      BY CapturesSame, ArgumentsSame, RecoveriesSame
    <3>2. Cardinality(Locals(o)') \in Nat
      BY <1>1, OwnersNext
    <3> QED
      BY <3>1, <3>2, OwnersFinite DEF CountInv, Owners
  <2> QED
    BY <1>1, <2>1, CountsFollowExactly
<1> QED
  BY <1>1, <1>2, <1>3 DEF CountInv

LEMMA StaleTyped ==
  ASSUME NEW vs, Using(vs)
  PROVE  stale' \in BOOLEAN
BY DEF Using

\* let n = <expression>
LEMMA LetStep ==
  ASSUME CountInv, NEW n \in Names, NEW out \in Outcomes, Let(n, out)
  PROVE  CountInv' /\ Kept
<1>1. /\ out.value \in Values /\ out.counts \in [Objects -> Int]
      /\ \A o \in Objects : out.counts[o] = count[o] + Is(out.value, o)
  BY OutcomeCounts DEF CountInv
<1>2. n \notin Held /\ Held' = Held \cup {n} /\ slot'[n] = out.value
      /\ \A m \in Held : slot'[m] = slot[m]
  BY DEF Let, Idle, Held, InScope, CountInv, Types
<1>3. ASSUME NEW o \in Objects
      PROVE  count'[o] - count[o] = Cardinality(Locals(o)') - Cardinality(Locals(o))
  <2>1. Cardinality(Locals(o)') = Cardinality(Locals(o)) + Is(out.value, o)
    BY <1>2, LocalNew DEF CountInv
  <2>2. count[o] \in Int /\ Cardinality(Locals(o)) \in Nat /\ Is(out.value, o) \in Nat
    BY OwnersFinite DEF CountInv, Types, Is
  <2> QED
    BY <1>1, <2>1, <2>2 DEF Let
<1>4. level' \in [Names -> 0..MaxDepth] /\ \A m \in Names : level'[m] <= depth
  BY DEF Let, CountInv, Types, LocalsOpen
<1>5. managed' \subseteq Names /\ slot' \in [Names -> Values] /\ count' \in [Objects -> Int]
  BY <1>1 DEF Let, CountInv, Types
<1> QED
  BY <1>3, <1>4, <1>5, LocalStep, StaleTyped DEF Let

\* n = <expression>
LEMMA AssignStep ==
  ASSUME CountInv, NEW n \in Names, NEW out \in Outcomes, Assign(n, out)
  PROVE  CountInv' /\ Kept
<1>1. /\ out.value \in Values /\ out.counts \in [Objects -> Int]
      /\ \A o \in Objects : out.counts[o] = count[o] + Is(out.value, o)
  BY OutcomeCounts DEF CountInv
<1>2. n \in Held /\ Held' = Held /\ slot' = [slot EXCEPT ![n] = out.value] /\ slot[n] \in Values
  BY DEF Assign, blocks, Held, InScope, CountInv, Types
<1>3. count' \in [Objects -> Int]
      /\ \A o \in Objects : count'[o] = out.counts[o] - Is(slot[n], o)
  BY <1>1, <1>2, CountMoves DEF Assign
<1>4. ASSUME NEW o \in Objects
      PROVE  count'[o] - count[o] = Cardinality(Locals(o)') - Cardinality(Locals(o))
  <2>1. Cardinality(Locals(o)') = Cardinality(Locals(o)) - Is(slot[n], o) + Is(out.value, o)
    BY <1>2, LocalSet DEF CountInv
  <2>2. /\ count[o] \in Int /\ Cardinality(Locals(o)) \in Nat
        /\ Is(out.value, o) \in Nat /\ Is(slot[n], o) \in Nat
    BY OwnersFinite DEF CountInv, Types, Is
  <2> QED
    BY <1>1, <1>3, <2>1, <2>2
<1>5. UNCHANGED <<blocks, deferred, calling, temps, recovered, result>> /\ stale' \in BOOLEAN
  BY StaleTyped DEF Assign
<1>6. slot' \in [Names -> Values]
  BY <1>1, <1>2 DEF CountInv, Types
<1> QED
  BY <1>3, <1>4, <1>5, <1>6, LocalStep DEF blocks, CountInv, Types, LocalsOpen

\* DROP__(n), of a managed local
LEMMA DropStep ==
  ASSUME CountInv, GivesOwn, NEW n \in Names, Drop(n)
  PROVE  CountInv' /\ Kept
<1>1. n \in Held
  <2>1. n \in managed
    BY DEF Drop, MayDrop, GivesOwn
  <2>2. level[n] = depth /\ depth > 0
    BY DEF Drop, MayDrop, Idle
  <2> QED
    BY <2>1, <2>2 DEF Held, InScope, CountInv, Types
<1>2. Held' = Held /\ slot' = [slot EXCEPT ![n] = Nil] /\ slot[n] \in Values
  BY DEF Drop, blocks, Held, InScope, CountInv, Types
<1>3. count' \in [Objects -> Int]
      /\ \A o \in Objects : count'[o] = count[o] - Is(slot[n], o)
  BY <1>2, CountMoves DEF Drop, CountInv, Types
<1>4. ASSUME NEW o \in Objects
      PROVE  count'[o] - count[o] = Cardinality(Locals(o)') - Cardinality(Locals(o))
  <2>1. Cardinality(Locals(o)') = Cardinality(Locals(o)) - Is(slot[n], o) + Is(Nil, o)
    BY <1>1, <1>2, LocalSet DEF CountInv
  <2>2. /\ count[o] \in Int /\ Cardinality(Locals(o)) \in Nat
        /\ Is(Nil, o) = 0 /\ Is(slot[n], o) \in Nat
    BY OwnersFinite, NilAssumption DEF CountInv, Types, Is
  <2> QED
    BY <1>3, <2>1, <2>2
<1>5. UNCHANGED <<blocks, deferred, calling, temps, recovered, result>> /\ stale' \in BOOLEAN
  BY StaleTyped DEF Drop
<1>6. slot' \in [Names -> Values]
  BY <1>2 DEF CountInv, Types, Values
<1> QED
  BY <1>3, <1>4, <1>5, <1>6, LocalStep DEF blocks, CountInv, Types, LocalsOpen

\* A statement that only uses what a local holds.
LEMMA UseStep ==
  ASSUME CountInv, NEW n \in Names, Use(n)
  PROVE  CountInv' /\ Kept
<1>1. UNCHANGED <<blocks, slot, deferred, calling, temps, recovered, result, count>>
      /\ stale' \in BOOLEAN
  BY StaleTyped DEF Use
<1>2. ASSUME NEW o \in Objects
      PROVE  count'[o] - count[o] = Cardinality(Locals(o)') - Cardinality(Locals(o))
  <2>1. Cardinality(Locals(o)') = Cardinality(Locals(o))
    BY <1>1, LocalsSame DEF blocks, Held, InScope
  <2> QED
    BY <1>1, <2>1, OwnersFinite DEF CountInv, Types
<1> QED
  BY <1>1, <1>2, LocalStep DEF blocks, CountInv, Types, LocalsOpen

-----------------------------------------------------------------------------
(* Deferred calls, arguments and results *)

\* The counts follow the owners when captures, arguments or results change.
LEMMA CountsMove ==
  ASSUME CountInv, Types', Held' = Held, slot' = slot, result' = result,
         \A o \in Objects :
           /\ Cardinality(Captures(o)') \in Int /\ Cardinality(Arguments(o)') \in Int
           /\ Cardinality(Recoveries(o)') \in Int
           /\ count'[o] - count[o] =
                (Cardinality(Captures(o)') - Cardinality(Captures(o)))
                + (Cardinality(Arguments(o)') - Cardinality(Arguments(o)))
                + (Cardinality(Recoveries(o)') - Cardinality(Recoveries(o)))
  PROVE  Counts' /\ Kept
<1>1. ASSUME NEW o \in Objects
      PROVE  count'[o] - count[o] = Owners(o)' - Owners(o)
  <2>1. Cardinality(Locals(o)') = Cardinality(Locals(o))
    BY LocalsSame
  <2> QED
    BY <2>1, OwnersFinite DEF Owners, CountInv
<1> QED
  BY <1>1, CountsFollowExactly

\* What is captured for a deferred call has a reference of its own.
LEMMA DeferStep ==
  ASSUME CountInv, NEW out \in Outcomes, Defer(out)
  PROVE  CountInv' /\ Kept
<1>1. UNCHANGED <<blocks, slot, calling, temps, recovered, result>> /\ depth \in Levels
  BY BoundsAssumption DEF Defer, Idle, CountInv, Types, Levels
<1>2. /\ out.value \in Values /\ count' \in [Objects -> Int]
      /\ \A o \in Objects : count'[o] = count[o] + Is(out.value, o)
  BY OutcomeCounts DEF CountInv, Defer
<1>3. /\ deferred \in [Levels -> Seq(Values)] /\ Len(deferred[depth]) < MaxTemps
      /\ deferred' = [deferred EXCEPT ![depth] = Append(@, out.value)]
  BY DEF CountInv, Types, Defer
<1>4. deferred' \in [Levels -> Seq(Values)]
  BY <1>1, <1>2, <1>3
<1>5. Types'
  BY <1>1, <1>2, <1>4, StaleTyped DEF CountInv, Types, blocks, Defer
<1>6. Few'
  <2>1. Len(deferred'[depth]) <= MaxTemps
    BY <1>1, <1>2, <1>3, BoundsAssumption
  <2>2. \A k \in Levels : k # depth => deferred'[k] = deferred[k]
    BY <1>3
  <2> QED
    BY <1>1, <2>1, <2>2 DEF CountInv, Few
<1>7. LocalsOpen' /\ ClosedEmpty' /\ ArgsCalled'
  <2>1. \A k \in Levels : k > depth => deferred'[k] = deferred[k]
    BY <1>1, <1>3 DEF Levels
  <2> QED
    BY <1>1, <2>1 DEF CountInv, LocalsOpen, ClosedEmpty, ArgsCalled, blocks
<1>8. Counts' /\ Kept
  <2>1. ASSUME NEW o \in Objects
        PROVE  /\ Cardinality(Captures(o)') = Cardinality(Captures(o)) + Is(out.value, o)
               /\ Cardinality(Arguments(o)') = Cardinality(Arguments(o))
               /\ Cardinality(Recoveries(o)') = Cardinality(Recoveries(o))
    <3>1. Longer(deferred, deferred', depth, out.value)
      BY <1>3 DEF Longer
    <3>2. Cardinality(At(deferred', o)) = Cardinality(At(deferred, o)) + Is(out.value, o)
      <4>1. /\ deferred \in [Levels -> Seq(Values)] /\ Len(deferred[depth]) < MaxTemps
            /\ depth \in Levels /\ out.value \in Values
        BY <1>1, <1>2, <1>3
      <4> QED
        BY <3>1, <4>1, AtAppend
    <3>3. Captures(o) = At(deferred, o) /\ Captures(o)' = At(deferred', o)
      BY DEF Captures, At
    <3> QED
      BY <1>1, <3>2, <3>3, ArgumentsSame, RecoveriesSame
  <2>2. \A o \in Objects : Is(out.value, o) \in Int /\ count[o] \in Int
    BY DEF Is, CountInv, Types
  <2>3. Held' = Held /\ slot' = slot /\ result' = result
    BY <1>1 DEF Held, InScope, blocks
  <2> QED
    BY <1>2, <1>5, <2>1, <2>2, <2>3, OwnersFinite, CountsMove DEF CountInv
<1> QED
  BY <1>5, <1>6, <1>7, <1>8 DEF CountInv

LEMMA BeginCallStep ==
  ASSUME CountInv, BeginCall
  PROVE  CountInv' /\ Kept
<1>1. UNCHANGED <<blocks, slot, deferred, temps, recovered, result, count, stale>>
      /\ depth \in Levels /\ calling' = [calling EXCEPT ![depth] = TRUE]
  BY BoundsAssumption DEF BeginCall, Idle, CountInv, Types, Levels
<1>2. Types'
  BY <1>1 DEF CountInv, Types, blocks
<1>3. \A k \in Levels : k # depth => calling'[k] = calling[k]
  BY <1>1
<1>4. calling'[depth] = TRUE
  BY <1>1 DEF CountInv, Types
<1>5. LocalsOpen' /\ Few'
  BY <1>1 DEF CountInv, LocalsOpen, Few, blocks
<1>6. ClosedEmpty' /\ ArgsCalled'
  BY <1>1, <1>3, <1>4 DEF CountInv, ClosedEmpty, ArgsCalled, blocks, Levels
<1>7. Counts' /\ Kept
  BY <1>1, CountsUnmoved, <1>2 DEF blocks
<1> QED
  BY <1>2, <1>5, <1>6, <1>7 DEF CountInv

\* An argument that owns its value keeps the reference it came with.
LEMMA PassOwnedStep ==
  ASSUME CountInv, NEW out \in New, PassOwned(out)
  PROVE  CountInv' /\ Kept
<1>1. /\ UNCHANGED <<blocks, slot, deferred, calling, recovered, result, stale>>
      /\ depth \in Levels /\ calling[depth]
  BY BoundsAssumption DEF PassOwned, CountInv, Types, Levels
<1>2. /\ out.value \in Values /\ count' \in [Objects -> Int]
      /\ \A o \in Objects : count'[o] = count[o] + Is(out.value, o)
  BY OutcomeCounts DEF CountInv, PassOwned, Outcomes
<1>3. /\ temps \in [Levels -> Seq(Values)] /\ Len(temps[depth]) < MaxTemps
      /\ temps' = [temps EXCEPT ![depth] = Append(@, out.value)]
  BY DEF CountInv, Types, PassOwned
<1>4. temps' \in [Levels -> Seq(Values)]
  BY <1>1, <1>2, <1>3
<1>5. Types'
  BY <1>1, <1>2, <1>4 DEF CountInv, Types, blocks
<1>6. \A k \in Levels : k # depth => temps'[k] = temps[k]
  BY <1>3
<1>7. Len(temps'[depth]) <= MaxTemps
  BY <1>1, <1>2, <1>3, BoundsAssumption
<1>8. Few'
  BY <1>1, <1>6, <1>7 DEF CountInv, Few
<1>9. LocalsOpen' /\ ClosedEmpty' /\ ArgsCalled'
  BY <1>1, <1>6 DEF CountInv, LocalsOpen, ClosedEmpty, ArgsCalled, blocks
<1>10. Counts' /\ Kept
  <2>1. ASSUME NEW o \in Objects
        PROVE  /\ Cardinality(Arguments(o)') = Cardinality(Arguments(o)) + Is(out.value, o)
               /\ Cardinality(Captures(o)') = Cardinality(Captures(o))
               /\ Cardinality(Recoveries(o)') = Cardinality(Recoveries(o))
    <3>1. Longer(temps, temps', depth, out.value)
      BY <1>3 DEF Longer
    <3>2. Cardinality(At(temps', o)) = Cardinality(At(temps, o)) + Is(out.value, o)
      <4>1. /\ temps \in [Levels -> Seq(Values)] /\ Len(temps[depth]) < MaxTemps
            /\ depth \in Levels /\ out.value \in Values
        BY <1>1, <1>2, <1>3
      <4> QED
        BY <3>1, <4>1, AtAppend
    <3>3. Arguments(o) = At(temps, o) /\ Arguments(o)' = At(temps', o)
      BY DEF Arguments, At
    <3> QED
      BY <1>1, <3>2, <3>3, CapturesSame, RecoveriesSame
  <2>2. \A o \in Objects : Is(out.value, o) \in Int /\ count[o] \in Int
    BY DEF Is, CountInv, Types
  <2>3. Held' = Held /\ slot' = slot /\ result' = result
    BY <1>1 DEF Held, InScope, blocks
  <2> QED
    BY <1>2, <1>5, <2>1, <2>2, <2>3, OwnersFinite, CountsMove DEF CountInv
<1> QED
  BY <1>5, <1>8, <1>9, <1>10 DEF CountInv

\* A call releases its owned arguments.
LEMMA EndCallStep ==
  ASSUME CountInv, EndCall
  PROVE  CountInv' /\ Kept
<1>1. /\ UNCHANGED <<blocks, slot, deferred, recovered, result>> /\ stale' \in BOOLEAN
      /\ depth \in Levels /\ calling' = [calling EXCEPT ![depth] = FALSE]
      /\ temps' = [temps EXCEPT ![depth] = <<>>]
  BY BoundsAssumption, StaleTyped DEF EndCall, CountInv, Types, Levels
<1>2. temps \in [Levels -> Seq(Values)] /\ temps' \in [Levels -> Seq(Values)]
  BY <1>1 DEF CountInv, Types
<1>3. /\ temps'[depth] = <<>> /\ \A k \in Levels : k # depth => temps'[k] = temps[k]
      /\ calling'[depth] = FALSE /\ \A k \in Levels : k # depth => calling'[k] = calling[k]
  BY <1>1, <1>2 DEF CountInv, Types
<1>4. ASSUME NEW o \in Objects
      PROVE  /\ Cardinality(Arguments(o)') = Cardinality(Arguments(o)) + (count'[o] - count[o])
             /\ count'[o] \in Int
  <2> DEFINE gone == {at \in At(temps, o) : at[1] \in {depth}}
  <2>1. /\ Cardinality(At(temps', o)) = Cardinality(At(temps, o)) - Cardinality(gone)
        /\ Cardinality(gone) \in Nat
    <3>1. Cleared(temps, temps', {depth})
      BY <1>3 DEF Cleared
    <3>2. PICK K \in SUBSET Levels : K = {depth}
      BY <1>1
    <3> QED
      BY <1>2, <3>1, <3>2, AtClear
  <2>2. Arguments(o) = At(temps, o) /\ Arguments(o)' = At(temps', o)
    BY DEF Arguments, At
  <2>3. gone = {at \in Arguments(o) : at[1] = depth}
    BY <2>2
  <2> HIDE DEF gone
  <2>4. count'[o] = count[o] - Cardinality(gone) /\ count[o] \in Int
    BY <2>3 DEF EndCall, CountInv, Types
  <2> QED
    BY <2>1, <2>2, <2>4, OwnersFinite DEF CountInv
<1>5. count' \in [Objects -> Int]
  BY <1>4 DEF EndCall
<1>6. Types'
  BY <1>1, <1>2, <1>5 DEF CountInv, Types, blocks
<1>7. Few'
  BY <1>1, <1>3, BoundsAssumption DEF CountInv, Few
<1>8. LocalsOpen' /\ ClosedEmpty' /\ ArgsCalled'
  BY <1>1, <1>3 DEF CountInv, LocalsOpen, ClosedEmpty, ArgsCalled, blocks
<1>9. Counts' /\ Kept
  <2>1. \A o \in Objects : /\ Cardinality(Captures(o)') = Cardinality(Captures(o))
                           /\ Cardinality(Recoveries(o)') = Cardinality(Recoveries(o))
    BY <1>1, CapturesSame, RecoveriesSame
  <2>2. \A o \in Objects : count[o] \in Int
    BY DEF CountInv, Types
  <2>3. Held' = Held /\ slot' = slot /\ result' = result
    BY <1>1 DEF Held, InScope, blocks
  <2> QED
    BY <1>4, <1>6, <2>1, <2>2, <2>3, OwnersFinite, CountsMove DEF CountInv
<1> QED
  BY <1>6, <1>7, <1>8, <1>9 DEF CountInv

-----------------------------------------------------------------------------
(* Blocks *)

\* A block is opened that declares nothing.
LEMMA PushStep ==
  ASSUME CountInv, NEW what \in {"branch", "loop", "handler", "condition", "if_let"}, Push(what)
  PROVE  /\ depth \in Levels /\ depth + 1 \in Levels /\ depth' = depth + 1
         /\ depth' \in 0..MaxDepth
         /\ kind' \in [Levels -> {"body", "branch", "loop", "if_let", "handler", "condition"}]
         /\ result' = result /\ result = Nil
         /\ ClosedEmpty' /\ ArgsCalled' /\ Few'
         /\ UNCHANGED <<deferred, calling, temps, recovered>>
<1>1. /\ depth \in Levels /\ depth + 1 \in Levels /\ depth' = depth + 1
      /\ depth' \in 0..MaxDepth
  BY BoundsAssumption DEF Push, CountInv, Types, Levels
<1>2. kind' \in [Levels -> {"body", "branch", "loop", "if_let", "handler", "condition"}]
  BY DEF Push, CountInv, Types
<1>3. result' = result /\ result = Nil
  BY DEF Push, CountInv, LocalsOpen
<1>4. \A k \in Levels : k > depth' => k > depth
  BY <1>1 DEF Levels
<1>5. ClosedEmpty'
  BY <1>4 DEF Push, CountInv, ClosedEmpty
<1>6. ArgsCalled' /\ Few'
  BY DEF Push, CountInv, ArgsCalled, Few
<1> QED
  BY <1>1, <1>2, <1>3, <1>5, <1>6 DEF Push

LEMMA OpenBlockStep ==
  ASSUME CountInv, NEW what \in {"branch", "loop"}, OpenBlock(what)
  PROVE  CountInv' /\ Kept
<1>1. Push(what) /\ UNCHANGED <<level, managed, slot, count, stale>>
  BY DEF OpenBlock
<1>2. /\ depth \in Levels /\ depth' = depth + 1 /\ depth' \in 0..MaxDepth
      /\ kind' \in [Levels -> {"body", "branch", "loop", "if_let", "handler", "condition"}]
      /\ result' = result /\ result = Nil /\ ClosedEmpty' /\ ArgsCalled' /\ Few'
      /\ UNCHANGED <<deferred, calling, temps, recovered>>
  BY <1>1, PushStep
<1>3. Types'
  BY <1>1, <1>2 DEF CountInv, Types
<1>4. LocalsOpen'
  BY <1>1, <1>2 DEF CountInv, LocalsOpen, Types, Levels
<1>5. Counts' /\ Kept
  BY <1>1, <1>2, <1>3, CountsUnmoved
<1> QED
  BY <1>2, <1>3, <1>4, <1>5 DEF CountInv

\* The error is a managed local of the handler.
LEMMA OpenHandlerStep ==
  ASSUME CountInv, NEW what \in {"handler", "condition"}, NEW n \in Names, NEW out \in Errors,
         OpenHandler(what, n, out)
  PROVE  CountInv' /\ Kept
<1>1. /\ Push(what) /\ level' = [level EXCEPT ![n] = depth + 1] /\ ~InScope(n)
      /\ managed' = managed \cup {n} /\ slot' = [slot EXCEPT ![n] = out.value]
      /\ stale' = stale /\ count' = out.counts
  BY DEF OpenHandler
<1>2. /\ depth \in Levels /\ depth + 1 \in Levels /\ depth' = depth + 1
      /\ depth' \in 0..MaxDepth
      /\ kind' \in [Levels -> {"body", "branch", "loop", "if_let", "handler", "condition"}]
      /\ result' = result /\ result = Nil /\ ClosedEmpty' /\ ArgsCalled' /\ Few'
      /\ UNCHANGED <<deferred, calling, temps, recovered>>
  BY <1>1, PushStep
<1>3. /\ out.value \in Values /\ out.counts \in [Objects -> Int]
      /\ \A o \in Objects : out.counts[o] = count[o] + Is(out.value, o)
  BY OutcomeCounts DEF CountInv, Outcomes, Errors
<1>4. level' \in [Names -> 0..MaxDepth]
  BY <1>1, <1>2 DEF CountInv, Types, Levels
<1>5. Types'
  BY <1>1, <1>2, <1>3, <1>4 DEF CountInv, Types
<1>6. LocalsOpen'
  <2>1. \A m \in Names : level'[m] <= depth + 1
    BY <1>1, <1>2 DEF CountInv, LocalsOpen, Types, Levels
  <2> QED
    BY <1>2, <2>1 DEF LocalsOpen
<1>7. n \notin Held /\ Held' = Held \cup {n} /\ slot'[n] = out.value
      /\ \A m \in Held : slot'[m] = slot[m]
  BY <1>1, <1>2 DEF Held, InScope, CountInv, Types, Levels
<1>8. ASSUME NEW o \in Objects
      PROVE  count'[o] - count[o] = Owners(o)' - Owners(o)
  <2>1. Cardinality(Locals(o)') = Cardinality(Locals(o)) + Is(out.value, o)
    BY <1>7, LocalNew DEF CountInv
  <2>2. /\ Cardinality(Captures(o)') = Cardinality(Captures(o))
        /\ Cardinality(Arguments(o)') = Cardinality(Arguments(o))
        /\ Cardinality(Recoveries(o)') = Cardinality(Recoveries(o))
    BY <1>2, CapturesSame, ArgumentsSame, RecoveriesSame
  <2>3. count[o] \in Int /\ Is(out.value, o) \in Int
    BY DEF CountInv, Types, Is
  <2>4. Owners(o)' - Owners(o) = Is(out.value, o)
    BY <1>2, <2>1, <2>2, <2>3, OwnersFinite DEF Owners, CountInv
  <2> QED
    BY <1>1, <1>3, <2>3, <2>4
<1>9. Counts' /\ Kept
  BY <1>5, <1>8, CountsFollowExactly
<1> QED
  BY <1>2, <1>5, <1>6, <1>9 DEF CountInv

\* The body of an `if let` has a binding that owns nothing, so that a new object
\* has a reference too many.
LEMMA OpenIfLetStep ==
  ASSUME CountInv, NEW n \in Names, NEW out \in New \cup Copies, OpenIfLet(n, out)
  PROVE  CountInv' /\ Kept /\ (out \in New => Surplus'[out.value] > 0)
<1>1. /\ Push("if_let") /\ level' = [level EXCEPT ![n] = depth + 1] /\ ~InScope(n)
      /\ managed' = managed \ {n} /\ slot' = [slot EXCEPT ![n] = out.value]
      /\ stale' \in BOOLEAN
  BY StaleTyped DEF OpenIfLet
<1>2. /\ depth \in Levels /\ depth + 1 \in Levels /\ depth' = depth + 1
      /\ depth' \in 0..MaxDepth
      /\ kind' \in [Levels -> {"body", "branch", "loop", "if_let", "handler", "condition"}]
      /\ result' = result /\ result = Nil /\ ClosedEmpty' /\ ArgsCalled' /\ Few'
      /\ UNCHANGED <<deferred, calling, temps, recovered>>
  BY <1>1, PushStep
<1>3. /\ out.value \in Values /\ out.counts \in [Objects -> Int]
      /\ \A o \in Objects : out.counts[o] = count[o] + Is(out.value, o)
  BY OutcomeCounts DEF CountInv, Outcomes
<1>4. /\ out \in New => "iflet_owned" \in Shapes /\ count' = out.counts
      /\ out \notin New => count' = count
  BY DEF OpenIfLet
<1>5. level' \in [Names -> 0..MaxDepth]
  BY <1>1, <1>2 DEF CountInv, Types, Levels
<1>6. Types'
  <2>1. count' \in [Objects -> Int]
    BY <1>3, <1>4 DEF CountInv, Types
  <2> QED
    BY <1>1, <1>2, <1>3, <1>5, <2>1 DEF CountInv, Types
<1>7. LocalsOpen'
  <2>1. \A m \in Names : level'[m] <= depth + 1
    BY <1>1, <1>2 DEF CountInv, LocalsOpen, Types, Levels
  <2> QED
    BY <1>2, <2>1 DEF LocalsOpen
<1>8. Held' = Held /\ \A m \in Held : slot'[m] = slot[m]
  BY <1>1 DEF Held, InScope, CountInv, Types
<1>9. ASSUME NEW o \in Objects
      PROVE  Owners(o)' = Owners(o) /\ Owners(o) \in Nat /\ Is(out.value, o) \in Nat
  <2>1. Cardinality(Locals(o)') = Cardinality(Locals(o))
    BY <1>8, LocalsSame
  <2>2. /\ Cardinality(Captures(o)') = Cardinality(Captures(o))
        /\ Cardinality(Arguments(o)') = Cardinality(Arguments(o))
        /\ Cardinality(Recoveries(o)') = Cardinality(Recoveries(o))
    BY <1>2, CapturesSame, ArgumentsSame, RecoveriesSame
  <2> QED
    BY <1>2, <2>1, <2>2, OwnersFinite DEF Owners, CountInv, Is
<1>10. Counts' /\ Kept
  <2>1. ASSUME NEW o \in Objects
        PROVE  /\ count'[o] - count[o] >= Owners(o)' - Owners(o)
               /\ NothingLost => count'[o] - count[o] = Owners(o)' - Owners(o)
    <3>1. count[o] \in Int /\ Owners(o)' - Owners(o) = 0
      BY <1>9 DEF CountInv, Types
    <3>2. CASE out \in New
      BY <1>3, <1>9, <1>4, <3>1, <3>2 DEF NothingLost
    <3>3. CASE out \notin New
      BY <1>4, <3>1, <3>3
    <3> QED
      BY <3>2, <3>3
  <2> QED
    BY <1>6, <2>1, CountsFollow
<1>11. ASSUME out \in New PROVE Surplus'[out.value] > 0
  <2>1. PICK o \in Objects : out.value = o
    BY <1>11 DEF New, Fresh
  <2>2. count'[o] = count[o] + 1 /\ count[o] \in Int
    BY <1>3, <1>4, <1>11, <2>1 DEF Is, CountInv, Types
  <2>3. Owners(o)' = Owners(o) /\ Owners(o) \in Nat
    BY <1>9
  <2>4. Surplus[o] >= 0
    BY DEF CountInv, Counts
  <2>5. Surplus'[o] > 0
    BY <2>2, <2>3, <2>4 DEF Surplus
  <2>6. Surplus'[out.value] = Surplus'[o]
    BY <1>1, <2>1 DEF Surplus, Owners, Locals, Captures, Arguments, Recoveries
  <2> QED
    BY <2>5, <2>6
<1> QED
  BY <1>2, <1>6, <1>7, <1>10, <1>11 DEF CountInv

\* A result, which may take the place of another.
LEMMA ResultSet ==
  ASSUME Types, NEW h \in Levels, NEW v, NEW o, recovered' = [recovered EXCEPT ![h] = v]
  PROVE  Cardinality(Recoveries(o)') = Cardinality(Recoveries(o)) - Is(recovered[h], o) + Is(v, o)
<1>1. recovered'[h] = v /\ \A j \in Levels \ {h} : recovered'[j] = recovered[j]
  BY DEF Types
<1>2. PICK R \in SUBSET Levels : R = {j \in Levels \ {h} : recovered[j] = o}
  OBVIOUS
<1>3. h \notin R /\ IsFiniteSet(R) /\ Cardinality(R) \in Nat
  <2>1. IsFiniteSet(1..MaxDepth)
    BY BoundsAssumption, FS_Interval
  <2> QED
    BY <1>2, <2>1, FS_Subset, FS_CardinalityType DEF Levels
<1>4. Cardinality(R \cup {h}) = Cardinality(R) + 1
  BY <1>3, CardAdd
<1>5. Cardinality(Recoveries(o)) = Cardinality(R) + Is(recovered[h], o)
  <2>1. CASE recovered[h] = o
    <3>1. Recoveries(o) = R \cup {h}
      BY <1>2, <2>1 DEF Recoveries
    <3>2. Cardinality(Recoveries(o)) = Cardinality(R \cup {h})
      BY <3>1, Zenon
    <3> QED
      BY <1>4, <2>1, <3>2 DEF Is
  <2>2. CASE recovered[h] # o
    <3>1. Recoveries(o) = R
      BY <1>2, <2>2 DEF Recoveries
    <3> QED
      BY <1>3, <2>2, <3>1 DEF Is
  <2> QED
    BY <2>1, <2>2
<1>6. Cardinality(Recoveries(o)') = Cardinality(R) + Is(v, o)
  <2>1. CASE v = o
    <3>1. Recoveries(o)' = R \cup {h}
      BY <1>1, <1>2, <2>1 DEF Recoveries
    <3>2. Cardinality(Recoveries(o)') = Cardinality(R \cup {h})
      BY <3>1, Zenon
    <3> QED
      BY <1>4, <2>1, <3>2 DEF Is
  <2>2. CASE v # o
    <3>1. Recoveries(o)' = R
      BY <1>1, <1>2, <2>2 DEF Recoveries
    <3> QED
      BY <1>3, <2>2, <3>1 DEF Is
  <2> QED
    BY <2>1, <2>2
<1> QED
  BY <1>3, <1>5, <1>6 DEF Is

\* The result of a handler; one that it had before is lost.
LEMMA RecoverStep ==
  ASSUME CountInv, NEW h \in Levels, NEW out \in Outcomes, Recover(h, out)
  PROVE  CountInv' /\ Kept
<1>1. /\ UNCHANGED <<blocks, slot, deferred, calling, temps, result>> /\ h <= depth
      /\ recovered' = [recovered EXCEPT ![h] = out.value] 
      /\ recovered[h] # Nil => "recover_early" \in Shapes
      /\ stale' \in BOOLEAN
  BY StaleTyped DEF Recover
<1>2. /\ out.value \in Values /\ count' \in [Objects -> Int]
      /\ \A o \in Objects : count'[o] = count[o] + Is(out.value, o)
  BY OutcomeCounts DEF CountInv, Recover
<1>3. recovered \in [Levels -> Values] /\ recovered' \in [Levels -> Values]
  BY <1>1, <1>2 DEF CountInv, Types
<1>4. Types'
  BY <1>1, <1>2, <1>3 DEF CountInv, Types, blocks
<1>5. recovered'[h] = out.value /\ \A k \in Levels : k # h => recovered'[k] = recovered[k]
  BY <1>1, <1>3
<1>6. LocalsOpen' /\ ArgsCalled' /\ Few'
  BY <1>1 DEF CountInv, LocalsOpen, ArgsCalled, Few, blocks
<1>7. ClosedEmpty'
  <2>1. \A k \in Levels : k > depth => k # h
    BY <1>1 DEF Levels, CountInv, Types
  <2> QED
    BY <1>1, <1>5, <2>1 DEF CountInv, ClosedEmpty, blocks
<1>8. ASSUME NEW o \in Objects
      PROVE  /\ count'[o] - count[o] >= Owners(o)' - Owners(o)
             /\ NothingLost => count'[o] - count[o] = Owners(o)' - Owners(o)
  <2>1. Cardinality(Recoveries(o)') =
          Cardinality(Recoveries(o)) - Is(recovered[h], o) + Is(out.value, o)
    BY <1>1, ResultSet DEF CountInv
  <2>2. /\ Cardinality(Captures(o)') = Cardinality(Captures(o))
        /\ Cardinality(Arguments(o)') = Cardinality(Arguments(o))
    BY <1>1, CapturesSame, ArgumentsSame
  <2>3. Cardinality(Locals(o)') = Cardinality(Locals(o))
    BY <1>1, LocalsSame DEF Held, InScope, blocks
  <2>4. Owners(o)' - Owners(o) = Is(out.value, o) - Is(recovered[h], o)
    BY <1>1, <2>1, <2>2, <2>3, OwnersFinite DEF Owners, CountInv, Is
  <2>5. count[o] \in Int /\ Is(out.value, o) \in Int /\ Is(recovered[h], o) \in Nat
    BY DEF Is, CountInv, Types
  <2>6. NothingLost => Is(recovered[h], o) = 0
    BY <1>1, NilAssumption DEF NothingLost, Is
  <2>7. count'[o] - count[o] = Is(out.value, o)
    BY <1>2, <2>5
  <2> HIDE DEF NothingLost
  <2> QED
    BY <2>4, <2>5, <2>6, <2>7
<1>9. Counts' /\ Kept
  BY <1>4, <1>8, CountsFollow
<1> QED
  BY <1>4, <1>6, <1>7, <1>9 DEF CountInv

-----------------------------------------------------------------------------
(* Ways out of blocks *)

\* cleanup_lines releases what leaves the scope, no more and no less.
LEMMA LeaveLocals ==
  ASSUME CountInv, NEW k \in Levels, LeaveTo(k), NEW o \in Objects
  PROVE  /\ Cardinality(Locals(o)') =
              Cardinality(Locals(o)) - Cardinality(Locals(o) \cap ManagedFrom(k))
         /\ Cardinality(Locals(o) \cap ManagedFrom(k)) \in Nat
<1>1. /\ managed' = managed
      /\ \A n \in Names : /\ level[n] \in Nat /\ level'[n] = (IF level[n] >= k THEN 0 ELSE level[n])
                          /\ slot'[n] = (IF level[n] >= k THEN Nil ELSE slot[n])
  BY DEF LeaveTo, CountInv, Types
<1>2. k \in Nat /\ k > 0 /\ managed \subseteq Names
  BY BoundsAssumption DEF Levels, CountInv, Types
<1>3. ASSUME NEW n \in Names
      PROVE  n \in Locals(o)' <=> n \in Locals(o) /\ n \notin ManagedFrom(k)
  <2>1. CASE level[n] >= k
    BY <1>1, <1>2, <2>1 DEF Locals, Held, InScope, ManagedFrom
  <2>2. CASE ~(level[n] >= k)
    BY <1>1, <1>2, <2>2 DEF Locals, Held, InScope, ManagedFrom
  <2> QED
    BY <2>1, <2>2
<1>4. PICK T \in SUBSET Locals(o) : T = Locals(o) \cap ManagedFrom(k)
  OBVIOUS
<1>5. Locals(o)' \subseteq Names /\ Locals(o) \subseteq Names
  BY <1>1, <1>2 DEF Locals, Held
<1>6. \A n \in Names : n \in Locals(o)' <=> n \in Locals(o) \ T
  BY <1>3, <1>4
<1>7. Locals(o)' = Locals(o) \ T
  BY <1>5, <1>6, Zenon
<1> QED
  BY <1>4, <1>7, OwnersFinite, CardSplit DEF CountInv

LEMMA LeaveCaptures ==
  ASSUME CountInv, NEW k \in Levels, LeaveTo(k), NEW o \in Objects
  PROVE  /\ Cardinality(Captures(o)') =
              Cardinality(Captures(o)) - Cardinality({at \in Captures(o) : at[1] >= k})
         /\ Cardinality({at \in Captures(o) : at[1] >= k}) \in Nat
<1>1. PICK K \in SUBSET Levels : K = {j \in Levels : j >= k}
  OBVIOUS
<1>2. deferred \in [Levels -> Seq(Values)] /\ Cleared(deferred, deferred', K)
  BY <1>1 DEF CountInv, Types, LeaveTo, Cleared
<1>3. PICK gone : gone = {at \in At(deferred, o) : at[1] \in K}
  OBVIOUS
<1>4. /\ Cardinality(At(deferred', o)) = Cardinality(At(deferred, o)) - Cardinality(gone)
      /\ Cardinality(gone) \in Nat
  BY <1>2, <1>3, AtClear
<1>5. Captures(o) = At(deferred, o) /\ Captures(o)' = At(deferred', o)
  BY DEF Captures, At
<1>6. gone = {at \in Captures(o) : at[1] >= k}
  <2>1. \A at \in Captures(o) : at[1] \in Levels
    BY DEF Captures, Slots
  <2> QED
    BY <1>1, <1>3, <1>5, <2>1
<1> QED
  BY <1>4, <1>5, <1>6

\* The counts that cleanup_lines leaves.
LEMMA LeaveCounts ==
  ASSUME CountInv, NEW k \in Levels, LeaveTo(k), NEW c \in [Objects -> Int]
  PROVE  /\ Cleanup(c, k) \in [Objects -> Int]
         /\ \A o \in Objects :
              /\ Cardinality(Locals(o)') \in Int /\ Cardinality(Captures(o)') \in Int
              /\ Cleanup(c, k)[o] - c[o] =
                   (Cardinality(Locals(o)') - Cardinality(Locals(o)))
                   + (Cardinality(Captures(o)') - Cardinality(Captures(o)))
<1>1. \A o \in Objects :
        Cleanup(c, k)[o] = c[o] - Cardinality({at \in Captures(o) : at[1] >= k})
                                - Cardinality(Locals(o) \cap ManagedFrom(k))
  BY DEF Cleanup
<1>2. \A o \in Objects : /\ Cardinality({at \in Captures(o) : at[1] >= k}) \in Nat
                         /\ Cardinality(Locals(o) \cap ManagedFrom(k)) \in Nat
  BY LeaveLocals, LeaveCaptures
<1>3. Cleanup(c, k) \in [Objects -> Int]
  BY <1>2 DEF Cleanup
<1>4. ASSUME NEW o \in Objects
      PROVE  /\ Cardinality(Locals(o)') \in Int /\ Cardinality(Captures(o)') \in Int
             /\ Cleanup(c, k)[o] - c[o] =
                   (Cardinality(Locals(o)') - Cardinality(Locals(o)))
                   + (Cardinality(Captures(o)') - Cardinality(Captures(o)))
  <2>1. Cardinality(Locals(o)) \in Nat /\ Cardinality(Captures(o)) \in Nat /\ c[o] \in Int
    BY OwnersFinite DEF CountInv
  <2>2. /\ Cardinality(Locals(o)') =
             Cardinality(Locals(o)) - Cardinality(Locals(o) \cap ManagedFrom(k))
        /\ Cardinality(Captures(o)') =
             Cardinality(Captures(o)) - Cardinality({at \in Captures(o) : at[1] >= k})
    BY LeaveLocals, LeaveCaptures
  <2> QED
    BY <1>1, <1>2, <2>1, <2>2
<1> QED
  BY <1>3, <1>4

\* The blocks from k inwards are closed.
LEMMA LeaveTables ==
  ASSUME CountInv, NEW k \in Levels, k <= depth, LeaveTo(k)
  PROVE  /\ depth' \in 0..MaxDepth /\ depth' = k - 1
         /\ level' \in [Names -> 0..MaxDepth] /\ slot' \in [Names -> Values]
         /\ deferred' \in [Levels -> Seq(Values)] /\ calling' \in [Levels -> BOOLEAN]
         /\ recovered' \in [Levels -> Values] /\ kind' = kind /\ managed' = managed
         /\ \A n \in Names : level'[n] <= depth'
         /\ ClosedEmpty'
         /\ \A j \in Levels : Len(deferred'[j]) <= MaxTemps
<1>1. k \in 1..MaxDepth /\ depth \in 0..MaxDepth
  BY DEF Levels, CountInv, Types
<1>2. depth' \in 0..MaxDepth /\ depth' = k - 1 /\ kind' = kind /\ managed' = managed
  BY <1>1, BoundsAssumption DEF LeaveTo
<1>3. level' \in [Names -> 0..MaxDepth] /\ slot' \in [Names -> Values]
  BY BoundsAssumption DEF LeaveTo, CountInv, Types, Values
<1>4. deferred' \in [Levels -> Seq(Values)] /\ recovered' \in [Levels -> Values]
  BY DEF LeaveTo, CountInv, Types, Values
<1>5. calling' \in [Levels -> BOOLEAN]
  BY DEF LeaveTo, CountInv, Types
<1>6. \A n \in Names : level'[n] <= depth'
  BY <1>1, <1>2, BoundsAssumption DEF LeaveTo, CountInv, Types
<1>7. ClosedEmpty'
  <2>1. \A j \in Levels : j > depth' => j >= k
    BY <1>1, <1>2 DEF Levels
  <2>2. \A j \in Levels : j >= k => deferred'[j] = <<>> /\ recovered'[j] = Nil /\ ~calling'[j]
    <3> SUFFICES ASSUME NEW j \in Levels, j >= k
                 PROVE  deferred'[j] = <<>> /\ recovered'[j] = Nil /\ ~calling'[j]
      OBVIOUS
    <3>1. ~(j < k)
      BY <1>1 DEF Levels
    <3>2. calling'[j] = FALSE
      BY <3>1 DEF LeaveTo
    <3> QED
      BY <3>2 DEF LeaveTo
  <2> QED
    BY <2>1, <2>2 DEF ClosedEmpty
<1>8. \A j \in Levels : Len(deferred'[j]) <= MaxTemps
  BY BoundsAssumption DEF LeaveTo, CountInv, Few
<1> QED
  BY <1>2, <1>3, <1>4, <1>5, <1>6, <1>7, <1>8

\* What is abandoned in the middle of a statement has neither arguments nor
\* results, or they are lost.
LEMMA LeaveArguments ==
  ASSUME CountInv, NEW k \in Levels, Abandon(k), NEW o \in Objects
  PROVE  /\ temps' \in [Levels -> Seq(Values)]
         /\ \A j \in Levels : IF j >= k THEN temps'[j] = <<>> ELSE temps'[j] = temps[j]
         /\ Cardinality(Arguments(o)') \in Nat
         /\ Cardinality(Arguments(o)') <= Cardinality(Arguments(o))
         /\ NothingLost => Cardinality(Arguments(o)') = Cardinality(Arguments(o))
<1>1. PICK K \in SUBSET Levels : K = {j \in Levels : j >= k}
  OBVIOUS
<1>2. /\ temps' \in [Levels -> Seq(Values)] /\ temps \in [Levels -> Seq(Values)]
      /\ \A j \in Levels : IF j >= k THEN temps'[j] = <<>> ELSE temps'[j] = temps[j]
  BY DEF Abandon, CountInv, Types
<1>3. Cleared(temps, temps', K)
  BY <1>1, <1>2 DEF Cleared
<1>4. PICK gone : gone = {at \in At(temps, o) : at[1] \in K}
  OBVIOUS
<1>5. /\ Cardinality(At(temps', o)) = Cardinality(At(temps, o)) - Cardinality(gone)
      /\ Cardinality(gone) \in Nat
  <2>1. PICK f : f = temps
    OBVIOUS
  <2>2. PICK g : g = temps'
    OBVIOUS
  <2>3. f \in [Levels -> Seq(Values)] /\ Cleared(f, g, K) /\ gone = {at \in At(f, o) : at[1] \in K}
    BY <1>2, <1>3, <1>4, <2>1, <2>2
  <2>4. Cardinality(At(g, o)) = Cardinality(At(f, o)) - Cardinality(gone) /\ Cardinality(gone) \in Nat
    BY <2>3, AtClear
  <2> QED
    BY <2>1, <2>2, <2>4
<1>6. Arguments(o) = At(temps, o) /\ Arguments(o)' = At(temps', o)
  BY DEF Arguments, At
<1>7. Cardinality(At(temps', o)) \in Nat /\ Cardinality(At(temps, o)) \in Nat
  BY AtFinite
<1>8. ASSUME NothingLost PROVE Cardinality(gone) = 0
  <2>1. \A j \in K : temps[j] = <<>>
    BY <1>1, <1>8 DEF Abandon, NothingLost
  <2>2. gone = {}
    BY <1>4, <2>1 DEF At
  <2> QED
    BY <2>2, FS_EmptySet
<1>9. /\ Cardinality(Arguments(o)') = Cardinality(Arguments(o)) - Cardinality(gone)
      /\ Cardinality(Arguments(o)') \in Nat /\ Cardinality(Arguments(o)) \in Nat
  BY <1>5, <1>6, <1>7
<1> QED
  BY <1>2, <1>5, <1>8, <1>9

LEMMA LeaveResults ==
  ASSUME CountInv, NEW k \in Levels, Abandon(k), NEW o \in Objects
  PROVE  /\ Cardinality(Recoveries(o)') \in Nat
         /\ Cardinality(Recoveries(o)') <= Cardinality(Recoveries(o))
         /\ NothingLost => Cardinality(Recoveries(o)') = Cardinality(Recoveries(o))
<1>1. \A j \in Levels : recovered'[j] = IF j >= k THEN Nil ELSE recovered[j]
  BY DEF Abandon, LeaveTo
<1>2. PICK T \in SUBSET Recoveries(o) : T = {j \in Recoveries(o) : j >= k}
  OBVIOUS
<1>3. \A j \in Levels : j \in Recoveries(o)' <=> j \in Recoveries(o) \ T
  BY <1>1, <1>2, NilAssumption DEF Recoveries
<1>4. Recoveries(o)' = Recoveries(o) \ T
  BY <1>3 DEF Recoveries
<1>5. /\ Cardinality(Recoveries(o) \ T) = Cardinality(Recoveries(o)) - Cardinality(T)
      /\ Cardinality(Recoveries(o)) \in Nat /\ Cardinality(T) \in Nat
      /\ Cardinality(Recoveries(o) \ T) \in Nat
  <2>1. IsFiniteSet(Recoveries(o))
    BY OwnersFinite DEF CountInv
  <2> QED
    BY <2>1, CardSplit, FS_CardinalityType
<1>6. ASSUME NothingLost PROVE Cardinality(T) = 0
  <2>1. \A j \in Levels : j >= k => recovered[j] = Nil
    BY <1>6 DEF Abandon, NothingLost
  <2>2. T = {}
    BY <1>2, <2>1, NilAssumption DEF Recoveries
  <2> QED
    BY <2>2, FS_EmptySet
<1>7. Cardinality(Recoveries(o)') = Cardinality(Recoveries(o) \ T)
  BY <1>4, Zenon
<1> QED
  BY <1>5, <1>6, <1>7

\* The result of the handler that ends.
LEMMA LeaveResult ==
  ASSUME CountInv, depth \in Levels, LeaveTo(depth), NEW o \in Objects
  PROVE  /\ Cardinality(Recoveries(o)') = Cardinality(Recoveries(o)) - Is(recovered[depth], o)
         /\ Cardinality(Recoveries(o)) \in Nat /\ Is(recovered[depth], o) \in Nat
<1>1. depth \in Int
  BY DEF Levels
<1>2. \A j \in Levels : recovered'[j] = IF j = depth THEN Nil ELSE recovered[j]
  <2> SUFFICES ASSUME NEW j \in Levels PROVE recovered'[j] = IF j = depth THEN Nil ELSE recovered[j]
    OBVIOUS
  <2>1. recovered'[j] = IF j >= depth THEN Nil ELSE recovered[j]
    BY DEF LeaveTo
  <2>2. j > depth => recovered[j] = Nil
    BY DEF CountInv, ClosedEmpty
  <2> QED
    BY <1>1, <2>1, <2>2 DEF Levels
<1>3. CASE recovered[depth] = o
  <2>1. PICK T \in SUBSET Recoveries(o) : T = {depth}
    BY <1>3 DEF Recoveries
  <2>2. \A j \in Levels : j \in Recoveries(o)' <=> j \in Recoveries(o) \ T
    BY <1>2, <2>1, NilAssumption DEF Recoveries
  <2>3. Recoveries(o)' = Recoveries(o) \ T
    BY <2>2 DEF Recoveries
  <2>4. Cardinality(T) = 1
    BY <2>1, FS_Singleton
  <2> QED
    BY <1>3, <2>3, <2>4, OwnersFinite, CardSplit DEF CountInv, Is
<1>4. CASE recovered[depth] # o
  <2>1. Recoveries(o)' = Recoveries(o)
    BY <1>2, <1>4, NilAssumption DEF Recoveries
  <2> QED
    BY <1>4, <2>1, OwnersFinite DEF CountInv, Is
<1> QED
  BY <1>3, <1>4

\* The end of a block.
LEMMA CloseStep ==
  ASSUME CountInv, Close
  PROVE  CountInv' /\ Kept
<1> DEFINE got == recovered[depth]
           passed == calling[depth - 1] /\ got # Nil
<1>1. /\ depth \in Levels /\ depth - 1 \in Levels /\ depth <= depth /\ LeaveTo(depth)
      /\ ~calling[depth] /\ result' = result /\ stale' \in BOOLEAN
  <2>1. stale' \in BOOLEAN /\ LeaveTo(depth) /\ result' = result /\ ~calling[depth]
    BY StaleTyped DEF Close, Idle
  <2>2. depth \in 0..MaxDepth /\ depth > 1
    BY DEF Close, CountInv, Types
  <2> QED
    BY <2>1, <2>2, BoundsAssumption DEF Levels
<1>2. /\ passed => Len(temps[depth - 1]) < MaxTemps
      /\ temps' = IF passed THEN [temps EXCEPT ![depth - 1] = Append(@, got)] ELSE temps
      /\ count' = IF passed THEN Cleanup(count, depth)
                              ELSE Released(Cleanup(count, depth), got)
  BY DEF Close
<1>3. /\ depth' \in 0..MaxDepth /\ depth' = depth - 1
      /\ level' \in [Names -> 0..MaxDepth] /\ slot' \in [Names -> Values]
      /\ deferred' \in [Levels -> Seq(Values)] /\ calling' \in [Levels -> BOOLEAN]
      /\ recovered' \in [Levels -> Values] /\ kind' = kind /\ managed' = managed
      /\ \A n \in Names : level'[n] <= depth'
      /\ ClosedEmpty'
      /\ \A j \in Levels : Len(deferred'[j]) <= MaxTemps
  BY <1>1, LeaveTables
<1>4. got \in Values /\ temps \in [Levels -> Seq(Values)] /\ count \in [Objects -> Int]
  BY <1>1 DEF CountInv, Types
<1>5. Cleanup(count, depth) \in [Objects -> Int]
  BY <1>1, <1>4, LeaveCounts
<1> HIDE DEF got
<1>6. temps' \in [Levels -> Seq(Values)]
  BY <1>1, <1>2, <1>4
<1>7. count' \in [Objects -> Int]
  BY <1>2, <1>4, <1>5, CountMoves
<1>8. Types'
  BY <1>1, <1>3, <1>6, <1>7 DEF CountInv, Types
<1>9. LocalsOpen'
  BY <1>1, <1>3 DEF CountInv, LocalsOpen, Levels
<1>10. \A j \in Levels : j # depth - 1 => temps'[j] = temps[j]
  BY <1>2, <1>4
<1>11. ArgsCalled'
  <2> SUFFICES ASSUME NEW j \in Levels, ~calling'[j] PROVE temps'[j] = <<>>
    BY DEF ArgsCalled
  <2>1. CASE j < depth
    <3>1. ~calling[j]
      BY <2>1, <1>1 DEF LeaveTo
    <3>2. temps'[j] = temps[j]
      BY <1>2, <1>10, <3>1
    <3> QED
      BY <3>1, <3>2 DEF CountInv, ArgsCalled
  <2>2. CASE ~(j < depth)
    <3>1. j # depth - 1 /\ (j = depth \/ j > depth)
      BY <1>1, <2>2 DEF Levels
    <3>2. ~calling[j]
      BY <1>1, <3>1 DEF CountInv, ClosedEmpty
    <3> QED
      BY <1>10, <3>1, <3>2 DEF CountInv, ArgsCalled
  <2> QED
    BY <2>1, <2>2
<1>12. Few'
  <2>1. Len(temps'[depth - 1]) <= MaxTemps
    <3>1. CASE passed
      <4>1. temps'[depth - 1] = Append(temps[depth - 1], got)
        BY <1>1, <1>2, <1>4, <3>1
      <4> QED
        BY <1>1, <1>2, <1>4, <3>1, <4>1, BoundsAssumption
    <3>2. CASE ~passed
      BY <1>1, <1>2, <3>2 DEF CountInv, Few
    <3> QED
      BY <3>1, <3>2
  <2> QED
    BY <1>3, <1>10, <2>1 DEF CountInv, Few
<1>13. ASSUME NEW o \in Objects
       PROVE  count'[o] - count[o] = Owners(o)' - Owners(o)
  <2>1. /\ Cardinality(Locals(o)') \in Int /\ Cardinality(Captures(o)') \in Int
        /\ Cleanup(count, depth)[o] - count[o] =
             (Cardinality(Locals(o)') - Cardinality(Locals(o)))
             + (Cardinality(Captures(o)') - Cardinality(Captures(o)))
    BY <1>1, <1>4, LeaveCounts
  <2>2. /\ Cardinality(Recoveries(o)') = Cardinality(Recoveries(o)) - Is(got, o)
        /\ Is(got, o) \in Nat
    BY <1>1, LeaveResult DEF got
  <2>3. /\ count[o] \in Int /\ count'[o] \in Int
        /\ Cleanup(count, depth)[o] \in Int
    BY <1>4, <1>5, <1>7
  <2>4. /\ Cardinality(Locals(o)) \in Nat /\ Cardinality(Captures(o)) \in Nat
        /\ Cardinality(Arguments(o)) \in Nat /\ Cardinality(Recoveries(o)) \in Nat
    BY OwnersFinite DEF CountInv
  <2>5. CASE passed
    <3>1. Cardinality(Arguments(o)') = Cardinality(Arguments(o)) + Is(got, o)
      <4>1. Longer(temps, temps', depth - 1, got) /\ Len(temps[depth - 1]) < MaxTemps
        BY <1>2, <2>5 DEF Longer
      <4>2. PICK k \in Levels : k = depth - 1
        BY <1>1
      <4>3. Cardinality(At(temps', o)) = Cardinality(At(temps, o)) + Is(got, o)
        BY <1>4, <4>1, <4>2, AtAppend
      <4>4. Arguments(o) = At(temps, o) /\ Arguments(o)' = At(temps', o)
        BY DEF Arguments, At
      <4> QED
        BY <4>3, <4>4
    <3>2. count'[o] = Cleanup(count, depth)[o]
      BY <1>2, <2>5
    <3> QED
      BY <1>1, <2>1, <2>2, <2>3, <2>4, <3>1, <3>2 DEF Owners
  <2>6. CASE ~passed
    <3>1. Cardinality(Arguments(o)') = Cardinality(Arguments(o))
      BY <1>2, <2>6, ArgumentsSame
    <3>2. count'[o] = Cleanup(count, depth)[o] - Is(got, o)
      BY <1>2, <1>4, <1>5, <2>6, CountMoves
    <3>3. result' = result
      BY <1>1
    <3> HIDE DEF passed
    <3>4. PICK r \in Nat : r = IF result = o THEN 1 ELSE 0
      OBVIOUS
    <3>5. Owners(o) = Cardinality(Locals(o)) + Cardinality(Captures(o))
                     + Cardinality(Arguments(o)) + Cardinality(Recoveries(o)) + r
      BY <2>3, <3>4 DEF Owners
    <3>6. Owners(o)' = Cardinality(Locals(o)') + Cardinality(Captures(o)')
                       + Cardinality(Arguments(o)') + Cardinality(Recoveries(o)') + r
      BY <3>3, <3>4 DEF Owners
    <3> QED
      BY <2>1, <2>2, <2>3, <2>4, <3>1, <3>2, <3>5, <3>6
  <2> QED
    BY <2>5, <2>6
<1>14. Counts' /\ Kept
  BY <1>8, <1>13, CountsFollowExactly
<1> QED
  BY <1>3, <1>8, <1>9, <1>11, <1>12, <1>14 DEF CountInv

\* The blocks from k inwards are abandoned: cleanup_lines releases their locals
\* and what their deferred calls have captured.
LEMMA AbandonStep ==
  ASSUME CountInv, NEW k \in Levels, k <= depth, Abandon(k), stale' \in BOOLEAN,
         NEW c \in [Objects -> Int], count' = Cleanup(c, k), result' \in Values,
         depth' > 0 => result' = result,
         \A o \in Objects : c[o] - count[o] = Is(result', o) - Is(result, o)
  PROVE  CountInv' /\ Kept
<1>1. LeaveTo(k) /\ k \in Int /\ depth \in 0..MaxDepth
  BY DEF Abandon, Levels, CountInv, Types
<1>2. /\ temps' \in [Levels -> Seq(Values)]
      /\ \A j \in Levels : IF j >= k THEN temps'[j] = <<>> ELSE temps'[j] = temps[j]
  BY DEF Abandon, CountInv, Types
<1>3. /\ depth' \in 0..MaxDepth /\ depth' = k - 1
      /\ level' \in [Names -> 0..MaxDepth] /\ slot' \in [Names -> Values]
      /\ deferred' \in [Levels -> Seq(Values)] /\ calling' \in [Levels -> BOOLEAN]
      /\ recovered' \in [Levels -> Values] /\ kind' = kind /\ managed' = managed
      /\ \A n \in Names : level'[n] <= depth'
      /\ ClosedEmpty'
      /\ \A j \in Levels : Len(deferred'[j]) <= MaxTemps
  BY <1>1, LeaveTables
<1>4. Types'
  <2>1. count' \in [Objects -> Int]
    BY <1>1, LeaveCounts
  <2> QED
    BY <1>2, <1>3, <2>1 DEF CountInv, Types
<1>5. LocalsOpen'
  <2>1. depth' > 0 => result' = Nil
    BY <1>1, <1>3 DEF CountInv, LocalsOpen
  <2> QED
    BY <1>3, <2>1 DEF LocalsOpen
<1>6. ArgsCalled'
  <2> SUFFICES ASSUME NEW j \in Levels, ~calling'[j] PROVE temps'[j] = <<>>
    BY DEF ArgsCalled
  <2>1. CASE j < k
    <3>1. ~calling[j]
      BY <1>1, <2>1 DEF LeaveTo
    <3> QED
      BY <1>2, <3>1 DEF CountInv, ArgsCalled
  <2>2. CASE ~(j < k)
    BY <1>1, <1>2, <2>2 DEF Levels
  <2> QED
    BY <2>1, <2>2
<1>7. Few'
  <2>1. \A j \in Levels : Len(temps'[j]) <= MaxTemps
    <3> SUFFICES ASSUME NEW j \in Levels PROVE Len(temps'[j]) <= MaxTemps
      OBVIOUS
    <3>1. Len(temps[j]) <= MaxTemps
      BY DEF CountInv, Few
    <3>2. CASE temps'[j] = <<>>
      BY <3>2, BoundsAssumption
    <3>3. CASE temps'[j] = temps[j]
      BY <3>1, <3>3
    <3> QED
      BY <1>2, <3>2, <3>3
  <2> QED
    BY <1>3, <2>1 DEF Few
<1>8. ASSUME NEW o \in Objects
      PROVE  /\ count'[o] - count[o] >= Owners(o)' - Owners(o)
             /\ NothingLost => count'[o] - count[o] = Owners(o)' - Owners(o)
  <2>1. /\ Cardinality(Locals(o)') \in Int /\ Cardinality(Captures(o)') \in Int
        /\ count'[o] - c[o] =
             (Cardinality(Locals(o)') - Cardinality(Locals(o)))
             + (Cardinality(Captures(o)') - Cardinality(Captures(o)))
    BY <1>1, LeaveCounts
  <2>2. PICK a \in Int, r \in Int :
          a = Cardinality(Arguments(o)') /\ r = Cardinality(Recoveries(o)')
    BY LeaveArguments, LeaveResults
  <2>3. /\ a <= Cardinality(Arguments(o)) /\ r <= Cardinality(Recoveries(o))
        /\ NothingLost => a = Cardinality(Arguments(o)) /\ r = Cardinality(Recoveries(o))
    BY <2>2, LeaveArguments, LeaveResults
  <2>4. /\ Cardinality(Locals(o)) \in Nat /\ Cardinality(Captures(o)) \in Nat
        /\ Cardinality(Arguments(o)) \in Nat /\ Cardinality(Recoveries(o)) \in Nat
    BY OwnersFinite DEF CountInv
  <2>5. count[o] \in Int /\ count'[o] \in Int /\ c[o] \in Int
        /\ Is(result, o) \in Int /\ Is(result', o) \in Int
    BY <1>4 DEF CountInv, Types, Is
  <2>6. Owners(o) = Cardinality(Locals(o)) + Cardinality(Captures(o))
                    + Cardinality(Arguments(o)) + Cardinality(Recoveries(o)) + Is(result, o)
    BY DEF Owners, Is
  <2>7. Owners(o)' = Cardinality(Locals(o)') + Cardinality(Captures(o)') + a + r + Is(result', o)
    BY <2>2 DEF Owners, Is
  <2>8. c[o] - count[o] = Is(result', o) - Is(result, o)
    OBVIOUS
  <2> HIDE DEF NothingLost
  <2> QED
    <3>1. count'[o] - count[o] = (Cardinality(Locals(o)') - Cardinality(Locals(o)))
             + (Cardinality(Captures(o)') - Cardinality(Captures(o)))
             + (Is(result', o) - Is(result, o))
      BY <2>1, <2>4, <2>5, <2>8
    <3>2. Owners(o)' - Owners(o) = (Cardinality(Locals(o)') - Cardinality(Locals(o)))
             + (Cardinality(Captures(o)') - Cardinality(Captures(o)))
             + (a - Cardinality(Arguments(o))) + (r - Cardinality(Recoveries(o)))
             + (Is(result', o) - Is(result, o))
      BY <2>1, <2>4, <2>5, <2>6, <2>7
    <3> QED
      BY <2>1, <2>3, <2>4, <2>5, <3>1, <3>2
<1>9. Counts' /\ Kept
  BY <1>4, <1>8, CountsFollow
<1> QED
  BY <1>3, <1>4, <1>5, <1>6, <1>7, <1>9 DEF CountInv

LEMMA ExitStep ==
  ASSUME CountInv, GivesOwn, NEW k \in Levels, Exit(k)
  PROVE  CountInv' /\ Kept
<1>1. k <= depth /\ Abandon(k)
  <2>1. Conditions(k) = {} /\ k <= depth /\ Abandon(Max({k} \cup Conditions(k)))
    BY DEF Exit, GivesOwn
  <2>2. Max({k}) = k
    BY DEF Max, Levels
  <2>3. {k} \cup Conditions(k) = {k}
    BY <2>1
  <2> QED
    BY <2>1, <2>2, <2>3
<1>2. stale' \in BOOLEAN /\ count' = Cleanup(count, k) /\ result' = result
  BY StaleTyped DEF Exit
<1>3. count \in [Objects -> Int] /\ result' \in Values
  BY <1>2 DEF CountInv, Types
<1>4. \A o \in Objects : count[o] - count[o] = Is(result', o) - Is(result, o)
  BY <1>2, <1>3 DEF Is
<1> QED
  BY <1>1, <1>2, <1>3, <1>4, AbandonStep

\* The function is left, with a value that has its reference.
LEMMA YieldStep ==
  ASSUME CountInv, depth > 0, NEW out, NEW uses,
         out.value \in Values, out.counts \in [Objects -> Int],
         \A o \in Objects : out.counts[o] = count[o] + Is(out.value, o),
         Abandon(1), count' = Cleanup(out.counts, 1), Yielding(out.value, uses)
  PROVE  CountInv' /\ Kept
<1>1. 1 \in Levels /\ 1 <= depth
  BY BoundsAssumption DEF CountInv, Types, Levels
<1>2. stale' \in BOOLEAN /\ result' = out.value /\ result = Nil
  BY DEF Yielding, CountInv, LocalsOpen
<1>3. depth' = 0
  BY DEF Abandon, LeaveTo
<1>4. \A o \in Objects : out.counts[o] - count[o] = Is(result', o) - Is(result, o)
  <2> SUFFICES ASSUME NEW o \in Objects
               PROVE  out.counts[o] - count[o] = Is(result', o) - Is(result, o)
    OBVIOUS
  <2>1. Is(result, o) = 0 /\ Is(result', o) = Is(out.value, o) /\ Is(out.value, o) \in Int
    BY <1>2, NilAssumption DEF Is
  <2>2. count[o] \in Int /\ out.counts[o] = count[o] + Is(out.value, o)
    BY DEF CountInv, Types
  <2> QED
    BY <2>1, <2>2
<1> QED
  BY <1>1, <1>2, <1>3, <1>4, AbandonStep

LEMMA ReturnStep ==
  ASSUME CountInv, NEW out \in Outcomes, Return(out)
  PROVE  CountInv' /\ Kept
BY OutcomeCounts, YieldStep DEF Return, Idle, CountInv

LEMMA ThrowStep ==
  ASSUME CountInv, NEW out \in Errors, Throw(out)
  PROVE  CountInv' /\ Kept
BY OutcomeCounts, YieldStep DEF Throw, CountInv, Errors, Outcomes

\* stop throws an error that it has made.
LEMMA StopStep ==
  ASSUME CountInv, GivesOwn, NEW out \in Errors \cup Copies, Stop(out)
  PROVE  CountInv' /\ Kept
<1>1. /\ out \in Errors /\ out \in Outcomes /\ depth > 0 /\ Abandon(1)
      /\ count' = Cleanup(out.counts, 1) /\ Yielding(out.value, out.uses \cup UsedInCleanup(1))
  BY DEF Stop, Idle, GivesOwn, Errors, Outcomes
<1> QED
  BY <1>1, OutcomeCounts, YieldStep DEF CountInv

-----------------------------------------------------------------------------
(* The counts are right on every path *)

LEMMA CountInit ==
  ASSUME Init
  PROVE  CountInv
<1>1. Types
  <2>1. /\ depth \in 0..MaxDepth /\ level \in [Names -> 0..MaxDepth] /\ result \in Values
        /\ managed \subseteq Names /\ slot \in [Names -> Values]
    BY BoundsAssumption DEF Init, Values
  <2>2. /\ kind \in [Levels -> {"body", "branch", "loop", "if_let", "handler", "condition"}]
        /\ calling \in [Levels -> BOOLEAN] /\ recovered \in [Levels -> Values]
    BY DEF Init, Values
  <2>3. <<>> \in Seq(Values)
    OBVIOUS
  <2>4. deferred \in [Levels -> Seq(Values)] /\ temps \in [Levels -> Seq(Values)]
    BY <2>3 DEF Init
  <2>5. count \in [Objects -> Int]
    BY DEF Init
  <2>6. stale \in BOOLEAN
    BY Zenon DEF Init
  <2> QED
    BY <2>1, <2>2, <2>4, <2>5, <2>6 DEF Types
<1>2. LocalsOpen /\ ClosedEmpty /\ ArgsCalled /\ Few
  BY BoundsAssumption DEF Init, LocalsOpen, ClosedEmpty, ArgsCalled, Few, Levels
<1>3. Counts
  <2> SUFFICES ASSUME NEW o \in Objects PROVE Surplus[o] = 0
    BY DEF Counts
  <2>1. Locals(o) = {} /\ Recoveries(o) = {} /\ result # o
    BY NilAssumption DEF Init, Locals, Held, Recoveries
  <2>2. Captures(o) = {} /\ Arguments(o) = {}
    BY DEF Init, Captures, Arguments, Slots
  <2>3. Owners(o) = 0
    BY <2>1, <2>2, FS_EmptySet DEF Owners
  <2>4. count[o] = 0
    BY DEF Init
  <2> QED
    BY <2>3, <2>4 DEF Surplus
<1> QED
  BY <1>1, <1>2, <1>3 DEF CountInv

THEOREM CountInductive ==
  ASSUME GivesOwn, CountInv, [Next]_vars
  PROVE  CountInv' /\ Kept
<1>1. CASE Statement
  BY <1>1, LetStep, AssignStep, DropStep, UseStep, DeferStep, ReturnStep, StopStep DEF Statement
<1>2. CASE CallStep
  BY <1>2, BeginCallStep, PassOwnedStep, EndCallStep DEF CallStep
<1>3. CASE BlockStep
  BY <1>3, OpenBlockStep, OpenHandlerStep, OpenIfLetStep, RecoverStep, CloseStep, ExitStep,
     ThrowStep DEF BlockStep
<1>4. CASE UNCHANGED vars
  <2>1. Types' /\ LocalsOpen' /\ ClosedEmpty' /\ ArgsCalled' /\ Few'
    BY <1>4 DEF vars, blocks, CountInv, Types, LocalsOpen, ClosedEmpty, ArgsCalled, Few
  <2>2. Counts' /\ Kept
    BY <1>4, <2>1, CountsUnmoved DEF vars, blocks
  <2> QED
    BY <2>1, <2>2 DEF CountInv
<1> QED
  BY <1>1, <1>2, <1>3, <1>4 DEF Next

LEMMA ExactCounts ==
  ASSUME NothingLost, CountInv, NEW o \in Objects
  PROVE  count[o] = Owners(o) /\ count[o] \in Nat
<1>1. Owners(o) \in Nat /\ count[o] \in Int
  BY OwnersFinite DEF CountInv, Types, Owners
<1>2. Surplus[o] = 0
  BY DEF CountInv, Counts
<1> QED
  BY <1>1, <1>2 DEF Surplus

\* Every object has as many references as it has owners on every path through a
\* function (Balanced): what take_or_retain, the end of a call, DROP__ and
\* cleanup_lines emit releases each exactly as often as it was retained.
THEOREM CountsBalance ==
  ASSUME NothingLost, GivesOwn
  PROVE  Spec => []Balanced
<1>1. CountInv => Balanced
  <2> SUFFICES ASSUME CountInv PROVE Balanced
    OBVIOUS
  <2>1. \A o \in Objects : count[o] = Owners(o) /\ count[o] \in Nat
    BY ExactCounts
  <2>2. count \in [Objects -> Nat]
    BY <2>1 DEF CountInv, Types
  <2> QED
    BY <2>1, <2>2 DEF CountInv, Types, TypeOK, Balanced
<1> QED
  BY <1>1, CountInit, CountInductive, PTL DEF Spec

\* When the function has returned only its result has a reference, one: nothing
\* leaks, whichever way control has taken out of its blocks (NoLeak).
THEOREM NothingLeaks ==
  ASSUME NothingLost, GivesOwn
  PROVE  Spec => []NoLeak
<1>1. CountInv => NoLeak
  <2> SUFFICES ASSUME CountInv, depth = 0, NEW o \in Objects
               PROVE  count[o] = IF o = result THEN 1 ELSE 0
    BY DEF NoLeak
  <2>1. \A k \in Levels : deferred[k] = <<>> /\ temps[k] = <<>> /\ recovered[k] = Nil
    BY DEF CountInv, ClosedEmpty, ArgsCalled, Levels
  <2>2. Locals(o) = {}
    <3>1. \A n \in Names : level[n] \in Nat /\ level[n] <= 0
      BY DEF CountInv, Types, LocalsOpen
    <3>2. \A n \in managed : ~InScope(n)
      BY <3>1 DEF InScope, CountInv, Types
    <3> QED
      BY <3>2 DEF Locals, Held
  <2>3. Captures(o) = {} /\ Arguments(o) = {} /\ Recoveries(o) = {}
    BY <2>1, NilAssumption DEF Captures, Arguments, Recoveries, Slots
  <2> QED
    <3>1. /\ Cardinality(Locals(o)) = 0 /\ Cardinality(Captures(o)) = 0
          /\ Cardinality(Arguments(o)) = 0 /\ Cardinality(Recoveries(o)) = 0
      BY <2>2, <2>3, FS_EmptySet
    <3> QED
      BY <3>1, ExactCounts DEF Owners
<1> QED
  BY <1>1, CountInit, CountInductive, PTL DEF Spec

-----------------------------------------------------------------------------
(* Nothing is used after it has been freed *)

Alive(v) == v = Nil \/ count[v] > 0

\* A statement that uses only what is alive.
LEMMA UsingAlive ==
  ASSUME NoStaleUse, NEW vs, Using(vs), \A v \in vs : v \in Values /\ Alive(v), CountInv
  PROVE  NoStaleUse'
<1>1. \A v \in vs \ {Nil} : ~(count[v] <= 0)
  BY DEF Alive, Values, CountInv, Types
<1> QED
  BY <1>1 DEF Using, NoStaleUse

\* What a local in scope holds is alive: it owns it, or is bound by an `if let`
\* to what an outer local owns or what is never released.
LEMMA LocalAlive ==
  ASSUME CountInv, Bound, NEW n \in Names, InScope(n)
  PROVE  slot[n] \in Values /\ Alive(slot[n])
<1>1. slot[n] \in Values
  BY DEF CountInv, Types
<1>2. CASE slot[n] = Nil
  BY <1>1, <1>2 DEF Alive
<1>3. CASE slot[n] # Nil
  <2>1. slot[n] \in Objects
    BY <1>1, <1>3 DEF Values
  <2>2. CASE Surplus[slot[n]] > 0
    <3>1. PICK o \in Objects : o = slot[n]
      BY <2>1
    <3>2. Owners(o) \in Nat /\ count[o] \in Int
      BY OwnersFinite DEF CountInv, Types, Owners
    <3>3. count[o] > 0
      BY <2>2, <3>1, <3>2 DEF Surplus
    <3> QED
      BY <1>1, <3>1, <3>3 DEF Alive
  <2>3. CASE \E m \in Held : slot[m] = slot[n]
    <3>1. Locals(slot[n]) # {}
      BY <2>3 DEF Locals
    <3> QED
      BY <1>1, <2>1, <3>1, OwnedCounted DEF CountInv, Alive
  <2>4. n \in managed => \E m \in Held : slot[m] = slot[n]
    BY DEF Held
  <2> QED
    BY <1>3, <2>2, <2>3, <2>4 DEF Bound
<1> QED
  BY <1>2, <1>3

LEMMA OutcomeAlive ==
  ASSUME CountInv, Bound, NEW out \in Outcomes
  PROVE  \A v \in out.uses : v \in Values /\ Alive(v)
<1>1. CASE out \in New
  BY <1>1 DEF New
<1>2. CASE out \in Copies
  <2>1. PICK m \in {n \in Names : InScope(n)} :
          out = [value |-> slot[m], counts |-> Retained(count, slot[m]), uses |-> {slot[m]}]
    BY <1>2 DEF Copies
  <2>2. out.uses = {slot[m]}
    BY <2>1
  <2> QED
    BY <2>1, <2>2, LocalAlive
<1>3. CASE out = Nothing
  BY <1>3 DEF Nothing
<1> QED
  BY <1>1, <1>2, <1>3 DEF Outcomes

\* What has been captured or passed has a reference of its own.
LEMMA KeptAlive ==
  ASSUME CountInv, NEW k \in Levels, NEW v \in ToSet(deferred[k]) \cup ToSet(temps[k])
  PROVE  v \in Values /\ Alive(v)
<1>1. deferred[k] \in Seq(Values) /\ temps[k] \in Seq(Values)
  BY DEF CountInv, Types
<1>2. Len(deferred[k]) \in 0..MaxTemps /\ Len(temps[k]) \in 0..MaxTemps
  BY <1>1 DEF CountInv, Few
<1>3. v \in Values
  BY <1>1 DEF ToSet
<1>4. CASE v = Nil
  BY <1>3, <1>4 DEF Alive
<1>5. CASE v # Nil /\ v \in ToSet(deferred[k])
  <2>1. PICK i \in DOMAIN deferred[k] : deferred[k][i] = v
    BY <1>5 DEF ToSet
  <2>2. i \in 1..MaxTemps
    BY <1>1, <1>2, BoundsAssumption
  <2>3. <<k, i>> \in Captures(v)
    BY <2>1, <2>2 DEF Captures, Slots
  <2> QED
    BY <1>3, <1>5, <2>3, OwnedCounted DEF CountInv, Values, Alive
<1>6. CASE v # Nil /\ v \in ToSet(temps[k])
  <2>1. PICK i \in DOMAIN temps[k] : temps[k][i] = v
    BY <1>6 DEF ToSet
  <2>2. i \in 1..MaxTemps
    BY <1>1, <1>2, BoundsAssumption
  <2>3. <<k, i>> \in Arguments(v)
    BY <2>1, <2>2 DEF Arguments, Slots
  <2> QED
    BY <1>3, <1>6, <2>3, OwnedCounted DEF CountInv, Values, Alive
<1> QED
  BY <1>4, <1>5, <1>6

\* What the cleanup of blocks uses is alive.
LEMMA CleanupAlive ==
  ASSUME CountInv, Bound, NEW k \in Levels
  PROVE  \A v \in UsedInCleanup(k) : v \in Values /\ Alive(v)
<1>1. \A v \in CapturedFrom(k) : v \in Values /\ Alive(v)
  BY KeptAlive DEF CapturedFrom
<1>2. \A n \in ManagedFrom(k) : n \in Names /\ InScope(n)
  BY DEF ManagedFrom, Held, CountInv, Types
<1> QED
  BY <1>1, <1>2, LocalAlive DEF UsedInCleanup

\* A reference that nobody owns is never released.
LEMMA SurplusStays ==
  ASSUME CountInv, CountInv', Kept
  PROVE  \A v \in Values \ {Nil} : Surplus[v] > 0 => Surplus'[v] > 0
<1> SUFFICES ASSUME NEW o \in Objects, Surplus[o] > 0 PROVE Surplus'[o] > 0
  BY DEF Values
<1>1. Surplus[o] \in Int
  BY OwnersFinite DEF CountInv, Types, Owners, Surplus
<1>2. Surplus'[o] \in Int
  BY OwnersNext DEF CountInv, Types, Surplus
<1> QED
  BY <1>1, <1>2 DEF Kept

\* The owner of what an `if let` binds stays as long as the binding.
LEMMA BoundSame ==
  ASSUME CountInv, CountInv', Kept, Bound, UNCHANGED <<level, managed, slot>>
  PROVE  Bound'
<1> SUFFICES ASSUME NEW b \in Names \ managed, InScope(b), slot[b] # Nil
             PROVE  \/ \E m \in Held : slot[m] = slot[b] /\ level[m] < level[b]
                    \/ Surplus'[slot[b]] > 0
  BY DEF Bound, Held, InScope
<1>1. slot[b] \in Values \ {Nil}
  BY DEF CountInv, Types
<1> QED
  BY <1>1, SurplusStays DEF Bound

\* A local that is assigned or dropped is not one that an `if let` tested.
LEMMA BoundSet ==
  ASSUME CountInv, CountInv', Kept, Bound, NEW n \in Held, NEW v, ~Tested(n), UNCHANGED <<level, managed>>,
         slot' = [slot EXCEPT ![n] = v]
  PROVE  Bound'
<1> SUFFICES ASSUME NEW b \in Names \ managed, InScope(b), slot'[b] # Nil
             PROVE  \/ \E m \in Held : slot'[m] = slot'[b] /\ level[m] < level[b]
                    \/ Surplus'[slot'[b]] > 0
  BY DEF Bound, Held, InScope
<1>1. slot'[b] = slot[b] /\ \A m \in Names : m # n => slot'[m] = slot[m]
  BY DEF Held, CountInv, Types
<1>2. CASE Surplus[slot[b]] > 0
  <2>1. slot[b] \in Values \ {Nil}
    BY <1>1 DEF CountInv, Types
  <2> QED
    BY <1>1, <1>2, <2>1, SurplusStays
<1>3. CASE ~(Surplus[slot[b]] > 0)
  <2>1. PICK m \in Held : slot[m] = slot[b] /\ level[m] < level[b]
    BY <1>1, <1>3 DEF Bound
  <2>2. m # n
    BY <1>1, <2>1 DEF Tested
  <2> QED
    BY <1>1, <2>1, <2>2 DEF Held, CountInv, Types
<1> QED
  BY <1>2, <1>3

LEMMA BoundLeave ==
  ASSUME CountInv, CountInv', Kept, Bound, NEW k \in Levels, LeaveTo(k)
  PROVE  Bound'
<1>1. k \in Nat /\ k > 0
  BY BoundsAssumption DEF Levels
<1>2. /\ managed' = managed
      /\ \A n \in Names : /\ level[n] \in Nat /\ level'[n] = (IF level[n] >= k THEN 0 ELSE level[n])
                          /\ slot'[n] = (IF level[n] >= k THEN Nil ELSE slot[n])
  BY DEF LeaveTo, CountInv, Types
<1> SUFFICES ASSUME NEW b \in Names \ managed, level'[b] # 0, slot'[b] # Nil
             PROVE  \/ \E m \in managed : level'[m] # 0 /\ slot'[m] = slot'[b] /\ level'[m] < level'[b]
                    \/ Surplus'[slot'[b]] > 0
  BY <1>2 DEF Bound, Held, InScope
<1>3. level[b] < k /\ level'[b] = level[b] /\ slot'[b] = slot[b]
  BY <1>1, <1>2
<1>4. CASE Surplus[slot[b]] > 0
  <2>1. slot[b] \in Values \ {Nil}
    BY <1>3 DEF CountInv, Types
  <2> QED
    BY <1>3, <1>4, <2>1, SurplusStays
<1>5. CASE ~(Surplus[slot[b]] > 0)
  <2>1. PICK m \in Held : slot[m] = slot[b] /\ level[m] < level[b]
    BY <1>3, <1>5 DEF Bound, InScope
  <2>2. m \in managed /\ m \in Names /\ level[m] # 0 /\ level[m] < k
    BY <1>1, <1>2, <1>3, <2>1 DEF Held, InScope, CountInv, Types
  <2> QED
    BY <1>1, <1>2, <1>3, <2>1, <2>2
<1> QED
  BY <1>4, <1>5

\* A local that comes into scope is managed and takes nothing from the others.
LEMMA BoundNew ==
  ASSUME CountInv, CountInv', Kept, Bound, NEW n \in Names, ~InScope(n), NEW k, NEW v,
         level' = [level EXCEPT ![n] = k], managed' = managed \cup {n},
         slot' = [slot EXCEPT ![n] = v]
  PROVE  Bound'
<1>1. \A m \in Names : m # n => level'[m] = level[m] /\ slot'[m] = slot[m]
  BY DEF CountInv, Types
<1> SUFFICES ASSUME NEW b \in Names \ managed', level'[b] # 0, slot'[b] # Nil
             PROVE  \/ \E m \in managed' : /\ level'[m] # 0 /\ slot'[m] = slot'[b]
                                           /\ level'[m] < level'[b]
                    \/ Surplus'[slot'[b]] > 0
  BY DEF Bound, Held, InScope
<1>2. b \notin managed /\ level'[b] = level[b] /\ slot'[b] = slot[b]
  BY <1>1
<1>3. slot[b] \in Values \ {Nil}
  BY <1>2 DEF CountInv, Types
<1>4. CASE Surplus[slot[b]] > 0
  BY <1>2, <1>3, <1>4, SurplusStays
<1>5. CASE ~(Surplus[slot[b]] > 0)
  <2>1. PICK m \in Held : slot[m] = slot[b] /\ level[m] < level[b]
    BY <1>2, <1>5 DEF Bound, InScope
  <2>2. m # n /\ m \in Names /\ m \in managed /\ level[m] # 0
    BY <2>1 DEF Held, InScope, CountInv, Types
  <2> QED
    BY <1>1, <1>2, <2>1, <2>2
<1> QED
  BY <1>4, <1>5

AliveInv == Bound /\ NoStaleUse

\* What leaves the function is alive after the cleanup: it is an owner itself.
LEMMA YieldAlive ==
  ASSUME CountInv, CountInv', Kept, AliveInv, LeaveTo(1), NEW v, NEW uses,
         Yielding(v, uses \cup UsedInCleanup(1)), \A u \in uses : u \in Values /\ Alive(u)
  PROVE  AliveInv'
<1> USE DEF AliveInv
<1>1. PICK k \in Levels : k = 1
  BY BoundsAssumption DEF Levels
<1>2. \A u \in uses \cup UsedInCleanup(1) : u \in Values /\ Alive(u)
  BY <1>1, CleanupAlive
<1>3. \A u \in (uses \cup UsedInCleanup(1)) \ {Nil} : ~(count[u] <= 0)
  BY <1>2 DEF Alive, Values, CountInv, Types
<1>4. v # Nil => ~(count'[v] <= 0)
  <2> SUFFICES ASSUME v # Nil PROVE ~(count'[v] <= 0)
    OBVIOUS
  <2>1. result' = v /\ v \in Objects
    BY DEF Yielding, CountInv, Types, Values
  <2>2. /\ Cardinality(Locals(v)') \in Nat /\ Cardinality(Captures(v)') \in Nat
        /\ Cardinality(Arguments(v)') \in Nat /\ Cardinality(Recoveries(v)') \in Nat
    BY OwnersNext DEF CountInv
  <2>3. Owners(v)' >= 1 /\ Owners(v)' \in Nat
    BY <2>1, <2>2 DEF Owners
  <2>4. count'[v] - Owners(v)' >= 0 /\ count'[v] \in Int
    BY <2>1 DEF CountInv, Types, Counts, Surplus
  <2> QED
    BY <2>3, <2>4
<1>5. NoStaleUse'
  BY <1>3, <1>4 DEF Yielding, NoStaleUse
<1> QED
  BY <1>1, <1>5, BoundLeave

\* Statements keep what is used alive.
LEMMA StatementAlive ==
  ASSUME GivesOwn, SourceKept, CountInv, CountInv', Kept, AliveInv, Statement
  PROVE  AliveInv'
<1> USE DEF AliveInv
<1>1. ASSUME NEW n \in Names, NEW out \in Outcomes, Let(n, out)
      PROVE  AliveInv'
  <2>1. /\ ~InScope(n) /\ level' = [level EXCEPT ![n] = depth] /\ managed' = managed \cup {n}
        /\ slot' = [slot EXCEPT ![n] = out.value] /\ Using(out.uses)
    BY <1>1 DEF Let
  <2>2. NoStaleUse'
    BY <2>1, OutcomeAlive, UsingAlive
  <2> QED
    BY <2>1, <2>2, BoundNew
<1>2. ASSUME NEW n \in Names, NEW out \in Outcomes, Assign(n, out)
      PROVE  AliveInv'
  <2>1. /\ n \in Held /\ ~Tested(n) /\ UNCHANGED <<level, managed>>
        /\ slot' = [slot EXCEPT ![n] = out.value] /\ Using(out.uses \cup {slot[n]})
    BY <1>2 DEF Assign, SourceKept, blocks
  <2>2. slot[n] \in Values /\ Alive(slot[n])
    BY <2>1, LocalAlive DEF Held
  <2>3. NoStaleUse'
    BY <2>1, <2>2, OutcomeAlive, UsingAlive
  <2> QED
    BY <2>1, <2>3, BoundSet
<1>3. ASSUME NEW n \in Names, Drop(n)
      PROVE  AliveInv'
  <2>1. n \in managed /\ level[n] = depth /\ depth > 0 /\ ~Tested(n)
    BY <1>3 DEF Drop, MayDrop, Idle, GivesOwn, SourceKept
  <2>2. n \in Held
    BY <2>1 DEF Held, InScope, CountInv, Types
  <2>3. UNCHANGED <<level, managed>> /\ slot' = [slot EXCEPT ![n] = Nil] /\ Using({slot[n]})
    BY <1>3 DEF Drop, blocks
  <2>4. slot[n] \in Values /\ Alive(slot[n])
    BY <2>2, LocalAlive DEF Held
  <2>5. NoStaleUse'
    BY <2>3, <2>4, UsingAlive
  <2> QED
    BY <2>1, <2>2, <2>3, <2>5, BoundSet
<1>4. ASSUME NEW n \in Names, Use(n)
      PROVE  AliveInv'
  <2>1. InScope(n) /\ Using({slot[n]}) /\ UNCHANGED <<level, managed, slot>>
    BY <1>4 DEF Use, blocks
  <2>2. slot[n] \in Values /\ Alive(slot[n])
    BY <2>1, LocalAlive
  <2> QED
    BY <2>1, <2>2, UsingAlive, BoundSame
<1>5. ASSUME NEW out \in Outcomes, Defer(out)
      PROVE  AliveInv'
  <2>1. Using(out.uses) /\ UNCHANGED <<level, managed, slot>>
    BY <1>5 DEF Defer, blocks
  <2> QED
    BY <2>1, OutcomeAlive, UsingAlive, BoundSame
<1>6. ASSUME NEW out \in Outcomes, Return(out)
      PROVE  AliveInv'
  <2>1. Yielding(out.value, out.uses \cup UsedInCleanup(1)) /\ LeaveTo(1)
    BY <1>6 DEF Return, Abandon
  <2> QED
    BY <2>1, OutcomeAlive, YieldAlive
<1>7. ASSUME NEW out \in Errors \cup Copies, Stop(out)
      PROVE  AliveInv'
  <2>1. /\ Yielding(out.value, out.uses \cup UsedInCleanup(1)) /\ LeaveTo(1)
        /\ out \in Outcomes
    BY <1>7 DEF Stop, Abandon, Errors, Outcomes
  <2> QED
    BY <2>1, OutcomeAlive, YieldAlive
<1> QED
  BY <1>1, <1>2, <1>3, <1>4, <1>5, <1>6, <1>7 DEF Statement

LEMMA CallAlive ==
  ASSUME CountInv, CountInv', Kept, AliveInv, CallStep
  PROVE  AliveInv'
<1> USE DEF AliveInv
<1>1. CASE BeginCall
  BY <1>1, BoundSame DEF BeginCall, blocks, NoStaleUse
<1>2. ASSUME NEW out \in New, PassOwned(out)
      PROVE  AliveInv'
  BY <1>2, BoundSame DEF PassOwned, blocks, NoStaleUse
<1>3. CASE EndCall
  <2>1. Using(ToSet(temps[depth])) /\ UNCHANGED <<level, managed, slot>> /\ depth \in Levels
    BY <1>3, BoundsAssumption DEF EndCall, blocks, CountInv, Types, Levels
  <2>2. \A v \in ToSet(temps[depth]) : v \in Values /\ Alive(v)
    BY <2>1, KeptAlive
  <2> QED
    BY <2>1, <2>2, UsingAlive, BoundSame
<1> QED
  BY <1>1, <1>2, <1>3 DEF CallStep

\* An `if let` binds what a local in scope holds, so that an outer managed local
\* owns it; or a new object, whose reference nobody owns.
LEMMA IfLetAlive ==
  ASSUME CountInv, AliveInv, NEW n \in Names, NEW out \in New \cup Copies, OpenIfLet(n, out)
  PROVE  AliveInv'
<1> USE DEF AliveInv
<1>1. /\ ~InScope(n) /\ level' = [level EXCEPT ![n] = depth + 1] /\ managed' = managed \ {n}
      /\ slot' = [slot EXCEPT ![n] = out.value] /\ Using(out.uses)
  BY DEF OpenIfLet
<1>2. NoStaleUse'
  BY <1>1, OutcomeAlive, UsingAlive DEF Outcomes
<1>3. \A m \in Names : m # n => level'[m] = level[m] /\ slot'[m] = slot[m]
  BY <1>1 DEF CountInv, Types
<1>4. level'[n] = depth + 1 /\ slot'[n] = out.value /\ depth \in Nat
  BY <1>1 DEF CountInv, Types
<1>5. \A m \in Held : m \in managed' /\ m \in Names /\ m # n /\ level'[m] = level[m]
                     /\ level[m] \in 1..depth /\ slot'[m] = slot[m]
  BY <1>1, <1>3, <1>4 DEF Held, InScope, CountInv, Types, LocalsOpen
<1>6. CountInv' /\ Kept /\ (out \in New => Surplus'[out.value] > 0)
  BY OpenIfLetStep
<1>7. Bound'
  <2> SUFFICES ASSUME NEW b \in Names \ managed', level'[b] # 0, slot'[b] # Nil
               PROVE  \/ \E m \in managed' : /\ level'[m] # 0 /\ slot'[m] = slot'[b]
                                             /\ level'[m] < level'[b]
                      \/ Surplus'[slot'[b]] > 0
    BY DEF Bound, Held, InScope
  <2>1. CASE b # n
    <3>1. b \notin managed /\ level'[b] = level[b] /\ slot'[b] = slot[b]
      BY <1>1, <1>3, <2>1
    <3>2. slot[b] \in Values \ {Nil}
      BY <3>1 DEF CountInv, Types
    <3>3. CASE Surplus[slot[b]] > 0
      BY <1>6, <3>1, <3>2, <3>3, SurplusStays
    <3>4. CASE ~(Surplus[slot[b]] > 0)
      <4>1. PICK m \in Held : slot[m] = slot[b] /\ level[m] < level[b]
        BY <3>1, <3>4 DEF Bound, InScope
      <4> QED
        BY <1>5, <3>1, <4>1
    <3> QED
      BY <3>3, <3>4
  <2>2. CASE b = n /\ out \in New
    BY <1>4, <1>6, <2>2
  <2>3. CASE b = n /\ out \in Copies
    <3>1. PICK q \in {m \in Names : InScope(m)} : out.value = slot[q]
      BY <2>3 DEF Copies
    <3>2. slot[q] \in Values \ {Nil}
      BY <1>4, <2>3, <3>1 DEF CountInv, Types
    <3>3. CASE \E m \in Held : slot[m] = slot[q]
      <4>1. PICK m \in Held : slot[m] = slot[q]
        BY <3>3
      <4>2. level'[m] < level'[b]
        BY <1>4, <1>5, <2>3, <4>1
      <4> QED
        BY <1>4, <1>5, <2>3, <3>1, <4>1, <4>2
    <3>4. CASE Surplus[slot[q]] > 0
      <4>1. Surplus'[slot[q]] > 0
        BY <1>6, <3>2, <3>4, SurplusStays
      <4> QED
        BY <1>4, <2>3, <3>1, <4>1
    <3>5. CASE q \in managed
      BY <3>3, <3>5 DEF Held
    <3>6. CASE q \notin managed
      BY <3>2, <3>3, <3>4, <3>6 DEF Bound
    <3> QED
      BY <3>5, <3>6
  <2> QED
    BY <2>1, <2>2, <2>3
<1> QED
  BY <1>2, <1>7

LEMMA BlockAlive ==
  ASSUME GivesOwn, CountInv, CountInv', Kept, AliveInv, BlockStep
  PROVE  AliveInv'
<1> USE DEF AliveInv
<1>1. ASSUME NEW what \in {"branch", "loop"}, OpenBlock(what)
      PROVE  AliveInv'
  BY <1>1, BoundSame DEF OpenBlock, NoStaleUse
<1>2. ASSUME NEW h \in Levels, NEW out \in Outcomes, Recover(h, out)
      PROVE  AliveInv'
  <2>1. Using(out.uses) /\ UNCHANGED <<level, managed, slot>>
    BY <1>2 DEF Recover, blocks
  <2> QED
    BY <2>1, OutcomeAlive, UsingAlive, BoundSame
<1>3. CASE Close
  <2>1. Using(UsedInCleanup(depth)) /\ LeaveTo(depth) /\ depth \in Levels
    BY <1>3 DEF Close, CountInv, Types, Levels
  <2> QED
    BY <2>1, CleanupAlive, UsingAlive, BoundLeave
<1>4. ASSUME NEW k \in Levels, Exit(k)
      PROVE  AliveInv'
  <2>1. Conditions(k) = {} /\ Abandon(Max({k} \cup Conditions(k)))
    BY <1>4 DEF Exit, GivesOwn
  <2>2. Max({k}) = k /\ {k} \cup Conditions(k) = {k}
    BY <2>1 DEF Max, Levels
  <2>3. Using(UsedInCleanup(k)) /\ LeaveTo(k)
    BY <1>4, <2>1, <2>2 DEF Exit, Abandon
  <2> QED
    BY <2>3, CleanupAlive, UsingAlive, BoundLeave
<1>5. ASSUME NEW what \in {"handler", "condition"}, NEW n \in Names, NEW out \in Errors,
             OpenHandler(what, n, out)
      PROVE  AliveInv'
  <2>1. /\ ~InScope(n) /\ level' = [level EXCEPT ![n] = depth + 1] /\ managed' = managed \cup {n}
        /\ slot' = [slot EXCEPT ![n] = out.value] /\ stale' = stale
    BY <1>5 DEF OpenHandler
  <2> QED
    BY <2>1, BoundNew DEF NoStaleUse
<1>6. ASSUME NEW out \in Errors, Throw(out)
      PROVE  AliveInv'
  <2>1. Yielding(out.value, {} \cup UsedInCleanup(1)) /\ LeaveTo(1)
    BY <1>6 DEF Throw, Abandon
  <2>2. PICK none : none = {}
    OBVIOUS
  <2>3. Yielding(out.value, none \cup UsedInCleanup(1)) /\ \A u \in none : u \in Values /\ Alive(u)
    BY <2>1, <2>2
  <2> HIDE DEF AliveInv
  <2> QED
    BY <2>1, <2>3, YieldAlive
<1> QED
  BY <1>1, <1>2, <1>3, <1>4, <1>5, <1>6, IfLetAlive DEF BlockStep

\* No statement, call, deferred call or cleanup uses a value whose object has been
\* freed (NoStaleUse), also where the shapes that lose values occur: what a local
\* does not own, as the binding of an `if let`, a local of an outer block owns for
\* as long, or it has lost its owner and is never freed.
THEOREM NothingStale ==
  ASSUME GivesOwn, SourceKept
  PROVE  Spec => []NoStaleUse
<1>1. Init => CountInv /\ AliveInv
  <2>1. Init => Bound
    BY DEF Init, Bound, InScope
  <2>2. Init => NoStaleUse
    BY Zenon DEF Init, NoStaleUse
  <2> QED
    BY <2>1, <2>2, CountInit DEF AliveInv
<1>2. CountInv /\ AliveInv /\ [Next]_vars => CountInv' /\ AliveInv'
  <2> SUFFICES ASSUME CountInv, AliveInv, [Next]_vars PROVE AliveInv'
    BY CountInductive
  <2>1. Kept /\ CountInv'
    BY CountInductive
  <2>2. CASE UNCHANGED vars
    BY <2>1, <2>2, BoundSame DEF vars, blocks, AliveInv, NoStaleUse
  <2> QED
    BY <2>1, <2>2, StatementAlive, CallAlive, BlockAlive DEF Next
<1>3. AliveInv => NoStaleUse
  BY DEF AliveInv
<1> QED
  BY <1>1, <1>2, <1>3, PTL DEF Spec
=============================================================================
