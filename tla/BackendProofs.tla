--------------------------- MODULE BackendProofs ---------------------------
(***************************************************************************)
(* Theorems about what the backend relies on: Arc, the handles of the      *)
(* runtime, for any number of threads, handles and resources; and Layout,  *)
(* the definitions of types, for any types and any fields.                 *)
(***************************************************************************)
EXTENDS Arc, Layout, FiniteSetTheorems, WellFoundedInduction, SequenceTheorems, TLAPS

(***************************************************************************)
(* The inductive invariant.  The count and the handles are tied together   *)
(* by CountsHandles; the rest says who may work on a block whose count is  *)
(* zero: exactly one thread, the one whose fetch_sub returned 1.           *)
(***************************************************************************)
Releasing == {"exchange", "drop", "free"}
InRelease(t, c) == pc[t] \in Releasing /\ on[t] = c

\* A thread finishes a release only when no reference is left, alone, and every
\* block without references has a thread that finishes it.
ReleaseLast == \A t \in Threads : pc[t] \in Releasing => refs[on[t]] = 0
ReleaseAlone ==
  \A t, u \in Threads : pc[t] \in Releasing /\ pc[u] \in Releasing /\ on[t] = on[u] => t = u
ReleaseStarted ==
  \A c \in Controls : alloc[c] = "live" /\ refs[c] = 0 => \E t \in Threads : InRelease(t, c)

\* The handles of a call in progress stay with the caller.
CallsHold == \A t \in Threads : \A a \in call[t] : a.slot \in Mine(t)
CallsOpen == \A t \in Threads : pc[t] \in Releasing \cup {"idle"} => call[t] = {}
CallsWork ==
  \A t \in Threads : pc[t] \in {"taking", "retaining"} => \E a \in call[t] : Target(a) = on[t]

\* A payload is pending while the block or a release under way has it.
Pending(c) ==
  payload[c] \/ \E t \in Threads : pc[t] = "drop" /\ on[t] = c /\ owed[t]
Endings ==
  \A c \in Controls :
    /\ alloc[c] = "unused" => dropped[c] = 0 /\ taken[c] = 0
    /\ alloc[c] # "live" => ~payload[c]
    /\ alloc[c] # "unused" => dropped[c] + taken[c] = (IF Pending(c) THEN 0 ELSE 1)
Emptied == \A t \in Threads : pc[t] \in {"drop", "free"} => ~payload[on[t]]

\* What has been destroyed has no handles.
DroppedUnheld == \A c \in Controls : dropped[c] > 0 => \A s \in Slots : ~Refers(s, c)

LiveBlocks == {c \in Controls : alloc[c] = "live"}
LiveCount == live = Cardinality(LiveBlocks)

IInv ==
  /\ TypeOK
  /\ CountsHandles
  /\ NoTouchAfterFree
  /\ ReleaseLast
  /\ ReleaseAlone
  /\ ReleaseStarted
  /\ CallsHold
  /\ CallsOpen
  /\ CallsWork
  /\ Endings
  /\ Emptied
  /\ DroppedUnheld
  /\ LiveCount

-----------------------------------------------------------------------------
(* Counting handles *)

LEMMA HandlesFinite ==
  ASSUME NEW c \in Controls
  PROVE  IsFiniteSet(HandlesOf(c)) /\ Cardinality(HandlesOf(c)) \in Nat
<1>1. HandlesOf(c) \in SUBSET Slots
  BY DEF HandlesOf
<1>2. IsFiniteSet(HandlesOf(c))
  BY <1>1, FiniteAssumption, FS_Subset
<1> QED
  BY <1>2, FS_CardinalityType

\* A handle keeps its block allocated and counted.
LEMMA Counted ==
  ASSUME TypeOK, CountsHandles, HandlesLive, NEW s \in Slots, ~Empty(s)
  PROVE  /\ handle[s] \in Handles
         /\ handle[s].to \in Controls
         /\ alloc[handle[s].to] = "live"
         /\ refs[handle[s].to] \in Nat \ {0}
<1> DEFINE c == handle[s].to
<1>1. handle[s] \in Handles /\ c \in Controls
  BY DEF TypeOK, Empty, Handles
<1>2. alloc[c] = "live" /\ refs[c] \in Nat
  BY <1>1 DEF HandlesLive, TypeOK
<1>3. s \in HandlesOf(c)
  BY <1>1 DEF HandlesOf, Refers
<1>4. Cardinality(HandlesOf(c)) # 0
  BY <1>1, <1>3, HandlesFinite, FS_EmptySet
<1> QED
  BY <1>1, <1>2, <1>4 DEF CountsHandles

LEMMA Unheld ==
  ASSUME TypeOK, CountsHandles, NEW c \in Controls, alloc[c] = "live", refs[c] = 0
  PROVE  \A s \in Slots : ~Refers(s, c)
<1>1. Cardinality(HandlesOf(c)) = 0
  BY DEF CountsHandles
<1>2. HandlesOf(c) = {}
  BY <1>1, HandlesFinite, FS_EmptySet
<1> QED
  BY <1>2 DEF HandlesOf

\* A slot that gets a handle adds one to the handles of its block only.
LEMMA HandleAdded ==
  ASSUME TypeOK, NEW r \in Slots, Empty(r), NEW h \in Handles,
         handle' = [handle EXCEPT ![r] = h], NEW c \in Controls
  PROVE  /\ \A s \in Slots : Empty(s)' <=> (Empty(s) /\ s # r)
         /\ \A s \in Slots : Refers(s, c)' <=> (Refers(s, c) \/ (s = r /\ c = h.to))
         /\ Cardinality(HandlesOf(c)') =
              Cardinality(HandlesOf(c)) + (IF c = h.to THEN 1 ELSE 0)
<1>1. \A s \in Slots : handle'[s] = IF s = r THEN h ELSE handle[s]
  BY DEF TypeOK
<1>2. h # None
  BY NoneAssumption
<1>3. \A s \in Slots : Empty(s)' <=> (Empty(s) /\ s # r)
  BY <1>1, <1>2 DEF Empty
<1>4. \A s \in Slots : Refers(s, c)' <=> (Refers(s, c) \/ (s = r /\ c = h.to))
  BY <1>1, <1>3 DEF Refers, Empty
<1>5. ~Refers(r, c)
  BY DEF Refers
<1>6. CASE c = h.to
  <2>1. HandlesOf(c)' = HandlesOf(c) \cup {r}
    BY <1>4, <1>6 DEF HandlesOf
  <2>2. r \notin HandlesOf(c)
    BY <1>5 DEF HandlesOf
  <2> QED
    BY <1>3, <1>4, <1>6, <2>1, <2>2, HandlesFinite, FS_AddElement
<1>7. CASE c # h.to
  <2>1. HandlesOf(c)' = HandlesOf(c)
    BY <1>4, <1>7 DEF HandlesOf
  <2> QED
    BY <1>3, <1>4, <1>7, <2>1, HandlesFinite
<1> QED
  BY <1>6, <1>7

LEMMA HandleRemoved ==
  ASSUME TypeOK, NEW r \in Slots, ~Empty(r),
         handle' = [handle EXCEPT ![r] = None], NEW c \in Controls
  PROVE  /\ \A s \in Slots : Empty(s)' <=> (Empty(s) \/ s = r)
         /\ \A s \in Slots : Refers(s, c)' <=> (Refers(s, c) /\ s # r)
         /\ Cardinality(HandlesOf(c)') =
              Cardinality(HandlesOf(c)) - (IF c = handle[r].to THEN 1 ELSE 0)
<1>1. \A s \in Slots : handle'[s] = IF s = r THEN None ELSE handle[s]
  BY DEF TypeOK
<1>2. \A s \in Slots : Empty(s)' <=> (Empty(s) \/ s = r)
  BY <1>1 DEF Empty
<1>3. \A s \in Slots : Refers(s, c)' <=> (Refers(s, c) /\ s # r)
  BY <1>1, <1>2 DEF Refers
<1>4. HandlesOf(c)' = HandlesOf(c) \ {r}
  BY <1>3 DEF HandlesOf
<1>5. r \in HandlesOf(c) <=> c = handle[r].to
  BY DEF HandlesOf, Refers
<1>6. Cardinality(HandlesOf(c)') =
        IF r \in HandlesOf(c) THEN Cardinality(HandlesOf(c)) - 1 ELSE Cardinality(HandlesOf(c))
  BY <1>4, HandlesFinite, FS_RemoveElement
<1> QED
  BY <1>2, <1>3, <1>5, <1>6, HandlesFinite

LEMMA LiveFinite == IsFiniteSet(LiveBlocks) /\ Cardinality(LiveBlocks) \in Nat
<1>1. LiveBlocks \in SUBSET Controls
  BY DEF LiveBlocks
<1> QED
  BY <1>1, FiniteAssumption, FS_Subset, FS_CardinalityType

-----------------------------------------------------------------------------
(* The steps *)

\* Steps that touch neither a count nor a handle
LEMMA SameHandles ==
  ASSUME CountsHandles, HandlesLive, LiveCount, UNCHANGED <<alloc, refs, live, handle>>
  PROVE  CountsHandles' /\ HandlesLive' /\ LiveCount'
BY DEF CountsHandles, HandlesLive, LiveCount, LiveBlocks, HandlesOf, Refers, Empty

LEMMA PanicStep ==
  ASSUME IInv, Panic
  PROVE  IInv'
<1>1. CountsHandles' /\ HandlesLive' /\ LiveCount'
  BY SameHandles DEF IInv, NoTouchAfterFree, Panic, controls
<1> QED
  BY <1>1 DEF IInv, Panic, controls, threads, TypeOK, NoTouchAfterFree, WorkLive, ReleaseLast,
    ReleaseAlone, ReleaseStarted, InRelease, CallsHold, Mine, Empty, CallsOpen, CallsWork, Target,
    Endings, Pending, Emptied, DroppedUnheld, Refers

LEMMA ExchangeStep ==
  ASSUME IInv, NEW t \in Threads, Exchange(t)
  PROVE  IInv'
<1>1. CountsHandles' /\ HandlesLive' /\ LiveCount'
  BY SameHandles DEF IInv, NoTouchAfterFree, Exchange
<1>2. on[t] \in Controls /\ t \in Threads /\ pc[t] = "exchange" /\ alloc[on[t]] = "live"
  BY DEF IInv, TypeOK, Exchange, NoTouchAfterFree, WorkLive
<1>3. TypeOK'
  BY <1>2 DEF IInv, TypeOK, Exchange, Places
<1>4. WorkLive' /\ ReleaseLast' /\ ReleaseAlone' /\ CallsHold' /\ CallsOpen' /\ CallsWork' /\ DroppedUnheld'
  BY <1>2 DEF IInv, TypeOK, Exchange, NoTouchAfterFree, WorkLive, ReleaseLast, ReleaseAlone,
    Releasing, CallsHold, Mine, Empty, CallsOpen, CallsWork, Target, DroppedUnheld, Refers
<1>5. ReleaseStarted'
  BY <1>2 DEF IInv, TypeOK, Exchange, ReleaseStarted, InRelease, Releasing
<1>6. Emptied'
  BY <1>2 DEF IInv, TypeOK, Exchange, Emptied
<1>7. Pending(on[t])' <=> Pending(on[t])
  BY <1>2 DEF IInv, TypeOK, Exchange, Pending, ReleaseAlone, Releasing
<1>8. \A c \in Controls \ {on[t]} : (Pending(c)' <=> Pending(c)) /\ payload'[c] = payload[c]
  BY <1>2 DEF IInv, TypeOK, Exchange, Pending
<1>9. Endings'
  BY <1>2, <1>7, <1>8 DEF IInv, TypeOK, Exchange, Endings
<1> QED
  BY <1>1, <1>3, <1>4, <1>5, <1>6, <1>9 DEF IInv, NoTouchAfterFree

LEMMA DropStep ==
  ASSUME IInv, NEW t \in Threads, Drop(t)
  PROVE  IInv'
<1>1. CountsHandles' /\ HandlesLive' /\ LiveCount'
  BY SameHandles DEF IInv, NoTouchAfterFree, Drop
<1>2. on[t] \in Controls /\ pc[t] = "drop" /\ alloc[on[t]] = "live" /\ refs[on[t]] = 0
  BY DEF IInv, TypeOK, Drop, NoTouchAfterFree, WorkLive, ReleaseLast, Releasing
<1>3. TypeOK'
  BY <1>2 DEF IInv, TypeOK, Drop, Places
<1>4. WorkLive' /\ ReleaseLast' /\ ReleaseAlone' /\ CallsHold' /\ CallsOpen' /\ CallsWork'
  BY <1>2 DEF IInv, TypeOK, Drop, NoTouchAfterFree, WorkLive, ReleaseLast, ReleaseAlone,
    Releasing, CallsHold, Mine, Empty, CallsOpen, CallsWork, Target
<1>5. ReleaseStarted'
  BY <1>2 DEF IInv, TypeOK, Drop, ReleaseStarted, InRelease, Releasing
<1>6. Emptied'
  BY <1>2 DEF IInv, TypeOK, Drop, Emptied
<1>7. DroppedUnheld'
  <2>1. \A s \in Slots : ~Refers(s, on[t])
    BY <1>2, Unheld DEF IInv
  <2> QED
    BY <1>2, <2>1 DEF IInv, TypeOK, Drop, DroppedUnheld, Refers, Empty
<1>8. (Pending(on[t]) <=> owed[t]) /\ ~Pending(on[t])'
  BY <1>2 DEF IInv, TypeOK, Drop, Pending, ReleaseAlone, Releasing, Emptied
<1>9. \A c \in Controls \ {on[t]} : (Pending(c)' <=> Pending(c)) /\ dropped'[c] = dropped[c]
  BY <1>2 DEF IInv, TypeOK, Drop, Pending
<1>10. dropped'[on[t]] = IF owed[t] THEN dropped[on[t]] + 1 ELSE dropped[on[t]]
  BY <1>2 DEF IInv, TypeOK, Drop
<1>11. Endings'
  BY <1>2, <1>8, <1>9, <1>10 DEF IInv, TypeOK, Drop, Endings
<1> QED
  BY <1>1, <1>3, <1>4, <1>5, <1>6, <1>7, <1>11 DEF IInv, NoTouchAfterFree

LEMMA FreeStep ==
  ASSUME IInv, NEW t \in Threads, Free(t)
  PROVE  IInv'
<1>1. on[t] \in Controls /\ pc[t] = "free" /\ alloc[on[t]] = "live" /\ refs[on[t]] = 0
  BY DEF IInv, TypeOK, Free, NoTouchAfterFree, WorkLive, ReleaseLast, Releasing
<1>2. \A s \in Slots : ~Refers(s, on[t])
  BY <1>1, Unheld DEF IInv
<1>3. TypeOK'
  BY <1>1 DEF IInv, TypeOK, Free, Places
<1>4. CountsHandles' /\ HandlesLive'
  BY <1>1, <1>2 DEF IInv, TypeOK, Free, CountsHandles, HandlesOf, Refers, Empty, NoTouchAfterFree, HandlesLive
<1>5. WorkLive'
  <2> SUFFICES ASSUME NEW u \in Threads, pc'[u] \notin {"idle", "call"}
               PROVE  on[u] # on[t] /\ alloc[on[u]] = "live" /\ on[u] \in Controls
    BY <1>1 DEF Free, WorkLive, IInv, TypeOK
  <2>1. u # t /\ pc[u] = pc'[u] /\ on[u] \in Controls /\ alloc[on[u]] = "live"
    BY DEF Free, IInv, TypeOK, NoTouchAfterFree, WorkLive
  <2>2. CASE pc[u] \in Releasing
    BY <1>1, <2>1, <2>2 DEF IInv, ReleaseAlone, Releasing
  <2>3. CASE pc[u] \in {"taking", "retaining"}
    <3>1. PICK a \in call[u] : Target(a) = on[u]
      BY <2>3 DEF IInv, CallsWork
    <3>2. a.slot \in Slots /\ Refers(a.slot, on[u])
      BY <3>1 DEF IInv, CallsHold, Mine, Refers, Target
    <3> QED
      BY <1>2, <2>1, <3>2
  <2> QED
    BY <2>1, <2>2, <2>3 DEF IInv, TypeOK, Places, Releasing
<1>6. ReleaseLast' /\ ReleaseAlone' /\ CallsHold' /\ CallsOpen' /\ CallsWork' /\ DroppedUnheld'
  BY <1>1 DEF IInv, TypeOK, Free, ReleaseLast, ReleaseAlone,
    Releasing, CallsHold, Mine, Empty, CallsOpen, CallsWork, Target, DroppedUnheld, Refers
<1>7. ReleaseStarted'
  BY <1>1 DEF IInv, TypeOK, Free, ReleaseStarted, InRelease, Releasing
<1>8. Emptied' /\ (\A c \in Controls : Pending(c)' <=> Pending(c))
  BY <1>1 DEF IInv, TypeOK, Free, Emptied, Pending
<1>9. Endings'
  BY <1>1, <1>8 DEF IInv, TypeOK, Free, Endings, Emptied
<1>10. LiveCount'
  <2>1. LiveBlocks' = LiveBlocks \ {on[t]} /\ on[t] \in LiveBlocks
    BY <1>1 DEF IInv, TypeOK, Free, LiveBlocks
  <2>2. Cardinality(LiveBlocks \ {on[t]}) = Cardinality(LiveBlocks) - 1
    BY <2>1, LiveFinite, FS_RemoveElement
  <2> QED
    BY <2>1, <2>2 DEF IInv, LiveCount, Free
<1> QED
  BY <1>3, <1>4, <1>5, <1>6, <1>7, <1>8, <1>9, <1>10 DEF IInv, NoTouchAfterFree

LEMMA AdoptStep ==
  ASSUME IInv, NEW t \in Threads, NEW r \in Slots, NEW b \in Controls, Adopt(t, r, b)
  PROVE  IInv'
<1> DEFINE h == [to |-> b, view |-> FALSE, of |-> t]
<1>1. h \in Handles /\ h.to = b /\ handle' = [handle EXCEPT ![r] = h] /\ Empty(r)
  BY DEF Adopt, Handles
<1> HIDE DEF h
<1>2. alloc[b] = "unused" /\ \A s \in Slots : ~Refers(s, b)
  BY DEF IInv, Adopt, NoTouchAfterFree, HandlesLive, Refers
<1>3. \A c \in Controls :
        /\ \A s \in Slots : Empty(s)' <=> (Empty(s) /\ s # r)
        /\ \A s \in Slots : Refers(s, c)' <=> (Refers(s, c) \/ (s = r /\ c = b))
        /\ Cardinality(HandlesOf(c)') = Cardinality(HandlesOf(c)) + (IF c = b THEN 1 ELSE 0)
  <2>1. TypeOK /\ h \in Handles /\ handle' = [handle EXCEPT ![r] = h] /\ Empty(r)
    BY <1>1 DEF IInv
  <2>2. \A c \in Controls :
          /\ \A s \in Slots : Empty(s)' <=> (Empty(s) /\ s # r)
          /\ \A s \in Slots : Refers(s, c)' <=> (Refers(s, c) \/ (s = r /\ c = h.to))
          /\ Cardinality(HandlesOf(c)') = Cardinality(HandlesOf(c)) + (IF c = h.to THEN 1 ELSE 0)
    BY <2>1, HandleAdded
  <2> QED
    BY <2>2, <1>1
<1>4. TypeOK'
  <2>1. handle' \in [Slots -> Handles \cup {None}]
    BY <1>1 DEF IInv, TypeOK
  <2>2. /\ alloc' \in [Controls -> {"unused", "live", "freed"}]
        /\ refs' \in [Controls -> Nat]
        /\ payload' \in [Controls -> BOOLEAN]
        /\ live' \in Int
    BY DEF IInv, TypeOK, Adopt
  <2>3. UNCHANGED <<invalidated, dropped, taken, pc, on, owed, call, ready, exited>>
    BY DEF Adopt, threads
  <2> QED
    BY <2>1, <2>2, <2>3 DEF IInv, TypeOK
<1>5. CountsHandles'
  <2>1. HandlesOf(b) = {}
    BY <1>2 DEF HandlesOf
  <2>2. Cardinality(HandlesOf(b)) = 0
    BY <2>1, FS_EmptySet
  <2>3. \A c \in Controls \ {b} : alloc'[c] = alloc[c] /\ refs'[c] = refs[c]
    BY DEF Adopt, IInv, TypeOK
  <2>4. refs'[b] = 1
    BY DEF Adopt, IInv, TypeOK
  <2>5. \A c \in Controls : Cardinality(HandlesOf(c)) \in Nat
    BY HandlesFinite
  <2> QED
    BY <1>3, <2>2, <2>3, <2>4, <2>5 DEF CountsHandles, IInv
<1>6. HandlesLive' /\ WorkLive'
  <2>1. \A c \in Controls : alloc[c] = "live" \/ c = b => alloc'[c] = "live"
    BY DEF Adopt, IInv, TypeOK
  <2>2. \A s \in Slots : ~Empty(s)' => handle'[s].to \in Controls /\
          (handle'[s].to = b \/ (~Empty(s) /\ handle'[s] = handle[s]))
    BY <1>1, <1>3 DEF IInv, TypeOK, Handles, Empty
  <2>3. HandlesLive'
    BY <2>1, <2>2 DEF HandlesLive, IInv, NoTouchAfterFree
  <2>4. WorkLive'
    BY <2>1 DEF WorkLive, IInv, NoTouchAfterFree, Adopt, threads, TypeOK
  <2> QED
    BY <2>3, <2>4
<1>7. ReleaseLast' /\ ReleaseAlone' /\ ReleaseStarted'
  <2>1. \A u \in Threads : pc[u] \in Releasing => on[u] # b /\ on[u] \in Controls
    BY <1>2 DEF IInv, NoTouchAfterFree, WorkLive, TypeOK, Releasing
  <2>2. \A c \in Controls \ {b} : alloc'[c] = alloc[c] /\ refs'[c] = refs[c]
    BY DEF Adopt, IInv, TypeOK
  <2>3. refs'[b] = 1 /\ UNCHANGED <<pc, on>>
    BY DEF Adopt, IInv, TypeOK, threads
  <2> QED
    BY <2>1, <2>2, <2>3 DEF IInv, ReleaseLast, ReleaseAlone, ReleaseStarted, InRelease
<1>8. CallsHold' /\ CallsOpen' /\ CallsWork'
  <2>1. \A s \in Slots : ~Empty(s) => handle'[s] = handle[s] /\ ~Empty(s)'
    BY <1>1, <1>3 DEF IInv, TypeOK
  <2> QED
    BY <2>1 DEF IInv, CallsHold, CallsOpen, CallsWork, Target, Mine, Adopt, threads
<1>9. Endings' /\ Emptied'
  <2>1. \A u \in Threads : pc[u] \in Releasing => on[u] # b /\ on[u] \in Controls
    BY <1>2 DEF IInv, NoTouchAfterFree, WorkLive, TypeOK, Releasing
  <2>2. \A c \in Controls \ {b} : alloc'[c] = alloc[c] /\ payload'[c] = payload[c]
    BY DEF Adopt, IInv, TypeOK
  <2>3. payload'[b] /\ alloc'[b] = "live" /\ UNCHANGED <<pc, on, owed, dropped, taken>>
    BY DEF Adopt, IInv, TypeOK, threads
  <2>4. Pending(b)' /\ \A c \in Controls \ {b} : Pending(c)' <=> Pending(c)
    BY <2>2, <2>3 DEF Pending
  <2> QED
    BY <1>2, <2>1, <2>2, <2>3, <2>4 DEF IInv, Endings, Emptied, Releasing, TypeOK
<1>10. DroppedUnheld'
  <2>1. dropped[b] = 0 /\ UNCHANGED dropped
    BY <1>2 DEF IInv, Endings, Adopt
  <2> QED
    BY <1>3, <2>1 DEF IInv, DroppedUnheld
<1>11. LiveCount'
  <2>1. LiveBlocks' = LiveBlocks \cup {b} /\ b \notin LiveBlocks
    BY <1>2 DEF IInv, TypeOK, Adopt, LiveBlocks
  <2>2. Cardinality(LiveBlocks \cup {b}) = Cardinality(LiveBlocks) + 1
    BY <2>1, LiveFinite, FS_AddElement
  <2> QED
    BY <2>1, <2>2 DEF IInv, LiveCount, Adopt
<1> QED
  BY <1>4, <1>5, <1>6, <1>7, <1>8, <1>9, <1>10, <1>11 DEF IInv, NoTouchAfterFree

\* Giving a slot another handle of a block that has one: a copy, or a view
LEMMA Retained ==
  ASSUME IInv, NEW s \in Slots, ~Empty(s), NEW r \in Slots, Empty(r), NEW h \in Handles,
         h.to = handle[s].to,
         handle' = [handle EXCEPT ![r] = h],
         refs' = [refs EXCEPT ![h.to] = @ + 1],
         UNCHANGED <<alloc, payload, live, dropped, taken>>
  PROVE  /\ CountsHandles'
         /\ HandlesLive'
         /\ DroppedUnheld'
         /\ LiveCount'
         /\ refs' \in [Controls -> Nat]
         /\ handle' \in [Slots -> Handles \cup {None}]
         /\ \A c \in Controls : refs'[c] = 0 <=> refs[c] = 0
         /\ \A q \in Slots : ~Empty(q) => ~Empty(q)' /\ handle'[q] = handle[q]
<1>1. h.to \in Controls /\ alloc[h.to] = "live" /\ refs[h.to] \in Nat \ {0}
  BY Counted DEF IInv, NoTouchAfterFree
<1>2. \A c \in Controls :
        /\ \A q \in Slots : Empty(q)' <=> (Empty(q) /\ q # r)
        /\ \A q \in Slots : Refers(q, c)' <=> (Refers(q, c) \/ (q = r /\ c = h.to))
        /\ Cardinality(HandlesOf(c)') = Cardinality(HandlesOf(c)) + (IF c = h.to THEN 1 ELSE 0)
  BY HandleAdded DEF IInv
<1>3. \A c \in Controls : refs'[c] = refs[c] + (IF c = h.to THEN 1 ELSE 0) /\ refs[c] \in Nat
  BY <1>1 DEF IInv, TypeOK
<1>4. CountsHandles'
  BY <1>2, <1>3, HandlesFinite DEF IInv, CountsHandles
<1>5. \A q \in Slots : handle'[q] = IF q = r THEN h ELSE handle[q]
  BY DEF IInv, TypeOK
<1>6. HandlesLive'
  BY <1>1, <1>2, <1>5 DEF IInv, NoTouchAfterFree, HandlesLive
<1>7. DroppedUnheld'
  <2>1. dropped[h.to] = 0
    BY <1>1 DEF IInv, DroppedUnheld, TypeOK, Refers
  <2> QED
    BY <1>2, <2>1 DEF IInv, DroppedUnheld
<1>8. LiveCount'
  BY DEF IInv, LiveCount, LiveBlocks
<1>9. refs' \in [Controls -> Nat] /\ handle' \in [Slots -> Handles \cup {None}]
  BY <1>1 DEF IInv, TypeOK
<1>10. \A q \in Slots : ~Empty(q) => ~Empty(q)' /\ handle'[q] = handle[q]
  BY <1>2, <1>5, <1>1
<1> QED
  BY <1>1, <1>3, <1>4, <1>6, <1>7, <1>8, <1>9, <1>10

LEMMA CopyStep ==
  ASSUME IInv, NEW t \in Threads, NEW u \in Threads, NEW s \in Slots, NEW r \in Slots,
         Copy(t, s, r, u)
  PROVE  IInv'
<1> DEFINE h == [handle[s] EXCEPT !.of = u]
<1>1. ~Empty(s) /\ Empty(r) /\ handle[s] \in Handles
  BY Counted DEF IInv, NoTouchAfterFree, Copy, Mine
<1>2. h \in Handles /\ h.to = handle[s].to
  BY <1>1 DEF Handles
<1>3. /\ handle' = [handle EXCEPT ![r] = h]
      /\ refs' = [refs EXCEPT ![h.to] = @ + 1]
      /\ UNCHANGED <<alloc, payload, live, dropped, taken>>
  BY <1>2 DEF Copy
<1> HIDE DEF h
<1>4. /\ CountsHandles' /\ HandlesLive' /\ DroppedUnheld' /\ LiveCount'
      /\ refs' \in [Controls -> Nat]
      /\ handle' \in [Slots -> Handles \cup {None}]
      /\ \A c \in Controls : refs'[c] = 0 <=> refs[c] = 0
      /\ \A q \in Slots : ~Empty(q) => ~Empty(q)' /\ handle'[q] = handle[q]
  BY <1>1, <1>2, <1>3, Retained
<1>5. UNCHANGED <<alloc, invalidated, payload, live, dropped, taken, pc, on, owed, call, ready, exited>>
  BY DEF Copy, threads
<1>6. TypeOK'
  BY <1>4, <1>5 DEF IInv, TypeOK
<1>7. WorkLive' /\ ReleaseLast' /\ ReleaseAlone' /\ ReleaseStarted' /\ Endings' /\ Emptied'
  BY <1>4, <1>5 DEF IInv, TypeOK, NoTouchAfterFree, WorkLive, ReleaseLast, ReleaseAlone,
    ReleaseStarted, InRelease, Releasing, Endings, Pending, Emptied
<1>8. CallsHold' /\ CallsOpen' /\ CallsWork'
  BY <1>4, <1>5 DEF IInv, CallsHold, CallsOpen, CallsWork, Target, Mine
<1> QED
  BY <1>4, <1>6, <1>7, <1>8 DEF IInv, NoTouchAfterFree

LEMMA ReleaseStep ==
  ASSUME IInv, NEW t \in Threads, NEW r \in Slots, Release(t, r)
  PROVE  IInv'
<1> DEFINE b == handle[r].to
<1>1. /\ ~Empty(r) /\ handle[r] \in Handles /\ handle[r].of = t
      /\ b \in Controls /\ alloc[b] = "live" /\ refs[b] \in Nat \ {0}
      /\ pc[t] = "idle" /\ call[t] = {}
  BY Counted DEF IInv, NoTouchAfterFree, Release, Mine, Idle, CallsOpen
<1>2. /\ handle' = [handle EXCEPT ![r] = None]
      /\ refs' = [refs EXCEPT ![b] = @ - 1]
      /\ pc' = [pc EXCEPT ![t] = IF refs[b] = 1 THEN "exchange" ELSE "idle"]
      /\ on' = [on EXCEPT ![t] = b]
      /\ UNCHANGED <<alloc, invalidated, payload, live, dropped, taken, owed, call, ready, exited>>
  BY DEF Release
<1>3. \A c \in Controls :
        /\ \A s \in Slots : Empty(s)' <=> (Empty(s) \/ s = r)
        /\ \A s \in Slots : Refers(s, c)' <=> (Refers(s, c) /\ s # r)
        /\ Cardinality(HandlesOf(c)') = Cardinality(HandlesOf(c)) - (IF c = b THEN 1 ELSE 0)
  BY <1>1, <1>2, HandleRemoved DEF IInv
<1> HIDE DEF b
<1>4. \A c \in Controls : refs'[c] = refs[c] - (IF c = b THEN 1 ELSE 0) /\ refs[c] \in Nat
  BY <1>1, <1>2 DEF IInv, TypeOK
<1>5. \A s \in Slots : handle'[s] = IF s = r THEN None ELSE handle[s]
  BY <1>2 DEF IInv, TypeOK
<1>6. TypeOK'
  <2>1. refs' \in [Controls -> Nat]
    BY <1>1, <1>2 DEF IInv, TypeOK
  <2>2. handle' \in [Slots -> Handles \cup {None}]
    BY <1>2 DEF IInv, TypeOK
  <2>3. /\ pc' \in [Threads -> Places]
        /\ on' \in [Threads -> Controls \cup {None}]
    BY <1>1, <1>2 DEF IInv, TypeOK, Places
  <2>4. \A u \in Threads : pc'[u] \notin {"idle", "call"} => on'[u] # None
    BY <1>1, <1>2, NoneAssumption DEF IInv, TypeOK
  <2> QED
    BY <1>2, <2>1, <2>2, <2>3, <2>4 DEF IInv, TypeOK
<1>7. CountsHandles'
  BY <1>2, <1>3, <1>4, HandlesFinite DEF IInv, CountsHandles
<1>8. HandlesLive' /\ WorkLive'
  BY <1>1, <1>2, <1>3, <1>5 DEF IInv, TypeOK, NoTouchAfterFree, HandlesLive, WorkLive
<1>9. \A u \in Threads : pc[u] \in Releasing => u # t /\ on[u] # b /\ on[u] \in Controls
  BY <1>1 DEF IInv, ReleaseLast, Releasing, TypeOK
<1>10. \A u \in Threads \ {t} : pc'[u] = pc[u] /\ on'[u] = on[u]
  BY <1>2 DEF IInv, TypeOK
<1>11. on'[t] = b /\ pc'[t] = IF refs[b] = 1 THEN "exchange" ELSE "idle"
  BY <1>2 DEF IInv, TypeOK
<1>12. ReleaseLast' /\ ReleaseAlone'
  BY <1>1, <1>4, <1>9, <1>10, <1>11 DEF IInv, ReleaseLast, ReleaseAlone, Releasing
<1>13. ReleaseStarted'
  BY <1>1, <1>2, <1>4, <1>9, <1>10, <1>11 DEF IInv, ReleaseStarted, InRelease, Releasing
<1>14. CallsHold' /\ CallsOpen'
  <2>1. \A u \in Threads \ {t} : \A a \in call[u] : a.slot # r /\ a.slot \in Slots
    BY <1>1 DEF IInv, CallsHold, Mine
  <2> QED
    BY <1>1, <1>2, <1>5, <1>10, <2>1 DEF IInv, CallsHold, CallsOpen, Mine, Empty
<1>15. CallsWork'
  <2>1. \A u \in Threads \ {t} : \A a \in call[u] : a.slot # r /\ a.slot \in Slots
    BY <1>1 DEF IInv, CallsHold, Mine
  <2> QED
    BY <1>1, <1>2, <1>5, <1>10, <1>11, <2>1 DEF IInv, CallsWork, Target
<1>16. \A c \in Controls : Pending(c)' <=> Pending(c)
  BY <1>1, <1>2, <1>10, <1>11 DEF Pending
<1>17. Endings' /\ Emptied'
  BY <1>1, <1>2, <1>10, <1>11, <1>16 DEF IInv, Endings, Emptied
<1>18. DroppedUnheld' /\ LiveCount'
  BY <1>2, <1>3 DEF IInv, DroppedUnheld, LiveCount, LiveBlocks
<1> QED
  BY <1>6, <1>7, <1>8, <1>12, <1>13, <1>14, <1>15, <1>17, <1>18 DEF IInv, NoTouchAfterFree

\* Steps of calls that change neither a block nor a handle: only where the
\* thread is, what it works on and which arguments it has.
LEMMA CallOnly ==
  ASSUME IInv, NEW t \in Threads,
         UNCHANGED <<alloc, refs, payload, live, dropped, taken, handle, owed>>,
         \A u \in Threads \ {t} : pc'[u] = pc[u] /\ on'[u] = on[u] /\ call'[u] = call[u],
         pc[t] \notin Releasing, pc'[t] \notin Releasing,
         TypeOK', WorkLive',
         \A a \in call'[t] : a.slot \in Mine(t),
         pc'[t] = "idle" => call'[t] = {},
         pc'[t] \in {"taking", "retaining"} => \E a \in call'[t] : Target(a) = on'[t]
  PROVE  IInv'
<1>1. CountsHandles' /\ HandlesLive' /\ LiveCount'
  BY SameHandles DEF IInv, NoTouchAfterFree
<1>2. ReleaseLast' /\ ReleaseAlone' /\ ReleaseStarted'
  BY DEF IInv, ReleaseLast, ReleaseAlone, ReleaseStarted, InRelease
<1>3. CallsHold' /\ CallsOpen' /\ CallsWork'
  BY DEF IInv, CallsHold, Mine, Empty, CallsOpen, CallsWork, Target
<1>4. \A c \in Controls : Pending(c)' <=> Pending(c)
  BY DEF Pending, Releasing
<1>5. Endings' /\ Emptied' /\ DroppedUnheld'
  BY <1>4 DEF IInv, Endings, Emptied, Releasing, DroppedUnheld, Refers, Empty
<1> QED
  BY <1>1, <1>2, <1>3, <1>5 DEF IInv, NoTouchAfterFree

\* The block an argument refers to is allocated.
LEMMA ArgumentLive ==
  ASSUME IInv, NEW t \in Threads, NEW a \in call[t]
  PROVE  a.slot \in Mine(t) /\ Target(a) \in Controls /\ alloc[Target(a)] = "live"
<1>1. a.slot \in Slots /\ ~Empty(a.slot) /\ a.slot \in Mine(t)
  BY DEF IInv, CallsHold, Mine
<1> QED
  BY <1>1, Counted DEF IInv, NoTouchAfterFree, Target

LEMMA BeginCallStep ==
  ASSUME IInv, NEW t \in Threads, NEW A \in Calls, BeginCall(t, A)
  PROVE  IInv'
<1>1. A \subseteq Arguments /\ pc[t] = "idle"
  BY DEF Calls, BeginCall, Idle
<1>2. /\ UNCHANGED <<alloc, refs, payload, live, dropped, taken, handle, owed, on, invalidated, exited>>
      /\ pc' = [pc EXCEPT ![t] = "call"]
      /\ call' = [call EXCEPT ![t] = A]
      /\ ready' = [ready EXCEPT ![t] = {}]
      /\ \A a \in A : a.slot \in Mine(t)
  BY DEF BeginCall, controls
<1>3. TypeOK'
  BY <1>1, <1>2 DEF IInv, TypeOK, Places
<1>4. \A u \in Threads \ {t} : pc'[u] = pc[u] /\ on'[u] = on[u] /\ call'[u] = call[u]
  BY <1>2 DEF IInv, TypeOK
<1>5. pc'[t] = "call" /\ call'[t] = A
  BY <1>2 DEF IInv, TypeOK
<1>6. WorkLive'
  BY <1>2, <1>4, <1>5 DEF IInv, NoTouchAfterFree, WorkLive
<1>7. pc[t] \notin Releasing /\ pc'[t] \notin Releasing
  BY <1>1, <1>5 DEF Releasing
<1> QED
  BY <1>2, <1>3, <1>4, <1>5, <1>6, <1>7, CallOnly

LEMMA DataStep ==
  ASSUME IInv, NEW t \in Threads, NEW a \in Arguments, Data(t, a)
  PROVE  IInv'
<1>1. CASE Panic
  BY <1>1, PanicStep
<1>2. CASE ~Panic
  <2>1. /\ UNCHANGED <<controls, handle, pc, on, owed, call, exited>>
        /\ ready' = [ready EXCEPT ![t] = @ \cup {a}]
        /\ pc[t] = "call"
    BY <1>2 DEF Data
  <2>2. TypeOK'
    BY <2>1 DEF IInv, TypeOK, controls
  <2>3. WorkLive' /\ \A b \in call'[t] : b.slot \in Mine(t)
    BY <2>1, ArgumentLive DEF IInv, NoTouchAfterFree, WorkLive, controls
  <2>4. pc[t] \notin Releasing /\ pc'[t] = "call"
    BY <2>1 DEF Releasing
  <2> QED
    BY <2>1, <2>2, <2>3, <2>4, CallOnly DEF controls
<1> QED
  BY <1>1, <1>2

LEMMA InvalidateStep ==
  ASSUME IInv, NEW t \in Threads, NEW a \in Arguments, Invalidate(t, a)
  PROVE  IInv'
<1>1. CASE Panic
  BY <1>1, PanicStep
<1>2. CASE ~Panic
  <2>1. /\ UNCHANGED <<alloc, refs, payload, live, dropped, taken, handle, owed, call, exited>>
        /\ invalidated' = [invalidated EXCEPT ![Target(a)] = TRUE]
        /\ ready' = [ready EXCEPT ![t] = @ \cup {a}]
        /\ pc' = [pc EXCEPT ![t] = "taking"]
        /\ on' = [on EXCEPT ![t] = Target(a)]
        /\ pc[t] = "call" /\ a \in call[t]
    BY <1>2 DEF Invalidate
  <2>2. Target(a) \in Controls /\ alloc[Target(a)] = "live"
    BY <2>1, ArgumentLive
  <2>3. TypeOK'
    BY <2>1, <2>2, NoneAssumption DEF IInv, TypeOK, Places
  <2>4. /\ \A u \in Threads \ {t} : pc'[u] = pc[u] /\ on'[u] = on[u] /\ call'[u] = call[u]
        /\ pc'[t] = "taking" /\ on'[t] = Target(a) /\ call'[t] = call[t]
    BY <2>1 DEF IInv, TypeOK
  <2>5. WorkLive' /\ \A b \in call'[t] : b.slot \in Mine(t)
    BY <2>1, <2>2, <2>4, ArgumentLive DEF IInv, NoTouchAfterFree, WorkLive
  <2>6. pc[t] \notin Releasing /\ pc'[t] \notin Releasing
    BY <2>1, <2>4 DEF Releasing
  <2> QED
    BY <2>1, <2>3, <2>4, <2>5, <2>6, CallOnly
<1> QED
  BY <1>1, <1>2

LEMMA ReturnStep ==
  ASSUME IInv, NEW t \in Threads, Return(t)
  PROVE  IInv'
<1>1. /\ UNCHANGED <<controls, handle, on, owed, exited>>
      /\ pc' = [pc EXCEPT ![t] = "idle"]
      /\ call' = [call EXCEPT ![t] = {}]
      /\ ready' = [ready EXCEPT ![t] = {}]
      /\ pc[t] = "call"
  BY DEF Return, Runs
<1>2. TypeOK'
  BY <1>1 DEF IInv, TypeOK, Places, controls
<1>3. /\ \A u \in Threads \ {t} : pc'[u] = pc[u] /\ on'[u] = on[u] /\ call'[u] = call[u]
      /\ pc'[t] = "idle" /\ call'[t] = {}
  BY <1>1 DEF IInv, TypeOK
<1>4. WorkLive'
  BY <1>1, <1>3 DEF IInv, NoTouchAfterFree, WorkLive, controls
<1>5. pc[t] \notin Releasing /\ pc'[t] \notin Releasing
  BY <1>1, <1>3 DEF Releasing
<1> QED
  BY <1>1, <1>2, <1>3, <1>4, <1>5, CallOnly DEF controls

LEMMA ReturnViewStep ==
  ASSUME IInv, NEW t \in Threads, NEW a \in Arguments, ReturnView(t, a)
  PROVE  IInv'
<1>1. CASE Panic
  BY <1>1, PanicStep
<1>2. CASE ~Panic
  <2>1. /\ UNCHANGED <<controls, handle, owed, call, ready, exited>>
        /\ pc' = [pc EXCEPT ![t] = "retaining"]
        /\ on' = [on EXCEPT ![t] = Target(a)]
        /\ pc[t] = "call" /\ a \in call[t]
    BY <1>2 DEF ReturnView, Runs
  <2>2. Target(a) \in Controls /\ alloc[Target(a)] = "live"
    BY <2>1, ArgumentLive
  <2>3. TypeOK'
    BY <2>1, <2>2, NoneAssumption DEF IInv, TypeOK, Places, controls
  <2>4. /\ \A u \in Threads \ {t} : pc'[u] = pc[u] /\ on'[u] = on[u] /\ call'[u] = call[u]
        /\ pc'[t] = "retaining" /\ on'[t] = Target(a) /\ call'[t] = call[t]
    BY <2>1 DEF IInv, TypeOK
  <2>5. WorkLive' /\ \A b \in call'[t] : b.slot \in Mine(t)
    BY <2>1, <2>2, <2>4, ArgumentLive DEF IInv, NoTouchAfterFree, WorkLive, controls
  <2>6. pc[t] \notin Releasing /\ pc'[t] \notin Releasing
    BY <2>1, <2>4 DEF Releasing
  <2> QED
    BY <2>1, <2>3, <2>4, <2>5, <2>6, CallOnly DEF controls
<1> QED
  BY <1>1, <1>2

LEMMA TakeStep ==
  ASSUME IInv, NEW t \in Threads, Take(t)
  PROVE  IInv'
<1>1. CASE Panic
  BY <1>1, PanicStep
<1>2. CASE ~Panic
  <2> DEFINE b == on[t]
  <2>1. /\ UNCHANGED <<alloc, refs, invalidated, live, dropped, handle, on, owed, call, ready, exited>>
        /\ payload' = [payload EXCEPT ![b] = FALSE]
        /\ taken' = [taken EXCEPT ![b] = @ + 1]
        /\ pc' = [pc EXCEPT ![t] = "call"]
        /\ pc[t] = "taking" /\ payload[b]
    BY <1>2 DEF Take
  <2>2. b \in Controls /\ alloc[b] = "live"
    BY <2>1 DEF IInv, TypeOK, NoTouchAfterFree, WorkLive
  <2>3. refs[b] # 0
    <3>1. PICK a \in call[t] : Target(a) = b
      BY <2>1 DEF IInv, CallsWork
    <3>2. a.slot \in Slots /\ ~Empty(a.slot)
      BY <3>1 DEF IInv, CallsHold, Mine
    <3> QED
      BY <3>1, <3>2, Counted DEF IInv, NoTouchAfterFree, Target
  <2>4. \A u \in Threads : pc[u] \in Releasing => on[u] # b
    BY <2>3 DEF IInv, ReleaseLast
  <2>5. Pending(b) /\ ~Pending(b)'
    BY <2>1, <2>2, <2>4 DEF Pending, Releasing, IInv, TypeOK
  <2>6. \A c \in Controls \ {b} : (Pending(c)' <=> Pending(c)) /\ taken'[c] = taken[c] /\ payload'[c] = payload[c]
    BY <2>1 DEF Pending, IInv, TypeOK
  <2>7. taken'[b] = taken[b] + 1 /\ ~payload'[b]
    BY <2>1, <2>2 DEF IInv, TypeOK
  <2>8. TypeOK'
    BY <2>1, <2>2 DEF IInv, TypeOK, Places
  <2>9. Endings'
    BY <2>1, <2>2, <2>5, <2>6, <2>7 DEF IInv, Endings, TypeOK
  <2>10. CountsHandles' /\ HandlesLive' /\ LiveCount'
    BY <2>1, SameHandles DEF IInv, NoTouchAfterFree
  <2>11. WorkLive' /\ ReleaseLast' /\ ReleaseAlone' /\ ReleaseStarted'
    BY <2>1 DEF IInv, TypeOK, NoTouchAfterFree, WorkLive, ReleaseLast, ReleaseAlone, ReleaseStarted,
      InRelease, Releasing
  <2>12. CallsHold' /\ CallsOpen' /\ CallsWork'
    BY <2>1 DEF IInv, TypeOK, CallsHold, Mine, Empty, CallsOpen, CallsWork, Target, Releasing
  <2>13. Emptied' /\ DroppedUnheld'
    BY <2>1, <2>2 DEF IInv, TypeOK, Emptied, DroppedUnheld, Refers, Empty
  <2> QED
    BY <2>8, <2>9, <2>10, <2>11, <2>12, <2>13 DEF IInv, NoTouchAfterFree
<1> QED
  BY <1>1, <1>2

LEMMA RetainParentStep ==
  ASSUME IInv, NEW t \in Threads, NEW r \in Slots, RetainParent(t, r)
  PROVE  IInv'
<1> DEFINE h == [to |-> on[t], view |-> TRUE, of |-> t]
<1>1. /\ pc[t] = "retaining" /\ Empty(r)
      /\ handle' = [handle EXCEPT ![r] = h]
      /\ refs' = [refs EXCEPT ![on[t]] = @ + 1]
      /\ pc' = [pc EXCEPT ![t] = "idle"]
      /\ call' = [call EXCEPT ![t] = {}]
      /\ ready' = [ready EXCEPT ![t] = {}]
      /\ UNCHANGED <<alloc, invalidated, payload, live, dropped, taken, on, owed, exited>>
  BY DEF RetainParent
<1>2. PICK a \in call[t] : Target(a) = on[t]
  BY <1>1 DEF IInv, CallsWork
<1>3. a.slot \in Slots /\ ~Empty(a.slot) /\ handle[a.slot].to = on[t] /\ on[t] \in Controls
  BY <1>2, ArgumentLive DEF IInv, CallsHold, Mine, Target
<1>4. h \in Handles /\ h.to = on[t]
  BY <1>3 DEF Handles
<1> HIDE DEF h
<1>5. /\ CountsHandles' /\ HandlesLive' /\ DroppedUnheld' /\ LiveCount'
      /\ refs' \in [Controls -> Nat]
      /\ handle' \in [Slots -> Handles \cup {None}]
      /\ \A c \in Controls : refs'[c] = 0 <=> refs[c] = 0
      /\ \A q \in Slots : ~Empty(q) => ~Empty(q)' /\ handle'[q] = handle[q]
  <2>1. h.to = handle[a.slot].to /\ refs' = [refs EXCEPT ![h.to] = @ + 1]
    BY <1>1, <1>3, <1>4
  <2> QED
    BY <1>1, <1>3, <1>4, <2>1, Retained
<1>6. /\ \A u \in Threads \ {t} : pc'[u] = pc[u] /\ call'[u] = call[u]
      /\ pc'[t] = "idle" /\ call'[t] = {}
  BY <1>1 DEF IInv, TypeOK
<1>7. TypeOK'
  BY <1>1, <1>5 DEF IInv, TypeOK, Places
<1>8. WorkLive' /\ ReleaseLast' /\ ReleaseAlone' /\ ReleaseStarted'
  BY <1>1, <1>5, <1>6 DEF IInv, TypeOK, NoTouchAfterFree, WorkLive, ReleaseLast, ReleaseAlone,
    ReleaseStarted, InRelease, Releasing
<1>9. \A c \in Controls : Pending(c)' <=> Pending(c)
  BY <1>1, <1>6 DEF Pending
<1>10. Endings' /\ Emptied'
  BY <1>1, <1>6, <1>9 DEF IInv, Endings, Emptied
<1>11. CallsHold' /\ CallsOpen' /\ CallsWork'
  BY <1>1, <1>5, <1>6 DEF IInv, CallsHold, CallsOpen, CallsWork, Target, Mine, Releasing
<1> QED
  BY <1>5, <1>7, <1>8, <1>10, <1>11 DEF IInv, NoTouchAfterFree

LEMMA Initially == Init => IInv
<1> SUFFICES ASSUME Init PROVE IInv
  OBVIOUS
<1>1. TypeOK
  <2>1. /\ alloc \in [Controls -> {"unused", "live", "freed"}]
        /\ refs \in [Controls -> Nat] /\ dropped \in [Controls -> Nat] /\ taken \in [Controls -> Nat]
        /\ invalidated \in [Controls -> BOOLEAN] /\ payload \in [Controls -> BOOLEAN]
        /\ live \in Int
    BY DEF Init
  <2>2. /\ handle \in [Slots -> Handles \cup {None}]
        /\ pc \in [Threads -> Places]
        /\ \A t \in Threads : pc[t] \notin {"idle", "call"} => on[t] # None
    BY DEF Init, Places
  <2>3. on \in [Threads -> Controls \cup {None}]
    BY DEF Init
  <2>4. /\ owed \in [Threads -> BOOLEAN] /\ exited \in BOOLEAN
        /\ call \in [Threads -> SUBSET Arguments] /\ ready \in [Threads -> SUBSET Arguments]
    BY DEF Init
  <2> QED
    BY <2>1, <2>2, <2>3, <2>4 DEF TypeOK
<1>2. CountsHandles /\ NoTouchAfterFree /\ Endings /\ DroppedUnheld
  BY DEF Init, CountsHandles, NoTouchAfterFree, HandlesLive, WorkLive, Empty, Endings, DroppedUnheld
<1>3. ReleaseLast /\ ReleaseAlone /\ ReleaseStarted /\ CallsHold /\ CallsOpen /\ CallsWork /\ Emptied
  BY DEF Init, ReleaseLast, ReleaseAlone, ReleaseStarted, Releasing, CallsHold, CallsOpen, CallsWork, Emptied
<1>4. LiveCount
  <2>1. LiveBlocks = {}
    BY DEF Init, LiveBlocks
  <2> QED
    BY <2>1, FS_EmptySet DEF Init, LiveCount
<1> QED
  BY <1>1, <1>2, <1>3, <1>4 DEF IInv

LEMMA Stuttering == IInv /\ UNCHANGED vars => IInv'
<1> SUFFICES ASSUME IInv, UNCHANGED vars PROVE IInv'
  OBVIOUS
<1>1. CountsHandles' /\ HandlesLive' /\ LiveCount'
  BY SameHandles DEF IInv, NoTouchAfterFree, vars, controls
<1> QED
  BY <1>1 DEF IInv, vars, controls, threads, TypeOK, NoTouchAfterFree, WorkLive, ReleaseLast,
    ReleaseAlone, ReleaseStarted, InRelease, CallsHold, Mine, Empty, CallsOpen, CallsWork, Target,
    Endings, Pending, Emptied, DroppedUnheld, Refers

\* Every step preserves the invariant.
LEMMA Inductive == IInv /\ [Next]_vars => IInv'
<1>1. ASSUME IInv, NEW t \in Threads, Step(t)
      PROVE  IInv'
  <2>1. CASE \E s \in Slots, c \in Controls : Adopt(t, s, c)
    BY <1>1, <2>1, AdoptStep
  <2>2. CASE \E s, r \in Slots, u \in Threads : Copy(t, s, r, u)
    BY <1>1, <2>2, CopyStep
  <2>3. CASE \E s \in Slots : Release(t, s) \/ RetainParent(t, s)
    BY <1>1, <2>3, ReleaseStep, RetainParentStep
  <2>4. CASE Finish(t)
    BY <1>1, <2>4, ExchangeStep, DropStep, FreeStep DEF Finish
  <2>5. CASE \E A \in Calls : BeginCall(t, A)
    BY <1>1, <2>5, BeginCallStep
  <2>6. CASE \E a \in Arguments : Data(t, a) \/ Invalidate(t, a) \/ ReturnView(t, a)
    BY <1>1, <2>6, DataStep, InvalidateStep, ReturnViewStep
  <2>7. CASE Take(t) \/ Return(t)
    BY <1>1, <2>7, TakeStep, ReturnStep
  <2> QED
    BY <1>1, <2>1, <2>2, <2>3, <2>4, <2>5, <2>6, <2>7 DEF Step
<1> QED
  BY <1>1, Stuttering DEF Next

-----------------------------------------------------------------------------
(* Theorems *)

\* The invariant of the runtime holds throughout: in particular only the thread
\* whose fetch_sub returned one works on a block whose count is zero.
THEOREM Invariance == Spec => []IInv
BY Initially, Inductive, PTL DEF Spec

\* Every variable of the runtime has its type; in particular no count goes
\* below zero.
THEOREM TypeCorrect == Spec => []TypeOK
<1>1. IInv => TypeOK
  BY DEF IInv
<1> QED
  BY <1>1, Invariance, PTL

\* The count of a live block is the number of handles that refer to it, whatever
\* the threads are in the middle of.
THEOREM CountsExact == Spec => []CountsHandles
<1>1. IInv => CountsHandles
  BY DEF IInv
<1> QED
  BY <1>1, Invariance, PTL

\* No handle refers to a block that has been freed, and no thread is at work on
\* one: a release that found other handles left never comes back to the block.
THEOREM FreedUntouched == Spec => []NoTouchAfterFree
<1>1. IInv => NoTouchAfterFree
  BY DEF IInv
<1> QED
  BY <1>1, Invariance, PTL

\* A payload is destroyed or handed over, once, and has been when its block is
\* freed; it is never destroyed while a native function has it.
THEOREM PayloadEndsOnce == Spec => [](EndsOnce /\ NoDropDuringCall)
<1>1. IInv => EndsOnce
  <2> SUFFICES ASSUME IInv, NEW c \in Controls
               PROVE  /\ dropped[c] + taken[c] <= 1
                      /\ alloc[c] = "freed" => dropped[c] + taken[c] = 1
    BY DEF EndsOnce
  <2>1. alloc[c] = "freed" => ~Pending(c)
    BY DEF IInv, Endings, Pending, NoTouchAfterFree, WorkLive
  <2> QED
    BY <2>1 DEF IInv, Endings, TypeOK
<1>2. IInv => NoDropDuringCall
  <2> SUFFICES ASSUME IInv, NEW t \in Threads, NEW a \in call[t]
               PROVE  dropped[Target(a)] = 0
    BY DEF NoDropDuringCall
  <2>1. a.slot \in Slots /\ Refers(a.slot, Target(a)) /\ Target(a) \in Controls
    BY ArgumentLive DEF Mine, Refers, Target
  <2> QED
    BY <2>1 DEF IInv, DroppedUnheld, TypeOK
<1> QED
  BY <1>1, <1>2, Invariance, PTL

\* When no handle is left and no thread is in a release, no block is left.
THEOREM NothingLeft == Spec => []Clean
<1>1. IInv => Clean
  <2> SUFFICES ASSUME IInv, \A s \in Slots : Empty(s), \A t \in Threads : Idle(t)
               PROVE  live = 0 /\ \A c \in Controls : alloc[c] # "live"
    BY DEF Clean
  <2>1. ASSUME NEW c \in Controls, alloc[c] = "live"
        PROVE  FALSE
    <3>1. HandlesOf(c) = {}
      BY DEF HandlesOf, Refers
    <3>2. refs[c] = 0
      BY <2>1, <3>1, FS_EmptySet DEF IInv, CountsHandles
    <3> QED
      BY <2>1, <3>2 DEF IInv, ReleaseStarted, InRelease, Releasing, Idle
  <2>2. LiveBlocks = {}
    BY <2>1 DEF LiveBlocks
  <2> QED
    BY <2>1, <2>2, FS_EmptySet DEF IInv, LiveCount
<1> QED
  BY <1>1, Invariance, PTL

-----------------------------------------------------------------------------
(* The runtime implements Resource *)

\* A step that changes neither what a handle refers to nor how a payload ended
LEMMA Unseen ==
  ASSUME UNCHANGED <<handle, dropped, taken>>,
         \A c \in Controls : alloc'[c] = "unused" <=> alloc[c] = "unused"
  PROVE  AbsHolds' = AbsHolds /\ AbsStatus' = AbsStatus
BY DEF AbsHolds, AbsStatus, Empty, Status

LEMMA HoldsValue ==
  \A s \in Slots : AbsHolds[s] = IF Empty(s) THEN None ELSE handle[s].to
BY DEF AbsHolds

\* A slot holds what its handle refers to.
LEMMA HoldsRefers ==
  ASSUME TypeOK, NEW s \in Slots, NEW c \in Controls
  PROVE  /\ AbsHolds[s] = c <=> Refers(s, c)
         /\ AbsHolds[s] = None <=> Empty(s)
<1>1. ~Empty(s) => handle[s].to \in Controls
  BY DEF TypeOK, Empty, Handles
<1> QED
  BY <1>1, NoneAssumption, HoldsValue DEF Refers

LEMMA AdoptRefines ==
  ASSUME IInv, NEW t \in Threads, NEW r \in Slots, NEW b \in Controls, Adopt(t, r, b)
  PROVE  Abstract!Acquire(r, b)
<1> DEFINE h == [to |-> b, view |-> FALSE, of |-> t]
<1>1. h \in Handles /\ h.to = b /\ handle' = [handle EXCEPT ![r] = h] /\ Empty(r) /\ alloc[b] = "unused"
  BY DEF Adopt, Handles
<1> HIDE DEF h
<1>2. h # None /\ \A s \in Slots : handle'[s] = IF s = r THEN h ELSE handle[s]
  BY <1>1, NoneAssumption DEF IInv, TypeOK
<1>3. AbsHolds' = [AbsHolds EXCEPT ![r] = b]
  <2>1. \A s \in Slots : (IF Empty(s)' THEN None ELSE handle'[s].to) =
                           IF s = r THEN b ELSE IF Empty(s) THEN None ELSE handle[s].to
    BY <1>1, <1>2 DEF Empty
  <2> QED
    BY <2>1 DEF AbsHolds
<1>4. \A c \in Controls : alloc'[c] = IF c = b THEN "live" ELSE alloc[c]
  BY DEF Adopt, IInv, TypeOK
<1>5. dropped[b] = 0 /\ taken[b] = 0 /\ UNCHANGED <<dropped, taken>>
  BY <1>1 DEF IInv, Endings, Adopt
<1>6. AbsStatus' = [AbsStatus EXCEPT ![b] = "owned"]
  <2>1. \A c \in Controls : Status(c)' = IF c = b THEN "owned" ELSE Status(c)
    BY <1>4, <1>5 DEF Status
  <2> QED
    BY <2>1 DEF AbsStatus
<1>7. AbsHolds[r] = None /\ AbsStatus[b] = "none"
  <2>1. AbsHolds[r] = None
    BY <1>1, HoldsValue
  <2>2. Status(b) = "none"
    BY <1>1, <1>5 DEF Status
  <2> QED
    BY <2>1, <2>2 DEF AbsStatus
<1> QED
  BY <1>3, <1>6, <1>7 DEF Abstract!Acquire

\* A copy or a view: a slot gets a handle of what another slot refers to.
LEMMA RetainedRefines ==
  ASSUME IInv, NEW s \in Slots, ~Empty(s), NEW r \in Slots, Empty(r), NEW h \in Handles,
         h.to = handle[s].to,
         handle' = [handle EXCEPT ![r] = h],
         UNCHANGED <<alloc, dropped, taken>>
  PROVE  Abstract!Share(s, r)
<1>1. \A q \in Slots : handle'[q] = IF q = r THEN h ELSE handle[q]
  BY DEF IInv, TypeOK
<1>2. h # None /\ AbsHolds[s] = handle[s].to
  BY NoneAssumption DEF AbsHolds
<1>3. AbsHolds' = [AbsHolds EXCEPT ![r] = AbsHolds[s]]
  <2>1. \A q \in Slots : (IF Empty(q)' THEN None ELSE handle'[q].to) =
                           IF q = r THEN AbsHolds[s] ELSE IF Empty(q) THEN None ELSE handle[q].to
    BY <1>1, <1>2 DEF Empty
  <2> QED
    BY <2>1 DEF AbsHolds
<1>4. AbsStatus' = AbsStatus
  BY DEF AbsStatus, Status
<1>5. AbsHolds[s] # None /\ AbsHolds[r] = None
  <2>1. handle[s].to \in Controls
    BY DEF IInv, TypeOK, Empty, Handles
  <2> QED
    BY <1>2, <2>1, NoneAssumption DEF AbsHolds
<1> QED
  BY <1>3, <1>4, <1>5 DEF Abstract!Share

LEMMA ReleaseRefines ==
  ASSUME IInv, NEW t \in Threads, NEW r \in Slots, Release(t, r)
  PROVE  Abstract!Forget(r)
<1>1. ~Empty(r) /\ handle' = [handle EXCEPT ![r] = None] /\ UNCHANGED <<alloc, dropped, taken>>
  BY DEF Release, Mine
<1>2. \A q \in Slots : handle'[q] = IF q = r THEN None ELSE handle[q]
  BY <1>1 DEF IInv, TypeOK
<1>3. AbsHolds' = [AbsHolds EXCEPT ![r] = None]
  BY <1>2 DEF AbsHolds, Empty
<1>4. AbsStatus' = AbsStatus
  BY <1>1 DEF AbsStatus, Status
<1>5. AbsHolds[r] # None
  <2>1. handle[r].to \in Controls
    BY <1>1 DEF IInv, TypeOK, Empty, Handles
  <2> QED
    BY <1>1, <2>1, NoneAssumption DEF AbsHolds
<1> QED
  BY <1>3, <1>4, <1>5 DEF Abstract!Forget

LEMMA DropRefines ==
  ASSUME IInv, NEW t \in Threads, Drop(t)
  PROVE  Abstract!Destroy(on[t]) \/ UNCHANGED <<AbsHolds, AbsStatus>>
<1> DEFINE b == on[t]
<1>1. /\ b \in Controls /\ pc[t] = "drop" /\ alloc[b] = "live" /\ refs[b] = 0
      /\ dropped' = [dropped EXCEPT ![b] = IF owed[t] THEN @ + 1 ELSE @]
      /\ UNCHANGED <<alloc, taken, handle>>
  BY DEF IInv, TypeOK, Drop, NoTouchAfterFree, WorkLive, ReleaseLast, Releasing
<1>2. CASE ~owed[t]
  <2>1. dropped' = dropped
    BY <1>1, <1>2 DEF IInv, TypeOK
  <2> QED
    BY <1>1, <2>1, Unseen
<1>3. CASE owed[t]
  <2>1. dropped[b] = 0 /\ taken[b] = 0
    <3>1. Pending(b)
      BY <1>1, <1>3 DEF Pending
    <3> QED
      BY <1>1, <3>1 DEF IInv, Endings, TypeOK
  <2>2. \A c \in Controls : dropped'[c] = IF c = b THEN 1 ELSE dropped[c]
    BY <1>1, <1>3, <2>1 DEF IInv, TypeOK
  <2>3. AbsHolds' = AbsHolds
    BY <1>1 DEF AbsHolds, Empty
  <2>4. AbsStatus' = [AbsStatus EXCEPT ![b] = "destroyed"] /\ AbsStatus[b] = "owned"
    BY <1>1, <2>1, <2>2 DEF AbsStatus, Status
  <2>5. \A s \in Slots : AbsHolds[s] # b
    BY <1>1, Unheld, HoldsRefers DEF IInv
  <2> QED
    BY <2>3, <2>4, <2>5 DEF Abstract!Destroy
<1> QED
  BY <1>2, <1>3

LEMMA TakeRefines ==
  ASSUME IInv, NEW t \in Threads, Take(t), ~Panic
  PROVE  Abstract!Consume(on[t]) /\ on[t] \in Controls
<1> DEFINE b == on[t]
<1>1. /\ pc[t] = "taking" /\ payload[b] /\ taken' = [taken EXCEPT ![b] = @ + 1]
      /\ UNCHANGED <<alloc, dropped, handle>>
  BY DEF Take
<1>2. b \in Controls /\ alloc[b] = "live"
  BY <1>1 DEF IInv, TypeOK, NoTouchAfterFree, WorkLive
<1>3. dropped[b] = 0 /\ taken[b] = 0
  BY <1>1, <1>2 DEF IInv, Endings, Pending, TypeOK
<1>4. \A c \in Controls : taken'[c] = IF c = b THEN 1 ELSE taken[c]
  BY <1>1, <1>2, <1>3 DEF IInv, TypeOK
<1>5. AbsStatus' = [AbsStatus EXCEPT ![b] = "consumed"] /\ AbsStatus[b] = "owned"
  BY <1>1, <1>2, <1>3, <1>4 DEF AbsStatus, Status
<1>6. AbsHolds' = AbsHolds
  BY <1>1 DEF AbsHolds, Empty
<1>7. \E s \in Slots : AbsHolds[s] = b
  <2>1. PICK a \in call[t] : Target(a) = b
    BY <1>1 DEF IInv, CallsWork
  <2>2. a.slot \in Slots /\ Refers(a.slot, b)
    BY <2>1 DEF IInv, CallsHold, Mine, Refers, Target
  <2> QED
    BY <1>2, <2>2, HoldsRefers DEF IInv
<1> QED
  BY <1>2, <1>5, <1>6, <1>7 DEF Abstract!Consume

LEMMA StepRefines ==
  ASSUME IInv, NEW t \in Threads, Step(t)
  PROVE  Abstract!Next \/ UNCHANGED <<AbsHolds, AbsStatus>>
<1>1. CASE \E s \in Slots, c \in Controls : Adopt(t, s, c)
  BY <1>1, AdoptRefines DEF Abstract!Next
<1>2. ASSUME NEW s \in Slots, NEW r \in Slots, NEW u \in Threads, Copy(t, s, r, u)
      PROVE  Abstract!Share(s, r)
  <2> DEFINE h == [handle[s] EXCEPT !.of = u]
  <2>1. ~Empty(s) /\ Empty(r) /\ handle[s] \in Handles
    BY <1>2, Counted DEF IInv, NoTouchAfterFree, Copy, Mine
  <2>2. h \in Handles /\ h.to = handle[s].to
    BY <2>1 DEF Handles
  <2>3. handle' = [handle EXCEPT ![r] = h] /\ UNCHANGED <<alloc, dropped, taken>>
    BY <1>2 DEF Copy
  <2> HIDE DEF h
  <2> QED
    BY <2>1, <2>2, <2>3, RetainedRefines
<1>3. CASE \E s \in Slots : Release(t, s)
  BY <1>3, ReleaseRefines DEF Abstract!Next
<1>4. CASE Exchange(t)
  BY <1>4, Unseen DEF Exchange
<1>5. CASE Drop(t)
  <2>1. on[t] \in Controls
    BY <1>5 DEF IInv, TypeOK, Drop
  <2> QED
    BY <1>5, <2>1, DropRefines DEF Abstract!Next
<1>6. CASE Free(t)
  <2>1. on[t] \in Controls /\ alloc[on[t]] = "live"
    BY <1>6 DEF IInv, TypeOK, Free, NoTouchAfterFree, WorkLive
  <2>2. \A c \in Controls : alloc'[c] = "unused" <=> alloc[c] = "unused"
    BY <1>6, <2>1 DEF IInv, TypeOK, Free
  <2> QED
    BY <1>6, <2>2, Unseen DEF Free
<1>7. CASE \E A \in Calls : BeginCall(t, A)
  BY <1>7, Unseen DEF BeginCall, controls
<1>8. CASE \E a \in Arguments : Data(t, a) \/ Invalidate(t, a) \/ ReturnView(t, a)
  <2>1. UNCHANGED <<alloc, handle, dropped, taken>>
    BY <1>8 DEF Data, Invalidate, ReturnView, Panic, controls
  <2> QED
    BY <2>1, Unseen
<1>9. CASE Take(t)
  <2>1. CASE Panic
    BY <2>1, Unseen DEF Panic, controls
  <2>2. CASE ~Panic
    BY <1>9, <2>2, TakeRefines DEF Abstract!Next
  <2> QED
    BY <2>1, <2>2
<1>10. CASE Return(t)
  BY <1>10, Unseen DEF Return, controls
<1>11. ASSUME NEW r \in Slots, RetainParent(t, r)
       PROVE  \E s \in Slots : Abstract!Share(s, r)
  <2> DEFINE h == [to |-> on[t], view |-> TRUE, of |-> t]
  <2>1. /\ pc[t] = "retaining" /\ Empty(r) /\ handle' = [handle EXCEPT ![r] = h]
        /\ UNCHANGED <<alloc, dropped, taken>>
    BY <1>11 DEF RetainParent
  <2>2. PICK a \in call[t] : Target(a) = on[t]
    BY <2>1 DEF IInv, CallsWork
  <2>3. a.slot \in Slots /\ ~Empty(a.slot) /\ handle[a.slot].to = on[t] /\ on[t] \in Controls
    BY <2>2, ArgumentLive DEF IInv, CallsHold, Mine, Target
  <2>4. h \in Handles /\ h.to = handle[a.slot].to
    BY <2>3 DEF Handles
  <2> HIDE DEF h
  <2>5. Abstract!Share(a.slot, r)
    BY <2>1, <2>3, <2>4, RetainedRefines
  <2> QED
    BY <2>3, <2>5
<1>12. CASE (\E s, r \in Slots, u \in Threads : Copy(t, s, r, u)) \/ (\E s \in Slots : RetainParent(t, s))
  BY <1>2, <1>11, <1>12 DEF Abstract!Next
<1> QED
  BY <1>1, <1>3, <1>4, <1>5, <1>6, <1>7, <1>8, <1>9, <1>10, <1>12 DEF Step, Finish

\* Every behaviour of the runtime is one of the abstract resources: a resource
\* is destroyed only when no handle is left, consumed only through a handle,
\* and never both.
THEOREM Implements == Spec => AbstractSpec
<1>1. Init => Abstract!Init
  BY DEF Init, Abstract!Init, AbsHolds, AbsStatus, Empty, Status
<1>2. IInv /\ [Next]_vars => [Abstract!Next]_(Abstract!vars)
  <2> SUFFICES ASSUME IInv, [Next]_vars
               PROVE  Abstract!Next \/ UNCHANGED <<AbsHolds, AbsStatus>>
    BY DEF Abstract!vars
  <2>1. CASE UNCHANGED vars
    BY <2>1, Unseen DEF vars, controls
  <2>2. CASE Next
    BY <2>2, StepRefines DEF Next
  <2> QED
    BY <2>1, <2>2
<1> QED
  BY <1>1, <1>2, Invariance, PTL DEF Spec, AbstractSpec, Abstract!Spec

-----------------------------------------------------------------------------
(* Sequences of sequences *)

Less == {ss \in Nat \X Nat : ss[1] < ss[2]}

LEMMA LessWellFounded == IsWellFoundedOn(Less, Nat)
BY NatLessThanWellFounded DEF OpToRel, Less

LEMMA LeastNumber ==
  ASSUME NEW ns, ns \subseteq Nat, ns # {}
  PROVE  \E n \in ns : \A m \in ns : n <= m
<1>1. PICK n \in ns : \A m \in ns : ~(<<m, n>> \in Less)
  BY LessWellFounded, WFMin
<1>2. ASSUME NEW m \in ns PROVE n <= m
  <2>1. <<m, n>> \in Nat \X Nat /\ ~(m < n)
    BY <1>1 DEF Less
  <2> QED
    BY <2>1
<1> QED
  BY <1>2

\* FlattenSeq is defined by a recursive function of an index, which exists.
Flattens(f, ss, n) ==
    f = [i \in 1..n |-> IF i = 1 THEN ss[i] ELSE f[i - 1] \o ss[i]]

LEMMA FlattenStep ==
  ASSUME NEW S, NEW ss \in Seq(Seq(S)), NEW n \in 1..Len(ss),
         NEW f \in [1..(n - 1) -> Seq(S)], Flattens(f, ss, n - 1)
  PROVE  \E g \in [1..n -> Seq(S)] : Flattens(g, ss, n)
<1> DEFINE g == [i \in 1..n |-> IF i < n THEN f[i] ELSE IF n = 1 THEN ss[1] ELSE f[n - 1] \o ss[n]]
<1>1. g \in [1..n -> Seq(S)]
  <2>1. ASSUME NEW i \in 1..n PROVE g[i] \in Seq(S)
    <3>1. CASE i < n
      BY <3>1
    <3>2. CASE i = n /\ n = 1
      BY <3>2
    <3>3. CASE i = n /\ n # 1
      <4>1. f[n - 1] \in Seq(S) /\ ss[n] \in Seq(S)
        BY <3>3
      <4>2. f[n - 1] \o ss[n] \in Seq(S)
        BY <4>1
      <4> QED
        BY <3>3, <4>2
    <3> QED
      BY <3>1, <3>2, <3>3
  <2> QED
    BY <2>1
<1>2. ASSUME NEW i \in 1..n PROVE g[i] = IF i = 1 THEN ss[i] ELSE g[i - 1] \o ss[i]
  <2>1. CASE i < n
    <3>1. i \in 1..(n - 1) /\ g[i] = f[i]
      BY <2>1
    <3>2. f[i] = IF i = 1 THEN ss[i] ELSE f[i - 1] \o ss[i]
      BY <3>1 DEF Flattens
    <3>3. i # 1 => g[i - 1] = f[i - 1]
      BY <3>1
    <3> QED
      BY <3>1, <3>2, <3>3
  <2>2. CASE i = n
    BY <2>2
  <2> QED
    BY <2>1, <2>2
<1> QED
  BY <1>1, <1>2 DEF Flattens

LEMMA FlattenExists ==
  ASSUME NEW S, NEW ss \in Seq(Seq(S))
  PROVE  \E f \in [1..Len(ss) -> Seq(S)] : Flattens(f, ss, Len(ss))
<1> DEFINE Bad == {n \in 0..Len(ss) : ~ \E f \in [1..n -> Seq(S)] : Flattens(f, ss, n)}
<1>1. SUFFICES ASSUME Bad # {} PROVE FALSE
  OBVIOUS
<1>2. Bad \subseteq Nat
  OBVIOUS
<1>3. PICK n \in Bad : \A m \in Bad : n <= m
  BY <1>2, <1>1, LeastNumber, Zenon
<1>4. n \in 0..Len(ss)
  BY <1>3
<1>5. n # 0
  <2>1. <<>> \in [1..0 -> Seq(S)] /\ Flattens(<<>>, ss, 0)
    BY DEF Flattens
  <2> QED
    BY <2>1, <1>3
<1>6. n - 1 \in 0..Len(ss) /\ n - 1 \notin Bad /\ n \in 1..Len(ss)
  <2>1. n - 1 \in 0..Len(ss) /\ n \in 1..Len(ss) /\ ~(n <= n - 1)
    BY <1>4, <1>5
  <2> QED
    BY <2>1, <1>3
<1>7. PICK f \in [1..(n - 1) -> Seq(S)] : Flattens(f, ss, n - 1)
  BY <1>6
<1>8. \E g \in [1..n -> Seq(S)] : Flattens(g, ss, n)
  BY <1>6, <1>7, FlattenStep
<1> QED
  BY <1>3, <1>8

LEMMA FlattenIs ==
  ASSUME NEW S, NEW ss \in Seq(Seq(S)), Len(ss) # 0
  PROVE  \E f \in [1..Len(ss) -> Seq(S)] : Flattens(f, ss, Len(ss)) /\ FlattenSeq(ss) = f[Len(ss)]
<1> DEFINE f == CHOOSE f : Flattens(f, ss, Len(ss))
<1>1. Flattens(f, ss, Len(ss))
  BY FlattenExists
<1>2. FlattenSeq(ss) = f[Len(ss)]
  BY DEF FlattenSeq, Flattens
<1>3. PICK h \in [1..Len(ss) -> Seq(S)] : Flattens(h, ss, Len(ss))
  BY FlattenExists
<1> HIDE DEF f
<1>4. f \in [1..Len(ss) -> Seq(S)]
  <2>1. DOMAIN f = 1..Len(ss) /\ f = [i \in 1..Len(ss) |-> f[i]]
    BY <1>1 DEF Flattens
  <2>2. SUFFICES ASSUME {i \in 1..Len(ss) : f[i] \notin Seq(S)} # {} PROVE FALSE
    BY <2>1
  <2> DEFINE Bad == {i \in 1..Len(ss) : f[i] \notin Seq(S)}
  <2>3. Bad \subseteq Nat
    OBVIOUS
  <2>4. PICK n \in Bad : \A m \in Bad : n <= m
    BY <2>3, <2>2, LeastNumber, Zenon
  <2>5. f[n] = IF n = 1 THEN ss[n] ELSE f[n - 1] \o ss[n]
    BY <1>1, <2>4 DEF Flattens
  <2>6. ss[n] \in Seq(S)
    BY <2>4
  <2>7. n # 1 => f[n - 1] \in Seq(S)
    BY <2>4
  <2>8. n # 1 => f[n - 1] \o ss[n] \in Seq(S)
    BY <2>6, <2>7
  <2> QED
    BY <2>4, <2>5, <2>6, <2>8
<1> QED
  BY <1>1, <1>2, <1>4

LEMMA ElementsOfBoth ==
  ASSUME NEW S, NEW s \in Seq(S), NEW t \in Seq(S)
  PROVE  ToSet(s \o t) = ToSet(s) \cup ToSet(t)
<1>1. ASSUME NEW e \in ToSet(s \o t) PROVE e \in ToSet(s) \cup ToSet(t)
  <2>1. PICK i \in 1..(Len(s) + Len(t)) : e = (s \o t)[i]
    BY DEF ToSet
  <2> QED
    BY <2>1 DEF ToSet
<1>2. ASSUME NEW i \in DOMAIN s PROVE s[i] \in ToSet(s \o t)
  BY DEF ToSet
<1>3. ASSUME NEW i \in DOMAIN t PROVE t[i] \in ToSet(s \o t)
  <2>1. Len(s) + i \in DOMAIN (s \o t) /\ (s \o t)[Len(s) + i] = t[i]
    OBVIOUS
  <2> QED
    BY <2>1 DEF ToSet
<1> QED
  BY <1>1, <1>2, <1>3 DEF ToSet

\* What a sequence of sequences becomes has their elements.
LEMMA FlattenElements ==
  ASSUME NEW S, NEW ss \in Seq(Seq(S))
  PROVE  /\ FlattenSeq(ss) \in Seq(S)
         /\ ToSet(FlattenSeq(ss)) = UNION {ToSet(ss[i]) : i \in DOMAIN ss}
<1>1. CASE Len(ss) = 0
  <2>1. ss = <<>> /\ FlattenSeq(ss) = <<>>
    BY <1>1 DEF FlattenSeq
  <2>2. ToSet(<<>>) = {} /\ <<>> \in Seq(S)
    BY DEF ToSet
  <2>3. UNION {ToSet(ss[i]) : i \in DOMAIN ss} = {}
    BY <2>1
  <2> QED
    BY <2>1, <2>2, <2>3
<1>2. CASE Len(ss) # 0
  <2>1. PICK f \in [1..Len(ss) -> Seq(S)] : Flattens(f, ss, Len(ss)) /\ FlattenSeq(ss) = f[Len(ss)]
    BY <1>2, FlattenIs
  <2> DEFINE Upto(n) == UNION {ToSet(ss[i]) : i \in 1..n}
             Bad == {n \in 1..Len(ss) : ToSet(f[n]) # Upto(n)}
  <2>2. Bad = {}
    <3>1. SUFFICES ASSUME Bad # {} PROVE FALSE
      OBVIOUS
    <3>2. Bad \subseteq Nat
      OBVIOUS
    <3>3. PICK n \in Bad : \A m \in Bad : n <= m
      BY <3>2, <3>1, LeastNumber, Zenon
    <3>4. n \in 1..Len(ss)
      BY <3>3
    <3>5. f[n] = IF n = 1 THEN ss[n] ELSE f[n - 1] \o ss[n]
      BY <2>1, <3>3 DEF Flattens
    <3>6. CASE n = 1
      <4>1. ToSet(f[n]) = ToSet(ss[1]) /\ Upto(n) = ToSet(ss[1])
        BY <3>5, <3>6
      <4> QED
        BY <3>3, <4>1
    <3>7. CASE n # 1
      <4>1. n - 1 \in 1..Len(ss) /\ n \in 1..Len(ss) /\ ~(n <= n - 1)
        BY <3>4, <3>7
      <4>2. n - 1 \in 1..Len(ss) /\ n - 1 \notin Bad /\ n \in 1..Len(ss)
        BY <4>1, <3>3
      <4>3. ToSet(f[n - 1]) = Upto(n - 1)
        BY <4>2
      <4>4. f[n - 1] \in Seq(S) /\ ss[n] \in Seq(S)
        BY <4>2
      <4>5. ToSet(f[n - 1] \o ss[n]) = ToSet(f[n - 1]) \cup ToSet(ss[n])
        BY <4>4, ElementsOfBoth
      <4>6. 1..n = (1..(n - 1)) \cup {n}
        BY <4>2
      <4>7. Upto(n) = Upto(n - 1) \cup ToSet(ss[n])
        BY <4>6
      <4> QED
        BY <3>3, <3>5, <3>7, <4>3, <4>5, <4>7
    <3> QED
      BY <3>6, <3>7
  <2>3. Len(ss) \in 1..Len(ss) /\ DOMAIN ss = 1..Len(ss)
    BY <1>2
  <2>4. ToSet(f[Len(ss)]) = Upto(Len(ss)) /\ f[Len(ss)] \in Seq(S)
    BY <2>2, <2>3
  <2> QED
    BY <2>1, <2>3, <2>4
<1> QED
  BY <1>1, <1>2

-----------------------------------------------------------------------------
(* Recursive functions of types *)

Lists == Seq(Types)

Valued(V, f, s) == \A t \in ToSet(s) : f[t] \in Seq(V)

LEMMA ConcatIs ==
  ASSUME NEW S, NEW V, NEW f, NEW s \in Seq(S), Valued(V, f, s)
  PROVE  /\ Concat(f, s) \in Seq(V)
         /\ ToSet(Concat(f, s)) = UNION {ToSet(f[t]) : t \in ToSet(s)}
<1> DEFINE ss == [i \in DOMAIN s |-> f[s[i]]]
<1>1. ss \in Seq(Seq(V)) /\ DOMAIN ss = DOMAIN s
  <2>1. \A i \in 1..Len(s) : f[s[i]] \in Seq(V)
    BY DEF ToSet, Valued
  <2>2. ss = [i \in 1..Len(s) |-> f[s[i]]]
    OBVIOUS
  <2> QED
    BY <2>1, <2>2
<1>2. UNION {ToSet(ss[i]) : i \in DOMAIN ss} = UNION {ToSet(f[t]) : t \in ToSet(s)}
  <2>1. \A i \in DOMAIN s : ss[i] = f[s[i]] /\ s[i] \in ToSet(s)
    BY DEF ToSet
  <2>2. \A t \in ToSet(s) : \E i \in DOMAIN s : t = s[i]
    BY DEF ToSet
  <2> HIDE DEF ss
  <2> QED
    BY <1>1, <2>1, <2>2
<1>3. Concat(f, s) = FlattenSeq(ss)
  BY DEF Concat
<1> HIDE DEF ss
<1> QED
  BY <1>1, <1>2, <1>3, FlattenElements

LEMMA ConcatElements ==
  ASSUME NEW f, NEW s \in Lists, \A t \in ToSet(s) : f[t] \in Lists
  PROVE  /\ Concat(f, s) \in Lists
         /\ ToSet(Concat(f, s)) = UNION {ToSet(f[t]) : t \in ToSet(s)}
<1>1. s \in Seq(Types) /\ Valued(Types, f, s)
  BY DEF Lists, Valued
<1>2. /\ Concat(f, s) \in Seq(Types)
      /\ ToSet(Concat(f, s)) = UNION {ToSet(f[t]) : t \in ToSet(s)}
  BY <1>1, ConcatIs
<1> QED
  BY <1>2 DEF Lists

LEMMA ConcatAgrees ==
  ASSUME NEW f, NEW g, NEW s, \A t \in ToSet(s) : f[t] = g[t]
  PROVE  Concat(f, s) = Concat(g, s)
<1>1. [i \in DOMAIN s |-> f[s[i]]] = [i \in DOMAIN s |-> g[s[i]]]
  BY DEF ToSet
<1> QED
  BY <1>1 DEF Concat

\* What a function says that is defined by recursion over parts: it joins something
\* of its argument itself with its values for the parts.
Recursive(f, ts, base, sub) == \A t \in ts : f[t] = base[t] \o Concat(f, sub[t])

\* The parts come to an end.
Founded(all, sub) ==
    \A ts \in SUBSET all : ts # {} => \E t \in ts : ToSet(sub[t]) \cap ts = {}

\* Sets with the parts of each of their elements.
Closed(all, ts, sub) == ts \subseteq all /\ \A t \in ts : ToSet(sub[t]) \subseteq ts

LEMMA SolutionsAgree ==
  ASSUME NEW all, NEW base, NEW sub, Founded(all, sub),
         NEW ts, NEW us, Closed(all, ts, sub), Closed(all, us, sub),
         NEW f, NEW g, Recursive(f, ts, base, sub), Recursive(g, us, base, sub)
  PROVE  \A t \in ts \cap us : f[t] = g[t]
<1> DEFINE Differ == {u \in ts \cap us : f[u] # g[u]}
<1>1. SUFFICES ASSUME Differ # {} PROVE FALSE
  OBVIOUS
<1>2. Differ \in SUBSET all
  BY DEF Closed
<1>3. PICK u \in Differ : ToSet(sub[u]) \cap Differ = {}
  BY <1>1, <1>2 DEF Founded
<1>4. \A v \in ToSet(sub[u]) : f[v] = g[v]
  <2>1. \A v \in ToSet(sub[u]) : v \in ts \cap us
    BY <1>3 DEF Closed
  <2> QED
    BY <2>1, <1>3
<1>5. Concat(f, sub[u]) = Concat(g, sub[u])
  BY <1>4, ConcatAgrees
<1>6. f[u] = base[u] \o Concat(f, sub[u]) /\ g[u] = base[u] \o Concat(g, sub[u])
  BY <1>3 DEF Recursive
<1> QED
  BY <1>3, <1>5, <1>6

\* There is such a function, because parts come to an end: one of those without a
\* value in any solution would have parts that all have one.
LEMMA SolutionExists ==
  ASSUME NEW all, NEW V, NEW base \in [all -> Seq(V)], NEW sub \in [all -> Seq(all)],
         Founded(all, sub)
  PROVE  \E f \in [all -> Seq(V)] : Recursive(f, all, base, sub)
<1> DEFINE Partial(f, ts) == /\ Closed(all, ts, sub) /\ f \in [ts -> Seq(V)]
                             /\ Recursive(f, ts, base, sub)
           Solved == {t \in all : \E ts \in SUBSET all : t \in ts /\ \E f \in [ts -> Seq(V)] : Partial(f, ts)}
           ValueOf(t) == CHOOSE v : \E ts \in SUBSET all : t \in ts /\ \E f \in [ts -> Seq(V)] : Partial(f, ts) /\ v = f[t]
           value == [t \in Solved |-> ValueOf(t)]
<1>1. ASSUME NEW ts \in SUBSET all, NEW f \in [ts -> Seq(V)], Partial(f, ts), NEW t \in ts
      PROVE  t \in Solved /\ value[t] = f[t]
  <2>1. t \in Solved
    BY <1>1
  <2>2. \E v : \E us \in SUBSET all : t \in us /\ \E g \in [us -> Seq(V)] : Partial(g, us) /\ v = g[t]
    BY <1>1
  <2>3. \E us \in SUBSET all : t \in us /\ \E g \in [us -> Seq(V)] : Partial(g, us) /\ ValueOf(t) = g[t]
    BY <2>2, Zenon
  <2>4. PICK us \in SUBSET all : t \in us /\ \E g \in [us -> Seq(V)] : Partial(g, us) /\ ValueOf(t) = g[t]
    BY <2>3
  <2>5. PICK g \in [us -> Seq(V)] : Partial(g, us) /\ ValueOf(t) = g[t]
    BY <2>4
  <2>6. f[t] = g[t]
    <3>1. /\ Closed(all, ts, sub) /\ Closed(all, us, sub) /\ t \in ts \cap us
          /\ Recursive(f, ts, base, sub) /\ Recursive(g, us, base, sub)
      BY <1>1, <2>4, <2>5
    <3>2. \A u \in ts \cap us : f[u] = g[u]
      BY <3>1, SolutionsAgree
    <3> QED
      BY <3>1, <3>2
  <2> QED
    BY <2>1, <2>5, <2>6
<1> HIDE DEF value
<1>2. Closed(all, Solved, sub)
  <2>1. ASSUME NEW t \in Solved, NEW u \in ToSet(sub[t]) PROVE u \in Solved
    <3>1. PICK ts \in SUBSET all : t \in ts /\ \E f \in [ts -> Seq(V)] : Partial(f, ts)
      BY <2>1
    <3>2. PICK f \in [ts -> Seq(V)] : Partial(f, ts)
      BY <3>1
    <3>3. u \in ts /\ u \in all
      BY <2>1, <3>1, <3>2 DEF Closed
    <3> QED
      BY <3>2, <3>3
  <2> QED
    BY <2>1 DEF Closed
<1>3. ASSUME NEW t \in Solved
      PROVE  value[t] \in Seq(V) /\ value[t] = base[t] \o Concat(value, sub[t])
  <2>1. PICK ts \in SUBSET all : t \in ts /\ \E f \in [ts -> Seq(V)] : Partial(f, ts)
    BY <1>3
  <2>2. PICK f \in [ts -> Seq(V)] : Partial(f, ts)
    BY <2>1
  <2>3. \A u \in ToSet(sub[t]) : value[u] = f[u]
    <3>1. ASSUME NEW u \in ToSet(sub[t]) PROVE u \in ts
      BY <2>1, <2>2 DEF Closed
    <3> QED
      BY <2>2, <3>1, <1>1
  <2>4. Concat(value, sub[t]) = Concat(f, sub[t])
    BY <2>3, ConcatAgrees
  <2>5. value[t] = f[t] /\ f[t] = base[t] \o Concat(f, sub[t]) /\ f[t] \in Seq(V)
    <3>1. value[t] = f[t]
      BY <2>1, <2>2, <1>1
    <3>2. f[t] = base[t] \o Concat(f, sub[t]) /\ f[t] \in Seq(V)
      BY <2>1, <2>2 DEF Recursive
    <3> QED
      BY <3>1, <3>2
  <2> QED
    BY <2>4, <2>5
<1>4. all \subseteq Solved
  <2>1. SUFFICES ASSUME all \ Solved # {} PROVE FALSE
    OBVIOUS
  <2>2. all \ Solved \in SUBSET all
    OBVIOUS
  <2>3. PICK t \in all \ Solved : ToSet(sub[t]) \cap (all \ Solved) = {}
    BY <2>1, <2>2 DEF Founded
  <2>4. ToSet(sub[t]) \subseteq Solved /\ sub[t] \in Seq(all)
    <3>1. sub[t] \in Seq(all)
      BY <2>3
    <3>2. ToSet(sub[t]) \subseteq all
      BY <3>1 DEF ToSet
    <3> QED
      BY <2>3, <3>1, <3>2
  <2> DEFINE ts == Solved \cup {t}
             g == [u \in ts |-> IF u = t THEN base[t] \o Concat(value, sub[t]) ELSE value[u]]
  <2>5. Closed(all, ts, sub) /\ ts \in SUBSET all
    BY <1>2, <2>3, <2>4 DEF Closed
  <2>6. base[t] \o Concat(value, sub[t]) \in Seq(V)
    <3>1. Concat(value, sub[t]) \in Seq(V)
      <4>1. Valued(V, value, sub[t])
        BY <2>4, <1>3 DEF Valued
      <4> QED
        BY <2>4, <4>1, ConcatIs
    <3>2. base[t] \in Seq(V)
      BY <2>3
    <3> QED
      BY <3>1, <3>2
  <2>7. g \in [ts -> Seq(V)]
    BY <2>6, <1>3
  <2>8. \A u \in Solved : g[u] = value[u] /\ u # t
    BY <2>3
  <2>9. ASSUME NEW u \in ts PROVE g[u] = base[u] \o Concat(g, sub[u])
    <3>1. ToSet(sub[u]) \subseteq Solved
      <4>1. u = t \/ u \in Solved
        BY <2>9
      <4>2. u \in Solved => ToSet(sub[u]) \subseteq Solved
        BY <1>2 DEF Closed
      <4> QED
        BY <2>4, <4>1, <4>2
    <3>2. \A v \in ToSet(sub[u]) : g[v] = value[v]
      BY <2>8, <3>1
    <3>3. Concat(g, sub[u]) = Concat(value, sub[u])
      BY <3>2, ConcatAgrees
    <3>4. CASE u = t
      BY <3>3, <3>4
    <3>5. CASE u # t
      BY <3>3, <3>5, <1>3
    <3> QED
      BY <3>4, <3>5
  <2>10. Partial(g, ts)
    BY <2>5, <2>7, <2>9 DEF Recursive
  <2> HIDE DEF g
  <2>11. t \in Solved
    BY <2>5, <2>7, <2>10
  <2> QED
    BY <2>3, <2>11
<1>5. Solved = all
  BY <1>4
<1> HIDE DEF Solved
<1>6. value \in [all -> Seq(V)]
  <2>1. value = [t \in Solved |-> value[t]]
    <3> HIDE DEF ValueOf
    <3> QED
      BY DEF value
  <2>2. \A t \in all : value[t] \in Seq(V)
    BY <1>3, <1>5
  <2>3. value = [t \in all |-> value[t]]
    BY <2>1, <1>5, Zenon
  <2>4. DOMAIN value = all
    BY <2>3, Zenon
  <2> QED
    BY <2>2, <2>3, <2>4
<1>7. Recursive(value, all, base, sub)
  BY <1>3, <1>5 DEF Recursive
<1> QED
  BY <1>6, <1>7

LEMMA TypesClosed == \A t \in Types : Args(t) \subseteq Types /\ t.args \in Lists
BY TypesAssumption DEF Args, ToSet, Lists

LEMMA EmptyConcat == \A f : Concat(f, <<>>) = <<>>
<1>1. FlattenSeq(<<>>) = <<>>
  BY DEF FlattenSeq
<1>2. \A f : [i \in DOMAIN <<>> |-> f[<<>>[i]]] = <<>>
  OBVIOUS
<1> QED
  BY <1>1, <1>2 DEF Concat

LEMMA SameSolution ==
  ASSUME NEW all, NEW V, NEW base \in [all -> Seq(V)], NEW sub \in [all -> Seq(all)], Founded(all, sub),
         NEW f \in [all -> Seq(V)], Recursive(f, all, base, sub),
         NEW g, DOMAIN g = all, g = [t \in all |-> g[t]], Recursive(g, all, base, sub)
  PROVE  g \in [all -> Seq(V)]
<1>1. Closed(all, all, sub)
  BY DEF Closed, ToSet
<1>2. \A t \in all : g[t] = f[t]
  BY <1>1, SolutionsAgree
<1> QED
  BY <1>2

LEMMA ArgumentsEnd ==
  ASSUME NEW sub, \A t \in Types : ToSet(sub[t]) \subseteq Args(t)
  PROVE  Founded(Types, sub)
BY TextAssumption DEF Founded

LEMMA WithArgsElements ==
  ASSUME NEW t \in Types
  PROVE  /\ WithArgs[t] \in Lists
         /\ ToSet(WithArgs[t]) = {t} \cup UNION {ToSet(WithArgs[u]) : u \in Args(t)}
<1> DEFINE base == [u \in Types |-> <<u>>]
           sub == [u \in Types |-> u.args]
<1>1. /\ base \in [Types -> Lists] /\ sub \in [Types -> Lists]
      /\ \A u \in Types : ToSet(sub[u]) \subseteq Args(u)
  BY TypesClosed DEF Args, Lists
<1>2. \A f : Recursive(f, Types, base, sub) <=> \A u \in Types : f[u] = <<u>> \o Concat(f, u.args)
  BY DEF Recursive
<1> HIDE DEF base, sub
<1>3. PICK f \in [Types -> Lists] : Recursive(f, Types, base, sub)
  BY <1>1, ArgumentsEnd, SolutionExists DEF Lists
<1>4. f = [u \in Types |-> <<u>> \o Concat(f, u.args)]
  BY <1>2, <1>3
<1>5. WithArgs = [u \in Types |-> <<u>> \o Concat(WithArgs, u.args)]
  <2>1. \E g : g = [u \in Types |-> <<u>> \o Concat(g, u.args)]
    BY <1>4
  <2> QED
    BY <2>1, Zenon DEF WithArgs
<1>6. \A u \in Types : WithArgs[u] = <<u>> \o Concat(WithArgs, u.args)
  BY <1>5
<1>7. WithArgs \in [Types -> Seq(Types)]
  <2>1. DOMAIN WithArgs = Types /\ WithArgs = [u \in Types |-> WithArgs[u]]
    BY <1>5
  <2>2. Recursive(WithArgs, Types, base, sub)
    BY <1>2, <1>6
  <2>3. base \in [Types -> Seq(Types)] /\ sub \in [Types -> Seq(Types)] /\ f \in [Types -> Seq(Types)]
    BY <1>1, <1>3 DEF Lists
  <2>4. Founded(Types, sub)
    BY <1>1, ArgumentsEnd
  <2> QED
    BY <1>3, <2>1, <2>2, <2>3, <2>4, SameSolution
<1>8. Args(t) = ToSet(t.args) /\ t.args \in Lists /\ Args(t) \subseteq Types
  BY TypesClosed DEF Args
<1>9. /\ Concat(WithArgs, t.args) \in Lists
      /\ ToSet(Concat(WithArgs, t.args)) = UNION {ToSet(WithArgs[u]) : u \in Args(t)}
  <2>1. \A u \in ToSet(t.args) : WithArgs[u] \in Lists
    BY <1>7, <1>8 DEF Lists
  <2> QED
    BY <1>8, <2>1, ConcatElements
<1>10. <<t>> \in Lists /\ ToSet(<<t>>) = {t}
  BY DEF Lists, ToSet
<1>11. ToSet(<<t>> \o Concat(WithArgs, t.args)) = {t} \cup ToSet(Concat(WithArgs, t.args))
  BY <1>9, <1>10, ElementsOfBoth DEF Lists
<1> QED
  BY <1>6, <1>7, <1>9, <1>11 DEF Lists

\* What ByValue and Owned have in common: a struct is what they look for, and
\* they go into the arguments of the types of some kinds.
Finds(f, kinds) ==
    \A t \in Types :
        /\ f[t] \in Lists
        /\ t.kind = "struct" => ToSet(f[t]) = {t}
        /\ t.kind \in kinds => ToSet(f[t]) = UNION {ToSet(f[u]) : u \in Args(t)}
        /\ t.kind \notin kinds \cup {"struct"} => ToSet(f[t]) = {}

FindBy(f, kinds) ==
    [t \in Types |-> IF t.kind = "struct" THEN <<t>>
                     ELSE IF t.kind \in kinds THEN Concat(f, t.args)
                     ELSE <<>>]

LEMMA FindByFinds ==
  ASSUME NEW kinds, "struct" \notin kinds
  PROVE  /\ \E f : f = FindBy(f, kinds)
         /\ \A f : f = FindBy(f, kinds) => Finds(f, kinds)
<1> DEFINE base == [u \in Types |-> IF u.kind = "struct" THEN <<u>> ELSE <<>>]
           sub == [u \in Types |-> IF u.kind \in kinds THEN u.args ELSE <<>>]
<1>1. /\ base \in [Types -> Lists] /\ sub \in [Types -> Lists]
      /\ \A u \in Types : ToSet(sub[u]) \subseteq Args(u)
  <2>1. ToSet(<<>>) = {} /\ <<>> \in Lists /\ \A u \in Types : <<u>> \in Lists
    BY DEF ToSet, Lists
  <2> QED
    BY <2>1, TypesClosed DEF Args
<1>2. ASSUME NEW f, \A u \in Types : u.kind \in kinds => Concat(f, u.args) \in Lists
      PROVE  \A u \in Types : base[u] \o Concat(f, sub[u]) = FindBy(f, kinds)[u]
  <2>1. SUFFICES ASSUME NEW u \in Types PROVE base[u] \o Concat(f, sub[u]) = FindBy(f, kinds)[u]
    OBVIOUS
  <2>2. CASE u.kind = "struct"
    <3>1. FindBy(f, kinds)[u] = <<u>> /\ base[u] = <<u>> /\ sub[u] = <<>>
      BY <2>2 DEF FindBy
    <3>2. <<u>> \o <<>> = <<u>>
      OBVIOUS
    <3> QED
      BY <3>1, <3>2, EmptyConcat
  <2>3. CASE u.kind \in kinds
    <3>1. FindBy(f, kinds)[u] = Concat(f, u.args) /\ base[u] = <<>> /\ sub[u] = u.args
      BY <2>3 DEF FindBy
    <3>2. <<>> \o Concat(f, u.args) = Concat(f, u.args)
      BY <1>2, <2>3 DEF Lists
    <3> QED
      BY <3>1, <3>2
  <2>4. CASE u.kind # "struct" /\ u.kind \notin kinds
    <3>1. FindBy(f, kinds)[u] = <<>> /\ base[u] = <<>> /\ sub[u] = <<>>
      BY <2>4 DEF FindBy
    <3>2. <<>> \o <<>> = <<>>
      OBVIOUS
    <3> QED
      BY <3>1, <3>2, EmptyConcat
  <2> QED
    BY <2>2, <2>3, <2>4
<1> HIDE DEF base, sub
<1>3. PICK f \in [Types -> Lists] : Recursive(f, Types, base, sub)
  BY <1>1, ArgumentsEnd, SolutionExists DEF Lists
<1>4. \A u \in Types : u.kind \in kinds => Concat(f, u.args) \in Lists
  BY <1>3, ConcatElements, TypesClosed DEF Args
<1>5. f = FindBy(f, kinds)
  <2>1. \A u \in Types : f[u] = FindBy(f, kinds)[u]
    BY <1>2, <1>3, <1>4 DEF Recursive
  <2>2. DOMAIN FindBy(f, kinds) = Types /\ FindBy(f, kinds) = [u \in Types |-> FindBy(f, kinds)[u]]
    BY DEF FindBy
  <2>3. f = [u \in Types |-> f[u]]
    BY <1>3
  <2> QED
    BY <2>1, <2>2, <2>3
<1>6. ASSUME NEW g, g = FindBy(g, kinds) PROVE \A u \in Types : g[u] = f[u]
  <2> DEFINE Differ == {u \in Types : g[u] # f[u]}
  <2>1. SUFFICES ASSUME Differ # {} PROVE FALSE
    OBVIOUS
  <2>2. PICK u \in Differ : Args(u) \cap Differ = {}
    <3>1. Differ \in SUBSET Types
      OBVIOUS
    <3> QED
      BY <2>1, <3>1, TextAssumption
  <2>3. \A v \in ToSet(u.args) : g[v] = f[v]
    BY <2>2, TypesClosed DEF Args
  <2>4. Concat(g, u.args) = Concat(f, u.args)
    BY <2>3, ConcatAgrees
  <2>5. u \in Types /\ FindBy(g, kinds)[u] = FindBy(f, kinds)[u]
    BY <2>2, <2>4 DEF FindBy
  <2> QED
    BY <2>2, <2>5, <1>5, <1>6
<1>7. ASSUME NEW g, g = FindBy(g, kinds) PROVE Finds(g, kinds)
  <2>1. SUFFICES ASSUME NEW t \in Types
                 PROVE  /\ g[t] \in Lists
                        /\ t.kind = "struct" => ToSet(g[t]) = {t}
                        /\ t.kind \in kinds => ToSet(g[t]) = UNION {ToSet(g[u]) : u \in Args(t)}
                        /\ t.kind \notin kinds \cup {"struct"} => ToSet(g[t]) = {}
    BY DEF Finds
  <2>2. g[t] = FindBy(g, kinds)[t]
    BY <1>7
  <2>3. \A u \in Types : g[u] \in Lists
    BY <1>3, <1>6, <1>7
  <2>4. t.kind = "struct" => ToSet(g[t]) = {t}
    <3>1. ToSet(<<t>>) = {t}
      BY DEF ToSet
    <3>2. t.kind = "struct" => g[t] = <<t>>
      BY <2>2 DEF FindBy
    <3> QED
      BY <3>1, <3>2
  <2>5. t.kind \in kinds => g[t] = Concat(g, t.args)
    BY <2>2 DEF FindBy
  <2>6. ToSet(Concat(g, t.args)) = UNION {ToSet(g[u]) : u \in Args(t)}
    <3>1. t.args \in Lists /\ \A u \in ToSet(t.args) : g[u] \in Lists
      BY <2>3, TypesClosed DEF Args
    <3> QED
      BY <3>1, ConcatElements DEF Args
  <2>7. t.kind \notin kinds \cup {"struct"} => g[t] = <<>>
    BY <2>2 DEF FindBy
  <2>8. ToSet(<<>>) = {}
    BY DEF ToSet
  <2> QED
    BY <2>3, <2>4, <2>5, <2>6, <2>7, <2>8
<1> QED
  BY <1>5, <1>7

HeldBy == {"optional", "tuple"}
OwnedBy == {"list", "box", "optional", "tuple"}

LEMMA ByValueFinds == Finds(ByValue, HeldBy)
<1> DEFINE Solves(f) == f = [t \in Types |-> IF t.kind = "struct" THEN <<t>>
                                            ELSE IF t.kind \in {"optional", "tuple"} THEN Concat(f, t.args)
                                            ELSE <<>>]
<1>1. \A f : Solves(f) <=> f = FindBy(f, HeldBy)
  BY DEF FindBy, HeldBy
<1>2. "struct" \notin HeldBy
  BY DEF HeldBy
<1>3. \E f : Solves(f)
  BY <1>1, <1>2, FindByFinds
<1>4. ByValue = CHOOSE f : Solves(f)
  BY DEF ByValue
<1> HIDE DEF Solves
<1>5. ByValue = FindBy(ByValue, HeldBy)
  BY <1>1, <1>3, <1>4, Zenon
<1> QED
  BY <1>2, <1>5, FindByFinds

LEMMA OwnedFinds == Finds(Owned, OwnedBy)
<1> DEFINE Solves(f) == f = [t \in Types |-> IF t.kind = "struct" THEN <<t>>
                                            ELSE IF t.kind \in {"list", "box", "optional", "tuple"} THEN Concat(f, t.args)
                                            ELSE <<>>]
<1>1. \A f : Solves(f) <=> f = FindBy(f, OwnedBy)
  BY DEF FindBy, OwnedBy
<1>2. "struct" \notin OwnedBy
  BY DEF OwnedBy
<1>3. \E f : Solves(f)
  BY <1>1, <1>2, FindByFinds
<1>4. Owned = CHOOSE f : Solves(f)
  BY DEF Owned
<1> HIDE DEF Solves
<1>5. Owned = FindBy(Owned, OwnedBy)
  BY <1>1, <1>3, <1>4, Zenon
<1> QED
  BY <1>2, <1>5, FindByFinds

-----------------------------------------------------------------------------
(* The walk *)

\* A pass walks over nodes ts, each with what it depends on.  In v are the nodes
\* it is in, done are those it is through with, and next is what it has just
\* taken from the innermost of v.
NodesOf(v) == {v[i].node : i \in DOMAIN v}

Looked(d, v, next, done, i) ==
    ToSet(d[v[i].node]) \subseteq done \cup ToSet(v[i].todo) \cup
                                 (IF i < Len(v) THEN {v[i + 1].node} ELSE next)

Walked(ts, d, v, next, done) ==
    /\ v \in Seq([node : ts, todo : Seq(ts)])
    /\ \A i \in 1..Len(v) : /\ v[i].node \notin done
                            /\ ToSet(v[i].todo) \subseteq ToSet(d[v[i].node])
                            /\ Looked(d, v, next, done, i)
                            /\ i < Len(v) => v[i + 1].node \in ToSet(d[v[i].node])
    /\ \A i, j \in 1..Len(v) : v[i].node = v[j].node => i = j

\* What a pass is through with depends on nothing else, and not on itself.
Through(d, done) == \A t \in done : ToSet(d[t]) \subseteq done
Acyclic(d, done) == \A ss \in SUBSET done : ss # {} => \E s \in ss : ss \cap ToSet(d[s]) = {}

Taken(v) == [v EXCEPT ![Len(v)].todo = Tail(@)]
Put(d, v, t) == Append(v, [node |-> t, todo |-> d[t]])

LEMMA HeadAndTail ==
  ASSUME NEW ts, NEW s \in Seq(ts), s # <<>>
  PROVE  /\ Head(s) \in ts /\ Tail(s) \in Seq(ts)
         /\ ToSet(s) = {Head(s)} \cup ToSet(Tail(s))
<1>1. s[1] = Head(s) /\ 1 \in DOMAIN s /\ Head(s) \in ts /\ Tail(s) \in Seq(ts)
  OBVIOUS
<1>2. \A i \in DOMAIN Tail(s) : i + 1 \in DOMAIN s /\ Tail(s)[i] = s[i + 1]
  OBVIOUS
<1>3. \A i \in DOMAIN s : i = 1 \/ (i - 1 \in DOMAIN Tail(s) /\ Tail(s)[i - 1] = s[i])
  OBVIOUS
<1>4. ASSUME NEW e \in ToSet(s) PROVE e = Head(s) \/ e \in ToSet(Tail(s))
  <2>1. PICK i \in DOMAIN s : e = s[i]
    BY DEF ToSet
  <2> QED
    BY <1>1, <1>3, <2>1 DEF ToSet
<1>5. Head(s) \in ToSet(s)
  BY <1>1 DEF ToSet
<1>6. ASSUME NEW e \in ToSet(Tail(s)) PROVE e \in ToSet(s)
  <2>1. PICK i \in DOMAIN Tail(s) : e = Tail(s)[i]
    BY DEF ToSet
  <2> QED
    BY <1>2, <2>1 DEF ToSet
<1> QED
  BY <1>1, <1>4, <1>5, <1>6

LEMMA TakenFrames ==
  ASSUME NEW ts, NEW v \in Seq([node : ts, todo : Seq(ts)]), v # <<>>, v[Len(v)].todo # <<>>
  PROVE  /\ Len(v) \in Nat \ {0} /\ Len(Taken(v)) = Len(v)
         /\ Taken(v) \in Seq([node : ts, todo : Seq(ts)])
         /\ \A i \in 1..Len(v) : /\ Taken(v)[i].node = v[i].node
                                 /\ i < Len(v) => Taken(v)[i] = v[i]
         /\ Taken(v)[Len(v)].todo = Tail(v[Len(v)].todo)
         /\ Head(v[Len(v)].todo) \in ts
         /\ ToSet(v[Len(v)].todo) = {Head(v[Len(v)].todo)} \cup ToSet(Tail(v[Len(v)].todo))
<1>1. Len(v) \in Nat \ {0} /\ Len(v) \in 1..Len(v)
  OBVIOUS
<1> DEFINE n == Len(v)
           last == v[n]
           todo == last.todo
<1>2. last \in [node : ts, todo : Seq(ts)] /\ todo \in Seq(ts) /\ todo # <<>>
  <2>1. last \in [node : ts, todo : Seq(ts)]
    BY <1>1, ElementOfSeq
  <2> HIDE DEF last
  <2>2. last.todo \in Seq(ts)
    BY <2>1
  <2>3. last.todo # <<>>
    BY DEF last
  <2> QED
    BY <2>1, <2>2, <2>3
<1>3. Taken(v) = [v EXCEPT ![n] = [last EXCEPT !.todo = Tail(todo)]]
  BY DEF Taken
<1> HIDE DEF todo
<1>4. Tail(todo) \in Seq(ts) /\ Head(todo) \in ts
  BY <1>2, HeadAndTail
<1>5. Taken(v) = [v EXCEPT ![n] = [last EXCEPT !.todo = Tail(todo)]]
  BY <1>3
<1>6. [last EXCEPT !.todo = Tail(todo)] \in [node : ts, todo : Seq(ts)]
  BY <1>2, <1>4
<1>7. /\ [last EXCEPT !.todo = Tail(todo)].node = last.node
      /\ [last EXCEPT !.todo = Tail(todo)].todo = Tail(todo)
  BY <1>2
<1>8. ToSet(todo) = {Head(todo)} \cup ToSet(Tail(todo))
  BY <1>2, HeadAndTail
<1> HIDE DEF last, todo
<1>9. /\ Len(Taken(v)) = n /\ Taken(v) \in Seq([node : ts, todo : Seq(ts)])
      /\ \A i \in 1..n : Taken(v)[i] = IF i = n THEN [last EXCEPT !.todo = Tail(todo)] ELSE v[i]
  BY <1>1, <1>5, <1>6
<1>10. last = v[Len(v)] /\ todo = v[Len(v)].todo
  BY DEF last, todo
<1>11. ASSUME NEW i \in 1..n PROVE Taken(v)[i].node = v[i].node /\ (i < n => Taken(v)[i] = v[i])
  <2>1. CASE i = n
    <3>1. Taken(v)[i] = [last EXCEPT !.todo = Tail(todo)]
      BY <1>9, <2>1
    <3>2. Taken(v)[i].node = last.node /\ last = v[i]
      BY <1>7, <1>10, <2>1, <3>1
    <3> QED
      BY <1>1, <2>1, <3>2
  <2>2. CASE i # n
    BY <1>9, <2>2
  <2> QED
    BY <2>1, <2>2
<1>12. Taken(v)[n].todo = Tail(todo)
  BY <1>1, <1>7, <1>9
<1> QED
  BY <1>1, <1>4, <1>8, <1>9, <1>11, <1>12, <1>10

LEMMA Taking ==
  ASSUME NEW ts, NEW d \in [ts -> Seq(ts)], NEW v, NEW done, Walked(ts, d, v, {}, done),
         v # <<>>, v[Len(v)].todo # <<>>
  PROVE  /\ Walked(ts, d, Taken(v), {Head(v[Len(v)].todo)}, done)
         /\ Taken(v) # <<>> /\ NodesOf(Taken(v)) = NodesOf(v)
         /\ Head(v[Len(v)].todo) \in ToSet(d[Taken(v)[Len(Taken(v))].node])
<1> DEFINE w == Taken(v)
           t == Head(v[Len(v)].todo)
<1>1. v \in Seq([node : ts, todo : Seq(ts)])
  BY DEF Walked
<1>2. /\ Len(v) \in Nat \ {0} /\ Len(w) = Len(v)
      /\ w \in Seq([node : ts, todo : Seq(ts)])
      /\ \A i \in 1..Len(v) : w[i].node = v[i].node /\ (i < Len(v) => w[i] = v[i])
      /\ w[Len(v)].todo = Tail(v[Len(v)].todo)
      /\ ToSet(v[Len(v)].todo) = {t} \cup ToSet(Tail(v[Len(v)].todo))
  BY <1>1, TakenFrames
<1> HIDE DEF w, t
<1>3. \A i \in 1..Len(v) : ToSet(w[i].todo) \subseteq ToSet(v[i].todo)
  <2>1. ASSUME NEW i \in 1..Len(v) PROVE ToSet(w[i].todo) \subseteq ToSet(v[i].todo)
    <3>1. CASE i < Len(v)
      BY <1>2, <3>1
    <3>2. CASE i = Len(v)
      BY <1>2, <3>2
    <3> QED
      BY <3>1, <3>2, <1>2
  <2> QED
    BY <2>1
<1>4. ASSUME NEW i \in 1..Len(v) PROVE Looked(d, w, {t}, done, i)
  <2>1. Looked(d, v, {}, done, i) /\ w[i].node = v[i].node
    BY <1>2 DEF Walked
  <2>2. CASE i < Len(v)
    <3>1. w[i] = v[i] /\ i + 1 \in 1..Len(v)
      BY <1>2, <2>2
    <3>2. w[i + 1].node = v[i + 1].node
      BY <1>2, <3>1
    <3> QED
      BY <1>2, <2>1, <2>2, <3>1, <3>2 DEF Looked
  <2>3. CASE i = Len(v)
    BY <1>2, <2>1, <2>3 DEF Looked
  <2> QED
    BY <1>2, <2>2, <2>3
<1>5. ASSUME NEW i \in 1..Len(v), i < Len(v) PROVE w[i + 1].node \in ToSet(d[w[i].node])
  <2>1. i + 1 \in 1..Len(v)
    BY <1>2, <1>5
  <2> QED
    BY <1>2, <1>5, <2>1 DEF Walked
<1>6. Walked(ts, d, w, {t}, done)
  <2>1. \A i \in 1..Len(v) : w[i].node \notin done /\ ToSet(w[i].todo) \subseteq ToSet(d[w[i].node])
    BY <1>2, <1>3 DEF Walked
  <2>2. \A i, j \in 1..Len(v) : w[i].node = w[j].node => i = j
    BY <1>2 DEF Walked
  <2> QED
    BY <1>2, <1>4, <1>5, <2>1, <2>2 DEF Walked
<1>7. NodesOf(w) = NodesOf(v)
  <2>1. DOMAIN w = 1..Len(v) /\ DOMAIN v = 1..Len(v)
    BY <1>1, <1>2
  <2> QED
    BY <1>2, <2>1 DEF NodesOf
<1>8. t \in ToSet(d[w[Len(w)].node])
  <2>1. Len(v) \in 1..Len(v)
    BY <1>2
  <2> QED
    BY <1>2, <2>1 DEF Walked
<1>9. w # <<>>
  BY <1>2
<1> QED
  BY <1>6, <1>7, <1>8, <1>9 DEF w, t

LEMMA Skipping ==
  ASSUME NEW ts, NEW d, NEW v, NEW done, NEW t \in done, Walked(ts, d, v, {t}, done)
  PROVE  Walked(ts, d, v, {}, done)
<1>1. \A i \in 1..Len(v) : Looked(d, v, {t}, done, i) => Looked(d, v, {}, done, i)
  BY DEF Looked
<1> QED
  BY <1>1 DEF Walked

\* When a node may be put behind a walk, in one predicate.
MayPut(ts, d, v, t, done) ==
    /\ d \in [ts -> Seq(ts)] /\ t \in ts /\ Walked(ts, d, v, {t}, done)
    /\ t \notin done /\ t \notin NodesOf(v) /\ (v # <<>> => t \in ToSet(d[v[Len(v)].node]))

LEMMA Putting ==
  \A ts, d, v, t, done : MayPut(ts, d, v, t, done) =>
      Walked(ts, d, Put(d, v, t), {}, done) /\ NodesOf(Put(d, v, t)) = NodesOf(v) \cup {t}
<1> SUFFICES ASSUME NEW ts, NEW d, NEW v, NEW t, NEW done, MayPut(ts, d, v, t, done)
             PROVE  Walked(ts, d, Put(d, v, t), {}, done) /\ NodesOf(Put(d, v, t)) = NodesOf(v) \cup {t}
  OBVIOUS
<1>1. /\ d \in [ts -> Seq(ts)] /\ t \in ts /\ Walked(ts, d, v, {t}, done)
      /\ t \notin done /\ t \notin NodesOf(v) /\ (v # <<>> => t \in ToSet(d[v[Len(v)].node]))
  BY DEF MayPut
<1> USE <1>1
<1> DEFINE w == Put(d, v, t)
           f == [node |-> t, todo |-> d[t]]
<1>2. v \in Seq([node : ts, todo : Seq(ts)]) /\ f \in [node : ts, todo : Seq(ts)]
  BY DEF Walked
<1>3. /\ Len(v) \in Nat /\ Len(w) = Len(v) + 1 /\ w[Len(w)] = f
      /\ w \in Seq([node : ts, todo : Seq(ts)])
      /\ \A i \in 1..Len(v) : w[i] = v[i]
      /\ \A i \in 1..Len(w) : i \in 1..Len(v) \/ i = Len(w)
      /\ DOMAIN w = 1..Len(w) /\ DOMAIN v = 1..Len(v)
  <2> HIDE DEF f
  <2>1. w = Append(v, f)
    BY DEF Put, f
  <2> HIDE DEF w
  <2> QED
    BY <1>2, <2>1
<1>4. f.node = t /\ f.todo = d[t]
  OBVIOUS
<1> HIDE DEF w, f
<1>5. ASSUME NEW i \in 1..Len(v), i < Len(v) PROVE w[i + 1].node = v[i + 1].node
  <2>1. i + 1 \in 1..Len(v)
    BY <1>3, <1>5
  <2> QED
    BY <1>3, <2>1
<1>6. ASSUME NEW i \in 1..Len(w)
      PROVE  /\ w[i].node \notin done
             /\ ToSet(w[i].todo) \subseteq ToSet(d[w[i].node])
             /\ Looked(d, w, {}, done, i)
             /\ i < Len(w) => w[i + 1].node \in ToSet(d[w[i].node])
  <2>1. CASE i = Len(w)
    <3>1. w[i].node = t /\ w[i].todo = d[t] /\ ~(i < Len(w))
      BY <1>3, <1>4, <2>1
    <3> QED
      BY <3>1 DEF Looked
  <2>2. CASE i \in 1..Len(v)
    <3>1. /\ v[i].node \notin done /\ ToSet(v[i].todo) \subseteq ToSet(d[v[i].node])
          /\ Looked(d, v, {t}, done, i) /\ w[i] = v[i] /\ i < Len(w)
          /\ i < Len(v) => v[i + 1].node \in ToSet(d[v[i].node])
      <4>1. w[i] = v[i] /\ i < Len(w)
        BY <1>3, <2>2
      <4> QED
        BY <2>2, <4>1 DEF Walked
    <3>2. CASE i < Len(v)
      <4>1. w[i + 1].node = v[i + 1].node
        BY <1>5, <2>2, <3>2
      <4> QED
        BY <3>1, <3>2, <4>1 DEF Looked
    <3>3. Len(v) \in Nat /\ i \in Nat /\ i <= Len(v)
      BY <1>3, <2>2
    <3>4. CASE i = Len(v)
      <4>1. i + 1 = Len(w) /\ w[i + 1].node = t /\ v # <<>> /\ ~(i < Len(v))
        BY <1>3, <1>4, <2>2, <3>4
      <4>2. t \in ToSet(d[v[i].node])
        BY <3>4, <4>1
      <4>3. Looked(d, w, {}, done, i)
        BY <3>1, <4>1 DEF Looked
      <4> QED
        BY <3>1, <3>4, <4>1, <4>2, <4>3
    <3> QED
      BY <3>2, <3>4, <3>3
  <2> QED
    BY <1>3, <2>1, <2>2
<1>7. ASSUME NEW i \in 1..Len(w), NEW j \in 1..Len(w), w[i].node = w[j].node PROVE i = j
  <2>1. \A k \in 1..Len(v) : v[k].node # t
    BY <1>3 DEF NodesOf
  <2>2. CASE i \in 1..Len(v) /\ j \in 1..Len(v)
    BY <1>3, <1>7, <2>2 DEF Walked
  <2>3. CASE i = Len(w) \/ j = Len(w)
    BY <1>3, <1>4, <1>7, <2>1, <2>3
  <2> QED
    BY <1>3, <2>2, <2>3
<1>8. NodesOf(w) = NodesOf(v) \cup {t}
  <2>1. Len(w) \in 1..Len(w) /\ \A i \in 1..Len(v) : i \in 1..Len(w)
    BY <1>3
  <2>2. ASSUME NEW n \in NodesOf(w) PROVE n \in NodesOf(v) \cup {t}
    <3>1. PICK i \in 1..Len(w) : n = w[i].node
      BY <1>3 DEF NodesOf
    <3> QED
      BY <1>3, <1>4, <3>1 DEF NodesOf
  <2>3. t \in NodesOf(w)
    BY <1>3, <1>4, <2>1 DEF NodesOf
  <2>4. ASSUME NEW i \in 1..Len(v) PROVE v[i].node \in NodesOf(w)
    BY <1>3, <2>1 DEF NodesOf
  <2>5. \A n \in NodesOf(v) : \E i \in 1..Len(v) : n = v[i].node
    BY <1>3 DEF NodesOf
  <2> QED
    BY <2>2, <2>3, <2>4, <2>5
<1> QED
  BY <1>3, <1>6, <1>7, <1>8 DEF Walked, w

\* When the innermost node of a walk may be left, in one predicate.
MayLeave(ts, d, v, n, done) ==
    /\ d \in [ts -> Seq(ts)] /\ Walked(ts, d, v, {}, done)
    /\ v # <<>> /\ v[Len(v)].todo = <<>> /\ n = v[Len(v)].node

LEMMA Leaving ==
  \A ts, d, v, n, done : MayLeave(ts, d, v, n, done) =>
      /\ Walked(ts, d, Front(v), {}, done \cup {n})
      /\ n \in ts /\ n \notin done /\ ToSet(d[n]) \subseteq done
      /\ NodesOf(v) = NodesOf(Front(v)) \cup {n}
<1> SUFFICES ASSUME NEW ts, NEW d, NEW v, NEW n, NEW done, d \in [ts -> Seq(ts)],
                    Walked(ts, d, v, {}, done), v # <<>>, v[Len(v)].todo = <<>>, n = v[Len(v)].node
             PROVE  /\ Walked(ts, d, Front(v), {}, done \cup {n})
                    /\ n \in ts /\ n \notin done /\ ToSet(d[n]) \subseteq done
                    /\ NodesOf(v) = NodesOf(Front(v)) \cup {n}
  BY DEF MayLeave
<1> DEFINE w == Front(v)
<1>1. v \in Seq([node : ts, todo : Seq(ts)])
  BY DEF Walked
<1>2. /\ Len(v) \in Nat \ {0} /\ Len(v) \in 1..Len(v) /\ Len(w) = Len(v) - 1
      /\ w \in Seq([node : ts, todo : Seq(ts)])
      /\ \A i \in 1..Len(w) : w[i] = v[i] /\ i \in 1..Len(v) /\ i < Len(v)
      /\ DOMAIN w = 1..Len(w) /\ DOMAIN v = 1..Len(v)
  <2>1. w = SubSeq(v, 1, Len(v) - 1)
    BY DEF Front
  <2>2. Len(v) \in Nat \ {0}
    BY <1>1
  <2> HIDE DEF w
  <2>3. /\ w \in Seq([node : ts, todo : Seq(ts)]) /\ Len(w) = Len(v) - 1
        /\ \A i \in 1..(Len(v) - 1) : w[i] = v[i]
    <3> DEFINE F == [node : ts, todo : Seq(ts)]
               m == Len(v) - 1
    <3>1. m \in Nat /\ 1 \in Int /\ m \in Int /\ \A i \in 1..m : i \in 1..Len(v)
      BY <2>2
    <3>2. \A i \in 1..m : v[i] \in F
      BY <1>1, <3>1, ElementOfSeq
    <3> HIDE DEF F, m
    <3>3. /\ SubSeq(v, 1, m) \in Seq(F)
          /\ Len(SubSeq(v, 1, m)) = IF 1 <= m THEN m - 1 + 1 ELSE 0
          /\ \A i \in 1..(m - 1 + 1) : SubSeq(v, 1, m)[i] = v[1 + i - 1]
      BY <3>1, <3>2, SubSeqProperties
    <3>4. /\ Len(SubSeq(v, 1, m)) = m
          /\ \A i \in 1..m : SubSeq(v, 1, m)[i] = v[i]
      BY <3>1, <3>3
    <3> QED
      BY <2>1, <3>3, <3>4 DEF F, m
  <2>4. DOMAIN w = 1..(Len(v) - 1)
    BY <2>2, <2>3
  <2>5. DOMAIN v = 1..Len(v)
    BY <1>1
  <2>6. \A i \in 1..(Len(v) - 1) : i \in 1..Len(v) /\ i < Len(v)
    BY <2>2
  <2>7. Len(v) \in 1..Len(v)
    BY <2>2
  <2> QED
    BY <2>2, <2>3, <2>4, <2>5, <2>6, <2>7
<1>3. n \in ts
  <2>1. v[Len(v)] \in [node : ts, todo : Seq(ts)]
    BY <1>1, <1>2, ElementOfSeq
  <2> QED
    BY <2>1
<1>4. n \notin done /\ ToSet(d[n]) \subseteq done
  <2>1. ToSet(<<>>) = {}
    BY DEF ToSet
  <2>2. Looked(d, v, {}, done, Len(v)) /\ n \notin done
    BY <1>2 DEF Walked
  <2> QED
    BY <2>1, <2>2 DEF Looked
<1> HIDE DEF w
<1>5. ASSUME NEW i \in 1..Len(w)
      PROVE  /\ w[i].node \notin done \cup {n}
             /\ ToSet(w[i].todo) \subseteq ToSet(d[w[i].node])
             /\ Looked(d, w, {}, done \cup {n}, i)
             /\ i < Len(w) => w[i + 1].node \in ToSet(d[w[i].node])
  <2>1. w[i] = v[i] /\ i \in 1..Len(v) /\ i < Len(v) /\ i + 1 \in 1..Len(v)
    BY <1>2
  <2>2. /\ v[i].node \notin done /\ ToSet(v[i].todo) \subseteq ToSet(d[v[i].node])
        /\ Looked(d, v, {}, done, i) /\ v[i + 1].node \in ToSet(d[v[i].node])
    BY <2>1 DEF Walked
  <2>3. v[i].node # n
    <3>1. v[i].node = v[Len(v)].node => i = Len(v)
      BY <1>2, <2>1 DEF Walked
    <3> QED
      BY <2>1, <3>1
  <2>4. CASE i < Len(w)
    <3>1. w[i + 1] = v[i + 1]
      <4>1. i + 1 \in 1..Len(w)
        BY <1>2, <2>4
      <4> QED
        BY <1>2, <4>1
    <3>2. Looked(d, w, {}, done \cup {n}, i)
      BY <2>1, <2>2, <2>4, <3>1 DEF Looked
    <3> QED
      BY <2>1, <2>2, <2>3, <3>1, <3>2
  <2>5. CASE ~(i < Len(w))
    <3>1. i + 1 = Len(v)
      BY <1>2, <2>1, <2>5
    <3>2. Looked(d, w, {}, done \cup {n}, i)
      BY <2>1, <2>2, <2>5, <3>1 DEF Looked
    <3> QED
      BY <2>1, <2>2, <2>3, <2>5, <3>2
  <2> QED
    BY <2>4, <2>5
<1>6. ASSUME NEW i \in 1..Len(w), NEW j \in 1..Len(w), w[i].node = w[j].node PROVE i = j
  BY <1>2, <1>6 DEF Walked
<1>7. NodesOf(v) = NodesOf(w) \cup {n}
  <2>1. ASSUME NEW m \in NodesOf(v) PROVE m \in NodesOf(w) \cup {n}
    <3>1. PICK i \in 1..Len(v) : m = v[i].node
      BY <1>2 DEF NodesOf
    <3>2. i = Len(v) \/ i \in 1..Len(w)
      BY <1>2
    <3> QED
      BY <1>2, <3>1, <3>2 DEF NodesOf
  <2>2. ASSUME NEW m \in NodesOf(w) PROVE m \in NodesOf(v)
    <3>1. PICK i \in 1..Len(w) : m = w[i].node
      BY <1>2 DEF NodesOf
    <3> QED
      BY <1>2, <3>1 DEF NodesOf
  <2>3. n \in NodesOf(v)
    BY <1>2 DEF NodesOf
  <2> QED
    BY <2>1, <2>2, <2>3
<1> QED
  BY <1>2, <1>3, <1>4, <1>5, <1>6, <1>7 DEF Walked, w

\* What a pass is through with stays acyclic and closed when a node joins it.

LEMMA Joining ==
  ASSUME NEW d, NEW done, NEW n, Through(d, done), Acyclic(d, done), n \notin done,
         ToSet(d[n]) \subseteq done
  PROVE  Through(d, done \cup {n}) /\ Acyclic(d, done \cup {n})
<1>1. ASSUME NEW ss \in SUBSET (done \cup {n}), ss # {}
      PROVE  \E s \in ss : ss \cap ToSet(d[s]) = {}
  <2>1. CASE ss \cap done = {}
    <3>1. n \in ss /\ ss \cap ToSet(d[n]) = {}
      BY <1>1, <2>1
    <3> QED
      BY <3>1
  <2>2. CASE ss \cap done # {}
    <3>1. PICK s \in ss \cap done : ss \cap done \cap ToSet(d[s]) = {}
      BY <2>2 DEF Acyclic
    <3>2. ToSet(d[s]) \subseteq done
      BY <3>1 DEF Through
    <3> QED
      BY <3>1, <3>2
  <2> QED
    BY <2>1, <2>2
<1> QED
  BY <1>1 DEF Through, Acyclic

\* A pass that comes to a node it is in has found nodes that depend on each other.
LEMMA Looping ==
  ASSUME NEW ts, NEW d \in [ts -> Seq(ts)], NEW v, NEW done, Walked(ts, d, v, {}, done),
         v # <<>>, v[Len(v)].todo # <<>>, Head(v[Len(v)].todo) \in NodesOf(v)
  PROVE  \E ss \in SUBSET ts : ss # {} /\ \A s \in ss : ss \cap ToSet(d[s]) # {}
<1> DEFINE t == Head(v[Len(v)].todo)
<1>1. v \in Seq([node : ts, todo : Seq(ts)]) /\ Len(v) \in Nat \ {0} /\ DOMAIN v = 1..Len(v)
  BY DEF Walked
<1>2. PICK k \in 1..Len(v) : v[k].node = t
  BY <1>1 DEF NodesOf
<1> DEFINE ss == {v[i].node : i \in k..Len(v)}
<1>3. \A i \in 1..Len(v) : v[i].node \in ts
  <2>1. \A i \in 1..Len(v) : v[i] \in [node : ts, todo : Seq(ts)]
    BY <1>1, ElementOfSeq
  <2> QED
    BY <2>1
<1>4. ss \in SUBSET ts
  <2>1. \A i \in k..Len(v) : i \in 1..Len(v)
    BY <1>1
  <2> QED
    BY <1>3, <2>1
<1>5. t \in ss
  <2>1. k \in k..Len(v)
    BY <1>1
  <2> QED
    BY <1>2, <2>1
<1>6. ASSUME NEW i \in k..Len(v) PROVE \E u \in ss : u \in ToSet(d[v[i].node])
  <2>1. i \in 1..Len(v)
    BY <1>1
  <2>2. CASE i < Len(v)
    <3>1. v[i + 1].node \in ToSet(d[v[i].node])
      BY <2>1, <2>2 DEF Walked
    <3>2. i + 1 \in k..Len(v)
      BY <1>1, <2>2
    <3> QED
      BY <3>1, <3>2
  <2>3. CASE i = Len(v)
    <3>1. t \in ToSet(v[i].todo)
      BY <1>1, <2>3, TakenFrames
    <3>2. t \in ToSet(d[v[i].node])
      BY <2>1, <3>1 DEF Walked
    <3> QED
      BY <1>5, <3>2
  <2>4. i < Len(v) \/ i = Len(v)
    <3>1. Len(v) \in Nat
      BY <1>1
    <3> QED
      BY <2>1, <3>1
  <2> QED
    BY <2>2, <2>3, <2>4
<1>7. \A s \in ss : ss \cap ToSet(d[s]) # {}
  BY <1>6
<1> QED
  BY <1>4, <1>5, <1>7

\* The order of what is written: each node once, behind what it depends on, but
\* for the nodes of base, which nobody writes.
Ordered(d, base, written) ==
    /\ \A i, j \in 1..Len(written) : written[i] = written[j] => i = j
    /\ \A i \in 1..Len(written) :
           /\ written[i] \notin base
           /\ ToSet(d[written[i]]) \subseteq base \cup {written[j] : j \in 1..(i - 1)}

LEMMA Writing ==
  ASSUME NEW ts, NEW d, NEW base, NEW written \in Seq(ts), NEW n \in ts, Ordered(d, base, written),
         n \notin base \cup ToSet(written), ToSet(d[n]) \subseteq base \cup ToSet(written)
  PROVE  /\ Ordered(d, base, Append(written, n)) /\ Append(written, n) \in Seq(ts)
         /\ ToSet(Append(written, n)) = ToSet(written) \cup {n}
<1> DEFINE w == Append(written, n)
<1>1. /\ Len(written) \in Nat /\ Len(w) = Len(written) + 1 /\ w[Len(w)] = n /\ w \in Seq(ts)
      /\ \A i \in 1..Len(written) : w[i] = written[i] /\ i \in 1..Len(w) /\ i < Len(w)
      /\ \A i \in 1..Len(w) : i \in 1..Len(written) \/ i = Len(w)
      /\ Len(w) \in 1..Len(w)
      /\ DOMAIN w = 1..Len(w) /\ DOMAIN written = 1..Len(written)
  OBVIOUS
<1> HIDE DEF w
<1>2. \A i \in 1..Len(written) : written[i] # n
  BY <1>1 DEF ToSet
<1>3. \A i, j \in 1..Len(w) : w[i] = w[j] => i = j
  BY <1>1, <1>2 DEF Ordered
<1>4. ASSUME NEW i \in 1..Len(w)
      PROVE  w[i] \notin base /\ ToSet(d[w[i]]) \subseteq base \cup {w[j] : j \in 1..(i - 1)}
  <2>1. \A j \in 1..(i - 1) : j \in 1..Len(written) /\ w[j] = written[j]
    BY <1>1
  <2>2. {w[j] : j \in 1..(i - 1)} = {written[j] : j \in 1..(i - 1)}
    BY <2>1
  <2>3. CASE i \in 1..Len(written)
    BY <1>1, <2>2, <2>3 DEF Ordered
  <2>4. CASE i = Len(w)
    <3>1. i - 1 = Len(written) /\ w[i] = n
      BY <1>1, <2>4
    <3>2. ToSet(written) = {written[j] : j \in 1..(i - 1)}
      BY <1>1, <3>1 DEF ToSet
    <3> QED
      BY <2>2, <3>1, <3>2
  <2> QED
    BY <1>1, <2>3, <2>4
<1>5. ToSet(w) = ToSet(written) \cup {n}
  <2>1. ASSUME NEW e \in ToSet(w) PROVE e \in ToSet(written) \cup {n}
    <3>1. PICK i \in 1..Len(w) : e = w[i]
      BY <1>1 DEF ToSet
    <3> QED
      BY <1>1, <3>1 DEF ToSet
  <2>2. ASSUME NEW e \in ToSet(written) PROVE e \in ToSet(w)
    <3>1. PICK i \in 1..Len(written) : e = written[i]
      BY <1>1 DEF ToSet
    <3> QED
      BY <1>1, <3>1 DEF ToSet
  <2>3. n \in ToSet(w)
    BY <1>1 DEF ToSet
  <2> QED
    BY <2>1, <2>2, <2>3
<1> QED
  BY <1>1, <1>3, <1>4, <1>5 DEF Ordered, w

-----------------------------------------------------------------------------
(* What the passes walk over *)

FieldsOK == fields \in [ToSet(Structs) \cup ToSet(Classes) -> Lists]

LEMMA StructsAndClasses ==
  /\ Structs \in Lists /\ Classes \in Lists /\ BodyTypes \in Lists
  /\ ToSet(Structs) \subseteq Types /\ ToSet(Classes) \subseteq Types /\ ToSet(BodyTypes) \subseteq Types
  /\ \A t \in Types : t \in ToSet(Structs) <=> t.kind = "struct"
  /\ \A t \in Types : t \in ToSet(Classes) <=> t.kind = "class"
<1>1. Structs \in Lists /\ Classes \in Lists /\ BodyTypes \in Lists
  BY TypesAssumption DEF Lists
<1>2. ToSet(BodyTypes) \subseteq Types
  BY <1>1 DEF Lists, ToSet
<1> QED
  BY <1>1, <1>2, TypesAssumption

LEMMA WithArgsClosed ==
  ASSUME NEW t \in Types
  PROVE  /\ t \in ToSet(WithArgs[t]) /\ ToSet(WithArgs[t]) \subseteq Types
         /\ \A u \in ToSet(WithArgs[t]) : Args(u) \subseteq ToSet(WithArgs[t])
<1> DEFINE Good(u) == \A v \in ToSet(WithArgs[u]) : Args(v) \subseteq ToSet(WithArgs[u])
           Bad == {u \in Types : ~Good(u)}
<1>1. \A u \in Types : ToSet(WithArgs[u]) = {u} \cup UNION {ToSet(WithArgs[v]) : v \in Args(u)}
  BY WithArgsElements
<1>2. \A u \in Types : u \in ToSet(WithArgs[u])
  BY <1>1
<1>3. Bad = {}
  <2>1. SUFFICES ASSUME Bad # {} PROVE FALSE
    OBVIOUS
  <2>2. Bad \in SUBSET Types
    OBVIOUS
  <2>3. PICK u \in Bad : Args(u) \cap Bad = {}
    BY <2>1, <2>2, TextAssumption
  <2>4. u \in Types /\ Args(u) \subseteq Types
    BY <2>3, TypesClosed
  <2>5. \A v \in Args(u) : Good(v)
    BY <2>3, <2>4
  <2>6. Args(u) \subseteq ToSet(WithArgs[u])
    BY <1>1, <1>2, <2>4
  <2>7. ASSUME NEW w \in ToSet(WithArgs[u]) PROVE Args(w) \subseteq ToSet(WithArgs[u])
    <3>1. CASE w = u
      BY <2>6, <3>1
    <3>2. CASE w # u
      <4>1. PICK v \in Args(u) : w \in ToSet(WithArgs[v])
        BY <1>1, <2>4, <2>7, <3>2
      <4>2. Args(w) \subseteq ToSet(WithArgs[v])
        BY <2>5, <4>1
      <4> QED
        BY <1>1, <2>4, <4>2
    <3> QED
      BY <3>1, <3>2
  <2> QED
    BY <2>3, <2>7
<1>4. ToSet(WithArgs[t]) \subseteq Types
  BY WithArgsElements DEF Lists, ToSet
<1> QED
  BY <1>2, <1>3, <1>4

LEMMA DeclaredElements ==
  ASSUME FieldsOK, NEW s \in Lists, ToSet(s) \subseteq ToSet(Structs) \cup ToSet(Classes)
  PROVE  /\ Declared(s) \in Lists
         /\ ToSet(Declared(s)) = UNION {ToSet(WithArgs[t]) \cup UNION {ToSet(WithArgs[u]) : u \in ToSet(fields[t])} : t \in ToSet(s)}
<1> DEFINE Part(t) == WithArgs[t] \o Concat(WithArgs, fields[t])
           ss == [i \in DOMAIN s |-> Part(s[i])]
           Set(t) == ToSet(WithArgs[t]) \cup UNION {ToSet(WithArgs[u]) : u \in ToSet(fields[t])}
<1>1. ASSUME NEW t \in ToSet(s) PROVE Part(t) \in Lists /\ ToSet(Part(t)) = Set(t)
  <2>1. t \in Types /\ fields[t] \in Lists
    BY StructsAndClasses DEF FieldsOK
  <2>2. \A u \in ToSet(fields[t]) : WithArgs[u] \in Lists
    BY <2>1, WithArgsElements DEF ToSet, Lists
  <2>3. WithArgs[t] \in Lists
    BY <2>1, WithArgsElements
  <2>4. Concat(WithArgs, fields[t]) \in Lists /\ ToSet(Concat(WithArgs, fields[t])) = UNION {ToSet(WithArgs[u]) : u \in ToSet(fields[t])}
    BY <2>1, <2>2, ConcatElements
  <2> QED
    BY <2>3, <2>4, ElementsOfBoth DEF Lists
<1>2. \A i \in DOMAIN s : s[i] \in ToSet(s)
  BY DEF ToSet
<1>3. \A t \in ToSet(s) : \E i \in DOMAIN s : t = s[i]
  BY DEF ToSet
<1>4. Declared(s) = FlattenSeq(ss)
  BY DEF Declared
<1>5. DOMAIN ss = DOMAIN s /\ \A i \in DOMAIN s : ss[i] = Part(s[i])
  OBVIOUS
<1> HIDE DEF Part, Set
<1>6. ss \in Seq(Lists)
  <2>1. ss = [i \in 1..Len(s) |-> Part(s[i])] /\ Len(s) \in Nat
    BY DEF Lists
  <2>2. \A i \in 1..Len(s) : Part(s[i]) \in Lists
    BY <1>1, <1>2 DEF Lists
  <2> QED
    BY <2>1, <2>2
<1> HIDE DEF ss
<1>7. FlattenSeq(ss) \in Lists /\ ToSet(FlattenSeq(ss)) = UNION {ToSet(ss[i]) : i \in DOMAIN ss}
  BY <1>6, FlattenElements DEF Lists
<1>8. UNION {ToSet(ss[i]) : i \in DOMAIN ss} = UNION {Set(t) : t \in ToSet(s)}
  <2>1. \A i \in DOMAIN s : ToSet(ss[i]) = Set(s[i])
    BY <1>1, <1>2, <1>5
  <2> QED
    BY <1>2, <1>3, <1>5, <2>1
<1> QED
  BY <1>4, <1>7, <1>8 DEF Set

\* What is collected has with a type its arguments, and with a struct or a class
\* its fields.
LEMMA CollectedClosed ==
  ASSUME FieldsOK
  PROVE  /\ Collected \in Lists /\ ToSet(Collected) \subseteq Types
         /\ \A t \in ToSet(Collected) : Args(t) \subseteq ToSet(Collected)
         /\ \A t \in ToSet(Structs) \cup ToSet(Classes) : t \in ToSet(Collected) /\ ToSet(fields[t]) \subseteq ToSet(Collected)
<1> DEFINE With(ts) == UNION {ToSet(WithArgs[t]) : t \in ts}
           Set(t) == ToSet(WithArgs[t]) \cup With(ToSet(fields[t]))
           Given == ToSet(Structs) \cup ToSet(Classes)
<1>1. /\ Declared(Structs) \in Lists /\ ToSet(Declared(Structs)) = UNION {Set(t) : t \in ToSet(Structs)}
      /\ Declared(Classes) \in Lists /\ ToSet(Declared(Classes)) = UNION {Set(t) : t \in ToSet(Classes)}
  BY StructsAndClasses, DeclaredElements
<1>2. /\ Concat(WithArgs, BodyTypes) \in Lists
      /\ ToSet(Concat(WithArgs, BodyTypes)) = With(ToSet(BodyTypes))
  <2>1. \A t \in ToSet(BodyTypes) : WithArgs[t] \in Lists
    BY StructsAndClasses, WithArgsElements
  <2> QED
    BY <2>1, StructsAndClasses, ConcatElements
<1> DEFINE All == UNION {Set(t) : t \in Given}
           Bodily == With(ToSet(BodyTypes))
<1> HIDE DEF Set, With
<1>3. ToSet(Declared(Structs)) \cup ToSet(Declared(Classes)) = All
  BY <1>1
<1>4. /\ \A g \in Given : Set(g) \subseteq All
      /\ \A t \in All : \E g \in Given : t \in Set(g)
  OBVIOUS
<1>5. ToSet(Concat(WithArgs, BodyTypes)) = Bodily
  BY <1>2
<1> HIDE DEF All, Bodily
<1>6. Collected \in Lists
  BY <1>1, <1>2 DEF Collected, Lists
<1>7. ToSet(Collected) = All \cup Bodily
  <2> DEFINE a == Declared(Structs)
             b == Declared(Classes)
             c == Concat(WithArgs, BodyTypes)
  <2>1. Collected = (a \o b) \o c
    BY DEF Collected
  <2>2. a \in Seq(Types) /\ b \in Seq(Types) /\ c \in Seq(Types)
    BY <1>1, <1>2 DEF Lists
  <2>3. ToSet(a) \cup ToSet(b) = All /\ ToSet(c) = Bodily
    BY <1>3, <1>5
  <2> HIDE DEF a, b, c
  <2> DEFINE ab == a \o b
  <2>4. ab \in Seq(Types) /\ ToSet(ab) = ToSet(a) \cup ToSet(b) /\ Collected = ab \o c
    BY <2>1, <2>2, ElementsOfBoth
  <2> HIDE DEF ab
  <2>5. ToSet(ab \o c) = ToSet(ab) \cup ToSet(c)
    BY <2>2, <2>4, ElementsOfBoth
  <2> QED
    BY <2>3, <2>4, <2>5
<1>8. ToSet(Collected) \subseteq Types
  BY <1>6 DEF Lists, ToSet
<1>9. \A t \in Given : t \in Types /\ fields[t] \in Lists /\ ToSet(fields[t]) \subseteq Types
  BY StructsAndClasses DEF FieldsOK, Lists, ToSet
<1>10. ASSUME NEW t \in ToSet(Collected) PROVE Args(t) \subseteq ToSet(Collected)
  <2>1. PICK u \in Types : t \in ToSet(WithArgs[u]) /\ ToSet(WithArgs[u]) \subseteq ToSet(Collected)
    <3>1. CASE t \in Bodily
      <4>1. PICK u \in ToSet(BodyTypes) : t \in ToSet(WithArgs[u])
        BY <3>1 DEF Bodily, With
      <4>2. ToSet(WithArgs[u]) \subseteq Bodily
        BY DEF Bodily, With
      <4> QED
        <5>1. u \in Types
          BY StructsAndClasses
        <5>2. ToSet(WithArgs[u]) \subseteq ToSet(Collected)
          BY <1>7, <4>2
        <5> QED
          BY <4>1, <5>1, <5>2
    <3>2. ASSUME NEW g \in Given, t \in Set(g) PROVE \E u \in Types : t \in ToSet(WithArgs[u]) /\ ToSet(WithArgs[u]) \subseteq ToSet(Collected)
      <4>1. Set(g) \subseteq ToSet(Collected)
        BY <1>7, <1>4
      <4>2. CASE t \in ToSet(WithArgs[g])
        <5>1. ToSet(WithArgs[g]) \subseteq Set(g) /\ g \in Types
          BY <1>9 DEF Set
        <5> QED
          BY <4>1, <4>2, <5>1
      <4>3. CASE t \in With(ToSet(fields[g]))
        <5>1. PICK u \in ToSet(fields[g]) : t \in ToSet(WithArgs[u])
          BY <4>3 DEF With
        <5>2. ToSet(WithArgs[u]) \subseteq Set(g) /\ u \in Types
          BY <1>9 DEF Set, With
        <5> QED
          BY <4>1, <5>1, <5>2
      <4> QED
        <5>1. t \in ToSet(WithArgs[g]) \/ t \in With(ToSet(fields[g]))
          BY <3>2 DEF Set
        <5> QED
          BY <4>2, <4>3, <5>1
    <3> QED
      BY <1>7, <1>4, <3>1, <3>2
  <2> QED
    BY <2>1, WithArgsClosed
<1>11. ASSUME NEW t \in Given PROVE t \in ToSet(Collected) /\ ToSet(fields[t]) \subseteq ToSet(Collected)
  <2>1. Set(t) \subseteq ToSet(Collected)
    BY <1>7, <1>4
  <2>2. t \in Set(t) /\ ToSet(fields[t]) \subseteq Set(t)
    BY <1>9, WithArgsClosed DEF Set, With
  <2> QED
    BY <2>1, <2>2
<1> QED
  BY <1>6, <1>8, <1>10, <1>11

FunctionArgs(t) == {u \in Args(t) : u.kind = "fn"}

\* The types that are written before a type.
LEMMA ComponentsElements ==
  ASSUME FieldsOK, NEW t \in Types
  PROVE  /\ Components(t) \in Lists
         /\ t.kind \in OwnedBy => ToSet(Components(t)) = Args(t)
         /\ t.kind = "fn"      => ToSet(Components(t)) = FunctionArgs(t)
         /\ t.kind = "struct"  => Components(t) = fields[t]
         /\ t.kind \in {"prim", "class"} => ToSet(Components(t)) = {}
<1>1. t.args \in Lists /\ ToSet(t.args) = Args(t) /\ Args(t) \subseteq Types
  BY TypesClosed DEF Args
<1>2. CASE t.kind \in OwnedBy
  <2>1. Components(t) = t.args /\ t.kind \notin {"fn", "struct", "prim", "class"}
    BY <1>2 DEF Components, OwnedBy
  <2> QED
    BY <1>1, <1>2, <2>1
<1>3. CASE t.kind = "fn"
  <2>1. Components(t) = Concat(FunctionType, t.args) /\ t.kind \notin OwnedBy
    BY <1>3 DEF Components, OwnedBy
  <2>2. ASSUME NEW u \in Types PROVE FunctionType[u] \in Lists /\ ToSet(FunctionType[u]) = {x \in {u} : x.kind = "fn"}
    <3>1. ToSet(<<>>) = {} /\ <<>> \in Lists /\ <<u>> \in Lists /\ ToSet(<<u>>) = {u}
      BY DEF ToSet, Lists
    <3> QED
      BY <3>1 DEF FunctionType
  <2>3. Concat(FunctionType, t.args) \in Lists /\ ToSet(Concat(FunctionType, t.args)) = UNION {ToSet(FunctionType[u]) : u \in Args(t)}
    <3>1. \A u \in ToSet(t.args) : FunctionType[u] \in Lists
      BY <1>1, <2>2
    <3> QED
      BY <1>1, <3>1, ConcatElements
  <2>4. UNION {ToSet(FunctionType[u]) : u \in Args(t)} = FunctionArgs(t)
    BY <1>1, <2>2 DEF FunctionArgs
  <2> QED
    BY <1>3, <2>1, <2>3, <2>4
<1>4. CASE t.kind = "struct"
  <2>1. Components(t) = fields[t] /\ t.kind \notin OwnedBy
    BY <1>4 DEF Components, OwnedBy
  <2>2. fields[t] \in Lists
    BY <1>4, StructsAndClasses DEF FieldsOK
  <2> QED
    BY <1>4, <2>1, <2>2
<1>5. CASE t.kind \in {"prim", "class"}
  <2>1. Components(t) = <<>> /\ t.kind \notin OwnedBy /\ t.kind \notin {"fn", "struct"}
    BY <1>5 DEF Components, OwnedBy
  <2>2. <<>> \in Lists /\ ToSet(<<>>) = {}
    BY DEF Lists, ToSet
  <2> QED
    BY <2>1, <2>2
<1>6. t.kind \in OwnedBy \cup {"fn", "struct", "prim", "class"}
  BY TypesAssumption DEF OwnedBy, Kinds
<1> QED
  BY <1>2, <1>3, <1>4, <1>5, <1>6

Payloads == {Payload(c) : c \in ToSet(Classes)}

LEMMA PayloadsApart ==
  /\ Payloads \cap Types = {}
  /\ \A c \in ToSet(Classes) : Components(Payload(c)) = fields[c]
<1>1. ASSUME NEW c \in ToSet(Classes) PROVE Payload(c).kind = "payload" /\ Payload(c).args[1] = c
  BY DEF Payload
<1>2. \A t \in Types : t.kind # "payload"
  BY TypesAssumption DEF Kinds
<1>3. \A c \in ToSet(Classes) : Components(Payload(c)) = fields[c]
  BY <1>1 DEF Components
<1> QED
  BY <1>1, <1>2, <1>3 DEF Payloads

\* If no structs own themselves, no types need each other to be written: what
\* leads from a type to itself would go through structs that own the next one,
\* or down through arguments without an end.
LEMMA NeededAcyclic ==
  ASSUME FieldsOK, ~Circular(Owned), NEW ss \in SUBSET (Types \cup Payloads), ss # {}
  PROVE  \E s \in ss : ss \cap ToSet(Components(s)) = {}
<1>1. SUFFICES ASSUME \A s \in ss : ss \cap ToSet(Components(s)) # {} PROVE FALSE
  OBVIOUS
<1> DEFINE ts == ss \cap Types
           functions == {t \in ts : t.kind = "fn"}
           structs == {t \in ts : t.kind = "struct"}
<1>2. \A s \in ss : ToSet(Components(s)) \subseteq Types
  <2>1. ASSUME NEW s \in ss PROVE Components(s) \in Lists
    <3>1. CASE s \in Types
      BY <3>1, ComponentsElements
    <3>2. CASE s \in Payloads
      <4>1. PICK c \in ToSet(Classes) : s = Payload(c)
        BY <3>2 DEF Payloads
      <4>2. fields[c] \in Lists
        BY DEF FieldsOK
      <4> QED
        BY <4>1, <4>2, PayloadsApart
    <3> QED
      BY <3>1, <3>2
  <2> QED
    BY <2>1 DEF Lists, ToSet
<1>3. ts # {} /\ \A t \in ts : \E u \in ts : u \in ToSet(Components(t))
  BY <1>1, <1>2
<1>4. functions = {}
  <2>1. SUFFICES ASSUME functions # {} PROVE FALSE
    OBVIOUS
  <2>2. functions \in SUBSET Types
    OBVIOUS
  <2>3. PICK t \in functions : Args(t) \cap functions = {}
    BY <2>1, <2>2, TextAssumption
  <2>4. PICK u \in ts : u \in ToSet(Components(t))
    BY <1>3, <2>3
  <2>5. u \in FunctionArgs(t)
    BY <2>3, <2>4, ComponentsElements
  <2> QED
    BY <2>3, <2>4, <2>5 DEF FunctionArgs
<1>5. ASSUME NEW t \in ts PROVE t.kind = "struct" \/ (t.kind \in OwnedBy /\ \E u \in ts : u \in Args(t))
  <2>1. PICK u \in ts : u \in ToSet(Components(t))
    BY <1>3, <1>5
  <2>2. t \in Types /\ t.kind \in Kinds /\ t.kind # "fn"
    BY <1>4, <1>5, TypesAssumption
  <2>3. t.kind \notin {"prim", "class"}
    BY <2>1, <2>2, ComponentsElements
  <2>4. t.kind \in OwnedBy => u \in Args(t)
    BY <2>1, <2>2, ComponentsElements
  <2> QED
    BY <2>1, <2>2, <2>3, <2>4 DEF Kinds, OwnedBy
\* Each of the types owns a struct among them.
<1> DEFINE Owning(t) == \E s \in structs : s \in ToSet(Owned[t])
           Bad == {t \in ts : ~Owning(t)}
<1>6. Bad = {}
  <2>1. SUFFICES ASSUME Bad # {} PROVE FALSE
    OBVIOUS
  <2>2. Bad \in SUBSET Types
    OBVIOUS
  <2>3. PICK t \in Bad : Args(t) \cap Bad = {}
    BY <2>1, <2>2, TextAssumption
  <2>4. t \in Types /\ t \in ts
    BY <2>3
  <2>5. CASE t.kind = "struct"
    <3>1. ToSet(Owned[t]) = {t} /\ t \in structs
      BY <2>4, <2>5, OwnedFinds DEF Finds
    <3> QED
      BY <2>3, <3>1
  <2>6. CASE t.kind \in OwnedBy
    <3>1. PICK u \in ts : u \in Args(t)
      BY <1>5, <2>4, <2>6 DEF OwnedBy
    <3>2. Owning(u)
      BY <2>3, <3>1
    <3>3. ToSet(Owned[u]) \subseteq ToSet(Owned[t])
      <4>1. ToSet(Owned[t]) = UNION {ToSet(Owned[x]) : x \in Args(t)}
        BY <2>4, <2>6, OwnedFinds DEF Finds
      <4> QED
        BY <3>1, <4>1
    <3> QED
      BY <2>3, <3>2, <3>3
  <2> QED
    BY <1>5, <2>4, <2>5, <2>6
<1>7. structs # {}
  BY <1>3, <1>6
<1>8. structs \in SUBSET ToSet(Structs)
  BY StructsAndClasses
<1>9. ASSUME NEW s \in structs PROVE structs \cap ToSet(Concat(Owned, fields[s])) # {}
  <2>1. PICK u \in ts : u \in ToSet(Components(s))
    BY <1>3
  <2>2. u \in ToSet(fields[s]) /\ fields[s] \in Lists
    BY <1>8, <2>1, ComponentsElements DEF FieldsOK
  <2>3. \A x \in ToSet(fields[s]) : Owned[x] \in Lists
    BY <2>2, OwnedFinds DEF Finds, Lists, ToSet
  <2>4. ToSet(Concat(Owned, fields[s])) = UNION {ToSet(Owned[x]) : x \in ToSet(fields[s])}
    BY <2>2, <2>3, ConcatElements
  <2>5. Owning(u)
    BY <1>6
  <2> QED
    BY <2>2, <2>4, <2>5
<1> QED
  BY <1>7, <1>8, <1>9 DEF Circular

LEMMA StructDependencies ==
  ASSUME FieldsOK, NEW f, NEW kinds, Finds(f, kinds), NEW t \in ToSet(Structs)
  PROVE  Concat(f, fields[t]) \in Seq(ToSet(Structs))
<1>1. fields[t] \in Lists
  BY DEF FieldsOK
<1>2. \A u \in ToSet(fields[t]) : u \in Types /\ f[u] \in Lists
  BY <1>1 DEF Finds, Lists, ToSet
<1>3. Concat(f, fields[t]) \in Lists /\ ToSet(Concat(f, fields[t])) = UNION {ToSet(f[u]) : u \in ToSet(fields[t])}
  BY <1>1, <1>2, ConcatElements
<1> DEFINE Wrong == {u \in Types : ~(ToSet(f[u]) \subseteq ToSet(Structs))}
<1>4. Wrong = {}
  <2>1. SUFFICES ASSUME Wrong # {} PROVE FALSE
    OBVIOUS
  <2>2. Wrong \in SUBSET Types
    OBVIOUS
  <2>3. PICK u \in Wrong : Args(u) \cap Wrong = {}
    BY <2>1, <2>2, TextAssumption
  <2>4. u \in Types /\ Args(u) \subseteq Types
    BY <2>3, TypesClosed
  <2>5. CASE u.kind = "struct"
    <3>1. ToSet(f[u]) = {u} /\ u \in ToSet(Structs)
      BY <2>4, <2>5, StructsAndClasses DEF Finds
    <3> QED
      BY <2>3, <3>1
  <2>6. CASE u.kind \in kinds
    <3>1. ToSet(f[u]) = UNION {ToSet(f[x]) : x \in Args(u)}
      BY <2>4, <2>6 DEF Finds
    <3>2. \A x \in Args(u) : ToSet(f[x]) \subseteq ToSet(Structs)
      BY <2>3, <2>4
    <3>3. ToSet(f[u]) \subseteq ToSet(Structs)
      BY <3>1, <3>2
    <3> QED
      BY <2>3, <3>3
  <2>7. CASE u.kind \notin kinds \cup {"struct"}
    <3>1. ToSet(f[u]) = {}
      BY <2>4, <2>7 DEF Finds
    <3> QED
      BY <2>3, <3>1
  <2> QED
    BY <2>5, <2>6, <2>7
<1>5. ToSet(Concat(f, fields[t])) \subseteq ToSet(Structs)
  BY <1>2, <1>3, <1>4
<1> QED
  BY <1>3, <1>5 DEF Lists, ToSet

-----------------------------------------------------------------------------
(* The inductive invariant of the passes *)

\* The nodes a pass walks over and what each depends on, those it has to come to,
\* and those that are written ahead of all passes.
Late == {"types", "payloads"}
Known == ToSet(Collected) \cup Leaf \cup ToSet(Classes) \cup Payloads
Here == IF pass \in Late THEN Known ELSE ToSet(Structs)
Deps == [t \in Here |-> DependsOn(t)]
Due == IF pass \in Late
       THEN IF pass = "types" THEN ToSet(Collected) ELSE ToSet(Collected) \cup Payloads
       ELSE ToSet(Structs)
Ahead == Leaf \cup ToSet(Classes)

Passes == {"layout", "ownership", "types", "payloads"}
Dependencies == IF pass = "layout" THEN ByValue ELSE Owned

LayoutInv ==
    /\ FieldsOK /\ pass \in Passes /\ verdict \in {"running", "refused", "written"}
    /\ roots \in Seq(Here)
    /\ Walked(Here, Deps, visiting, {}, complete)
    /\ complete \subseteq Here /\ Through(Deps, complete) /\ Acyclic(Deps, complete)
    /\ Due \subseteq complete \cup ToSet(roots) \cup NodesOf(visiting)
    /\ pass \notin Late => text = <<>>
    /\ pass \in Late => /\ text \in Seq(Here) /\ complete = Ahead \cup ToSet(text)
                        /\ Ordered(Deps, Ahead, text) /\ ~Circular(Owned)
    /\ verdict = "written" => pass = "payloads" /\ roots = <<>> /\ visiting = <<>>
    /\ verdict = "refused" => pass \notin Late /\ Circular(Dependencies)

LEMMA KnownTypes ==
  ASSUME FieldsOK
  PROVE  /\ Known \subseteq Types \cup Payloads
         /\ \A t \in Known : Components(t) \in Lists /\ Components(t) \in Seq(Known)
         /\ \A t \in Ahead : ToSet(Components(t)) = {}
<1>1. Known \subseteq Types \cup Payloads
  BY CollectedClosed, StructsAndClasses DEF Known, Leaf
<1>2. ASSUME NEW t \in Ahead PROVE ToSet(Components(t)) = {}
  <2>1. t \in Types /\ t.kind \in {"prim", "class"}
    BY StructsAndClasses DEF Ahead, Leaf
  <2> QED
    BY <2>1, ComponentsElements
<1>3. ASSUME NEW t \in Known PROVE Components(t) \in Lists /\ ToSet(Components(t)) \subseteq Known
  <2>1. CASE t \in Payloads
    <3>1. PICK c \in ToSet(Classes) : t = Payload(c)
      BY <2>1 DEF Payloads
    <3>2. Components(t) = fields[c] /\ fields[c] \in Lists
      BY <3>1, PayloadsApart DEF FieldsOK
    <3>3. ToSet(fields[c]) \subseteq ToSet(Collected)
      BY CollectedClosed
    <3> QED
      BY <3>2, <3>3 DEF Known
  <2>2. CASE t \in ToSet(Collected)
    <3>1. t \in Types /\ Args(t) \subseteq ToSet(Collected)
      BY <2>2, CollectedClosed
    <3>2. t.kind = "struct" => ToSet(fields[t]) \subseteq ToSet(Collected)
      BY <3>1, CollectedClosed, StructsAndClasses
    <3>3. t.kind \in OwnedBy \cup {"fn", "struct", "prim", "class"}
      BY <3>1, TypesAssumption DEF OwnedBy, Kinds
    <3>4. ToSet(Components(t)) \subseteq ToSet(Collected)
      BY <3>1, <3>2, <3>3, ComponentsElements DEF FunctionArgs
    <3> QED
      BY <3>1, <3>4, ComponentsElements DEF Known
  <2>3. CASE t \in Ahead
    <3>1. t \in Types
      BY <2>3, StructsAndClasses DEF Ahead, Leaf
    <3> QED
      BY <1>2, <2>3, <3>1, ComponentsElements
  <2> QED
    BY <2>1, <2>2, <2>3 DEF Known, Ahead
<1> QED
  BY <1>1, <1>2, <1>3 DEF Lists, ToSet

LEMMA DepsTypes ==
  ASSUME FieldsOK, pass \in Passes
  PROVE  /\ Deps \in [Here -> Seq(Here)]
         /\ Here \subseteq Types \cup Payloads
         /\ \A t \in Here : ToSet(Deps[t]) \subseteq Types
         /\ pass \in Late => \A t \in Here : Deps[t] = Components(t)
         /\ pass \notin Late => /\ Here = ToSet(Structs)
                               /\ \A t \in Here : Deps[t] = Concat(Dependencies, fields[t])
<1>1. CASE pass \in Late
  <2>1. Here = Known /\ \A t \in Here : Deps[t] = Components(t)
    BY <1>1 DEF Here, Deps, DependsOn, Late
  <2>2. Deps = [t \in Here |-> Deps[t]]
    BY DEF Deps
  <2> QED
    BY <1>1, <2>1, <2>2, KnownTypes DEF Lists, ToSet
<1>2. CASE pass \notin Late
  <2>1. Here = ToSet(Structs) /\ pass \in {"layout", "ownership"}
    BY <1>2 DEF Here, Late, Passes
  <2>2. \A t \in Here : Deps[t] = Concat(Dependencies, fields[t])
    BY <1>2, <2>1 DEF Deps, DependsOn, Dependencies
  <2>3. \A t \in Here : Concat(Dependencies, fields[t]) \in Seq(Here)
    BY <2>1, ByValueFinds, OwnedFinds, StructDependencies DEF Dependencies
  <2>4. Deps = [t \in Here |-> Deps[t]]
    BY DEF Deps
  <2>5. Deps \in [Here -> Seq(Here)]
    BY <2>2, <2>3, <2>4
  <2>6. Here \subseteq Types
    BY <2>1, StructsAndClasses
  <2>7. \A t \in Here : ToSet(Deps[t]) \subseteq Types
    BY <2>5, <2>6 DEF ToSet
  <2> QED
    BY <1>2, <2>1, <2>2, <2>5, <2>6, <2>7
<1> QED
  BY <1>1, <1>2

LEMMA StartWalk ==
  ASSUME NEW ts, NEW d, NEW done
  PROVE  Walked(ts, d, <<>>, {}, done) /\ NodesOf(<<>>) = {}
BY DEF Walked, NodesOf

LEMMA LayoutStarts ==
  ASSUME LayoutInit
  PROVE  LayoutInv
<1>1. FieldsOK
  BY ProgramsAssumption DEF LayoutInit, FieldsOK, Lists
<1>2. Here = ToSet(Structs) /\ Due = ToSet(Structs) /\ pass \notin Late /\ pass \in Passes
  BY DEF LayoutInit, Here, Due, Late, Passes
<1>3. roots \in Seq(Here) /\ ToSet(roots) = ToSet(Structs)
  BY <1>2, StructsAndClasses DEF LayoutInit, Lists, ToSet
<1>4. Walked(Here, Deps, visiting, {}, complete)
  BY StartWalk DEF LayoutInit
<1>5. complete \subseteq Here /\ Through(Deps, complete) /\ Acyclic(Deps, complete)
  BY DEF LayoutInit, Through, Acyclic
<1> QED
  BY <1>1, <1>2, <1>3, <1>4, <1>5 DEF LayoutInit, LayoutInv

\* Steps within a pass do not change what it walks over.
LEMMA SamePass ==
  ASSUME UNCHANGED <<fields, pass>>
  PROVE  /\ Here' = Here /\ Deps' = Deps /\ Due' = Due /\ Dependencies' = Dependencies
         /\ FieldsOK' <=> FieldsOK
         /\ Circular(Owned)' <=> Circular(Owned)
         /\ Circular(Dependencies)' <=> Circular(Dependencies)
<1>1. FieldsOK' <=> FieldsOK
  BY DEF FieldsOK
<1>2. Collected' = Collected
  BY DEF Collected, Declared
<1>3. Here' = Here /\ Due' = Due
  BY <1>2 DEF Here, Due, Known
<1>4. ASSUME NEW t PROVE DependsOn(t)' = DependsOn(t)
  <2>1. Components(t)' = Components(t)
    BY DEF Components
  <2> QED
    BY <2>1 DEF DependsOn
<1>5. Deps' = Deps
  BY <1>3, <1>4 DEF Deps
<1>6. Circular(Owned)' <=> Circular(Owned)
  BY DEF Circular
<1>7. Dependencies' = Dependencies
  BY DEF Dependencies
<1>8. Circular(Dependencies)' <=> Circular(Dependencies)
  BY <1>7 DEF Circular
<1> QED
  BY <1>1, <1>3, <1>5, <1>6, <1>7, <1>8

LEMMA VisitRootKeeps ==
  ASSUME LayoutInv, VisitRoot
  PROVE  LayoutInv'
<1>1. /\ verdict = "running" /\ visiting = <<>> /\ roots # <<>> /\ roots' = Tail(roots)
      /\ UNCHANGED <<fields, pass, complete, text, verdict>>
      /\ visiting' = IF Head(roots) \in complete THEN <<>> ELSE Push(<<>>, Head(roots))
  BY DEF VisitRoot, Visit
<1>2. /\ Here' = Here /\ Deps' = Deps /\ Due' = Due /\ (FieldsOK' <=> FieldsOK)
      /\ (Circular(Owned)' <=> Circular(Owned)) /\ Dependencies' = Dependencies
  BY <1>1, SamePass
<1>3. /\ Deps \in [Here -> Seq(Here)] /\ roots \in Seq(Here)
      /\ Walked(Here, Deps, visiting, {}, complete)
      /\ Due \subseteq complete \cup ToSet(roots) \cup NodesOf(visiting)
  BY DepsTypes DEF LayoutInv
<1> DEFINE t == Head(roots)
<1>4. t \in Here /\ Tail(roots) \in Seq(Here) /\ ToSet(roots) = {t} \cup ToSet(Tail(roots))
  BY <1>1, <1>3, HeadAndTail
<1>5. Walked(Here, Deps, visiting', {}, complete) /\ (t \in complete \/ t \in NodesOf(visiting'))
  <2>1. CASE t \in complete
    BY <1>1, <2>1, StartWalk
  <2>2. CASE t \notin complete
    <3>1. visiting' = Put(Deps, <<>>, t)
      BY <1>1, <1>4, <2>2 DEF Push, Put, Deps
    <3>2. Walked(Here, Deps, <<>>, {t}, complete) /\ NodesOf(<<>>) = {}
      BY DEF Walked, NodesOf
    <3>3. Walked(Here, Deps, Put(Deps, <<>>, t), {}, complete) /\ NodesOf(Put(Deps, <<>>, t)) = NodesOf(<<>>) \cup {t}
      <4>1. MayPut(Here, Deps, <<>>, t, complete)
        BY <1>3, <1>4, <2>2, <3>2 DEF MayPut
      <4> QED
        BY <4>1, Putting
    <3> QED
      BY <3>1, <3>3
  <2> QED
    BY <2>1, <2>2
<1>6. Due \subseteq complete \cup ToSet(Tail(roots)) \cup NodesOf(visiting')
  BY <1>1, <1>3, <1>4, <1>5, StartWalk
<1> QED
  BY <1>1, <1>2, <1>4, <1>5, <1>6 DEF LayoutInv

\* The innermost frame takes a node that is through with, or goes into it.
LEMMA VisitNextKeeps ==
  ASSUME LayoutInv, VisitNext
  PROVE  LayoutInv'
<1> DEFINE t == Head(Last(visiting).todo)
<1>1. verdict = "running" /\ visiting # <<>> /\ Last(visiting).todo # <<>>
  BY DEF VisitNext
<1>2. Last(visiting) = visiting[Len(visiting)]
  BY DEF Last
<1>3. /\ FieldsOK /\ pass \in Passes /\ Deps \in [Here -> Seq(Here)]
      /\ Walked(Here, Deps, visiting, {}, complete)
      /\ Due \subseteq complete \cup ToSet(roots) \cup NodesOf(visiting)
  BY DepsTypes DEF LayoutInv
<1>4. InVisit(t) <=> t \in NodesOf(visiting)
  BY DEF InVisit, NodesOf
<1>5. CASE InVisit(t)
  <2>1. verdict' = IF pass \in {"layout", "ownership"} THEN "refused" ELSE "failed"
    BY <1>5 DEF VisitNext, Refuse
  <2>2. UNCHANGED <<fields, pass, roots, visiting, complete, text>>
    BY <1>5 DEF VisitNext, Refuse
  <2>3. PICK ss \in SUBSET Here : ss # {} /\ \A s \in ss : ss \cap ToSet(Deps[s]) # {}
    BY <1>1, <1>2, <1>3, <1>4, <1>5, Looping
  <2>4. pass \notin Late
    <3>1. SUFFICES ASSUME pass \in Late PROVE FALSE
      OBVIOUS
    <3>2. ~Circular(Owned)
      BY <3>1 DEF LayoutInv
    <3>3. ss \in SUBSET (Types \cup Payloads) /\ \A s \in ss : Deps[s] = Components(s)
      BY <1>3, <2>3, <3>1, DepsTypes
    <3> QED
      BY <1>3, <2>3, <3>2, <3>3, NeededAcyclic
  <2>5. Circular(Dependencies)
    BY <1>3, <2>3, <2>4, DepsTypes DEF Circular
  <2>6. /\ Here' = Here /\ Deps' = Deps /\ Due' = Due /\ (FieldsOK' <=> FieldsOK)
        /\ (Circular(Owned)' <=> Circular(Owned)) /\ (Circular(Dependencies)' <=> Circular(Dependencies))
    BY <2>2, SamePass
  <2>7. verdict' = "refused"
    BY <1>3, <2>1, <2>4 DEF Passes, Late
  <2> QED
    BY <2>2, <2>4, <2>5, <2>6, <2>7 DEF LayoutInv
<1>6. CASE ~InVisit(t)
  <2>1. /\ UNCHANGED <<fields, pass, roots, complete, text, verdict>>
        /\ visiting' = IF t \in complete THEN Taken(visiting) ELSE Push(Taken(visiting), t)
    BY <1>6 DEF VisitNext, Visit, Taken
  <2>2. /\ Here' = Here /\ Deps' = Deps /\ Due' = Due /\ (FieldsOK' <=> FieldsOK)
        /\ (Circular(Owned)' <=> Circular(Owned)) /\ Dependencies' = Dependencies
    BY <2>1, SamePass
  <2>3. /\ Walked(Here, Deps, Taken(visiting), {t}, complete)
        /\ Taken(visiting) # <<>> /\ NodesOf(Taken(visiting)) = NodesOf(visiting)
        /\ t \in ToSet(Deps[Taken(visiting)[Len(Taken(visiting))].node])
    BY <1>1, <1>2, <1>3, Taking
  <2>4. t \in Here
    BY <1>1, <1>2, <1>3, TakenFrames DEF Walked
  <2>5. Walked(Here, Deps, visiting', {}, complete) /\ NodesOf(visiting) \subseteq NodesOf(visiting')
    <3>1. CASE t \in complete
      BY <2>1, <2>3, <3>1, Skipping
    <3>2. CASE t \notin complete
      <4>1. visiting' = Put(Deps, Taken(visiting), t)
        BY <2>1, <2>4, <3>2 DEF Push, Put, Deps
      <4>2. t \notin NodesOf(Taken(visiting))
        BY <1>4, <1>6, <2>3
      <4> DEFINE v == Taken(visiting)
      <4>3. Walked(Here, Deps, v, {t}, complete) /\ t \in ToSet(Deps[v[Len(v)].node]) /\ t \notin NodesOf(v)
        BY <2>3, <4>2
      <4> HIDE DEF t, v
      <4>4. MayPut(Here, Deps, v, t, complete)
        BY <1>3, <2>4, <3>2, <4>3 DEF MayPut
      <4>5. Walked(Here, Deps, Put(Deps, v, t), {}, complete) /\ NodesOf(Put(Deps, v, t)) = NodesOf(v) \cup {t}
        BY <4>4, Putting
      <4> QED
        BY <2>3, <4>1, <4>5 DEF v
    <3> QED
      BY <3>1, <3>2
  <2>6. visiting' # <<>>  \/ verdict # "written"
    BY <1>1
  <2>7. Due \subseteq complete \cup ToSet(roots) \cup NodesOf(visiting')
    BY <1>3, <2>5
  <2> QED
    BY <1>1, <2>1, <2>2, <2>5, <2>7 DEF LayoutInv
<1> QED
  BY <1>5, <1>6

LEMMA LeaveKeeps ==
  ASSUME LayoutInv, Leave
  PROVE  LayoutInv'
<1> DEFINE n == Last(visiting).node
<1>1. /\ verdict = "running" /\ visiting # <<>> /\ Last(visiting).todo = <<>>
      /\ complete' = complete \cup {n} /\ visiting' = Front(visiting)
      /\ UNCHANGED <<fields, pass, roots, verdict>>
      /\ text' = IF pass \in Late THEN Append(text, n) ELSE text
  BY DEF Leave, Late
<1>2. Last(visiting) = visiting[Len(visiting)]
  BY DEF Last
<1>3. /\ FieldsOK /\ pass \in Passes /\ Deps \in [Here -> Seq(Here)]
      /\ Walked(Here, Deps, visiting, {}, complete)
      /\ Due \subseteq complete \cup ToSet(roots) \cup NodesOf(visiting)
      /\ complete \subseteq Here /\ Through(Deps, complete) /\ Acyclic(Deps, complete)
  BY DepsTypes DEF LayoutInv
<1>4. /\ Here' = Here /\ Deps' = Deps /\ Due' = Due /\ (FieldsOK' <=> FieldsOK)
      /\ (Circular(Owned)' <=> Circular(Owned)) /\ Dependencies' = Dependencies
  BY <1>1, SamePass
<1>5. n = visiting[Len(visiting)].node /\ visiting[Len(visiting)].todo = <<>>
  BY <1>1, <1>2
<1> HIDE DEF n
<1>6. /\ Walked(Here, Deps, Front(visiting), {}, complete \cup {n})
      /\ n \in Here /\ n \notin complete /\ ToSet(Deps[n]) \subseteq complete
      /\ NodesOf(visiting) = NodesOf(Front(visiting)) \cup {n}
  <2>1. MayLeave(Here, Deps, visiting, n, complete)
    BY <1>1, <1>3, <1>5 DEF MayLeave
  <2> QED
    BY <2>1, Leaving
<1>7. Through(Deps, complete \cup {n}) /\ Acyclic(Deps, complete \cup {n})
  BY <1>3, <1>6, Joining
<1>8. Due \subseteq complete' \cup ToSet(roots) \cup NodesOf(visiting')
  BY <1>1, <1>3, <1>6
<1>9. pass \in Late => /\ text' \in Seq(Here) /\ complete' = Ahead \cup ToSet(text')
                       /\ Ordered(Deps, Ahead, text') /\ ~Circular(Owned)
  <2>1. SUFFICES ASSUME pass \in Late
                 PROVE  /\ text' \in Seq(Here) /\ complete' = Ahead \cup ToSet(text')
                        /\ Ordered(Deps, Ahead, text') /\ ~Circular(Owned)
    OBVIOUS
  <2>2. /\ text \in Seq(Here) /\ complete = Ahead \cup ToSet(text)
        /\ Ordered(Deps, Ahead, text) /\ ~Circular(Owned)
    BY <2>1 DEF LayoutInv
  <2>3. /\ Ordered(Deps, Ahead, Append(text, n)) /\ Append(text, n) \in Seq(Here)
        /\ ToSet(Append(text, n)) = ToSet(text) \cup {n}
    BY <1>6, <2>2, Writing
  <2>4. text' = Append(text, n)
    BY <1>1, <2>1
  <2> QED
    BY <1>1, <2>2, <2>3, <2>4
<1>10. pass \notin Late => text' = <<>>
  BY <1>1 DEF LayoutInv
<1>11. roots' \in Seq(Here') /\ complete' \subseteq Here'
  BY <1>1, <1>3, <1>4, <1>6 DEF LayoutInv
<1>12. Ahead' = Ahead
  OBVIOUS
<1> QED
  BY <1>1, <1>3, <1>4, <1>6, <1>7, <1>8, <1>9, <1>10, <1>11, <1>12 DEF LayoutInv

\* The passes of the analysis walk over structs, those of the backend over types.
LEMMA NextPass ==
  ASSUME UNCHANGED fields
  PROVE  /\ (FieldsOK' <=> FieldsOK) /\ (Circular(Owned)' <=> Circular(Owned)) /\ Known' = Known
         /\ pass' \in Late => Here' = Known /\ Deps' = [t \in Known |-> Components(t)]
         /\ pass' \notin Late => Here' = ToSet(Structs)
<1>1. FieldsOK' <=> FieldsOK
  BY DEF FieldsOK
<1>2. Circular(Owned)' <=> Circular(Owned)
  BY DEF Circular
<1>3. Collected' = Collected
  BY DEF Collected, Declared
<1>4. Known' = Known
  BY <1>3 DEF Known
<1>5. (pass' \in Late => Here' = Known) /\ (pass' \notin Late => Here' = ToSet(Structs))
  BY <1>4 DEF Here, Late
<1>6. ASSUME pass' \in Late, NEW t PROVE DependsOn(t)' = Components(t)
  <2>1. Components(t)' = Components(t)
    BY DEF Components
  <2> QED
    BY <1>6, <2>1 DEF DependsOn, Late
<1>7. pass' \in Late => Deps' = [t \in Known |-> Components(t)]
  BY <1>5, <1>6 DEF Deps
<1> QED
  BY <1>1, <1>2, <1>4, <1>5, <1>7

LEMMA CheckOwnershipKeeps ==
  ASSUME LayoutInv, CheckOwnership
  PROVE  LayoutInv'
<1>1. /\ verdict = "running" /\ visiting = <<>> /\ pass = "layout" /\ pass' = "ownership"
      /\ roots' = Structs /\ complete' = {} /\ UNCHANGED <<fields, visiting, text, verdict>>
  BY DEF CheckOwnership, PassDone
<1>2. pass' \notin Late /\ pass' \in Passes
  BY <1>1 DEF Late, Passes
<1>3. FieldsOK' /\ Here' = ToSet(Structs)
  BY <1>1, <1>2, NextPass DEF LayoutInv
<1>4. Structs \in Seq(ToSet(Structs))
  BY StructsAndClasses DEF Lists, ToSet
<1>5. Walked(Here, Deps, visiting, {}, complete)'
  <2>1. visiting' = <<>>
    BY <1>1
  <2> QED
    BY <2>1, StartWalk
<1>6. Through(Deps, complete)' /\ Acyclic(Deps, complete)'
  <2>1. complete' = {}
    BY <1>1
  <2> QED
    BY <2>1 DEF Through, Acyclic
<1>7. Due' = ToSet(Structs)
  BY <1>2 DEF Due
<1>8. text' = <<>>
  BY <1>1 DEF LayoutInv, Late
<1> QED
  BY <1>1, <1>2, <1>3, <1>4, <1>5, <1>6, <1>7, <1>8 DEF LayoutInv

\* When the analysis is through no structs own each other.
LEMMA EmitTypesKeeps ==
  ASSUME LayoutInv, EmitTypes
  PROVE  LayoutInv'
<1>1. /\ verdict = "running" /\ visiting = <<>> /\ roots = <<>> /\ pass = "ownership" /\ pass' = "types"
      /\ roots' = Collected /\ complete' = Ahead /\ UNCHANGED <<fields, visiting, text, verdict>>
  BY DEF EmitTypes, PassDone, Ahead
<1>2. pass \notin Late /\ pass' \in Late /\ pass' \in Passes /\ FieldsOK
  BY <1>1 DEF Late, Passes, LayoutInv
<1>3. ~Circular(Owned)
  <2>1. Here = ToSet(Structs) /\ \A t \in Here : Deps[t] = Concat(Owned, fields[t])
    BY <1>1, <1>2, DepsTypes DEF Dependencies, LayoutInv
  <2>2. ToSet(Structs) \subseteq complete
    <3>1. Due = ToSet(Structs)
      BY <1>2 DEF Due
    <3>2. NodesOf(<<>>) = {} /\ ToSet(<<>>) = {}
      BY DEF NodesOf, ToSet
    <3> QED
      BY <1>1, <3>1, <3>2 DEF LayoutInv
  <2>3. Acyclic(Deps, complete)
    BY DEF LayoutInv
  <2>4. ASSUME NEW ss \in SUBSET ToSet(Structs), ss # {}
        PROVE  \E s \in ss : ss \cap ToSet(Concat(Owned, fields[s])) = {}
    <3>1. PICK s \in ss : ss \cap ToSet(Deps[s]) = {}
      BY <2>2, <2>3, <2>4 DEF Acyclic
    <3>2. Deps[s] = Concat(Owned, fields[s])
      BY <2>1, <2>4
    <3> QED
      BY <3>1, <3>2
  <2> QED
    BY <2>4 DEF Circular
<1>4. /\ FieldsOK' /\ ~Circular(Owned)' /\ Here' = Known /\ Deps' = [t \in Known |-> Components(t)]
  BY <1>1, <1>2, <1>3, NextPass
<1>5. Collected \in Seq(Known)
  BY <1>2, CollectedClosed DEF Known, Lists, ToSet
<1>6. Walked(Here, Deps, visiting, {}, complete)'
  <2>1. visiting' = <<>>
    BY <1>1
  <2> QED
    BY <2>1, StartWalk
<1>7. Ahead \subseteq Known /\ \A t \in Ahead : ToSet(Deps'[t]) = {}
  <2>1. Ahead \subseteq Known
    BY DEF Ahead, Known
  <2> QED
    BY <1>2, <1>4, <2>1, KnownTypes
<1>8. Through(Deps', Ahead) /\ Acyclic(Deps', Ahead)
  BY <1>7 DEF Through, Acyclic
<1>9. Due' = ToSet(Collected)
  <2>1. Collected' = Collected
    BY <1>1 DEF Collected, Declared
  <2> QED
    BY <1>1, <1>2, <2>1 DEF Due
<1>10. text' = <<>> /\ text' \in Seq(Known) /\ ToSet(text') = {}
  <2>1. text' = <<>>
    BY <1>1, <1>2 DEF LayoutInv
  <2> QED
    BY <2>1 DEF ToSet
<1>11. Ordered(Deps', Ahead, text')
  BY <1>10 DEF Ordered
<1>12. Ahead' = Ahead
  OBVIOUS
<1>13. Through(Deps, complete)' /\ Acyclic(Deps, complete)' /\ (complete \subseteq Here)'
  BY <1>1, <1>4, <1>7, <1>8
<1> QED
  BY <1>1, <1>2, <1>4, <1>5, <1>6, <1>9, <1>10, <1>11, <1>12, <1>13 DEF LayoutInv

LEMMA EmitClassesKeeps ==
  ASSUME LayoutInv, EmitClasses
  PROVE  LayoutInv'
<1>1. /\ verdict = "running" /\ visiting = <<>> /\ roots = <<>> /\ pass = "types" /\ pass' = "payloads"
      /\ roots' = [i \in DOMAIN Classes |-> Payload(Classes[i])]
      /\ UNCHANGED <<fields, visiting, complete, text, verdict>>
  BY DEF EmitClasses, PassDone
<1>2. pass \in Late /\ pass' \in Late /\ pass' \in Passes /\ pass \in Passes /\ FieldsOK
  BY <1>1 DEF Late, Passes, LayoutInv
<1>3. Here = Known /\ Deps = [t \in Known |-> Components(t)]
  BY <1>2 DEF Here, Deps, DependsOn, Late
<1>4. FieldsOK' /\ ~Circular(Owned)' /\ Here' = Here /\ Deps' = Deps
  BY <1>1, <1>2, <1>3, NextPass DEF LayoutInv
<1>5. roots' \in Seq(Known) /\ ToSet(roots') = Payloads
  <2>1. roots' = [i \in 1..Len(Classes) |-> Payload(Classes[i])] /\ Len(Classes) \in Nat /\ DOMAIN Classes = 1..Len(Classes)
    BY <1>1, StructsAndClasses DEF Lists
  <2>2. \A i \in 1..Len(Classes) : Payload(Classes[i]) \in Payloads
    BY <2>1 DEF Payloads, ToSet
  <2>3. \A p \in Payloads : \E i \in 1..Len(Classes) : p = Payload(Classes[i])
    BY <2>1 DEF Payloads, ToSet
  <2>4. Payloads \subseteq Known
    BY DEF Known
  <2>5. roots' \in Seq(Known)
    BY <2>1, <2>2, <2>4
  <2>6. DOMAIN roots' = 1..Len(Classes) /\ \A i \in 1..Len(Classes) : roots'[i] = Payload(Classes[i])
    BY <2>1
  <2> QED
    BY <2>2, <2>3, <2>5, <2>6 DEF ToSet
<1>6. Due' = ToSet(Collected) \cup Payloads /\ Due = ToSet(Collected)
  <2>1. Collected' = Collected
    BY <1>1 DEF Collected, Declared
  <2> QED
    BY <1>1, <1>2, <2>1 DEF Due
<1>7. Due' \subseteq complete' \cup ToSet(roots') \cup NodesOf(visiting')
  <2>1. NodesOf(<<>>) = {} /\ ToSet(<<>>) = {}
    BY DEF NodesOf, ToSet
  <2> QED
    BY <1>1, <1>5, <1>6, <2>1 DEF LayoutInv
<1>8. Ahead' = Ahead
  OBVIOUS
<1>9. Walked(Here, Deps, visiting, {}, complete)' /\ Through(Deps, complete)' /\ Acyclic(Deps, complete)'
  BY <1>1, <1>4 DEF LayoutInv
<1>10. /\ text' \in Seq(Here') /\ complete' = Ahead \cup ToSet(text') /\ Ordered(Deps', Ahead, text')
       /\ complete' \subseteq Here'
  BY <1>1, <1>2, <1>4 DEF LayoutInv
<1> QED
  BY <1>1, <1>2, <1>3, <1>4, <1>5, <1>7, <1>8, <1>9, <1>10 DEF LayoutInv

LEMMA FinishTextKeeps ==
  ASSUME LayoutInv, FinishText
  PROVE  LayoutInv'
<1>1. /\ visiting = <<>> /\ roots = <<>> /\ pass = "payloads" /\ verdict' = "written"
      /\ UNCHANGED <<fields, pass, roots, visiting, complete, text>>
  BY DEF FinishText, PassDone
<1>2. /\ Here' = Here /\ Deps' = Deps /\ Due' = Due /\ (FieldsOK' <=> FieldsOK)
      /\ (Circular(Owned)' <=> Circular(Owned)) /\ Dependencies' = Dependencies
  BY <1>1, SamePass
<1>3. Ahead' = Ahead
  OBVIOUS
<1> QED
  BY <1>1, <1>2, <1>3 DEF LayoutInv

LEMMA LayoutStutters ==
  ASSUME LayoutInv, UNCHANGED layoutVars
  PROVE  LayoutInv'
<1>1. UNCHANGED <<fields, pass, roots, visiting, complete, text, verdict>>
  BY DEF layoutVars
<1>2. /\ Here' = Here /\ Deps' = Deps /\ Due' = Due /\ (FieldsOK' <=> FieldsOK)
      /\ (Circular(Owned)' <=> Circular(Owned)) /\ (Circular(Dependencies)' <=> Circular(Dependencies))
  BY <1>1, SamePass
<1>3. Ahead' = Ahead
  OBVIOUS
<1> QED
  BY <1>1, <1>2, <1>3 DEF LayoutInv

LEMMA LayoutInvariant == LayoutSpec => []LayoutInv
<1>1. LayoutInit => LayoutInv
  BY LayoutStarts
<1>2. LayoutInv /\ [LayoutNext]_layoutVars => LayoutInv'
  <2> SUFFICES ASSUME LayoutInv, [LayoutNext]_layoutVars PROVE LayoutInv'
    OBVIOUS
  <2>1. CASE VisitRoot
    BY <2>1, VisitRootKeeps
  <2>2. CASE VisitNext
    BY <2>2, VisitNextKeeps
  <2>3. CASE Leave
    BY <2>3, LeaveKeeps
  <2>4. CASE CheckOwnership
    BY <2>4, CheckOwnershipKeeps
  <2>5. CASE EmitTypes
    BY <2>5, EmitTypesKeeps
  <2>6. CASE EmitClasses
    BY <2>6, EmitClassesKeeps
  <2>7. CASE FinishText
    BY <2>7, FinishTextKeeps
  <2>8. CASE UNCHANGED layoutVars
    BY <2>8, LayoutStutters
  <2> QED
    BY <2>1, <2>2, <2>3, <2>4, <2>5, <2>6, <2>7, <2>8 DEF LayoutNext
<1> QED
  BY <1>1, <1>2, PTL DEF LayoutSpec

\* A program is refused exactly when its structs contain or own themselves, and
\* then emit_type_definition never comes back to a type it is in
\* (validate_struct_layouts, validate_managed_struct_cycles, emit_type_definition).
THEOREM CircularRefused == LayoutSpec => []RefusedIfCircular
<1>1. LayoutInv => RefusedIfCircular
  <2> SUFFICES ASSUME LayoutInv PROVE RefusedIfCircular
    OBVIOUS
  <2>1. /\ FieldsOK /\ pass \in Passes /\ verdict \in {"running", "refused", "written"}
        /\ roots \in Seq(Here) /\ Walked(Here, Deps, visiting, {}, complete) /\ complete \subseteq Here
        /\ pass \notin Late => text = <<>>
    BY DEF LayoutInv
  <2>2. Here \subseteq Types \cup Payloads /\ \A t \in Here : ToSet(Deps[t]) \subseteq Types
    BY <2>1, DepsTypes
  <2>3. ToSet(roots) \subseteq Types \cup Payloads
    BY <2>1, <2>2 DEF ToSet
  <2>4. ASSUME NEW i \in DOMAIN visiting PROVE ToSet(visiting[i].todo) \subseteq Types
    <3>1. visiting \in Seq([node : Here, todo : Seq(Here)]) /\ DOMAIN visiting = 1..Len(visiting)
      BY <2>1 DEF Walked
    <3>2. visiting[i] \in [node : Here, todo : Seq(Here)]
      BY <3>1, ElementOfSeq
    <3>3. visiting[i].node \in Here
      BY <3>2
    <3>4. ToSet(visiting[i].todo) \subseteq ToSet(Deps[visiting[i].node])
      BY <2>1, <3>1 DEF Walked
    <3> QED
      BY <2>2, <3>3, <3>4
  <2>5. pass \in {"layout", "ownership"} => complete \subseteq ToSet(Structs) /\ text = <<>>
    BY <2>1 DEF Here, Late
  <2>6. LayoutTypeOK
    BY <2>1, <2>3, <2>4, <2>5 DEF LayoutTypeOK, FieldsOK, Lists, Passes, Payloads
  <2>7. verdict = "refused" => Circular(IF pass = "layout" THEN ByValue ELSE Owned)
    BY DEF LayoutInv, Dependencies
  <2>8. pass \in {"types", "payloads"} => ~Circular(Owned)
    BY DEF LayoutInv, Late
  <2> QED
    BY <2>1, <2>6, <2>7, <2>8 DEF RefusedIfCircular
<1> QED
  BY <1>1, LayoutInvariant, PTL

\* What is written ahead of a definition covers what the definition needs complete.
LEMMA NeededIsComponent ==
  ASSUME FieldsOK, NEW t \in Types \cup Payloads, t \notin Ahead, NEW u \in NeededComplete(t)
  PROVE  u \in Ahead \cup ToSet(Components(t))
<1>1. CASE t \in Payloads
  <2>1. PICK c \in ToSet(Classes) : t = Payload(c)
    BY <1>1 DEF Payloads
  <2>2. t.kind = "payload" /\ t.args[1] = c
    BY <2>1 DEF Payload
  <2>3. NeededComplete(t) = ToSet(fields[c])
    BY <2>2 DEF NeededComplete
  <2> QED
    BY <2>1, <2>3, PayloadsApart
<1>2. CASE t \in Types
  <2>1. t.kind \in OwnedBy \cup {"fn", "struct", "prim", "class"}
    BY <1>2, TypesAssumption DEF OwnedBy, Kinds
  <2>2. CASE t.kind \in OwnedBy
    <3>1. NeededComplete(t) = Args(t)
      BY <2>2 DEF NeededComplete, OwnedBy
    <3> QED
      BY <1>2, <2>2, <3>1, ComponentsElements
  <2>3. CASE t.kind = "struct"
    <3>1. NeededComplete(t) = ToSet(fields[t])
      BY <2>3 DEF NeededComplete
    <3> QED
      BY <1>2, <2>3, <3>1, ComponentsElements
  <2>4. CASE t.kind = "fn"
    <3>1. NeededComplete(t) = {x \in Args(t) : x.kind \notin {"struct", "class"}}
      BY <2>4 DEF NeededComplete
    <3>2. u \in Args(t) /\ u \in Types /\ u.kind \in {"prim", "fn"}
      BY <1>2, <2>4, <3>1, AbiAssumption, TypesClosed
    <3>3. u.kind = "fn" => u \in ToSet(Components(t))
      BY <1>2, <2>4, <3>2, ComponentsElements DEF FunctionArgs
    <3>4. u.kind = "prim" => u \in Ahead
      BY <3>2 DEF Ahead, Leaf
    <3> QED
      BY <3>2, <3>3, <3>4
  <2>5. CASE t.kind \in {"prim", "class"}
    <3>1. t \in Ahead
      BY <1>2, <2>5, StructsAndClasses DEF Ahead, Leaf
    <3> QED
      BY <3>1
  <2> QED
    BY <2>1, <2>2, <2>3, <2>4, <2>5
<1> QED
  BY <1>1, <1>2

\* In the C text every definition comes after all it needs complete, no type is
\* defined twice and none is missing (emit_type_definition, collect_types).
THEOREM WrittenInOrder == LayoutSpec => []DefinedBeforeUse
<1>1. ASSUME LayoutInv, pass \in Late
      PROVE  /\ FieldsOK /\ Here = Known /\ text \in Seq(Known) /\ complete = Ahead \cup ToSet(text)
             /\ Ordered(Deps, Ahead, text) /\ DOMAIN text = 1..Len(text)
             /\ \A t \in Known : Deps[t] = Components(t)
  <2>1. FieldsOK /\ Here = Known
    BY <1>1 DEF LayoutInv, Here
  <2>2. \A t \in Known : Deps[t] = Components(t)
    BY <1>1, <2>1 DEF Deps, DependsOn, Late
  <2>3. text \in Seq(Known)
    BY <1>1, <2>1 DEF LayoutInv
  <2> QED
    BY <1>1, <2>1, <2>2, <2>3 DEF LayoutInv
<1>2. ASSUME LayoutInv PROVE EachOnce
  <2>1. CASE pass \notin Late
    <3>1. text = <<>> /\ verdict # "written"
      BY <1>2, <2>1 DEF LayoutInv, Late
    <3> QED
      BY <3>1 DEF EachOnce
  <2>2. CASE pass \in Late
    <3>1. \A i, j \in DOMAIN text : text[i] = text[j] => i = j
      BY <1>1, <1>2, <2>2 DEF Ordered
    <3>2. ASSUME verdict = "written"
          PROVE  ToSet(text) = (ToSet(Collected) \ Ahead) \cup Payloads
      <4>1. Due = ToSet(Collected) \cup Payloads
        BY <1>2, <3>2 DEF LayoutInv, Due, Late
      <4>2. NodesOf(<<>>) = {} /\ ToSet(<<>>) = {}
        BY DEF NodesOf, ToSet
      <4>3. Due \subseteq Ahead \cup ToSet(text)
        BY <1>1, <1>2, <2>2, <3>2, <4>2 DEF LayoutInv
      <4>4. ToSet(text) \subseteq ToSet(Collected) \cup Ahead \cup Payloads
        BY <1>1, <1>2, <2>2 DEF Known, Ahead, ToSet
      <4>5. ToSet(text) \cap Ahead = {}
        BY <1>1, <1>2, <2>2 DEF Ordered, ToSet
      <4>6. Payloads \cap Ahead = {}
        <5>1. Ahead \subseteq Types
          BY StructsAndClasses DEF Ahead, Leaf
        <5> QED
          BY <5>1, PayloadsApart
      <4> QED
        BY <4>1, <4>3, <4>4, <4>5, <4>6
    <3> QED
      BY <3>1, <3>2 DEF EachOnce, Ahead, Payloads
  <2> QED
    BY <2>1, <2>2
<1>3. ASSUME LayoutInv, NEW i \in DOMAIN text, NEW u \in NeededComplete(text[i])
      PROVE  u \in Leaf \cup ToSet(Classes) \/ \E j \in 1..(i - 1) : text[j] = u
  <2>1. pass \in Late
    <3>1. DOMAIN <<>> = {}
      OBVIOUS
    <3> QED
      BY <1>3, <3>1 DEF LayoutInv
  <2>2. /\ FieldsOK /\ text \in Seq(Known) /\ Ordered(Deps, Ahead, text) /\ i \in 1..Len(text)
        /\ \A t \in Known : Deps[t] = Components(t)
    BY <1>1, <1>3, <2>1
  <2>3. text[i] \in Known /\ text[i] \in Types \cup Payloads
    BY <2>2, ElementOfSeq, KnownTypes
  <2>4. text[i] \notin Ahead /\ ToSet(Components(text[i])) \subseteq Ahead \cup {text[j] : j \in 1..(i - 1)}
    BY <2>2, <2>3 DEF Ordered
  <2>5. u \in Ahead \cup ToSet(Components(text[i]))
    BY <1>3, <2>2, <2>3, <2>4, NeededIsComponent
  <2> QED
    BY <2>4, <2>5 DEF Ahead
<1>4. LayoutInv => DefinedBeforeUse
  BY <1>2, <1>3 DEF DefinedBeforeUse
<1> QED
  BY <1>4, LayoutInvariant, PTL

-----------------------------------------------------------------------------
(* Joined texts *)

\* What is left of joined sequences after the first k of them.
Remains(V, ss, k, r) ==
    IF k = Len(ss) THEN r = <<>>
    ELSE \E c \in Seq(V) : r = ss[k + 1] \o c /\ (k + 1 = Len(ss) => c = <<>>)

\* Joining, hidden from the provers' own theory of sequences.
Cat(s, t) == s \o t

LEMMA CatAssociative ==
  ASSUME NEW V
  PROVE  \A r, s, t \in Seq(V) : Cat(Cat(r, s), t) = Cat(r, Cat(s, t))
BY ConcatAssociative DEF Cat

LEMMA CatSeq ==
  ASSUME NEW V
  PROVE  \A s, t \in Seq(V) : Cat(s, t) \in Seq(V)
BY ConcatProperties DEF Cat

LEMMA CatCancels ==
  ASSUME NEW V
  PROVE  \A r, s, t \in Seq(V) : Cat(r, s) = Cat(r, t) => s = t
BY ConcatSimplifications, Zenon DEF Cat

LEMMA SameFront ==
  ASSUME NEW V, NEW x \in Seq(V), NEW r \in Seq(V), NEW a \in Seq(V), NEW q \in Seq(V), NEW b \in Seq(V),
         Cat(Cat(x, r), a) = Cat(Cat(x, q), b)
  PROVE  Cat(r, a) = Cat(q, b)
<1>1. Cat(x, Cat(r, a)) = Cat(x, Cat(q, b))
  BY CatAssociative
<1>2. Cat(r, a) \in Seq(V) /\ Cat(q, b) \in Seq(V)
  BY CatSeq
<1> QED
  BY <1>1, <1>2, CatCancels

LEMMA Joined ==
  ASSUME NEW V
  PROVE  \A s, t \in Seq(V) : s \o t \in Seq(V)
BY ConcatProperties

LEMMA FlattenPrefixes ==
  ASSUME NEW V, NEW ss \in Seq(Seq(V))
  PROVE  \E p \in [0..Len(ss) -> Seq(V)] :
             /\ p[0] = <<>> /\ p[Len(ss)] = FlattenSeq(ss)
             /\ \A k \in 1..Len(ss) : p[k] = p[k - 1] \o ss[k]
<1>1. CASE Len(ss) = 0
  <2>1. ss = <<>> /\ FlattenSeq(ss) = <<>>
    BY <1>1 DEF FlattenSeq
  <2> DEFINE p == [k \in 0..0 |-> <<>>]
  <2>2. p \in [0..Len(ss) -> Seq(V)] /\ p[0] = <<>> /\ p[Len(ss)] = FlattenSeq(ss)
    BY <1>1, <2>1
  <2>3. 1..Len(ss) = {}
    BY <1>1
  <2> HIDE DEF p
  <2> QED
    BY <2>2, <2>3
<1>2. CASE Len(ss) # 0
  <2>1. PICK f \in [1..Len(ss) -> Seq(V)] : Flattens(f, ss, Len(ss)) /\ FlattenSeq(ss) = f[Len(ss)]
    BY <1>2, FlattenIs
  <2> DEFINE p == [k \in 0..Len(ss) |-> IF k = 0 THEN <<>> ELSE f[k]]
  <2>2. p \in [0..Len(ss) -> Seq(V)] /\ p[0] = <<>> /\ p[Len(ss)] = FlattenSeq(ss)
    BY <1>2, <2>1
  <2>3. ASSUME NEW k \in 1..Len(ss) PROVE p[k] = p[k - 1] \o ss[k]
    <3>1. f[k] = IF k = 1 THEN ss[k] ELSE f[k - 1] \o ss[k]
      BY <2>1 DEF Flattens
    <3>2. p[k] = f[k] /\ ss[k] \in Seq(V)
      OBVIOUS
    <3>3. CASE k = 1
      <4>1. p[k - 1] = <<>>
        BY <3>3
      <4>2. <<>> \o ss[k] = ss[k]
        BY <3>2
      <4> QED
        BY <3>1, <3>2, <3>3, <4>1, <4>2
    <3>4. CASE k # 1
      <4>1. p[k - 1] = f[k - 1]
        BY <3>4
      <4> QED
        BY <3>1, <3>2, <3>4, <4>1
    <3> QED
      BY <3>3, <3>4
  <2> HIDE DEF p
  <2> QED
    BY <2>2, <2>3
<1> QED
  BY <1>1, <1>2

LEMMA PrefixRemains ==
  ASSUME NEW V, NEW ss \in Seq(Seq(V)), NEW p \in [0..Len(ss) -> Seq(V)],
         \A k \in 1..Len(ss) : p[k] = p[k - 1] \o ss[k], NEW k \in 0..Len(ss)
  PROVE  \E r \in Seq(V) : p[Len(ss)] = p[k] \o r /\ Remains(V, ss, k, r)
<1> DEFINE n == Len(ss)
           Good(m) == \E r \in Seq(V) : p[n] = p[n - m] \o r /\ Remains(V, ss, n - m, r)
           Bad == {m \in 0..n : ~Good(m)}
<1>1. n \in Nat
  OBVIOUS
<1>2. Bad = {}
  <2>1. SUFFICES ASSUME Bad # {} PROVE FALSE
    OBVIOUS
  <2>2. Bad \subseteq Nat
    BY <1>1
  <2>3. PICK m \in Bad : \A l \in Bad : m <= l
    BY <2>1, <2>2, LeastNumber, Zenon
  <2>4. CASE m = 0
    <3>1. n - m = n /\ p[n] \in Seq(V) /\ <<>> \in Seq(V)
      BY <1>1, <2>4
    <3>2. p[n] = p[n] \o <<>>
      BY <3>1
    <3>3. Remains(V, ss, n, <<>>)
      BY DEF Remains
    <3> QED
      BY <2>3, <3>1, <3>2, <3>3
  <2>5. CASE m # 0
    <3>1. m - 1 \in 0..n /\ m \in 1..n /\ n - m + 1 \in 1..n /\ n - (m - 1) = n - m + 1 /\ ~(m <= m - 1)
      BY <1>1, <2>3, <2>5
    <3>2. Good(m - 1)
      BY <2>3, <3>1
    <3>3. PICK r \in Seq(V) : p[n] = p[n - m + 1] \o r /\ Remains(V, ss, n - m + 1, r)
      BY <3>1, <3>2
    <3> DEFINE i == n - m + 1
    <3>4. i \in 1..n /\ i - 1 = n - m /\ i - 1 \in 0..n /\ n - m # n
      BY <1>1, <3>1
    <3> HIDE DEF i
    <3>5. p[i - 1] \in Seq(V) /\ ss[i] \in Seq(V) /\ ss[i] \o r \in Seq(V) /\ p[i] = p[i - 1] \o ss[i]
      <4>1. p[i - 1] \in Seq(V) /\ p[i] = p[i - 1] \o ss[i]
        BY <3>4
      <4>2. ss[i] \in Seq(V)
        BY <3>4, ElementOfSeq
      <4> QED
        BY <3>3, <4>1, <4>2, Joined, Zenon
    <3>6. p[n] = p[i - 1] \o (ss[i] \o r)
      <4>1. p[n] = (p[i - 1] \o ss[i]) \o r
        BY <3>3, <3>5 DEF i
      <4> QED
        <5>1. p[n] = Cat(Cat(p[i - 1], ss[i]), r)
          BY <4>1 DEF Cat
        <5>2. p[n] = Cat(p[i - 1], Cat(ss[i], r))
          BY <3>3, <3>5, <5>1, CatAssociative
        <5> QED
          BY <5>2 DEF Cat
    <3>7. Remains(V, ss, i - 1, ss[i] \o r)
      <4>1. i = n => r = <<>>
        BY <3>3 DEF Remains, i
      <4>2. i - 1 + 1 = i /\ i - 1 # Len(ss)
        BY <3>4
      <4> QED
        BY <3>3, <4>1, <4>2 DEF Remains
    <3> QED
      BY <2>3, <3>4, <3>5, <3>6, <3>7
  <2> QED
    BY <2>4, <2>5
<1>3. n - k \in 0..n /\ n - (n - k) = k
  BY <1>1
<1>4. Good(n - k)
  BY <1>2, <1>3
<1> QED
  BY <1>3, <1>4

\* Texts that begin with joined sequences: the first k of these being the same,
\* what is left of them begins texts that are the same.
Parted(V, ss, tt, a, b, k) ==
    \E r \in Seq(V), q \in Seq(V) :
        Cat(r, a) = Cat(q, b) /\ Remains(V, ss, k, r) /\ Remains(V, tt, k, q)

LEMMA FlattenApart ==
  ASSUME NEW V, NEW ss \in Seq(Seq(V)), NEW tt \in Seq(Seq(V)), NEW a \in Seq(V), NEW b \in Seq(V),
         Cat(FlattenSeq(ss), a) = Cat(FlattenSeq(tt), b),
         NEW k \in 0..Len(ss), k \in 0..Len(tt), \A i \in 1..k : ss[i] = tt[i]
  PROVE  Parted(V, ss, tt, a, b, k)
<1>1. PICK p \in [0..Len(ss) -> Seq(V)] :
             /\ p[0] = <<>> /\ p[Len(ss)] = FlattenSeq(ss)
             /\ \A i \in 1..Len(ss) : p[i] = p[i - 1] \o ss[i]
  BY FlattenPrefixes
<1>2. PICK o \in [0..Len(tt) -> Seq(V)] :
             /\ o[0] = <<>> /\ o[Len(tt)] = FlattenSeq(tt)
             /\ \A i \in 1..Len(tt) : o[i] = o[i - 1] \o tt[i]
  BY FlattenPrefixes
<1>3. p[k] = o[k]
  <2> DEFINE Differ == {i \in 0..k : p[i] # o[i]}
  <2>1. k \in Nat /\ Differ \subseteq Nat
    OBVIOUS
  <2>2. SUFFICES ASSUME Differ # {} PROVE FALSE
    <3>1. k \in 0..k
      BY <2>1
    <3> QED
      BY <3>1, Zenon
  <2>3. Differ \subseteq Nat
    BY <2>1
  <2>4. PICK i \in Differ : \A l \in Differ : i <= l
    BY <2>2, <2>3, LeastNumber, Zenon
  <2>5. i \in 1..k
    BY <1>1, <1>2, <2>4
  <2>6. i - 1 \in 0..k /\ i - 1 \notin Differ
    BY <2>4, <2>5
  <2>7. i \in 1..Len(ss) /\ i \in 1..Len(tt) /\ ss[i] = tt[i]
    <3>1. i \in Nat /\ 1 <= i /\ i <= k /\ k \in Nat /\ k <= Len(ss) /\ k <= Len(tt)
      BY <2>5
    <3> QED
      BY <2>5, <3>1
  <2> QED
    BY <1>1, <1>2, <2>4, <2>6, <2>7
<1>4. PICK r \in Seq(V) : p[Len(ss)] = p[k] \o r /\ Remains(V, ss, k, r)
  BY <1>1, PrefixRemains
<1>5. PICK q \in Seq(V) : o[Len(tt)] = o[k] \o q /\ Remains(V, tt, k, q)
  BY <1>2, PrefixRemains
<1>6. p[k] \in Seq(V)
  BY <1>1
<1>7. (p[k] \o r) \o a = (p[k] \o q) \o b
  BY <1>1, <1>2, <1>3, <1>4, <1>5 DEF Cat
<1>8. Cat(r, a) = Cat(q, b)
  <2>1. Cat(Cat(p[k], r), a) = Cat(Cat(p[k], q), b)
    BY <1>7 DEF Cat
  <2> QED
    BY <1>4, <1>5, <1>6, <2>1, SameFront
<1> QED
  BY <1>4, <1>5, <1>8 DEF Parted

-----------------------------------------------------------------------------
(* The names of types *)

\* What has a name, and the words a name is joined from.
Named == Types \cup {To}
AllWords == {Word(x) : x \in Named}
AllParts == [x \in Named |-> Parts(x)]

LEMMA ToIs == To.kind = "word" /\ To.args = <<>> /\ To \notin Types /\ Args(To) = {} /\ Parts(To) = <<>> /\ Word(To) = "to"
<1>1. To.kind = "word" /\ To.args = <<>> /\ To.name = "to"
  BY DEF To
<1>2. Parts(To) = <<>> /\ Word(To) = "to"
  BY <1>1 DEF Parts, Word
<1>3. Args(To) = {}
  BY <1>1 DEF Args, ToSet
<1>4. "word" \notin Kinds
  BY DEF Kinds
<1> QED
  BY <1>1, <1>2, <1>3, <1>4, TypesAssumption

\* The parts of a function are its arguments, with a word before the last.
LEMMA FunctionParts ==
  ASSUME NEW t \in Types, t.kind = "fn"
  PROVE  /\ Parts(t) \in Seq(Named) /\ Len(t.args) \in Nat \ {0} /\ Len(Parts(t)) = Len(t.args) + 1
         /\ \A i \in 1..(Len(t.args) - 1) : Parts(t)[i] = t.args[i]
         /\ Parts(t)[Len(t.args)] = To /\ Parts(t)[Len(t.args) + 1] = t.args[Len(t.args)]
<1> DEFINE s == t.args
           n == Len(t.args)
<1>1. s \in Seq(Types) /\ s # <<>> /\ n \in Nat \ {0}
  <2>1. s \in Seq(Types) /\ s # <<>>
    BY NamesAssumption, TypesClosed DEF Lists
  <2> QED
    BY <2>1
<1>2. Parts(t) = Front(s) \o <<To, s[n]>>
  BY DEF Parts, Last
<1>3. s \in Seq(Named)
  BY <1>1 DEF Named
<1>4. s[n] \in Named
  BY <1>1, <1>3, ElementOfSeq
<1>5. Front(s) = [i \in 1..(n - 1) |-> s[i]]
  BY <1>1 DEF Front
<1>6. Front(s) \in Seq(Named) /\ Len(Front(s)) = n - 1 /\ \A i \in 1..(n - 1) : Front(s)[i] = s[i]
  <2>1. \A i \in 1..(n - 1) : s[i] \in Named
    BY <1>1, <1>3, ElementOfSeq
  <2> QED
    BY <1>1, <1>5, <2>1
<1>7. <<To, s[n]>> \in Seq(Named)
  BY <1>4 DEF Named
<1> HIDE DEF s, n
<1>8. /\ Parts(t) \in Seq(Named) /\ Len(Parts(t)) = n + 1
      /\ \A i \in 1..(n - 1) : Parts(t)[i] = s[i]
      /\ Parts(t)[n] = To /\ Parts(t)[n + 1] = s[n]
  <2> DEFINE f == Front(s)
             e == <<To, s[n]>>
  <2>1. e \in Seq(Named) /\ Len(e) = 2 /\ e[1] = To /\ e[2] = s[n]
    BY <1>7
  <2>2. f \in Seq(Named) /\ Len(f) = n - 1 /\ \A i \in 1..(n - 1) : f[i] = s[i]
    BY <1>6
  <2>3. Parts(t) = f \o e /\ n \in Nat \ {0}
    BY <1>1, <1>2
  <2> HIDE DEF f, e
  <2>4. /\ Len(f \o e) = Len(f) + Len(e) /\ f \o e \in Seq(Named)
        /\ \A i \in 1..(Len(f) + Len(e)) : (f \o e)[i] = IF i <= Len(f) THEN f[i] ELSE e[i - Len(f)]
    BY <2>1, <2>2, ConcatProperties
  <2> DEFINE c == f \o e
  <2>5. /\ c \in Seq(Named) /\ Len(c) = n + 1
        /\ \A i \in 1..(n + 1) : c[i] = IF i <= n - 1 THEN f[i] ELSE e[i - (n - 1)]
    BY <2>1, <2>2, <2>3, <2>4
  <2> HIDE DEF c
  <2>6. \A i \in 1..(n - 1) : i \in 1..(n + 1) /\ i <= n - 1
    BY <2>3
  <2>7. n \in 1..(n + 1) /\ ~(n <= n - 1) /\ n - (n - 1) = 1
    BY <2>3
  <2>8. n + 1 \in 1..(n + 1) /\ ~(n + 1 <= n - 1) /\ n + 1 - (n - 1) = 2
    BY <2>3
  <2>9. c[n] = To /\ c[n + 1] = s[n] /\ \A i \in 1..(n - 1) : c[i] = s[i]
    <3>1. c[n] = To
      BY <2>1, <2>5, <2>7
    <3>2. c[n + 1] = s[n]
      <4>1. PICK m : m = n + 1
        OBVIOUS
      <4>2. m \in 1..(n + 1) /\ ~(m <= n - 1) /\ m - (n - 1) = 2
        BY <2>3, <4>1
      <4>3. c[m] = e[2]
        BY <2>5, <4>2
      <4> QED
        BY <2>1, <4>1, <4>3
    <3>3. \A i \in 1..(n - 1) : c[i] = s[i]
      BY <2>2, <2>5, <2>6
    <3> QED
      BY <3>1, <3>2, <3>3
  <2> QED
    BY <2>3, <2>5, <2>9 DEF c
<1> QED
  BY <1>1, <1>8 DEF s, n

LEMMA OtherParts ==
  ASSUME NEW x \in Named, x.kind # "fn"
  PROVE  Parts(x) = x.args /\ Parts(x) \in Seq(Named)
<1>1. Parts(x) = x.args
  BY DEF Parts
<1>2. CASE x = To
  BY <1>1, <1>2, ToIs
<1>3. CASE x \in Types
  <2>1. x.args \in Seq(Types)
    BY <1>3, TypesClosed DEF Lists
  <2> QED
    BY <1>1, <2>1 DEF Named
<1> QED
  BY <1>1, <1>2, <1>3 DEF Named

LEMMA PartsTyped ==
  ASSUME NEW x \in Named
  PROVE  Parts(x) \in Seq(Named) /\ ToSet(Parts(x)) \subseteq Args(x) \cup {To}
<1>1. CASE x.kind = "fn"
  <2>1. x \in Types
    BY <1>1, ToIs DEF Named
  <2> DEFINE n == Len(x.args)
  <2>2. /\ Parts(x) \in Seq(Named) /\ n \in Nat \ {0} /\ Len(Parts(x)) = n + 1
        /\ \A i \in 1..(n - 1) : Parts(x)[i] = x.args[i]
        /\ Parts(x)[n] = To /\ Parts(x)[n + 1] = x.args[n]
    BY <1>1, <2>1, FunctionParts
  <2>3. x.args \in Seq(Types)
    BY <2>1, TypesClosed DEF Lists
  <2>4. \A i \in 1..n : x.args[i] \in Args(x)
    BY <2>3 DEF Args, ToSet
  <2>5. ASSUME NEW i \in 1..(n + 1) PROVE Parts(x)[i] \in Args(x) \cup {To}
    <3>1. i \in 1..(n - 1) \/ i = n \/ i = n + 1
      BY <2>2
    <3>2. n \in 1..n /\ \A j \in 1..(n - 1) : j \in 1..n
      BY <2>2
    <3> HIDE DEF n
    <3> QED
      BY <2>2, <2>4, <3>1, <3>2
  <2>6. DOMAIN Parts(x) = 1..(n + 1)
    BY <2>2
  <2> QED
    BY <2>2, <2>5, <2>6 DEF ToSet
<1>2. CASE x.kind # "fn"
  BY <1>2, OtherParts DEF Args
<1> QED
  BY <1>1, <1>2

LEMMA PartsEnd == Founded(Named, AllParts)
<1> SUFFICES ASSUME NEW xs \in SUBSET Named, xs # {}
             PROVE  \E x \in xs : ToSet(Parts(x)) \cap xs = {}
  BY DEF Founded, AllParts
<1>1. CASE To \in xs
  <2>1. ToSet(<<>>) = {}
    BY DEF ToSet
  <2> QED
    BY <1>1, <2>1, ToIs
<1>2. CASE To \notin xs
  <2>1. xs \in SUBSET Types
    BY <1>2 DEF Named
  <2>2. PICK x \in xs : Args(x) \cap xs = {}
    BY <2>1, TextAssumption
  <2>3. ToSet(Parts(x)) \subseteq Args(x) \cup {To}
    BY <2>2, PartsTyped
  <2> QED
    BY <1>2, <2>2, <2>3
<1> QED
  BY <1>1, <1>2

LEMMA SlugIs ==
  ASSUME NEW x \in Named
  PROVE  /\ Slug[x] = <<Word(x)>> \o Concat(Slug, Parts(x))
         /\ Slug[x] \in Seq(AllWords) /\ Concat(Slug, Parts(x)) \in Seq(AllWords)
<1> DEFINE base == [y \in Named |-> <<Word(y)>>]
           V == AllWords
<1>1. base \in [Named -> Seq(V)] /\ AllParts \in [Named -> Seq(Named)]
  BY PartsTyped DEF AllWords, AllParts
<1>2. \A f : Recursive(f, Named, base, AllParts) <=> \A y \in Named : f[y] = <<Word(y)>> \o Concat(f, Parts(y))
  BY DEF Recursive, AllParts
<1> HIDE DEF base, V
<1>3. PICK f \in [Named -> Seq(V)] : Recursive(f, Named, base, AllParts)
  BY <1>1, PartsEnd, SolutionExists
<1> DEFINE Solves(g) == g = [t \in Types \cup {To} |-> <<Word(t)>> \o Concat(g, Parts(t))]
<1>4. Solves(f)
  BY <1>2, <1>3 DEF Named
<1>5. Slug = CHOOSE g : Solves(g)
  BY DEF Slug
<1>6. Solves(Slug)
  <2> HIDE DEF Solves
  <2> QED
    BY <1>4, <1>5, Zenon
<1>7. \A y \in Named : Slug[y] = <<Word(y)>> \o Concat(Slug, Parts(y))
  BY <1>6 DEF Named
<1>8. Slug \in [Named -> Seq(V)]
  <2>1. DOMAIN Slug = Named /\ Slug = [y \in Named |-> Slug[y]]
    BY <1>6 DEF Named
  <2>2. Recursive(Slug, Named, base, AllParts)
    BY <1>2, <1>7
  <2> QED
    BY <1>1, <1>3, <2>1, <2>2, PartsEnd, SameSolution
<1>9. Concat(Slug, Parts(x)) \in Seq(V)
  <2>1. Parts(x) \in Seq(Named)
    BY PartsTyped
  <2>2. Valued(V, Slug, Parts(x))
    BY <1>8, <2>1 DEF ToSet, Valued
  <2> QED
    BY <2>1, <2>2, ConcatIs
<1> QED
  BY <1>7, <1>8, <1>9 DEF V

\* A type whose name is clear, and one without a tuple.
Clear(x) == x = To \/ (x \in Types /\ ~Blurred(x))
Plain(x) == x = To \/ (x \in Types /\ ~HasTuple(x))

LEMMA PartsClear ==
  ASSUME NEW x \in Named, NEW y \in ToSet(Parts(x))
  PROVE  y \in Named /\ (Clear(x) => Clear(y)) /\ (Plain(x) => Plain(y))
<1>1. y \in Args(x) \cup {To}
  BY PartsTyped
<1>2. CASE y = To
  BY <1>2 DEF Clear, Plain, Named
<1>3. CASE y \in Args(x)
  <2>1. x \in Types /\ y \in Types
    BY <1>3, ToIs, TypesClosed DEF Named
  <2>2. ToSet(WithArgs[y]) \subseteq ToSet(WithArgs[x])
    BY <1>3, <2>1, WithArgsElements
  <2>3. x # To
    BY <2>1, ToIs
  <2>4. Blurred(y) => Blurred(x)
    BY <2>2 DEF Blurred
  <2>5. HasTuple(y) => HasTuple(x)
    BY <2>2 DEF HasTuple
  <2> QED
    BY <2>1, <2>3, <2>4, <2>5 DEF Clear, Plain, Named
<1> QED
  BY <1>1, <1>2, <1>3

\* Only the last part of a clear type has a tuple.
LEMMA PartsPlain ==
  ASSUME NEW x \in Named, Clear(x), NEW i \in 1..(Len(Parts(x)) - 1)
  PROVE  Plain(Parts(x)[i])
<1>1. CASE x = To
  BY <1>1, ToIs
<1>2. CASE x \in Types
  <2>1. x \in ToSet(WithArgs[x]) /\ x # To /\ x.args \in Seq(Types)
    BY <1>2, ToIs, WithArgsClosed, TypesClosed DEF Lists
  <2>2. \A j \in 1..(Len(x.args) - 1) : ~HasTuple(x.args[j])
    BY <2>1 DEF Clear, Blurred
  <2>3. \A j \in 1..(Len(x.args) - 1) : Plain(x.args[j])
    <3>1. \A j \in 1..(Len(x.args) - 1) : x.args[j] \in Types
      BY <2>1
    <3> QED
      BY <2>2, <3>1 DEF Plain
  <2>4. CASE x.kind # "fn"
    <3>1. Parts(x) = x.args
      BY <2>4, OtherParts
    <3> QED
      BY <2>3, <3>1
  <2>5. CASE x.kind = "fn"
    <3> DEFINE n == Len(x.args)
    <3>1. /\ n \in Nat \ {0} /\ Len(Parts(x)) = n + 1
          /\ \A j \in 1..(n - 1) : Parts(x)[j] = x.args[j]
          /\ Parts(x)[n] = To
      BY <1>2, <2>5, FunctionParts
    <3>2. i \in 1..(n - 1) \/ i = n
      BY <3>1
    <3>3. Plain(To)
      BY DEF Plain
    <3> HIDE DEF n
    <3> QED
      BY <2>3, <3>1, <3>2, <3>3 DEF n
  <2> QED
    BY <2>4, <2>5
<1> QED
  BY <1>1, <1>2 DEF Named

\* The first word of a name tells what kind of type it is of, and which.
LEMMA WordTells ==
  ASSUME NEW x \in Named, NEW u \in Named, Clear(x), Clear(u), Word(x) = Word(u)
  PROVE  /\ x.kind = u.kind
         /\ x.kind \in Called => x.name = u.name
         /\ x.kind \notin {"tuple", "fn"} => Len(x.args) = Len(u.args)
<1> DEFINE Structure == {"list", "box", "optional", "tuple", "fn"}
<1>1. ASSUME NEW t \in Named, Clear(t), t # To
      PROVE  /\ t \in Types /\ t.kind \in Structure \cup Called
             /\ t.kind \in Called => t.name \notin Words /\ Word(t) = t.name
             /\ t.kind \in Declarable => \A v \in Leaf : t.name # v.name
             /\ t.kind \in Structure => Word(t) = t.kind
  <2>1. t \in Types /\ t \in ToSet(WithArgs[t])
    BY <1>1, WithArgsClosed DEF Named
  <2>2. t.kind \in Structure \cup Called
    BY <2>1, TypesAssumption DEF Kinds, Called, Declarable
  <2>3. ~Blurred(t)
    BY <1>1 DEF Clear
  <2>4. t.kind \in Called => t.name \notin Words
    BY <2>1, <2>3 DEF Blurred
  <2>5. t.kind \in Declarable => \A v \in Leaf : t.name # v.name
    BY <2>1, <2>3 DEF Blurred
  <2>6. t.kind \in Called => t.kind \notin Structure
    BY DEF Called, Declarable
  <2>7. Word(t) = IF t.kind \in Structure THEN t.kind ELSE t.name
    BY DEF Word
  <2> QED
    BY <2>1, <2>2, <2>4, <2>5, <2>6, <2>7
<1>2. Structure \subseteq Words /\ "to" \in Words /\ "to" \notin Structure
  BY DEF Words
<1>3. CASE x = To \/ u = To
  <2>1. Word(To) = "to"
    BY ToIs
  <2>2. \A t \in Named : Clear(t) /\ t # To => Word(t) # "to"
    BY <1>1, <1>2
  <2> QED
    BY <1>3, <2>1, <2>2, ToIs DEF Called, Declarable
<1>4. CASE x # To /\ u # To
  <2>1. /\ x \in Types /\ x.kind \in Structure \cup Called
        /\ x.kind \in Called => x.name \notin Words /\ Word(x) = x.name
        /\ x.kind \in Declarable => \A v \in Leaf : x.name # v.name
        /\ x.kind \in Structure => Word(x) = x.kind
    BY <1>1, <1>4
  <2>2. /\ u \in Types /\ u.kind \in Structure \cup Called
        /\ u.kind \in Called => u.name \notin Words /\ Word(u) = u.name
        /\ u.kind \in Declarable => \A v \in Leaf : u.name # v.name
        /\ u.kind \in Structure => Word(u) = u.kind
    BY <1>1, <1>4
  <2>3. CASE x.kind \in Structure
    <3>1. u.kind \notin Called
      BY <1>2, <2>1, <2>2, <2>3
    <3>2. x.kind = u.kind
      BY <2>1, <2>2, <2>3, <3>1
    <3>3. x.kind \notin {"tuple", "fn"} => x.kind \in {"list", "box", "optional"}
      BY <2>3
    <3>4. x.kind \notin {"tuple", "fn"} => Len(x.args) = 1 /\ Len(u.args) = 1
      BY <2>1, <2>2, <3>2, <3>3, NamesAssumption
    <3> QED
      BY <3>1, <3>2, <3>4
  <2>4. CASE x.kind \in Called
    <3>1. u.kind \in Called
      BY <1>2, <2>1, <2>2, <2>4
    <3>2. x.name = u.name
      BY <2>1, <2>2, <2>4, <3>1
    <3>3. CASE x.kind \in Declarable /\ u.kind \in Declarable
      <4>1. x.kind = u.kind /\ Len(x.args) = Len(u.args)
        BY <2>1, <2>2, <3>2, <3>3, NamesAssumption
      <4> QED
        BY <3>2, <4>1
    <3>4. CASE x.kind = "prim" /\ u.kind = "prim"
      <4>1. x.args = <<>> /\ u.args = <<>>
        BY <2>1, <2>2, <3>4, NamesAssumption
      <4> QED
        BY <3>2, <3>4, <4>1
    <3>5. ~(x.kind = "prim" /\ u.kind \in Declarable) /\ ~(x.kind \in Declarable /\ u.kind = "prim")
      BY <2>1, <2>2, <3>2 DEF Leaf
    <3> QED
      BY <2>4, <3>1, <3>3, <3>4, <3>5 DEF Called
  <2> QED
    BY <2>1, <2>3, <2>4
<1> QED
  BY <1>3, <1>4

LEMMA PartsTell ==
  ASSUME NEW x \in Named, NEW u \in Named, Clear(x), Clear(u), Word(x) = Word(u), Parts(x) = Parts(u)
  PROVE  x = u
<1>1. x.kind = u.kind /\ (x.kind \in Called => x.name = u.name)
  BY WordTells
<1>2. CASE x.kind = "word"
  <2>1. "word" \notin Kinds
    BY DEF Kinds
  <2> QED
    BY <1>1, <1>2, <2>1, TypesAssumption DEF Named
<1>3. CASE x.kind # "word"
  <2>1. x \in Types /\ u \in Types
    BY <1>1, <1>3, ToIs DEF Named
  <2>2. CASE x.kind # "fn"
    <3>1. x.args = u.args
      BY <1>1, <2>2, OtherParts
    <3> QED
      BY <1>1, <2>1, <3>1, NamesAssumption
  <2>3. CASE x.kind = "fn"
    <3> DEFINE n == Len(x.args)
    <3>1. /\ n \in Nat \ {0} /\ Len(Parts(x)) = n + 1
          /\ \A j \in 1..(n - 1) : Parts(x)[j] = x.args[j]
          /\ Parts(x)[n + 1] = x.args[n]
      BY <2>1, <2>3, FunctionParts
    <3>2. /\ Len(u.args) \in Nat /\ Len(Parts(u)) = Len(u.args) + 1
          /\ \A j \in 1..(Len(u.args) - 1) : Parts(u)[j] = u.args[j]
          /\ Parts(u)[Len(u.args) + 1] = u.args[Len(u.args)]
      BY <1>1, <2>1, <2>3, FunctionParts
    <3>3. Len(u.args) = n
      BY <3>1, <3>2
    <3>4. \A j \in 1..n : j \in 1..(n - 1) \/ j = n
      BY <3>1
    <3>5. x.args \in Seq(Types) /\ u.args \in Seq(Types)
      BY <2>1, TypesClosed DEF Lists
    <3>6. \A j \in 1..n : x.args[j] = u.args[j]
      <4> HIDE DEF n
      <4> QED
        BY <3>1, <3>2, <3>3, <3>4
    <3>7. x.args = u.args
      BY <3>3, <3>5, <3>6
    <3> QED
      BY <1>1, <2>1, <3>7, NamesAssumption
  <2> QED
    BY <2>2, <2>3
<1> QED
  BY <1>2, <1>3

Texts == Seq(AllWords)

LEMMA TextsJoined == \A r, s \in Texts : Cat(r, s) \in Texts
BY CatSeq DEF Texts

LEMMA TextsGroup == \A r, s, t \in Texts : Cat(Cat(r, s), t) = Cat(r, Cat(s, t))
BY CatAssociative DEF Texts

LEMMA TextsCancel == \A r, s, t \in Texts : Cat(r, s) = Cat(r, t) => s = t
BY CatCancels DEF Texts

\* The names of a type and its parts.
LEMMA Slugs ==
  ASSUME NEW x \in Named
  PROVE  /\ Slug[x] \in Texts /\ Concat(Slug, Parts(x)) \in Texts
         /\ Slug[x] = Cat(<<Word(x)>>, Concat(Slug, Parts(x)))
BY SlugIs DEF Texts, Cat

LEMMA Heads ==
  ASSUME NEW v, NEW w, NEW a \in Texts, NEW b \in Texts, <<v>> \o a = <<w>> \o b
  PROVE  v = w
<1>1. (<<v>> \o a)[1] = v /\ (<<w>> \o b)[1] = w
  OBVIOUS
<1> QED
  BY <1>1

\* Two texts that begin with the names of types: the first words are the same,
\* and what follows them.
LEMMA SameBegin ==
  ASSUME NEW x \in Named, NEW u \in Named, NEW a \in Texts, NEW b \in Texts, Cat(Slug[x], a) = Cat(Slug[u], b)
  PROVE  Word(x) = Word(u) /\ Cat(Concat(Slug, Parts(x)), a) = Cat(Concat(Slug, Parts(u)), b)
<1> DEFINE v == Word(x)
           w == Word(u)
           c == Concat(Slug, Parts(x))
           d == Concat(Slug, Parts(u))
<1>1. /\ c \in Texts /\ Slug[x] = Cat(<<v>>, c) /\ d \in Texts /\ Slug[u] = Cat(<<w>>, d)
      /\ <<v>> \in Texts /\ <<w>> \in Texts
  <2>1. <<v>> \in Texts /\ <<w>> \in Texts
    BY DEF Texts, AllWords
  <2> QED
    BY <2>1, Slugs
<1> HIDE DEF v, w, c, d
<1>2. Cat(<<v>>, Cat(c, a)) = Cat(<<w>>, Cat(d, b))
  <2>1. Cat(Cat(<<v>>, c), a) = Cat(<<v>>, Cat(c, a)) /\ Cat(Cat(<<w>>, d), b) = Cat(<<w>>, Cat(d, b))
    BY <1>1, TextsGroup
  <2> QED
    BY <1>1, <2>1
<1>3. Cat(c, a) \in Texts /\ Cat(d, b) \in Texts
  BY <1>1, TextsJoined
<1>4. v = w
  BY <1>2, <1>3, Heads DEF Cat
<1>5. Cat(c, a) = Cat(d, b)
  BY <1>1, <1>2, <1>3, <1>4, TextsCancel
<1> QED
  BY <1>4, <1>5 DEF v, w, c, d

\* What is left of the names of some things after those of the first k.
Left(s, k, r) ==
    IF k = Len(s) THEN r = <<>>
    ELSE /\ s[k + 1] \in Named
         /\ \E c \in Texts : r = Cat(Slug[s[k + 1]], c) /\ (k + 1 = Len(s) => c = <<>>)

LEMMA NamesRemain ==
  ASSUME NEW s \in Seq(Named), NEW k \in 0..Len(s), NEW r \in Texts,
         Remains(AllWords, [i \in DOMAIN s |-> Slug[s[i]]], k, r)
  PROVE  Left(s, k, r)
<1> DEFINE ss == [i \in DOMAIN s |-> Slug[s[i]]]
<1>1. Len(ss) = Len(s) /\ \A i \in 1..Len(s) : ss[i] = Slug[s[i]]
  OBVIOUS
<1> HIDE DEF ss
<1>2. CASE k = Len(s)
  BY <1>1, <1>2 DEF Remains, Left, ss
<1>3. CASE k # Len(s)
  <2>1. k + 1 \in 1..Len(s)
    BY <1>3
  <2>2. PICK c \in Texts : r = ss[k + 1] \o c /\ (k + 1 = Len(s) => c = <<>>)
    BY <1>1, <1>3 DEF Remains, Texts, ss
  <2>3. s[k + 1] \in Named
    BY <2>1, ElementOfSeq
  <2>4. r = Cat(Slug[s[k + 1]], c)
    BY <1>1, <2>1, <2>2 DEF Cat
  <2> QED
    BY <1>3, <2>2, <2>3, <2>4 DEF Left
<1> QED
  BY <1>2, <1>3

Split(s, t, k, a, b) ==
    \E r \in Texts, q \in Texts : Cat(r, a) = Cat(q, b) /\ Left(s, k, r) /\ Left(t, k, q)

LEMMA NamesApartFrom ==
  ASSUME NEW s \in Seq(Named), NEW t \in Seq(Named), NEW a \in Texts, NEW b \in Texts,
         Cat(Concat(Slug, s), a) = Cat(Concat(Slug, t), b),
         NEW k \in 0..Len(s), k \in 0..Len(t), \A i \in 1..k : s[i] = t[i]
  PROVE  Split(s, t, k, a, b)
<1> DEFINE ss == [i \in DOMAIN s |-> Slug[s[i]]]
           tt == [i \in DOMAIN t |-> Slug[t[i]]]
<1>1. Concat(Slug, s) = FlattenSeq(ss) /\ Concat(Slug, t) = FlattenSeq(tt)
  BY DEF Concat
<1>2. ss \in Seq(Texts) /\ Len(ss) = Len(s) /\ \A i \in 1..Len(s) : ss[i] = Slug[s[i]]
  <2>1. \A i \in 1..Len(s) : Slug[s[i]] \in Texts
    BY ElementOfSeq, Slugs
  <2>2. ss = [i \in 1..Len(s) |-> Slug[s[i]]]
    OBVIOUS
  <2> QED
    BY <2>1, <2>2
<1>3. tt \in Seq(Texts) /\ Len(tt) = Len(t) /\ \A i \in 1..Len(t) : tt[i] = Slug[t[i]]
  <2>1. \A i \in 1..Len(t) : Slug[t[i]] \in Texts
    BY ElementOfSeq, Slugs
  <2>2. tt = [i \in 1..Len(t) |-> Slug[t[i]]]
    OBVIOUS
  <2> QED
    BY <2>1, <2>2
<1> HIDE DEF ss, tt
<1>4. \A i \in 1..k : ss[i] = tt[i]
  <2>1. \A i \in 1..k : i \in 1..Len(s) /\ i \in 1..Len(t)
    OBVIOUS
  <2> QED
    BY <1>2, <1>3, <2>1
<1>5. Cat(FlattenSeq(ss), a) = Cat(FlattenSeq(tt), b)
  BY <1>1
<1>6. k \in 0..Len(ss) /\ k \in 0..Len(tt)
  BY <1>2, <1>3
<1>7. \E r \in Texts, q \in Texts :
             Cat(r, a) = Cat(q, b) /\ Remains(AllWords, ss, k, r) /\ Remains(AllWords, tt, k, q)
  <2>1. ss \in Seq(Seq(AllWords)) /\ tt \in Seq(Seq(AllWords)) /\ a \in Seq(AllWords) /\ b \in Seq(AllWords)
    BY <1>2, <1>3 DEF Texts
  <2>2. Parted(AllWords, ss, tt, a, b, k)
    BY <1>4, <1>5, <1>6, <2>1, FlattenApart
  <2> QED
    BY <2>2 DEF Texts, Parted
<1>8. PICK r \in Texts, q \in Texts :
             Cat(r, a) = Cat(q, b) /\ Remains(AllWords, ss, k, r) /\ Remains(AllWords, tt, k, q)
  BY <1>7
<1>9. Left(s, k, r) /\ Left(t, k, q)
  BY <1>8, NamesRemain DEF ss, tt
<1> QED
  BY <1>8, <1>9 DEF Split

\* The first place where two sequences differ.
Differs(s, t, k) ==
    /\ k \in 0..Len(s) /\ k \in 0..Len(t) /\ \A i \in 1..k : s[i] = t[i]
    /\ ~(k = Len(s) /\ k = Len(t))
    /\ k < Len(s) /\ k < Len(t) => s[k + 1] # t[k + 1]

LEMMA FirstDifference ==
  ASSUME NEW S, NEW s \in Seq(S), NEW t \in Seq(S), s # t
  PROVE  \E k : Differs(s, t, k)
<1> DEFINE Ends(k) == k = Len(s) \/ k = Len(t) \/ (k < Len(s) /\ k < Len(t) /\ s[k + 1] # t[k + 1])
           Stops == {k \in 0..Len(s) : k <= Len(t) /\ Ends(k)}
<1>1. Len(s) \in Nat /\ Len(t) \in Nat
  OBVIOUS
<1>2. Stops # {} /\ Stops \subseteq Nat
  <2>1. CASE Len(s) <= Len(t)
    <3>1. Len(s) \in Stops
      BY <1>1, <2>1
    <3> QED
      BY <1>1, <3>1
  <2>2. CASE ~(Len(s) <= Len(t))
    <3>1. Len(t) \in Stops
      BY <1>1, <2>2
    <3> QED
      BY <1>1, <3>1
  <2> QED
    BY <2>1, <2>2
<1>3. PICK k \in Stops : \A m \in Stops : k <= m
  BY <1>2, LeastNumber, Zenon
<1>4. k \in 0..Len(s) /\ k \in 0..Len(t) /\ k \in Nat
  BY <1>1, <1>3
<1>5. ASSUME NEW i \in 1..k PROVE s[i] = t[i]
  <2>1. i - 1 \in 0..Len(s) /\ i - 1 <= Len(t) /\ ~(k <= i - 1) /\ i - 1 < Len(s) /\ i - 1 < Len(t) /\ i - 1 + 1 = i
    BY <1>1, <1>4
  <2>2. i - 1 \notin Stops
    BY <1>3, <2>1
  <2>3. ~Ends(i - 1)
    BY <2>1, <2>2
  <2> QED
    BY <2>1, <2>3
<1>6. ~(k = Len(s) /\ k = Len(t))
  <2>1. SUFFICES ASSUME k = Len(s), k = Len(t) PROVE FALSE
    OBVIOUS
  <2>2. Len(s) = Len(t) /\ \A i \in 1..Len(s) : s[i] = t[i]
    BY <1>5, <2>1
  <2>3. s = t
    BY <2>2
  <2> QED
    BY <2>3
<1>7. k < Len(s) /\ k < Len(t) => s[k + 1] # t[k + 1]
  BY <1>1, <1>3, <1>4
<1> QED
  BY <1>4, <1>5, <1>6, <1>7 DEF Differs

\* Texts that begin with the names of different types: up to some place their parts
\* are the same, and there at least one has another part.
LEMMA PartsDiffer ==
  ASSUME NEW x \in Named, NEW u \in Named, Clear(x), Clear(u), x # u,
         NEW a \in Texts, NEW b \in Texts, Cat(Slug[x], a) = Cat(Slug[u], b)
  PROVE  \E k : Differs(Parts(x), Parts(u), k) /\ Split(Parts(x), Parts(u), k, a, b)
<1>1. Word(x) = Word(u) /\ Cat(Concat(Slug, Parts(x)), a) = Cat(Concat(Slug, Parts(u)), b)
  BY SameBegin
<1>2. Parts(x) # Parts(u)
  BY <1>1, PartsTell
<1>3. Parts(x) \in Seq(Named) /\ Parts(u) \in Seq(Named)
  BY PartsTyped
<1>4. PICK k : Differs(Parts(x), Parts(u), k)
  BY <1>2, <1>3, FirstDifference
<1>5. Split(Parts(x), Parts(u), k, a, b)
  BY <1>1, <1>3, <1>4, NamesApartFrom DEF Differs
<1> QED
  BY <1>4, <1>5

\* But for tuples, whose names do not tell their end, the parts of types whose
\* names begin alike end alike.
LEMMA SameEnd ==
  ASSUME NEW x \in Named, NEW u \in Named, Clear(x), Clear(u), Word(x) = Word(u), x.kind # "tuple",
         NEW k \in 0..Len(Parts(x)), k \in 0..Len(Parts(u)), \A i \in 1..k : Parts(x)[i] = Parts(u)[i],
         k = Len(Parts(x))
  PROVE  k = Len(Parts(u))
<1>1. x.kind = u.kind /\ (x.kind # "fn" => Len(x.args) = Len(u.args))
  BY WordTells
<1>2. CASE x.kind # "fn"
  BY <1>1, <1>2, OtherParts
<1>3. CASE x.kind = "fn"
  <2>1. x \in Types /\ u \in Types
    BY <1>1, <1>3, ToIs DEF Named
  <2>2. /\ Len(x.args) \in Nat \ {0} /\ Len(Parts(x)) = Len(x.args) + 1
        /\ Parts(x)[Len(x.args)] = To
    BY <1>3, <2>1, FunctionParts
  <2>3. /\ Len(u.args) \in Nat \ {0} /\ Len(Parts(u)) = Len(u.args) + 1
        /\ \A i \in 1..(Len(u.args) - 1) : Parts(u)[i] = u.args[i]
    BY <1>1, <1>3, <2>1, FunctionParts
  <2> DEFINE n == Len(x.args)
             m == Len(u.args)
  <2>4. SUFFICES ASSUME n < m PROVE FALSE
    BY <2>2, <2>3
  <2>5. n \in 1..k /\ n \in 1..(m - 1)
    BY <2>2, <2>3, <2>4
  <2>6. u.args[n] = To
    BY <2>2, <2>3, <2>5
  <2>7. n \in 1..m /\ u.args \in Seq(Types)
    BY <2>1, <2>3, <2>5, TypesClosed DEF Lists
  <2>8. u.args[n] \in Types
    BY <2>7, ElementOfSeq
  <2> QED
    BY <2>6, <2>8, ToIs
<1> QED
  BY <1>2, <1>3

\* A clear type without a tuple can be read off any text that its name begins.
LEMMA PlainDecodes ==
  ASSUME NEW x \in Named, NEW u \in Named, Clear(x), Clear(u), Plain(u),
         NEW a \in Texts, NEW b \in Texts, Cat(Slug[x], a) = Cat(Slug[u], b)
  PROVE  x = u
<1> DEFINE Mistaken(v) == \E y \in Named, c \in Texts, d \in Texts :
                              Clear(y) /\ y # v /\ Cat(Slug[y], c) = Cat(Slug[v], d)
           Bad == {v \in Named : Clear(v) /\ Plain(v) /\ Mistaken(v)}
<1>1. ASSUME Bad # {} PROVE FALSE
  <2>1. Bad \in SUBSET Named
    OBVIOUS
  <2>2. PICK v \in Bad : ToSet(Parts(v)) \cap Bad = {}
    BY <1>1, <2>1, PartsEnd DEF Founded, AllParts
  <2>3. v \in Named /\ Clear(v) /\ Plain(v) /\ Mistaken(v)
    BY <2>2
  <2>4. PICK y \in Named, c \in Texts, d \in Texts :
             Clear(y) /\ y # v /\ Cat(Slug[y], c) = Cat(Slug[v], d)
    BY <2>3
  <2>5. PICK k : Differs(Parts(y), Parts(v), k) /\ Split(Parts(y), Parts(v), k, c, d)
    BY <2>3, <2>4, PartsDiffer
  <2>6. Word(y) = Word(v)
    BY <2>3, <2>4, SameBegin
  <2>7. y.kind = v.kind /\ v.kind # "tuple"
    <3>1. y.kind = v.kind
      BY <2>3, <2>4, <2>6, WordTells
    <3>2. CASE v = To
      BY <3>1, <3>2, ToIs
    <3>3. CASE v \in Types
      <4>1. v \in ToSet(WithArgs[v]) /\ v # To
        BY <3>3, WithArgsClosed, ToIs
      <4> QED
        BY <2>3, <3>1, <4>1 DEF Plain, HasTuple
    <3> QED
      BY <2>3, <3>2, <3>3 DEF Named
  <2>8. k # Len(Parts(y)) /\ k # Len(Parts(v))
    <3>1. k = Len(Parts(y)) => k = Len(Parts(v))
      BY <2>3, <2>4, <2>5, <2>6, <2>7, SameEnd DEF Differs
    <3>2. k = Len(Parts(v)) => k = Len(Parts(y))
      BY <2>3, <2>4, <2>5, <2>6, <2>7, SameEnd DEF Differs
    <3> QED
      BY <2>5, <3>1, <3>2 DEF Differs
  <2>9. Parts(y) \in Seq(Named) /\ Parts(v) \in Seq(Named)
    BY <2>3, PartsTyped
  <2> DEFINE p == Parts(y)[k + 1]
             w == Parts(v)[k + 1]
  <2>10. p # w /\ p \in ToSet(Parts(y)) /\ w \in ToSet(Parts(v))
    BY <2>5, <2>8, <2>9 DEF ToSet, Differs
  <2>11. PICK e \in Texts, f \in Texts : Cat(Cat(Slug[p], e), c) = Cat(Cat(Slug[w], f), d)
    <3>1. PICK r \in Texts, q \in Texts :
               Cat(r, c) = Cat(q, d) /\ Left(Parts(y), k, r) /\ Left(Parts(v), k, q)
      BY <2>5 DEF Split
    <3>2. PICK e \in Texts : r = Cat(Slug[p], e)
      BY <2>8, <3>1 DEF Left
    <3>3. PICK f \in Texts : q = Cat(Slug[w], f)
      BY <2>8, <3>1 DEF Left
    <3> QED
      BY <3>1, <3>2, <3>3
  <2>12. p \in Named /\ w \in Named /\ Clear(p) /\ Clear(w) /\ Plain(w)
    BY <2>3, <2>4, <2>10, PartsClear
  <2> HIDE DEF p, w, Mistaken
  <2>13. Slug[p] \in Texts /\ Slug[w] \in Texts
    BY <2>12, Slugs
  <2>14. /\ Cat(e, c) \in Texts /\ Cat(f, d) \in Texts
         /\ Cat(Slug[p], Cat(e, c)) = Cat(Slug[w], Cat(f, d))
    <3>1. Cat(e, c) \in Texts /\ Cat(f, d) \in Texts
      BY <2>4, <2>11, TextsJoined
    <3>2. Cat(Cat(Slug[p], e), c) = Cat(Slug[p], Cat(e, c)) /\ Cat(Cat(Slug[w], f), d) = Cat(Slug[w], Cat(f, d))
      BY <2>4, <2>11, <2>13, TextsGroup
    <3> QED
      BY <2>11, <3>1, <3>2
  <2>15. Mistaken(w)
    BY <2>10, <2>12, <2>14 DEF Mistaken
  <2> QED
    BY <2>2, <2>10, <2>12, <2>15
<1>2. SUFFICES ASSUME x # u PROVE FALSE
  OBVIOUS
<1>3. Mistaken(u)
  BY <1>2
<1> QED
  BY <1>1, <1>3

\* So can any clear type, when the text is its name.
LEMMA NameTells ==
  ASSUME NEW x \in Named, NEW u \in Named, Clear(x), Clear(u), Slug[x] = Slug[u]
  PROVE  x = u
<1> DEFINE Bad == {v \in Named : Clear(v) /\ \E y \in Named : Clear(y) /\ y # v /\ Slug[y] = Slug[v]}
<1>1. <<>> \in Texts /\ \A a \in Texts : Cat(a, <<>>) = a
  BY DEF Texts, Cat
<1>2. ASSUME Bad # {} PROVE FALSE
  <2>1. Bad \in SUBSET Named
    OBVIOUS
  <2>2. PICK v \in Bad : ToSet(Parts(v)) \cap Bad = {}
    BY <1>2, <2>1, PartsEnd DEF Founded, AllParts
  <2>3. PICK y \in Named : Clear(y) /\ y # v /\ Slug[y] = Slug[v]
    BY <2>2
  <2>4. v \in Named /\ Clear(v)
    BY <2>2
  <2>5. PICK k : Differs(Parts(y), Parts(v), k) /\ Split(Parts(y), Parts(v), k, <<>>, <<>>)
    BY <1>1, <2>3, <2>4, PartsDiffer
  <2>6. Parts(y) \in Seq(Named) /\ Parts(v) \in Seq(Named)
    BY <2>3, <2>4, PartsTyped
  <2>7. PICK r \in Texts : Left(Parts(y), k, r) /\ Left(Parts(v), k, r)
    BY <1>1, <2>5 DEF Split
  <2>8. k # Len(Parts(y)) /\ k # Len(Parts(v))
    <3>1. \A s : Left(s, k, r) /\ k # Len(s) => r # <<>>
      <4>1. ASSUME NEW w \in Named, NEW c \in Texts PROVE Cat(Slug[w], c) # <<>>
        <5>1. Slug[w] \in Texts /\ Slug[w] # <<>>
          <6>1. <<Word(w)>> \o Concat(Slug, Parts(w)) # <<>>
            BY SlugIs
          <6> QED
            BY <6>1, SlugIs, Slugs
        <5> QED
          BY <5>1 DEF Texts, Cat
      <4> QED
        BY <4>1 DEF Left
    <3>2. \A s : Left(s, k, r) /\ k = Len(s) => r = <<>>
      BY DEF Left
    <3> QED
      BY <2>5, <2>7, <3>1, <3>2 DEF Differs
  <2> DEFINE p == Parts(y)[k + 1]
             w == Parts(v)[k + 1]
  <2>9. /\ p # w /\ p \in ToSet(Parts(y)) /\ w \in ToSet(Parts(v))
        /\ k + 1 = Len(Parts(y)) \/ k + 1 \in 1..(Len(Parts(y)) - 1)
        /\ k + 1 = Len(Parts(v)) \/ k + 1 \in 1..(Len(Parts(v)) - 1)
    BY <2>5, <2>6, <2>8 DEF ToSet, Differs
  <2>10. p \in Named /\ w \in Named /\ Clear(p) /\ Clear(w)
    BY <2>3, <2>4, <2>9, PartsClear
  <2>11. PICK c \in Texts : r = Cat(Slug[p], c) /\ (k + 1 = Len(Parts(y)) => c = <<>>)
    BY <2>7, <2>8 DEF Left
  <2>12. PICK d \in Texts : r = Cat(Slug[w], d) /\ (k + 1 = Len(Parts(v)) => d = <<>>)
    BY <2>7, <2>8 DEF Left
  <2>13. ~Plain(p) /\ ~Plain(w)
    <3>1. Cat(Slug[p], c) = Cat(Slug[w], d)
      BY <2>11, <2>12
    <3> HIDE DEF p, w
    <3> QED
      BY <2>9, <2>10, <3>1, PlainDecodes
  <2>14. k + 1 = Len(Parts(y)) /\ k + 1 = Len(Parts(v))
    BY <2>3, <2>4, <2>9, <2>13, PartsPlain
  <2>15. Slug[p] = Slug[w]
    <3>1. Slug[p] \in Texts /\ Slug[w] \in Texts
      BY <2>10, Slugs
    <3> QED
      BY <1>1, <2>11, <2>12, <2>14, <3>1
  <2> HIDE DEF p, w
  <2>16. w \in Bad
    BY <2>9, <2>10, <2>15
  <2> QED
    BY <2>2, <2>9, <2>16
<1>3. SUFFICES ASSUME x # u PROVE FALSE
  OBVIOUS
<1>4. u \in Bad
  BY <1>3
<1> QED
  BY <1>2, <1>4

\* Of the types of a program no two have one name in C, but for the known
\* deviations (type_slug).
THEOREM NamesApart == LayoutSpec => []NamesDistinct
<1>1. NamesDistinct
  <2> SUFFICES ASSUME NEW t \in Types, NEW u \in Types, t # u, ~Blurred(t), ~Blurred(u)
               PROVE  Slug[t] # Slug[u]
    BY DEF NamesDistinct
  <2>1. t \in Named /\ u \in Named /\ Clear(t) /\ Clear(u)
    BY DEF Named, Clear
  <2> QED
    BY <2>1, NameTells
<1> QED
  BY <1>1, PTL
=============================================================================
