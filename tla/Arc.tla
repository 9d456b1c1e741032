-------------------------------- MODULE Arc --------------------------------
(***************************************************************************)
(* Reference counts and native handles of the runtime                      *)
(* (src/zyenlang/compiler/runtime/zy2_runtime.h), one atomic operation of  *)
(* the C code per step, with the adapters bindgen.py generates for native  *)
(* functions: an adapter evaluates its handle arguments, calls the         *)
(* original C function, and returns a plain value, a new handle or a view. *)
(* Handles whose owner is NULL (null, borrowed_static) have no count and   *)
(* are left out; every resource here has a destructor.                     *)
(***************************************************************************)
EXTENDS Integers, FiniteSets

CONSTANTS
  Threads,   \* threads of the program and of native libraries
  Slots,     \* variables of type ZL_Handle
  Controls,  \* control blocks; each is allocated at most once
  None       \* an empty slot

ASSUME FiniteAssumption == IsFiniteSet(Slots) /\ IsFiniteSet(Controls)

VARIABLES
  alloc,        \* alloc[c]: whether the memory of control block c is allocated
  refs,         \* owner->refs
  invalidated,  \* owner->invalidated
  payload,      \* owner->payload is not NULL
  live,         \* zy2_arc_live_controls
  dropped,      \* how often the destructor of c's payload has run
  taken,        \* how often zl_handle_take has returned c's payload
  handle,       \* what each slot holds
  pc,           \* where each thread is
  on,           \* the control block a thread works on
  owed,         \* the payload zy2_arc_release got is not NULL
  call,         \* the handle arguments of a thread's native call
  ready,        \* those of them the adapter has evaluated
  exited        \* the process has called exit

controls == <<alloc, refs, invalidated, payload, live, dropped, taken>>
threads == <<pc, on, owed, call, ready>>
vars == <<controls, handle, threads, exited>>

Handles == [to : Controls, view : BOOLEAN, of : Threads]
ASSUME NoneAssumption == None \notin Handles /\ None \notin Controls

Uses == {"borrow", "consume"}
Arguments == [slot : Slots, use : Uses]
Places == {"idle", "exchange", "drop", "free", "call", "taking", "retaining"}

TypeOK ==
  /\ alloc \in [Controls -> {"unused", "live", "freed"}]
  /\ refs \in [Controls -> Nat]
  /\ invalidated \in [Controls -> BOOLEAN]
  /\ payload \in [Controls -> BOOLEAN]
  /\ live \in Int
  /\ dropped \in [Controls -> Nat]
  /\ taken \in [Controls -> Nat]
  /\ handle \in [Slots -> Handles \cup {None}]
  /\ pc \in [Threads -> Places]
  /\ on \in [Threads -> Controls \cup {None}]
  /\ \A t \in Threads : pc[t] \notin {"idle", "call"} => on[t] # None
  /\ owed \in [Threads -> BOOLEAN]
  /\ call \in [Threads -> SUBSET Arguments]
  /\ ready \in [Threads -> SUBSET Arguments]
  /\ exited \in BOOLEAN

Empty(s) == handle[s] = None
Refers(s, c) == ~Empty(s) /\ handle[s].to = c
HandlesOf(c) == {s \in Slots : Refers(s, c)}
Mine(t) == {s \in Slots : ~Empty(s) /\ handle[s].of = t}
Idle(t) == pc[t] = "idle"

-----------------------------------------------------------------------------
Init ==
  /\ alloc = [c \in Controls |-> "unused"]
  /\ refs = [c \in Controls |-> 0]
  /\ invalidated = [c \in Controls |-> FALSE]
  /\ payload = [c \in Controls |-> FALSE]
  /\ live = 0
  /\ dropped = [c \in Controls |-> 0]
  /\ taken = [c \in Controls |-> 0]
  /\ handle = [s \in Slots |-> None]
  /\ pc = [t \in Threads |-> "idle"]
  /\ on = [t \in Threads |-> None]
  /\ owed = [t \in Threads |-> FALSE]
  /\ call = [t \in Threads |-> {}]
  /\ ready = [t \in Threads |-> {}]
  /\ exited = FALSE

\* zy2_arc_panic
Panic ==
  /\ exited' = TRUE
  /\ UNCHANGED <<controls, handle, threads>>

\* zl_handle_adopt, zy2_arc_new: nothing else can reach the block yet.
Adopt(t, s, c) ==
  /\ Idle(t)
  /\ Empty(s)
  /\ alloc[c] = "unused"
  /\ alloc' = [alloc EXCEPT ![c] = "live"]
  /\ refs' = [refs EXCEPT ![c] = 1]
  /\ payload' = [payload EXCEPT ![c] = TRUE]
  /\ live' = live + 1
  /\ handle' = [handle EXCEPT ![s] = [to |-> c, view |-> FALSE, of |-> t]]
  /\ UNCHANGED <<invalidated, dropped, taken, threads, exited>>

\* Faulty variant: the copy is not counted.
CopyUncounted(t, s, r, u) ==
  /\ Idle(t)
  /\ s \in Mine(t)
  /\ Empty(r)
  /\ handle' = [handle EXCEPT ![r] = [handle[s] EXCEPT !.of = u]]
  /\ UNCHANGED <<controls, threads, exited>>

\* zl_handle_retain: t copies its handle s to r, which u will own.
Copy(t, s, r, u) ==
  /\ Idle(t)
  /\ s \in Mine(t)
  /\ Empty(r)
  /\ refs' = [refs EXCEPT ![handle[s].to] = @ + 1]
  /\ handle' = [handle EXCEPT ![r] = [handle[s] EXCEPT !.of = u]]
  /\ UNCHANGED <<alloc, invalidated, payload, live, dropped, taken, threads, exited>>

\* Faulty variant: the new count is compared with 1, not the old one.
ReleaseComparesNew(t, s) ==
  /\ Idle(t)
  /\ s \in Mine(t)
  /\ LET c == handle[s].to
     IN  /\ refs' = [refs EXCEPT ![c] = @ - 1]
         /\ pc' = [pc EXCEPT ![t] = IF refs[c] - 1 = 1 THEN "exchange" ELSE "idle"]
         /\ on' = [on EXCEPT ![t] = c]
  /\ handle' = [handle EXCEPT ![s] = None]
  /\ UNCHANGED <<alloc, invalidated, payload, live, dropped, taken, owed, call, ready, exited>>

\* zy2_arc_release, the fetch_sub: the last reference goes on to the payload.
Release(t, s) ==
  /\ Idle(t)
  /\ s \in Mine(t)
  /\ LET c == handle[s].to
     IN  /\ refs' = [refs EXCEPT ![c] = @ - 1]
         /\ pc' = [pc EXCEPT ![t] = IF refs[c] = 1 THEN "exchange" ELSE "idle"]
         /\ on' = [on EXCEPT ![t] = c]
  /\ handle' = [handle EXCEPT ![s] = None]
  /\ UNCHANGED <<alloc, invalidated, payload, live, dropped, taken, owed, call, ready, exited>>

\* Faulty variant: a release that finds no payload returns at once.
ExchangeReturnsEarly(t) ==
  /\ pc[t] = "exchange"
  /\ owed' = [owed EXCEPT ![t] = payload[on[t]]]
  /\ payload' = [payload EXCEPT ![on[t]] = FALSE]
  /\ pc' = [pc EXCEPT ![t] = IF payload[on[t]] THEN "drop" ELSE "idle"]
  /\ UNCHANGED <<alloc, refs, invalidated, live, dropped, taken, handle, on, call, ready, exited>>

\* zy2_arc_release, the exchange of the payload
Exchange(t) ==
  /\ pc[t] = "exchange"
  /\ owed' = [owed EXCEPT ![t] = payload[on[t]]]
  /\ payload' = [payload EXCEPT ![on[t]] = FALSE]
  /\ pc' = [pc EXCEPT ![t] = "drop"]
  /\ UNCHANGED <<alloc, refs, invalidated, live, dropped, taken, handle, on, call, ready, exited>>

\* zy2_arc_release, the destructor
Drop(t) ==
  /\ pc[t] = "drop"
  /\ dropped' = [dropped EXCEPT ![on[t]] = IF owed[t] THEN @ + 1 ELSE @]
  /\ pc' = [pc EXCEPT ![t] = "free"]
  /\ UNCHANGED <<alloc, refs, invalidated, payload, live, taken, handle, on, owed, call, ready, exited>>

\* Faulty variant: the block is freed but still counted.
FreeUncounted(t) ==
  /\ pc[t] = "free"
  /\ alloc' = [alloc EXCEPT ![on[t]] = "freed"]
  /\ pc' = [pc EXCEPT ![t] = "idle"]
  /\ UNCHANGED <<refs, invalidated, payload, live, dropped, taken, handle, on, owed, call, ready, exited>>

\* zy2_arc_release, the count of live blocks and free
Free(t) ==
  /\ pc[t] = "free"
  /\ alloc' = [alloc EXCEPT ![on[t]] = "freed"]
  /\ live' = live - 1
  /\ pc' = [pc EXCEPT ![t] = "idle"]
  /\ UNCHANGED <<refs, invalidated, payload, dropped, taken, handle, on, owed, call, ready, exited>>

-----------------------------------------------------------------------------
(* Calls of native functions *)

Target(a) == handle[a.slot].to

\* The program calls a native function with one or two handles.
BeginCall(t, A) ==
  /\ Idle(t)
  /\ \A a \in A : a.slot \in Mine(t)
  /\ pc' = [pc EXCEPT ![t] = "call"]
  /\ call' = [call EXCEPT ![t] = A]
  /\ ready' = [ready EXCEPT ![t] = {}]
  /\ UNCHANGED <<controls, handle, on, owed, exited>>

\* zl_handle_data of a borrowed argument.  C does not say in which order the
\* adapter evaluates its arguments.
Data(t, a) ==
  /\ pc[t] = "call"
  /\ a \in call[t] \ ready[t]
  /\ a.use = "borrow"
  /\ IF invalidated[Target(a)]
     THEN Panic
     ELSE /\ ready' = [ready EXCEPT ![t] = @ \cup {a}]
          /\ UNCHANGED <<controls, handle, pc, on, owed, call, exited>>

\* zl_handle_take, the exchange of invalidated.  The load in zl_handle_data
\* just before it panics in the same cases.
Invalidate(t, a) ==
  /\ pc[t] = "call"
  /\ a \in call[t] \ ready[t]
  /\ a.use = "consume"
  /\ IF invalidated[Target(a)]
     THEN Panic
     ELSE /\ invalidated' = [invalidated EXCEPT ![Target(a)] = TRUE]
          /\ ready' = [ready EXCEPT ![t] = @ \cup {a}]
          /\ pc' = [pc EXCEPT ![t] = "taking"]
          /\ on' = [on EXCEPT ![t] = Target(a)]
          /\ UNCHANGED <<alloc, refs, payload, live, dropped, taken, handle, owed, call, exited>>

\* Faulty variant: the payload is read, not exchanged.
TakeKeepsPayload(t) ==
  /\ pc[t] = "taking"
  /\ IF ~payload[on[t]]
     THEN Panic
     ELSE /\ taken' = [taken EXCEPT ![on[t]] = @ + 1]
          /\ pc' = [pc EXCEPT ![t] = "call"]
          /\ UNCHANGED <<alloc, refs, invalidated, payload, live, dropped, handle, on, owed, call, ready, exited>>

\* zl_handle_take, the exchange of the payload
Take(t) ==
  /\ pc[t] = "taking"
  /\ IF ~payload[on[t]]
     THEN Panic
     ELSE /\ payload' = [payload EXCEPT ![on[t]] = FALSE]
          /\ taken' = [taken EXCEPT ![on[t]] = @ + 1]
          /\ pc' = [pc EXCEPT ![t] = "call"]
          /\ UNCHANGED <<alloc, refs, invalidated, live, dropped, handle, on, owed, call, ready, exited>>

\* The original C function runs with every pointer of the call.
Runs(t) == pc[t] = "call" /\ ready[t] = call[t]

\* It returns a value that is not a handle.
Return(t) ==
  /\ Runs(t)
  /\ pc' = [pc EXCEPT ![t] = "idle"]
  /\ call' = [call EXCEPT ![t] = {}]
  /\ ready' = [ready EXCEPT ![t] = {}]
  /\ UNCHANGED <<controls, handle, on, owed, exited>>

\* It returns a part of a borrowed argument: zl_handle_borrow_from tests the
\* parent ...
ReturnView(t, a) ==
  /\ Runs(t)
  /\ a \in call[t]
  /\ IF invalidated[Target(a)]
     THEN Panic
     ELSE /\ pc' = [pc EXCEPT ![t] = "retaining"]
          /\ on' = [on EXCEPT ![t] = Target(a)]
          /\ UNCHANGED <<controls, handle, owed, call, ready, exited>>

\* ... and retains its control block for the view.
RetainParent(t, s) ==
  /\ pc[t] = "retaining"
  /\ Empty(s)
  /\ refs' = [refs EXCEPT ![on[t]] = @ + 1]
  /\ handle' = [handle EXCEPT ![s] = [to |-> on[t], view |-> TRUE, of |-> t]]
  /\ pc' = [pc EXCEPT ![t] = "idle"]
  /\ call' = [call EXCEPT ![t] = {}]
  /\ ready' = [ready EXCEPT ![t] = {}]
  /\ UNCHANGED <<alloc, invalidated, payload, live, dropped, taken, on, owed, exited>>

Finish(t) == Exchange(t) \/ Drop(t) \/ Free(t)

\* At most two handle arguments
Calls == {A \in SUBSET Arguments : Cardinality(A) \in 1..2}

Step(t) ==
  \/ \E s \in Slots, c \in Controls : Adopt(t, s, c)
  \/ \E s, r \in Slots, u \in Threads : Copy(t, s, r, u)
  \/ \E s \in Slots : Release(t, s)
  \/ Finish(t)
  \/ \E A \in Calls : BeginCall(t, A)
  \/ \E a \in Arguments : Data(t, a) \/ Invalidate(t, a) \/ ReturnView(t, a)
  \/ Take(t)
  \/ Return(t)
  \/ \E s \in Slots : RetainParent(t, s)

Next == ~exited /\ \E t \in Threads : Step(t)

Spec == Init /\ [][Next]_vars

-----------------------------------------------------------------------------
(* Properties *)

\* The count of a control block is the number of handles that refer to it
\* (retain and release pair up, also when threads interleave).
CountsHandles == \A c \in Controls : alloc[c] = "live" => refs[c] = Cardinality(HandlesOf(c))

\* No thread can touch a control block that has been freed: not through a
\* handle, not in the middle of a release, a take or a borrow_from.
HandlesLive == \A s \in Slots : ~Empty(s) => alloc[handle[s].to] = "live"
WorkLive == \A t \in Threads : pc[t] \notin {"idle", "call"} => alloc[on[t]] = "live"
NoTouchAfterFree == HandlesLive /\ WorkLive

\* A payload ends once: destroyed or handed to the consumer, never both and
\* never twice; and it has ended when its control block is freed.
EndsOnce ==
  \A c \in Controls :
    /\ dropped[c] + taken[c] <= 1
    /\ alloc[c] = "freed" => dropped[c] + taken[c] = 1

\* A destructor never runs while a native function has the payload.
NoDropDuringCall ==
  \A t \in Threads : \A a \in call[t] : dropped[Target(a)] = 0

\* When every handle is gone and no release is under way, nothing is left:
\* zy2_arc_assert_clean passes.
Clean ==
  (\A s \in Slots : Empty(s)) /\ (\A t \in Threads : Idle(t))
    => live = 0 /\ \A c \in Controls : alloc[c] # "live"

\* The control block of a resource whose last handle is gone is freed, unless
\* the process exits: the release that took the last reference finishes.
Reclaimed ==
  \A c \in Controls :
    (alloc[c] = "live" /\ HandlesOf(c) = {}) ~> (alloc[c] = "freed" \/ exited)

\* A thread that has begun to release goes on.
FairSpec == Spec /\ \A t \in Threads : WF_vars(~exited /\ Finish(t))

-----------------------------------------------------------------------------
(* What handles promise *)

Status(c) ==
  CASE alloc[c] = "unused" -> "none"
    [] dropped[c] > 0 -> "destroyed"
    [] taken[c] > 0 -> "consumed"
    [] OTHER -> "owned"

AbsHolds == [s \in Slots |-> IF Empty(s) THEN None ELSE handle[s].to]
AbsStatus == [c \in Controls |-> Status(c)]

Abstract == INSTANCE Resource WITH holds <- AbsHolds, status <- AbsStatus

\* The runtime implements the resources of module Resource.
AbstractSpec == Abstract!Spec
=============================================================================
