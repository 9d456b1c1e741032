------------------------------ MODULE Resource ------------------------------
(***************************************************************************)
(* What ZyenLang promises about a native resource that ARC handles own     *)
(* (src/docs/c_interop.md, "Handle ownership"): while any handle is left   *)
(* the resource is there, unless it was consumed; when the last handle     *)
(* goes, its destructor runs once; a consumed resource is never destroyed. *)
(***************************************************************************)
CONSTANTS
  Slots,     \* variables that may hold a handle
  Controls,  \* resources, named by their control blocks
  None       \* an empty slot

VARIABLES
  holds,   \* holds[s]: the resource the handle in slot s refers to
  status   \* what has become of each resource

vars == <<holds, status>>

Init ==
  /\ holds = [s \in Slots |-> None]
  /\ status = [c \in Controls |-> "none"]

Acquire(s, c) ==
  /\ holds[s] = None
  /\ status[c] = "none"
  /\ holds' = [holds EXCEPT ![s] = c]
  /\ status' = [status EXCEPT ![c] = "owned"]

\* A handle is given away only by someone who has one.
Share(s, r) ==
  /\ holds[s] # None
  /\ holds[r] = None
  /\ holds' = [holds EXCEPT ![r] = holds[s]]
  /\ UNCHANGED status

Forget(s) ==
  /\ holds[s] # None
  /\ holds' = [holds EXCEPT ![s] = None]
  /\ UNCHANGED status

Consume(c) ==
  /\ status[c] = "owned"
  /\ \E s \in Slots : holds[s] = c
  /\ status' = [status EXCEPT ![c] = "consumed"]
  /\ UNCHANGED holds

Destroy(c) ==
  /\ status[c] = "owned"
  /\ \A s \in Slots : holds[s] # c
  /\ status' = [status EXCEPT ![c] = "destroyed"]
  /\ UNCHANGED holds

Next ==
  \/ \E s \in Slots, c \in Controls : Acquire(s, c)
  \/ \E s, r \in Slots : Share(s, r)
  \/ \E s \in Slots : Forget(s)
  \/ \E c \in Controls : Consume(c) \/ Destroy(c)

Spec == Init /\ [][Next]_vars
=============================================================================
