------------------------------ MODULE Artifacts ------------------------------
(***************************************************************************)
(* The outputs of `zy build` and their records in the artifact state file  *)
(* (src/zyenlang/compiler/artifacts.py): builds remove what the last build *)
(* of their target wrote, write files one by one and record them at the    *)
(* end; cleans remove what is recorded.  Any command may fail or be killed *)
(* between two steps.                                                      *)
(***************************************************************************)
EXTENDS Sequences, SequencesExt

CONSTANTS
  Procs,    \* processes that run `zy`
  Keys,     \* profiles and targets: the keys of the state file
  Target,   \* Target[k]: the target of a key, without the profile
  Paths,    \* paths of output files
  Plans,    \* Plans[k]: the sequences of files that a build of k may write, one
            \* for each output directory and output name it is given
  Bundled,  \* files copied along with native sources that are neither sources
            \* nor `.h` headers
  None,     \* no record, no file
  Shapes    \* which of the situations below occur

(***************************************************************************)
(* "concurrent"  two commands run at the same time                         *)
(* "shared"      two keys write the same file: targets with one `out-dir`  *)
(*               and, whatever they are, the two profiles of such a target *)
(* "bundle"      native sources include other files than headers           *)
(***************************************************************************)
AllShapes == {"concurrent", "shared", "bundle"}

ASSUME ShapesAssumption == Shapes \subseteq AllShapes
ASSUME NoneAssumption == None \notin Keys /\ \A fs \in SUBSET Paths : fs # None
ASSUME PlansAssumption == \A k \in Keys : Plans[k] \subseteq Seq(Paths)
ASSUME BundledAssumption ==
  Bundled \subseteq Paths /\ ("bundle" \notin Shapes => Bundled = {})
ASSUME SharedAssumption ==
  "shared" \notin Shapes =>
    \A k, l \in Keys : \A s \in Plans[k], t \in Plans[l] :
      k # l => \A i \in DOMAIN s, j \in DOMAIN t : s[i] # t[j]

\* _record_key, a key that `clean` is given a target of
Of(t) == {k \in Keys : Target[k] = t}

Records == [Keys -> {None} \cup SUBSET Paths]

VARIABLES
  disk,       \* disk[f]: the key whose build wrote file f, None if it is not there
  state,      \* the artifact state file; a missing one records nothing
  pc,         \* where each process is
  keys,       \* the keys its command builds or cleans
  held,       \* the state file as it will write it back
  doomed,     \* recorded files it has still to remove
  plan,       \* files it has still to write
  made,       \* files it has written
  abandoned,  \* files of builds that did not end
  torn        \* keys with a record that a command which did not end was removing

command == <<pc, keys, held, doomed, plan, made>>
history == <<abandoned, torn>>
vars == <<disk, state, command, history>>

TypeOK ==
  /\ disk \in [Paths -> Keys \cup {None}]
  /\ state \in Records
  /\ pc \in [Procs -> {"idle", "remove", "write"}]
  /\ keys \in [Procs -> SUBSET Keys]
  /\ held \in [Procs -> Records]
  /\ doomed \in [Procs -> SUBSET Paths]
  /\ plan \in [Procs -> Seq(Paths)]
  /\ made \in [Procs -> SUBSET Paths]
  /\ abandoned \subseteq Paths
  /\ torn \subseteq Keys

NoRecords == [k \in Keys |-> None]

Init ==
  /\ disk = [f \in Paths |-> None]
  /\ state = NoRecords
  /\ pc = [p \in Procs |-> "idle"]
  /\ keys = [p \in Procs |-> {}]
  /\ held = [p \in Procs |-> NoRecords]
  /\ doomed = [p \in Procs |-> {}]
  /\ plan = [p \in Procs |-> <<>>]
  /\ made = [p \in Procs |-> {}]
  /\ abandoned = {}
  /\ torn = {}

\* The files that the state file has for the keys ks.
Recorded(ks) == UNION {state[k] : k \in {l \in ks : state[l] # None}}

MayBegin == "concurrent" \in Shapes \/ \A q \in Procs : pc[q] = "idle"

\* The state file is loaded, and the records of ks are taken out of what was
\* read; s is what will be built.
Begin(p, ks, s) ==
  /\ pc[p] = "idle"
  /\ MayBegin
  /\ pc' = [pc EXCEPT ![p] = "remove"]
  /\ keys' = [keys EXCEPT ![p] = ks]
  /\ held' = [held EXCEPT ![p] = [k \in Keys |-> IF k \in ks THEN None ELSE state[k]]]
  /\ doomed' = [doomed EXCEPT ![p] = Recorded(ks)]
  /\ plan' = [plan EXCEPT ![p] = s]
  /\ UNCHANGED <<disk, state, made, history>>

\* Faulty variant: the key is compared without its profile.
BeginBuildAllProfiles(p, k) == \E s \in Plans[k] : Begin(p, Of(Target[k]), s)

\* ArtifactBuilder.build, as far as _prepare_record's reading of the state
BeginBuild(p, k) == \E s \in Plans[k] : Begin(p, {k}, s)

\* ArtifactBuilder.clean: of one target in both profiles, or of everything
BeginClean(p) ==
  \/ Begin(p, Keys, <<>>)
  \/ \E t \in {Target[k] : k \in Keys} : Begin(p, Of(t), <<>>)

\* Faulty variant: the files of a record are forgotten and stay.
ForgetFile(p, f) ==
  /\ pc[p] = "remove"
  /\ f \in doomed[p]
  /\ doomed' = [doomed EXCEPT ![p] = @ \ {f}]
  /\ UNCHANGED <<disk, state, pc, keys, held, plan, made, history>>

\* _remove_recorded_files: a file that is gone already is passed over.
RemoveFile(p, f) ==
  /\ pc[p] = "remove"
  /\ f \in doomed[p]
  /\ disk' = [disk EXCEPT ![f] = None]
  /\ doomed' = [doomed EXCEPT ![p] = @ \ {f}]
  /\ abandoned' = abandoned \ {f}
  /\ UNCHANGED <<state, pc, keys, held, plan, made, torn>>

\* The command of p is over.
End(p) ==
  /\ pc' = [pc EXCEPT ![p] = "idle"]
  /\ keys' = [keys EXCEPT ![p] = {}]
  /\ held' = [held EXCEPT ![p] = NoRecords]
  /\ doomed' = [doomed EXCEPT ![p] = {}]
  /\ plan' = [plan EXCEPT ![p] = <<>>]
  /\ made' = [made EXCEPT ![p] = {}]

\* The state file without the removed records is written: a clean is done
\* with, and a build (_prepare_record) goes on to compile.
WriteState(p) ==
  /\ pc[p] = "remove"
  /\ doomed[p] = {}
  /\ state' = held[p]
  /\ torn' = torn \ keys[p]
  /\ IF plan[p] = <<>>
     THEN End(p)
     ELSE pc' = [pc EXCEPT ![p] = "write"] /\ UNCHANGED <<keys, held, doomed, plan, made>>
  /\ UNCHANGED <<disk, abandoned>>

\* The next output file is written, or overwritten.
WriteFile(p) ==
  /\ pc[p] = "write"
  /\ plan[p] # <<>>
  /\ \E k \in keys[p] : disk' = [disk EXCEPT ![Head(plan[p])] = k]
  /\ plan' = [plan EXCEPT ![p] = Tail(@)]
  /\ made' = [made EXCEPT ![p] = @ \cup {Head(plan[p])}]
  /\ abandoned' = abandoned \ {Head(plan[p])}
  /\ UNCHANGED <<state, pc, keys, held, doomed, torn>>

\* Faulty variant: the state that is written back is read again too late, so
\* that the records of the other keys are not in it.
SaveRecordAlone(p) ==
  /\ pc[p] = "write"
  /\ plan[p] = <<>>
  /\ state' = [k \in Keys |-> IF k \in keys[p] THEN made[p] ELSE None]
  /\ End(p)
  /\ UNCHANGED <<disk, history>>

\* _save_record, with the state that was loaded when the build began
SaveRecord(p) ==
  /\ pc[p] = "write"
  /\ plan[p] = <<>>
  /\ state' = [k \in Keys |-> IF k \in keys[p] THEN made[p] \ Bundled ELSE held[p][k]]
  /\ End(p)
  /\ UNCHANGED <<disk, history>>

\* The command fails (the program does not compile, an export has no C type, a
\* recorded path has become a directory) or is killed.
Stop(p) ==
  /\ pc[p] # "idle"
  /\ abandoned' = abandoned \cup made[p]
  /\ torn' = IF pc[p] = "remove" THEN torn \cup keys[p] ELSE torn
  /\ End(p)
  /\ UNCHANGED <<disk, state>>

Next == \E p \in Procs :
  \/ \E k \in Keys : BeginBuild(p, k)
  \/ BeginClean(p)
  \/ \E f \in Paths : RemoveFile(p, f)
  \/ WriteState(p)
  \/ WriteFile(p)
  \/ SaveRecord(p)
  \/ Stop(p)

Spec == Init /\ [][Next]_vars

-----------------------------------------------------------------------------
(* Properties *)

\* Clean can get at every output: a file in an output directory is recorded, is
\* being written, or was left by a build that did not end ("Each successful
\* build records exact absolute artifact file paths",
\* src/docs/package_manager.md).
NoOrphans ==
  \A f \in Paths : disk[f] # None =>
    \/ f \in Recorded(Keys)
    \/ f \in abandoned
    \/ \E p \in Procs : f \in made[p]

\* A record names files its own target wrote, all of which are there unless a
\* command is removing them or was stopped while it did.
RecordsWhole ==
  /\ TypeOK
  /\ \A k \in Keys : state[k] # None =>
       \A f \in state[k] :
         \/ disk[f] = k
         \/ /\ disk[f] = None
            /\ k \in torn \/ \E p \in Procs : pc[p] = "remove" /\ k \in keys[p]

\* A command removes or overwrites no other target's files or records.
Isolation ==
  [][\A k \in Keys :
       (\A p \in Procs : k \notin keys[p]) =>
         /\ state'[k] = state[k]
         /\ \A f \in Paths : disk[f] = k => disk'[f] = k]_vars
=============================================================================
