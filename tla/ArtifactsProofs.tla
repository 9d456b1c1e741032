-------------------------- MODULE ArtifactsProofs --------------------------
(***************************************************************************)
(* Proofs about the build artifacts, for any number of targets, files and  *)
(* plans and any failure between two steps, when commands run one after    *)
(* another: every output can be cleaned, and where targets do not share    *)
(* files a record is exact and a command keeps to its own target's.        *)
(***************************************************************************)
EXTENDS Artifacts, SequenceTheorems, TLAPS

\* No two commands are under way.
OneCommand == \A p, q \in Procs : p # q => pc[p] = "idle" \/ pc[q] = "idle"

\* The files that builds of k may write, and what writes no others.
Outputs(k) == {f \in Paths : \E s \in Plans[k] : \E i \in DOMAIN s : s[i] = f}
Within(s, k) == \A i \in DOMAIN s : s[i] \in Outputs(k)

\* What a command has at each point: nothing between commands; the state file
\* without its own records from the beginning to the end; what it found
\* recorded, of which all that is no longer to be removed is gone; the one key
\* that it builds, and the files of it that it has written.
Resting(p) == keys[p] = {} /\ doomed[p] = {} /\ plan[p] = <<>> /\ made[p] = {}
Kept(p) == \A k \in Keys : held[p][k] = IF k \in keys[p] THEN None ELSE state[k]
Removing(p) ==
  /\ made[p] = {}
  /\ doomed[p] \subseteq Recorded(keys[p])
  /\ \A f \in Recorded(keys[p]) \ doomed[p] : disk[f] = None
  /\ plan[p] # <<>> => \E k \in Keys : keys[p] = {k} /\ Within(plan[p], k)
Writing(p) ==
  /\ doomed[p] = {}
  /\ \E k \in Keys :
       /\ keys[p] = {k} /\ state[k] = None
       /\ Within(plan[p], k) /\ made[p] \subseteq Outputs(k)
       /\ \A f \in made[p] : disk[f] = k
Stage(p) ==
  /\ pc[p] = "idle" => Resting(p)
  /\ pc[p] # "idle" => Kept(p)
  /\ pc[p] = "remove" => Removing(p)
  /\ pc[p] = "write" => Writing(p)
Stages == \A p \in Procs : Stage(p)

\* What is recorded for a key, and what is there of it, is an output of it.
Owned ==
  /\ \A k \in Keys : state[k] # None => state[k] \subseteq Outputs(k)
  /\ \A f \in Paths : disk[f] # None => f \in Outputs(disk[f])

IInv == TypeOK /\ OneCommand /\ Stages /\ Owned

\* In these shapes commands run one after another.
Serial == "concurrent" \notin Shapes

-----------------------------------------------------------------------------
(* Lemmas *)

\* A file is recorded for ks when a record of one of them has it.
LEMMA RecordedIs ==
  ASSUME NEW ks, NEW f
  PROVE  f \in Recorded(ks) <=> \E k \in ks : state[k] # None /\ f \in state[k]
BY DEF Recorded

\* The files recorded are paths.
LEMMA RecordedPaths ==
  ASSUME TypeOK, NEW ks \in SUBSET Keys
  PROVE  Recorded(ks) \subseteq Paths
<1> SUFFICES ASSUME NEW f \in Recorded(ks) PROVE f \in Paths
  OBVIOUS
<1>1. PICK k \in ks : state[k] # None /\ f \in state[k]
  BY RecordedIs
<1>2. state[k] \in SUBSET Paths
  BY <1>1 DEF TypeOK, Records
<1> QED
  BY <1>1, <1>2

\* What is left of a plan is of the same key.
LEMMA HeadWithin ==
  ASSUME NEW s \in Seq(Paths), s # <<>>, NEW k, Within(s, k)
  PROVE  /\ Head(s) \in Outputs(k) /\ Head(s) \in Paths
         /\ Tail(s) \in Seq(Paths) /\ Within(Tail(s), k)
<1>1. 1 \in DOMAIN s /\ Head(s) = s[1]
  OBVIOUS
<1>2. Tail(s) \in Seq(Paths) /\ \A i \in DOMAIN Tail(s) : i + 1 \in DOMAIN s /\ Tail(s)[i] = s[i + 1]
  OBVIOUS
<1> QED
  BY <1>1, <1>2 DEF Within, Outputs

\* A plan of a key writes its outputs.
LEMMA PlanWithin ==
  ASSUME NEW k \in Keys, NEW s \in Plans[k]
  PROVE  s \in Seq(Paths) /\ Within(s, k)
<1>1. s \in Seq(Paths)
  BY PlansAssumption
<1>2. \A i \in DOMAIN s : s[i] \in Paths
  BY <1>1
<1> QED
  BY <1>1, <1>2 DEF Within, Outputs

\* The other processes do nothing.
OthersSame(p) ==
  \A q \in Procs \ {p} :
    /\ pc'[q] = pc[q] /\ keys'[q] = keys[q] /\ held'[q] = held[q]
    /\ doomed'[q] = doomed[q] /\ plan'[q] = plan[q] /\ made'[q] = made[q]

\* A step of a command keeps the invariant if it leaves the command as its next
\* point has it.
LEMMA Advance ==
  ASSUME IInv, TypeOK', NEW p \in Procs, pc[p] # "idle" \/ \A q \in Procs : pc[q] = "idle",
         OthersSame(p), Stage(p)', Owned'
  PROVE  IInv'
<1>1. \A q \in Procs \ {p} : pc[q] = "idle" /\ pc'[q] = "idle"
  BY DEF IInv, OneCommand, OthersSame
<1>2. OneCommand'
  BY <1>1 DEF OneCommand
<1>3. ASSUME NEW q \in Procs \ {p} PROVE Stage(q)'
  <2>1. Resting(q)
    BY <1>1 DEF IInv, Stages, Stage
  <2>2. Resting(q)'
    BY <2>1 DEF Resting, OthersSame
  <2> QED
    BY <1>1, <2>2 DEF Stage
<1>4. Stages'
  BY <1>3 DEF Stages
<1> QED
  BY <1>2, <1>4 DEF IInv

\* What the end of a command leaves.
LEMMA EndTyped ==
  ASSUME TypeOK, NEW p \in Procs, End(p)
  PROVE  /\ pc' \in [Procs -> {"idle", "remove", "write"}] /\ keys' \in [Procs -> SUBSET Keys]
         /\ held' \in [Procs -> Records] /\ doomed' \in [Procs -> SUBSET Paths]
         /\ plan' \in [Procs -> Seq(Paths)] /\ made' \in [Procs -> SUBSET Paths]
         /\ OthersSame(p) /\ Stage(p)'
         /\ pc'[p] = "idle" /\ keys'[p] = {} /\ made'[p] = {}
<1>1. NoRecords \in Records
  BY DEF NoRecords, Records
<1>2. <<>> \in Seq(Paths)
  OBVIOUS
<1>3. /\ pc' \in [Procs -> {"idle", "remove", "write"}] /\ keys' \in [Procs -> SUBSET Keys]
      /\ doomed' \in [Procs -> SUBSET Paths] /\ made' \in [Procs -> SUBSET Paths]
  BY DEF End, TypeOK
<1>4. held' \in [Procs -> Records] /\ plan' \in [Procs -> Seq(Paths)]
  BY <1>1, <1>2 DEF End, TypeOK
<1>5. /\ pc'[p] = "idle" /\ keys'[p] = {} /\ doomed'[p] = {} /\ plan'[p] = <<>> /\ made'[p] = {}
  BY DEF End, TypeOK
<1>6. OthersSame(p)
  BY DEF End, TypeOK, OthersSame
<1> QED
  BY <1>3, <1>4, <1>5, <1>6 DEF Stage, Resting

-----------------------------------------------------------------------------
(* The steps of the commands *)

\* A command begins with all that is recorded for its keys to be removed.
LEMMA BeginKeeps ==
  ASSUME IInv, Serial, NEW p \in Procs, NEW ks \in SUBSET Keys, NEW s \in Seq(Paths),
         s # <<>> => \E k \in Keys : ks = {k} /\ Within(s, k),
         Begin(p, ks, s)
  PROVE  IInv'
<1>1. TypeOK /\ pc[p] = "idle" /\ \A q \in Procs : pc[q] = "idle"
  BY DEF IInv, Begin, MayBegin, Serial
<1>2. made[p] = {}
  BY <1>1 DEF IInv, Stages, Stage, Resting
<1> DEFINE h == [k \in Keys |-> IF k \in ks THEN None ELSE state[k]]
<1>3. h \in Records
  BY <1>1 DEF Records, TypeOK
<1>4. Recorded(ks) \in SUBSET Paths
  BY <1>1, RecordedPaths
<1>5. UNCHANGED <<disk, state, made, abandoned, torn>>
  BY DEF Begin, history
<1>6. /\ pc' = [pc EXCEPT ![p] = "remove"] /\ keys' = [keys EXCEPT ![p] = ks]
      /\ held' = [held EXCEPT ![p] = h] /\ doomed' = [doomed EXCEPT ![p] = Recorded(ks)]
      /\ plan' = [plan EXCEPT ![p] = s]
  BY DEF Begin
<1>7. /\ pc'[p] = "remove" /\ keys'[p] = ks /\ held'[p] = h /\ doomed'[p] = Recorded(ks)
      /\ plan'[p] = s /\ made'[p] = {}
  BY <1>1, <1>2, <1>5, <1>6 DEF TypeOK
<1>8. TypeOK'
  <2>1. held' \in [Procs -> Records] /\ plan' \in [Procs -> Seq(Paths)]
    BY <1>1, <1>3, <1>6 DEF TypeOK
  <2>2. /\ pc' \in [Procs -> {"idle", "remove", "write"}] /\ keys' \in [Procs -> SUBSET Keys]
        /\ doomed' \in [Procs -> SUBSET Paths]
    BY <1>1, <1>4, <1>6 DEF TypeOK
  <2> QED
    BY <1>1, <1>5, <2>1, <2>2 DEF TypeOK
<1>9. OthersSame(p)
  BY <1>1, <1>5, <1>6 DEF OthersSame, TypeOK
<1>10. Recorded(ks)' = Recorded(ks)
  BY <1>5 DEF Recorded
<1>11. Removing(p)'
  <2> HIDE DEF h
  <2>1. Recorded(keys[p])' = Recorded(ks)
    BY <1>7, <1>5 DEF Recorded
  <2> QED
    BY <1>7, <2>1 DEF Removing, Within, Outputs
<1>12. Kept(p)'
  BY <1>5, <1>7 DEF Kept
<1>13. Stage(p)'
  BY <1>7, <1>11, <1>12 DEF Stage
<1>14. Owned'
  BY <1>5 DEF IInv, Owned, Outputs
<1> QED
  BY <1>1, <1>8, <1>9, <1>13, <1>14, Advance

\* A file of an old record goes.
LEMMA RemoveFileKeeps ==
  ASSUME IInv, NEW p \in Procs, NEW f \in Paths, RemoveFile(p, f)
  PROVE  IInv'
<1>1. /\ TypeOK /\ pc[p] = "remove" /\ f \in doomed[p] /\ disk' = [disk EXCEPT ![f] = None]
      /\ doomed' = [doomed EXCEPT ![p] = doomed[p] \ {f}] /\ abandoned' = abandoned \ {f}
      /\ UNCHANGED <<state, pc, keys, held, plan, made, torn>>
  BY DEF IInv, RemoveFile
<1>2. TypeOK'
  BY <1>1 DEF TypeOK
<1>3. OthersSame(p)
  BY <1>1 DEF TypeOK, OthersSame
<1>4. doomed'[p] = doomed[p] \ {f}
  BY <1>1 DEF TypeOK
<1>5. Removing(p) /\ Kept(p)
  BY <1>1 DEF IInv, Stages, Stage
<1>6. Recorded(keys[p])' = Recorded(keys[p])
  BY <1>1 DEF Recorded
<1>7. \A g \in Paths : disk[g] = None => disk'[g] = None
  BY <1>1 DEF TypeOK
<1>8. Recorded(keys[p]) \subseteq Paths
  BY <1>1, RecordedPaths DEF TypeOK
<1>9. disk'[f] = None
  BY <1>1 DEF TypeOK
<1>10. Removing(p)'
  BY <1>1, <1>4, <1>5, <1>6, <1>7, <1>8, <1>9 DEF Removing, Within, Outputs
<1>11. Stage(p)'
  BY <1>1, <1>5, <1>10 DEF Stage, Kept
<1>12. \A g \in Paths : disk'[g] = disk[g] \/ disk'[g] = None
  BY <1>1 DEF TypeOK
<1>13. Owned'
  BY <1>1, <1>12 DEF IInv, Owned, Outputs
<1> QED
  BY <1>1, <1>2, <1>3, <1>11, <1>13, Advance

\* The state file is written without the records of the command.
LEMMA WriteStateKeeps ==
  ASSUME IInv, NEW p \in Procs, WriteState(p)
  PROVE  IInv'
<1>1. /\ TypeOK /\ pc[p] = "remove" /\ doomed[p] = {} /\ state' = held[p]
      /\ torn' = torn \ keys[p] /\ UNCHANGED <<disk, abandoned>>
  BY DEF IInv, WriteState
<1>2. state' \in Records /\ torn' \subseteq Keys
  BY <1>1 DEF TypeOK
<1>3. Removing(p) /\ Kept(p)
  BY <1>1 DEF IInv, Stages, Stage
<1>4. \A k \in Keys : state'[k] = IF k \in keys[p] THEN None ELSE state[k]
  BY <1>1, <1>3 DEF Kept
<1>5. Owned'
  <2>1. \A k \in Keys : state'[k] # None => state'[k] \subseteq Outputs(k)
    BY <1>4 DEF IInv, Owned
  <2> QED
    BY <1>1, <2>1 DEF IInv, Owned, Outputs
<1>6. CASE plan[p] = <<>>
  <2>1. End(p)
    BY <1>6 DEF WriteState
  <2>2. TypeOK'
    BY <1>1, <1>2, <2>1, EndTyped DEF TypeOK
  <2> QED
    BY <1>1, <1>5, <2>1, <2>2, EndTyped, Advance
<1>7. CASE plan[p] # <<>>
  <2>1. pc' = [pc EXCEPT ![p] = "write"] /\ UNCHANGED <<keys, held, doomed, plan, made>>
    BY <1>7 DEF WriteState
  <2>2. TypeOK' /\ pc'[p] = "write"
    BY <1>1, <1>2, <2>1 DEF TypeOK
  <2>3. OthersSame(p)
    BY <1>1, <2>1 DEF TypeOK, OthersSame
  <2>4. PICK k \in Keys : keys[p] = {k} /\ Within(plan[p], k)
    BY <1>3, <1>7 DEF Removing
  <2>5. Writing(p)'
    BY <1>1, <1>3, <1>4, <2>1, <2>4 DEF Writing, Removing, Within, Outputs
  <2>6. Kept(p)'
    BY <1>3, <1>4, <2>1 DEF Kept
  <2>7. Stage(p)'
    BY <2>2, <2>5, <2>6 DEF Stage
  <2> QED
    BY <1>1, <1>5, <2>2, <2>3, <2>7, Advance
<1> QED
  BY <1>6, <1>7

\* The key that a command is writing, and the outputs of it.
LEMMA WriterIs ==
  ASSUME IInv, NEW p \in Procs, pc[p] = "write"
  PROVE  /\ Kept(p) /\ doomed[p] = {}
         /\ \E k \in Keys :
              /\ keys[p] = {k} /\ state[k] = None
              /\ Within(plan[p], k) /\ made[p] \subseteq Outputs(k)
              /\ \A f \in made[p] : disk[f] = k
BY DEF IInv, Stages, Stage, Writing

\* A file is written.
LEMMA WriteFileKeeps ==
  ASSUME IInv, NEW p \in Procs, WriteFile(p)
  PROVE  IInv'
<1> DEFINE f == Head(plan[p])
<1>1. /\ TypeOK /\ pc[p] = "write" /\ plan[p] # <<>>
      /\ plan' = [plan EXCEPT ![p] = Tail(plan[p])]
      /\ made' = [made EXCEPT ![p] = made[p] \cup {f}]
      /\ abandoned' = abandoned \ {f}
      /\ UNCHANGED <<state, pc, keys, held, doomed, torn>>
  BY DEF IInv, WriteFile
<1>2. PICK k \in Keys : /\ keys[p] = {k} /\ state[k] = None /\ Within(plan[p], k)
                        /\ made[p] \subseteq Outputs(k) /\ \A g \in made[p] : disk[g] = k
  BY <1>1, WriterIs
<1>3. disk' = [disk EXCEPT ![f] = k]
  BY <1>2 DEF WriteFile
<1>4. /\ f \in Outputs(k) /\ f \in Paths
      /\ Tail(plan[p]) \in Seq(Paths) /\ Within(Tail(plan[p]), k)
  <2>1. plan[p] \in Seq(Paths)
    BY <1>1 DEF TypeOK
  <2> QED
    BY <1>1, <1>2, <2>1, HeadWithin
<1> HIDE DEF f
<1>5. TypeOK'
  <2>1. plan' \in [Procs -> Seq(Paths)]
    BY <1>1, <1>4 DEF TypeOK
  <2>2. disk' \in [Paths -> Keys \cup {None}] /\ made' \in [Procs -> SUBSET Paths]
        /\ abandoned' \subseteq Paths
    BY <1>1, <1>3, <1>4 DEF TypeOK
  <2> QED
    BY <1>1, <2>1, <2>2 DEF TypeOK
<1>6. OthersSame(p)
  BY <1>1 DEF TypeOK, OthersSame
<1>7. made'[p] = made[p] \cup {f} /\ plan'[p] = Tail(plan[p])
  BY <1>1 DEF TypeOK
<1>8. disk'[f] = k /\ \A g \in Paths \ {f} : disk'[g] = disk[g]
  BY <1>1, <1>3, <1>4 DEF TypeOK
<1>9. Writing(p)'
  <2>1. made'[p] \subseteq Outputs(k)
    BY <1>2, <1>4, <1>7
  <2>2. \A g \in made'[p] : disk'[g] = k
    BY <1>2, <1>7, <1>8 DEF Outputs
  <2>3. Within(plan'[p], k)
    BY <1>4, <1>7
  <2>4. doomed'[p] = {} /\ keys'[p] = {k} /\ state'[k] = None
    BY <1>1, <1>2, WriterIs
  <2> QED
    BY <2>1, <2>2, <2>3, <2>4 DEF Writing, Within, Outputs
<1>10. Kept(p)'
  BY <1>1, WriterIs DEF Kept
<1>11. Stage(p)'
  BY <1>1, <1>9, <1>10 DEF Stage
<1>12. Owned'
  <2>1. \A g \in Paths : disk'[g] # None => g \in Outputs(disk'[g])
    BY <1>4, <1>8 DEF IInv, Owned
  <2> QED
    BY <1>1, <2>1 DEF IInv, Owned, Outputs
<1> QED
  BY <1>1, <1>5, <1>6, <1>11, <1>12, Advance

\* The files that were written are recorded.
LEMMA SaveRecordKeeps ==
  ASSUME IInv, NEW p \in Procs, SaveRecord(p)
  PROVE  IInv'
<1>1. /\ TypeOK /\ pc[p] = "write" /\ End(p) /\ UNCHANGED <<disk, abandoned, torn>>
      /\ state' = [k \in Keys |-> IF k \in keys[p] THEN made[p] \ Bundled ELSE held[p][k]]
  BY DEF IInv, SaveRecord, history
<1>2. PICK k \in Keys : keys[p] = {k} /\ state[k] = None /\ made[p] \subseteq Outputs(k)
  BY <1>1, WriterIs
<1>3. made[p] \subseteq Paths /\ \A l \in Keys : held[p][l] \in {None} \cup SUBSET Paths
  BY <1>1 DEF TypeOK, Records
<1>4. state' \in Records
  BY <1>1, <1>3 DEF Records
<1>5. TypeOK'
  BY <1>1, <1>4, EndTyped DEF TypeOK
<1>6. state'[k] = made[p] \ Bundled /\ \A l \in Keys \ {k} : state'[l] = state[l]
  BY <1>1, <1>2, WriterIs DEF Kept
<1>7. Owned'
  <2>1. \A l \in Keys : state'[l] # None => state'[l] \subseteq Outputs(l)
    BY <1>2, <1>6 DEF IInv, Owned
  <2> QED
    BY <1>1, <2>1 DEF IInv, Owned, Outputs
<1> QED
  BY <1>1, <1>5, <1>7, EndTyped, Advance

\* The command is stopped.
LEMMA StopKeeps ==
  ASSUME IInv, NEW p \in Procs, Stop(p)
  PROVE  IInv'
<1>1. /\ TypeOK /\ pc[p] # "idle" /\ End(p) /\ UNCHANGED <<disk, state>>
      /\ abandoned' = abandoned \cup made[p]
      /\ torn' = IF pc[p] = "remove" THEN torn \cup keys[p] ELSE torn
  BY DEF IInv, Stop
<1>2. abandoned' \subseteq Paths /\ torn' \subseteq Keys
  BY <1>1 DEF TypeOK
<1>3. TypeOK'
  BY <1>1, <1>2, EndTyped DEF TypeOK
<1>4. Owned'
  BY <1>1 DEF IInv, Owned, Outputs
<1> QED
  BY <1>1, <1>3, <1>4, EndTyped, Advance

\* A build begins, with one of the plans of its key.
LEMMA BeginBuildKeeps ==
  ASSUME IInv, Serial, NEW p \in Procs, NEW k \in Keys, BeginBuild(p, k)
  PROVE  IInv'
<1>1. PICK s \in Plans[k] : Begin(p, {k}, s)
  BY DEF BeginBuild
<1>2. s \in Seq(Paths) /\ Within(s, k) /\ {k} \in SUBSET Keys
  BY PlanWithin
<1> QED
  BY <1>1, <1>2, BeginKeeps

\* A clean begins, which writes nothing.
LEMMA BeginCleanKeeps ==
  ASSUME IInv, Serial, NEW p \in Procs, BeginClean(p)
  PROVE  IInv'
<1>1. PICK ks \in SUBSET Keys : Begin(p, ks, <<>>)
  BY DEF BeginClean, Of
<1>2. <<>> \in Seq(Paths)
  OBVIOUS
<1> QED
  BY <1>1, <1>2, BeginKeeps

\* Nothing is there and nothing runs at first.
LEMMA Initially == Init => IInv
<1> SUFFICES ASSUME Init PROVE IInv
  OBVIOUS
<1>1. NoRecords \in Records /\ <<>> \in Seq(Paths)
  BY DEF NoRecords, Records
<1>2. TypeOK
  BY <1>1 DEF Init, TypeOK
<1>3. OneCommand /\ Stages
  BY DEF Init, OneCommand, Stages, Stage, Resting
<1>4. Owned
  BY DEF Init, Owned, NoRecords
<1> QED
  BY <1>2, <1>3, <1>4 DEF IInv

\* Every step keeps the invariant.
LEMMA Inductive ==
  ASSUME IInv, Serial, [Next]_vars
  PROVE  IInv'
<1>1. CASE UNCHANGED vars
  <2>1. UNCHANGED <<disk, state, pc, keys, held, doomed, plan, made, abandoned, torn>>
    BY <1>1 DEF vars, command, history
  <2>2. TypeOK' /\ OneCommand' /\ Owned'
    BY <2>1 DEF IInv, TypeOK, OneCommand, Owned, Outputs
  <2>3. ASSUME NEW p \in Procs PROVE Stage(p)'
    <3>1. Removing(p) => Removing(p)'
      BY <2>1 DEF Removing, Recorded, Within, Outputs
    <3>2. Writing(p) => Writing(p)'
      BY <2>1 DEF Writing, Within, Outputs
    <3> QED
      BY <2>1, <3>1, <3>2 DEF IInv, Stages, Stage, Resting, Kept
  <2> QED
    BY <2>2, <2>3 DEF IInv, Stages
<1>2. ASSUME NEW p \in Procs,
             (\E k \in Keys : BeginBuild(p, k)) \/ BeginClean(p)
             \/ \E f \in Paths : RemoveFile(p, f)
      PROVE  IInv'
  BY <1>2, BeginBuildKeeps, BeginCleanKeeps, RemoveFileKeeps
<1>3. ASSUME NEW p \in Procs, WriteState(p) \/ WriteFile(p) \/ SaveRecord(p) \/ Stop(p)
      PROVE  IInv'
  BY <1>3, WriteStateKeeps, WriteFileKeeps, SaveRecordKeeps, StopKeeps
<1> QED
  BY <1>1, <1>2, <1>3 DEF Next

\* When commands run one after another, each has at every point the state file,
\* and of its outputs what it needs.
THEOREM Invariance ==
  ASSUME Serial
  PROVE  Spec => []IInv
<1>1. IInv /\ [Next]_vars => IInv'
  BY Inductive
<1> QED
  BY <1>1, Initially, PTL DEF Spec

-----------------------------------------------------------------------------
(* Every output can be cleaned *)

\* No step leaves a file behind that nothing knows of.
LEMMA OrphansStep ==
  ASSUME IInv, NoOrphans, "bundle" \notin Shapes, [Next]_vars
  PROVE  NoOrphans'
<1>0. TypeOK
  BY DEF IInv
<1>1. CASE UNCHANGED vars
  BY <1>1 DEF vars, command, history, NoOrphans, Recorded
<1>2. ASSUME NEW p \in Procs, NEW ks, NEW s, Begin(p, ks, s) PROVE NoOrphans'
  BY <1>2 DEF Begin, history, NoOrphans, Recorded
<1>3. ASSUME NEW p \in Procs, NEW g \in Paths, RemoveFile(p, g) PROVE NoOrphans'
  <2>1. /\ disk' = [disk EXCEPT ![g] = None] /\ abandoned' = abandoned \ {g}
        /\ UNCHANGED <<state, made>>
    BY <1>3 DEF RemoveFile
  <2>2. ASSUME NEW f \in Paths, disk'[f] # None
        PROVE  f # g /\ disk[f] # None
    BY <1>0, <2>1, <2>2 DEF TypeOK
  <2> QED
    BY <2>1, <2>2 DEF NoOrphans, Recorded
<1>4. ASSUME NEW p \in Procs, WriteState(p) PROVE NoOrphans'
  <2>1. /\ pc[p] = "remove" /\ doomed[p] = {} /\ state' = held[p] /\ UNCHANGED <<disk, abandoned>>
        /\ (End(p) \/ UNCHANGED made)
    BY <1>4 DEF WriteState
  <2>2. Removing(p) /\ Kept(p)
    BY <2>1 DEF IInv, Stages, Stage
  <2>3. \A q \in Procs : \A f \in made[q] : f \in made'[q]
    BY <1>0, <2>1, <2>2 DEF Removing, End, TypeOK
  <2>4. ASSUME NEW f \in Paths, disk[f] # None, f \in Recorded(Keys)
        PROVE  f \in Recorded(Keys)'
    <3>1. PICK k \in Keys : state[k] # None /\ f \in state[k]
      BY <2>4, RecordedIs
    <3>2. k \notin keys[p]
      BY <2>1, <2>2, <2>4, <3>1, RecordedIs DEF Removing
    <3>3. state'[k] = state[k]
      BY <2>1, <2>2, <3>2 DEF Kept
    <3> QED
      BY <3>1, <3>3 DEF Recorded
  <2> QED
    BY <2>1, <2>3, <2>4 DEF NoOrphans
<1>5. ASSUME NEW p \in Procs, WriteFile(p) PROVE NoOrphans'
  <2> DEFINE g == Head(plan[p])
  <2>1. /\ pc[p] = "write" /\ abandoned' = abandoned \ {g} /\ UNCHANGED state
        /\ made' = [made EXCEPT ![p] = made[p] \cup {g}]
        /\ \E k \in keys[p] : disk' = [disk EXCEPT ![g] = k]
    BY <1>5 DEF WriteFile
  <2> HIDE DEF g
  <2>2. g \in made'[p] /\ \A q \in Procs : \A f \in made[q] : f \in made'[q]
    BY <1>0, <2>1 DEF TypeOK
  <2>3. ASSUME NEW f \in Paths, disk'[f] # None, f # g
        PROVE  disk[f] # None
    BY <1>0, <2>1, <2>3 DEF TypeOK
  <2> QED
    BY <2>1, <2>2, <2>3 DEF NoOrphans, Recorded
<1>6. ASSUME NEW p \in Procs, SaveRecord(p) PROVE NoOrphans'
  <2>1. /\ pc[p] = "write" /\ End(p) /\ UNCHANGED <<disk, abandoned>>
        /\ state' = [k \in Keys |-> IF k \in keys[p] THEN made[p] \ Bundled ELSE held[p][k]]
    BY <1>6 DEF SaveRecord, history
  <2>2. PICK k \in Keys : keys[p] = {k} /\ state[k] = None
    BY <2>1, WriterIs
  <2>3. state'[k] = made[p] /\ \A l \in Keys \ {k} : state'[l] = state[l]
    BY <2>1, <2>2, WriterIs, BundledAssumption DEF Kept
  <2>4. state'[k] # None
    BY <1>0, <2>3, NoneAssumption DEF TypeOK
  <2>5. \A f \in made[p] : f \in Recorded(Keys)'
    BY <2>3, <2>4 DEF Recorded
  <2>6. Recorded(Keys) \subseteq Recorded(Keys)'
    <3> SUFFICES ASSUME NEW f \in Recorded(Keys) PROVE f \in Recorded(Keys)'
      OBVIOUS
    <3>1. PICK l \in Keys : state[l] # None /\ f \in state[l]
      BY RecordedIs
    <3>2. state'[l] = state[l]
      BY <2>2, <2>3, <3>1
    <3> QED
      BY <3>1, <3>2 DEF Recorded
  <2>7. \A q \in Procs \ {p} : made'[q] = made[q]
    BY <1>0, <2>1 DEF End, TypeOK
  <2>8. ASSUME NEW f \in Paths, disk'[f] # None
        PROVE  f \in Recorded(Keys)' \/ f \in abandoned' \/ \E q \in Procs : f \in made'[q]
    BY <2>1, <2>5, <2>6, <2>7, <2>8 DEF NoOrphans
  <2> QED
    BY <2>8 DEF NoOrphans
<1>7. ASSUME NEW p \in Procs, Stop(p) PROVE NoOrphans'
  <2>1. End(p) /\ UNCHANGED <<disk, state>> /\ abandoned' = abandoned \cup made[p]
    BY <1>7 DEF Stop
  <2>2. \A q \in Procs \ {p} : made'[q] = made[q]
    BY <1>0, <2>1 DEF End, TypeOK
  <2> QED
    BY <2>1, <2>2 DEF NoOrphans, Recorded
<1> QED
  BY <1>1, <1>2, <1>3, <1>4, <1>5, <1>6, <1>7 DEF Next, BeginBuild, BeginClean

\* When commands run one after another and native sources bring only headers,
\* every file in an output directory is recorded, is being written or was left
\* by a build that did not end; also when targets share output files.
THEOREM OutputsKnown ==
  ASSUME Serial, "bundle" \notin Shapes
  PROVE  Spec => []NoOrphans
<1>1. Init => NoOrphans
  BY DEF Init, NoOrphans
<1>2. IInv /\ NoOrphans /\ [Next]_vars => NoOrphans'
  BY OrphansStep
<1> QED
  BY <1>1, <1>2, Invariance, PTL DEF Spec

-----------------------------------------------------------------------------
(* Records are exact where targets share no files *)

Unshared == "shared" \notin Shapes

\* Then two keys have no output in common.
LEMMA Disjoint ==
  ASSUME Unshared, NEW k \in Keys, NEW l \in Keys, NEW f \in Outputs(k), f \in Outputs(l)
  PROVE  k = l
BY SharedAssumption DEF Unshared, Outputs

\* A file of a record was written by its own target and is there, unless it is
\* being removed or a command was stopped while it did.
Being(k) == k \in torn \/ \E p \in Procs : pc[p] = "remove" /\ k \in keys[p]
Exact(k) == state[k] # None => \A f \in state[k] : disk[f] = k \/ (disk[f] = None /\ Being(k))
AllExact == \A k \in Keys : Exact(k)

\* A record stays exact when nothing of it changes.
LEMMA ExactKept ==
  ASSUME NEW k \in Keys, Exact(k), state'[k] = state[k],
         state[k] # None => \A f \in state[k] : disk'[f] = disk[f], Being(k) => Being(k)'
  PROVE  Exact(k)'
BY DEF Exact

\* Every step keeps the records exact.
LEMMA ExactStep ==
  ASSUME IInv, AllExact, Unshared, [Next]_vars
  PROVE  AllExact'
<1> SUFFICES ASSUME NEW k \in Keys PROVE Exact(k)'
  BY DEF AllExact
<1>0. TypeOK /\ Exact(k) /\ (state[k] # None => state[k] \subseteq Outputs(k) /\ state[k] \subseteq Paths)
  BY DEF IInv, AllExact, Owned, TypeOK, Records
<1>1. CASE UNCHANGED vars
  BY <1>0, <1>1 DEF vars, command, history, Exact, Being
<1>2. ASSUME NEW p \in Procs, NEW ks, NEW s, Begin(p, ks, s) PROVE Exact(k)'
  <2>1. /\ pc[p] = "idle" /\ UNCHANGED <<disk, state, torn>>
        /\ \A q \in Procs \ {p} : pc'[q] = pc[q] /\ keys'[q] = keys[q]
    BY <1>0, <1>2 DEF Begin, history, TypeOK
  <2>2. Being(k) => Being(k)'
    BY <2>1 DEF Being
  <2> QED
    BY <1>0, <2>1, <2>2, ExactKept
<1>3. ASSUME NEW p \in Procs, NEW g \in Paths, RemoveFile(p, g) PROVE Exact(k)'
  <2>1. /\ pc[p] = "remove" /\ g \in doomed[p] /\ disk' = [disk EXCEPT ![g] = None]
        /\ UNCHANGED <<state, pc, keys, torn>>
    BY <1>3 DEF RemoveFile
  <2>2. Being(k) => Being(k)'
    BY <2>1 DEF Being
  <2>3. \A f \in Paths \ {g} : disk'[f] = disk[f]
    BY <1>0, <2>1 DEF TypeOK
  <2>4. CASE state[k] # None /\ g \in state[k]
    <3>1. PICK l \in keys[p] : state[l] # None /\ g \in state[l]
      BY <2>1, RecordedIs DEF IInv, Stages, Stage, Removing
    <3>2. l \in Keys /\ g \in Outputs(l) /\ g \in Outputs(k)
      BY <1>0, <2>4, <3>1 DEF IInv, Owned, TypeOK
    <3>3. Being(k)'
      BY <2>1, <3>1, <3>2, Disjoint DEF Being
    <3>4. disk'[g] = None
      BY <1>0, <2>1 DEF TypeOK
    <3> QED
      BY <1>0, <2>1, <2>3, <3>3, <3>4 DEF Exact
  <2>5. CASE state[k] # None => g \notin state[k]
    BY <1>0, <2>1, <2>2, <2>3, <2>5, ExactKept
  <2> QED
    BY <2>4, <2>5
<1>4. ASSUME NEW p \in Procs, WriteState(p) PROVE Exact(k)'
  <2>1. /\ pc[p] = "remove" /\ state' = held[p] /\ torn' = torn \ keys[p] /\ disk' = disk
        /\ keys[p] \subseteq Keys
    BY <1>0, <1>4 DEF WriteState, TypeOK
  <2>2. state'[k] = IF k \in keys[p] THEN None ELSE state[k]
    BY <2>1 DEF IInv, Stages, Stage, Kept
  <2>3. CASE k \in keys[p]
    BY <2>2, <2>3 DEF Exact
  <2>4. CASE k \notin keys[p]
    <3>1. \A q \in Procs \ {p} : pc'[q] = pc[q] /\ keys'[q] = keys[q]
      BY <1>0, <1>4 DEF WriteState, End, TypeOK
    <3>2. Being(k) => Being(k)'
      BY <2>1, <2>4, <3>1 DEF Being
    <3> QED
      BY <1>0, <2>1, <2>2, <2>4, <3>2, ExactKept
  <2> QED
    BY <2>3, <2>4
<1>5. ASSUME NEW p \in Procs, WriteFile(p) PROVE Exact(k)'
  <2> DEFINE g == Head(plan[p])
  <2>1. /\ pc[p] = "write" /\ plan[p] # <<>> /\ UNCHANGED <<state, pc, keys, torn>>
        /\ \E l \in keys[p] : disk' = [disk EXCEPT ![g] = l]
    BY <1>5 DEF WriteFile
  <2>2. PICK l \in Keys : keys[p] = {l} /\ state[l] = None /\ Within(plan[p], l)
    BY <2>1, WriterIs
  <2>3. g \in Outputs(l) /\ g \in Paths
    BY <1>0, <2>1, <2>2, HeadWithin DEF TypeOK
  <2> HIDE DEF g
  <2>4. state[k] # None => \A f \in state[k] : disk'[f] = disk[f]
    <3> SUFFICES ASSUME state[k] # None, NEW f \in state[k] PROVE disk'[f] = disk[f]
      OBVIOUS
    <3>1. f # g
      BY <1>0, <2>2, <2>3, Disjoint
    <3> QED
      BY <1>0, <2>1, <3>1 DEF TypeOK
  <2>5. Being(k) => Being(k)'
    BY <2>1 DEF Being
  <2> QED
    BY <1>0, <2>1, <2>4, <2>5, ExactKept
<1>6. ASSUME NEW p \in Procs, SaveRecord(p) PROVE Exact(k)'
  <2>1. /\ pc[p] = "write" /\ End(p) /\ UNCHANGED <<disk, torn>>
        /\ state' = [l \in Keys |-> IF l \in keys[p] THEN made[p] \ Bundled ELSE held[p][l]]
    BY <1>6 DEF SaveRecord, history
  <2>2. PICK l \in Keys : keys[p] = {l} /\ \A f \in made[p] : disk[f] = l
    BY <2>1, WriterIs
  <2>3. CASE k = l
    BY <2>1, <2>2, <2>3 DEF Exact
  <2>4. CASE k # l
    <3>1. state'[k] = state[k]
      BY <2>1, <2>2, <2>4, WriterIs DEF Kept
    <3>2. \A q \in Procs \ {p} : pc'[q] = pc[q] /\ keys'[q] = keys[q]
      BY <1>0, <2>1 DEF End, TypeOK
    <3>3. Being(k) => Being(k)'
      BY <2>1, <3>2 DEF Being
    <3> QED
      BY <1>0, <2>1, <3>1, <3>3, ExactKept
  <2> QED
    BY <2>3, <2>4
<1>7. ASSUME NEW p \in Procs, Stop(p) PROVE Exact(k)'
  <2>1. /\ End(p) /\ UNCHANGED <<disk, state>>
        /\ torn' = IF pc[p] = "remove" THEN torn \cup keys[p] ELSE torn
    BY <1>7 DEF Stop
  <2>2. \A q \in Procs \ {p} : pc'[q] = pc[q] /\ keys'[q] = keys[q]
    BY <1>0, <2>1 DEF End, TypeOK
  <2>3. Being(k) => Being(k)'
    BY <2>1, <2>2 DEF Being
  <2> QED
    BY <1>0, <2>1, <2>3, ExactKept
<1> QED
  BY <1>1, <1>2, <1>3, <1>4, <1>5, <1>6, <1>7 DEF Next, BeginBuild, BeginClean

\* When commands run one after another and targets share no files, a record
\* names files its own target wrote, all of them there unless a command is
\* removing them or was stopped while it did.
THEOREM RecordsExact ==
  ASSUME Serial, Unshared
  PROVE  Spec => []RecordsWhole
<1>1. Init => AllExact
  BY DEF Init, AllExact, Exact, NoRecords
<1>2. IInv /\ AllExact /\ [Next]_vars => AllExact'
  BY ExactStep
<1>3. IInv /\ AllExact => RecordsWhole
  BY DEF IInv, AllExact, Exact, Being, RecordsWhole
<1> QED
  BY <1>1, <1>2, <1>3, Invariance, PTL DEF Spec

\* In these shapes a command removes or overwrites no file or record of a key
\* that it does not build or clean.
THEOREM CommandsApart ==
  ASSUME Serial, Unshared
  PROVE  Spec => Isolation
<1>1. ASSUME IInv, [Next]_vars
      PROVE  [\A k \in Keys :
                (\A p \in Procs : k \notin keys[p]) =>
                  /\ state'[k] = state[k]
                  /\ \A f \in Paths : disk[f] = k => disk'[f] = k]_vars
  <2> SUFFICES ASSUME Next, NEW k \in Keys, \A p \in Procs : k \notin keys[p]
               PROVE  /\ state'[k] = state[k]
                      /\ \A f \in Paths : disk[f] = k => disk'[f] = k
    BY <1>1
  <2>0. TypeOK
    BY <1>1 DEF IInv
  <2>1. ASSUME NEW p \in Procs, NEW g \in Paths, RemoveFile(p, g)
        PROVE  state' = state /\ \A f \in Paths : disk[f] = k => disk'[f] = k
    <3>1. /\ pc[p] = "remove" /\ g \in doomed[p] /\ state' = state
          /\ disk' = [disk EXCEPT ![g] = None]
      BY <2>1 DEF RemoveFile
    <3>2. PICK l \in keys[p] : state[l] # None /\ g \in state[l]
      BY <1>1, <3>1, RecordedIs DEF IInv, Stages, Stage, Removing
    <3>3. l \in Keys /\ l # k /\ g \in Outputs(l)
      BY <1>1, <2>0, <3>2 DEF IInv, Owned, TypeOK
    <3>4. disk[g] # k
      BY <1>1, <3>3, Disjoint, NoneAssumption DEF IInv, Owned
    <3> QED
      BY <2>0, <3>1, <3>4 DEF TypeOK
  <2>2. ASSUME NEW p \in Procs, WriteState(p)
        PROVE  state'[k] = state[k] /\ disk' = disk
    BY <1>1, <2>2 DEF WriteState, IInv, Stages, Stage, Kept
  <2>3. ASSUME NEW p \in Procs, WriteFile(p)
        PROVE  state' = state /\ \A f \in Paths : disk[f] = k => disk'[f] = k
    <3> DEFINE g == Head(plan[p])
    <3>1. /\ pc[p] = "write" /\ plan[p] # <<>> /\ state' = state
          /\ \E l \in keys[p] : disk' = [disk EXCEPT ![g] = l]
      BY <2>3 DEF WriteFile
    <3>2. PICK l \in Keys : keys[p] = {l} /\ Within(plan[p], l)
      BY <1>1, <3>1, WriterIs
    <3>3. g \in Outputs(l) /\ g \in Paths /\ l # k
      BY <2>0, <3>1, <3>2, HeadWithin DEF TypeOK
    <3> HIDE DEF g
    <3>4. disk[g] # k
      BY <1>1, <3>3, Disjoint, NoneAssumption DEF IInv, Owned
    <3> QED
      BY <2>0, <3>1, <3>4 DEF TypeOK
  <2>4. ASSUME NEW p \in Procs, SaveRecord(p)
        PROVE  state'[k] = state[k] /\ disk' = disk
    <3>1. /\ pc[p] = "write" /\ disk' = disk
          /\ state' = [l \in Keys |-> IF l \in keys[p] THEN made[p] \ Bundled ELSE held[p][l]]
      BY <2>4 DEF SaveRecord
    <3> QED
      BY <1>1, <3>1, WriterIs DEF Kept
  <2>5. ASSUME NEW p \in Procs,
               (\E l \in Keys : BeginBuild(p, l)) \/ BeginClean(p) \/ Stop(p)
        PROVE  state' = state /\ disk' = disk
    BY <2>5 DEF BeginBuild, BeginClean, Begin, Stop
  <2> QED
    BY <2>1, <2>2, <2>3, <2>4, <2>5 DEF Next
<1> QED
  BY <1>1, Invariance, PTL DEF Spec, Isolation
=============================================================================
