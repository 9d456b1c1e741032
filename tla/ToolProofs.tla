--------------------------------- MODULE ToolProofs -------------------------
(***************************************************************************)
(* Proofs about the two parts that decide which compiler compiles what.    *)
(*                                                                         *)
(* The version switcher, for any number of versions and processes and any  *)
(* depth of directories: what a version consists of when nothing has       *)
(* happened to it, that the shim runs no half version, and that the two    *)
(* resolutions of the active version agree.                                *)
(*                                                                         *)
(* The module loader, for every finite set of files, every program over    *)
(* them and any limits: an accepted program is sound, a refused one has    *)
(* the fault it is refused for, and the definitions of every import path   *)
(* are delivered in order, with the structs of the templates they use.     *)
(***************************************************************************)
EXTENDS Versions, Loader, FiniteSetTheorems, WellFoundedInduction, SequenceTheorems, TLAPS

\* A process is idle when it is in no command on a version.
Working == \A p \in Procs : At(p, "idle") <=> proc[p].name = None

\* Of several processes at work on one version none takes itself to be alone ...
Separate ==
  \A p, q \in Procs :
    p # q /\ proc[p].name # None /\ proc[q].name = proc[p].name => ~proc[p].alone

\* ... and one that is not alone, or was not at some time, is an accident that
\* its version has not recovered from.
Accidents == \A p \in Procs : proc[p].name # None /\ ~proc[p].alone => proc[p].name \in hurt

\* What a process alone on a version finds of it at each point of its command.
\* The first part holds after an accident too, which is why a command that
\* completes can make up for it.
Installing == {"clear", "mkdir", "venv", "pip", "scripts", "cleanup"}
Selecting == {"truncate", "write"}
Emptied == {"mkdir", "read", "unlink"}
Made(p, n) ==
  /\ proc[p].pc \in Emptied => versions[n] = {}
  /\ At(p, "venv") => versions[n] = {"dir"}
  /\ At(p, "pip") => versions[n] = {"dir", "venv"}
  /\ At(p, "scripts") => versions[n] = {"dir", "venv", "lib"}
  /\ At(p, "cleanup") => "exe" \notin versions[n]
Undisturbed(p, n) ==
  /\ proc[p].pc \in Selecting => versions[n] = Whole
  /\ proc[p].pc \in Installing /\ ~proc[p].forced => global # n
Stage(p) ==
  /\ Made(p, proc[p].name)
  /\ proc[p].name \notin hurt => Undisturbed(p, proc[p].name)
Stages == \A p \in Procs : proc[p].name # None /\ proc[p].alone => Stage(p)

\* What no command is at work on is whole or gone.
Settled(n) == versions[n] \in {{}, Whole} /\ (global = n => versions[n] = Whole)
Rest == \A n \in Names \ hurt : ~AtWork(n) => Settled(n)

IInv == TypeOK /\ Working /\ Separate /\ Accidents /\ Stages /\ Rest

-----------------------------------------------------------------------------
(* Types *)

\* A command goes on: its record keeps its type.
LEMMA GotoTyped ==
  ASSUME TypeOK, NEW p \in Procs, NEW pc, Goto(p, pc),
         pc \in {"mkdir", "venv", "pip", "scripts", "cleanup", "read", "unlink", "write"}
  PROVE  /\ proc' \in [Procs -> Command]
         /\ \A q \in Procs \ {p} : proc'[q] = proc[q]
         /\ proc'[p] = [proc[p] EXCEPT !.pc = pc]
         /\ proc'[p].pc = pc
         /\ proc'[p].name = proc[p].name /\ proc'[p].alone = proc[p].alone
         /\ proc'[p].forced = proc[p].forced
<1>1. proc[p] \in Command
  BY DEF TypeOK
<1>2. [proc[p] EXCEPT !.pc = pc] \in Command
  BY <1>1 DEF Command
<1>3. proc' = [proc EXCEPT ![p] = [proc[p] EXCEPT !.pc = pc]]
  BY DEF Goto
<1>4. /\ proc' \in [Procs -> Command]
      /\ \A q \in Procs \ {p} : proc'[q] = proc[q]
      /\ proc'[p] = [proc[p] EXCEPT !.pc = pc]
  BY <1>2, <1>3 DEF TypeOK
<1> QED
  BY <1>1, <1>4 DEF Command

\* A command ends: the process is idle again.
LEMMA IdleTyped ==
  ASSUME TypeOK, NEW p \in Procs, proc' = [proc EXCEPT ![p] = Idle]
  PROVE  /\ proc' \in [Procs -> Command]
         /\ \A q \in Procs \ {p} : proc'[q] = proc[q]
         /\ proc'[p] = Idle
<1>1. Idle \in Command
  BY DEF Idle, Command
<1> QED
  BY <1>1 DEF TypeOK

\* A command begins: it is alone if no other is at work on the same version ...
LEMMA TouchTyped ==
  ASSUME TypeOK, NEW p \in Procs, NEW c \in Command, Touch(p, c), c.name \in Names
  PROVE  /\ proc' \in [Procs -> Command]
         /\ hurt' \subseteq Names
         /\ proc'[p] = [c EXCEPT !.alone = Others(p, c.name) = {}]
<1>1. [c EXCEPT !.alone = Others(p, c.name) = {}] \in Command
  BY DEF Command
<1>2. ASSUME NEW q \in Procs
      PROVE  proc[q] \in Command /\ [proc[q] EXCEPT !.alone = FALSE] \in Command
  <2>1. proc[q] \in Command
    BY DEF TypeOK
  <2> QED
    BY <2>1 DEF Command
<1>3. proc' = [q \in Procs |->
                 IF q = p THEN [c EXCEPT !.alone = Others(p, c.name) = {}]
                 ELSE IF proc[q].name = c.name THEN [proc[q] EXCEPT !.alone = FALSE]
                 ELSE proc[q]]
  BY DEF Touch
<1>4. proc' \in [Procs -> Command]
  BY <1>1, <1>2, <1>3
<1>5. hurt' \subseteq Names
  BY DEF Touch, TypeOK
<1> QED
  BY <1>3, <1>4, <1>5

\* ... and from now on none of the others is; else they do not change.
LEMMA TouchOthers ==
  ASSUME TypeOK, NEW p \in Procs, NEW c \in Command, Touch(p, c), NEW q \in Procs \ {p}
  PROVE  /\ proc'[q].name = proc[q].name /\ proc'[q].pc = proc[q].pc
         /\ proc[q].name = c.name => ~proc'[q].alone
         /\ proc[q].name # c.name => proc'[q] = proc[q]
<1>1. proc[q] \in Command
  BY DEF TypeOK
<1>2. proc'[q] = IF proc[q].name = c.name THEN [proc[q] EXCEPT !.alone = FALSE] ELSE proc[q]
  BY DEF Touch
<1>3. CASE proc[q].name = c.name
  BY <1>1, <1>2, <1>3 DEF Command
<1>4. CASE proc[q].name # c.name
  BY <1>2, <1>4
<1> QED
  BY <1>3, <1>4

-----------------------------------------------------------------------------
(* A step of a command *)

\* What a step of p, on version n, leaves alone.
Elsewhere(p, n) ==
  /\ \A q \in Procs \ {p} : proc'[q] = proc[q]
  /\ \A m \in Names \ {n} : versions'[m] = versions[m] /\ (global' = m => global = m)
  /\ \A m \in Names \ {n} : m \in hurt' <=> m \in hurt

\* The stage of a command on another version is left alone.
LEMMA StageKept ==
  ASSUME IInv, NEW p \in Procs, NEW q \in Procs \ {p}, NEW n \in Names, Elsewhere(p, n),
         proc[q].name \in Names \ {n}, Stage(q)
  PROVE  Stage(q)'
<1> DEFINE m == proc[q].name
<1>1. /\ proc'[q] = proc[q] /\ versions'[m] = versions[m] /\ (global' = m => global = m)
      /\ (m \in hurt' <=> m \in hurt)
  BY DEF Elsewhere
<1>2. Made(q, m) => Made(q, m)'
  BY <1>1 DEF Made, At
<1>3. Undisturbed(q, m) => Undisturbed(q, m)'
  BY <1>1 DEF Undisturbed
<1> QED
  BY <1>1, <1>2, <1>3 DEF Stage

\* A version no command was at work on stays settled.
LEMMA RestKept ==
  ASSUME IInv, NEW p \in Procs, NEW n \in Names, Elsewhere(p, n), proc[p].name = n,
         proc'[p].name \in {n, None}, NEW m \in Names \ {n}, m \notin hurt', ~AtWork(m)'
  PROVE  Settled(m)'
<1>1. ~AtWork(m)
  <2> SUFFICES ASSUME NEW q \in Procs, proc[q].name = m
               PROVE  FALSE
    BY DEF AtWork
  <2>1. q # p /\ proc'[q].name = m
    BY DEF Elsewhere
  <2> QED
    BY <2>1 DEF AtWork
<1>2. m \notin hurt /\ versions'[m] = versions[m] /\ (global' = m => global = m)
  BY DEF Elsewhere
<1> QED
  BY <1>1, <1>2 DEF IInv, Rest, Settled

\* A command goes on with the version it is at work on.
LEMMA Worked ==
  ASSUME IInv, TypeOK', NEW p \in Procs, NEW n \in Names, proc[p].name = n, Elsewhere(p, n),
         proc'[p].name = n, proc'[p].alone = proc[p].alone, ~At(p, "idle")', hurt' = hurt,
         proc[p].alone => Stage(p)'
  PROVE  IInv'
<1>0. n # None
  BY NamesAssumption
<1>1. \A q \in Procs : proc'[q].name = proc[q].name /\ proc'[q].alone = proc[q].alone
  BY DEF Elsewhere
<1>2. Working'
  BY <1>0 DEF Working, IInv, At, Elsewhere
<1>3. Separate'
  BY <1>1 DEF Separate, IInv
<1>4. Accidents'
  BY <1>1 DEF Accidents, IInv
<1>5. Stages'
  <2> SUFFICES ASSUME NEW q \in Procs, proc'[q].name # None, proc'[q].alone
               PROVE  Stage(q)'
    BY DEF Stages
  <2>1. CASE q = p
    BY <1>1, <2>1
  <2>2. CASE q # p
    <3>1. proc[q].name \in Names \ {n} /\ Stage(q)
      BY <1>0, <1>1, <2>2 DEF IInv, Separate, Stages, TypeOK, Command
    <3> QED
      BY <2>2, <3>1, StageKept
  <2> QED
    BY <2>1, <2>2
<1>6. Rest'
  <2> SUFFICES ASSUME NEW m \in Names, m \notin hurt', ~AtWork(m)'
               PROVE  Settled(m)'
    BY DEF Rest
  <2>1. m # n
    BY DEF AtWork
  <2> QED
    BY <2>1, RestKept
<1> QED
  BY <1>2, <1>3, <1>4, <1>5, <1>6 DEF IInv

\* A command ends: either its version is settled, or it has had an accident.
LEMMA Ended ==
  ASSUME IInv, TypeOK', NEW p \in Procs, NEW n \in Names, proc[p].name = n, Elsewhere(p, n),
         proc'[p] = Idle, n \notin hurt' => proc[p].alone /\ Settled(n)'
  PROVE  IInv'
<1>0. n # None /\ Idle.name = None /\ Idle.pc = "idle"
  BY NamesAssumption DEF Idle
<1>1. \A q \in Procs : proc'[q].name # None => q # p /\ proc'[q] = proc[q]
  BY <1>0 DEF Elsewhere
<1>2. Working'
  BY <1>0 DEF Working, IInv, At, Elsewhere
<1>3. Separate'
  <2> SUFFICES ASSUME NEW q \in Procs, NEW r \in Procs, q # r, proc'[q].name # None,
                      proc'[r].name = proc'[q].name
               PROVE  ~proc'[q].alone
    BY DEF Separate
  <2> QED
    BY <1>1 DEF Separate, IInv
<1>4. Accidents'
  <2> SUFFICES ASSUME NEW q \in Procs, proc'[q].name # None, ~proc'[q].alone
               PROVE  proc'[q].name \in hurt'
    BY DEF Accidents
  <2>1. q # p /\ proc'[q] = proc[q] /\ proc[q].name \in hurt
    BY <1>1 DEF Accidents, IInv
  <2>2. CASE proc[q].name = n
    BY <1>0, <2>1, <2>2 DEF IInv, Separate
  <2>3. CASE proc[q].name # n
    BY <2>1, <2>3 DEF Elsewhere, IInv, TypeOK
  <2> QED
    BY <2>2, <2>3
<1>5. Stages'
  <2> SUFFICES ASSUME NEW q \in Procs, proc'[q].name # None, proc'[q].alone
               PROVE  Stage(q)'
    BY DEF Stages
  <2>1. q # p /\ proc'[q] = proc[q]
    BY <1>1
  <2>2. proc[q].name \in Names \ {n} /\ Stage(q)
    BY <1>0, <2>1 DEF IInv, Separate, Stages, TypeOK, Command
  <2> QED
    BY <2>1, <2>2, StageKept
<1>6. Rest'
  <2> SUFFICES ASSUME NEW m \in Names, m \notin hurt', ~AtWork(m)'
               PROVE  Settled(m)'
    BY DEF Rest
  <2> QED
    BY <1>0, RestKept
<1> QED
  BY <1>2, <1>3, <1>4, <1>5, <1>6 DEF IInv

\* A command begins, on a version that it finds as its first stage has it.
LEMMA Began ==
  ASSUME IInv, NEW p \in Procs, NEW c \in Command, c.name \in Names, c.pc # "idle", Touch(p, c),
         UNCHANGED <<versions, global, local>>, Others(p, c.name) = {} => Stage(p)'
  PROVE  IInv'
<1> DEFINE n == c.name
<1>0. n # None /\ At(p, "idle") /\ proc[p].name = None /\ TypeOK
  BY NamesAssumption DEF Touch, IInv, Working
<1>1. /\ TypeOK'
      /\ proc'[p].name = n /\ proc'[p].pc # "idle" /\ (proc'[p].alone <=> Others(p, n) = {})
  <2>1. /\ proc' \in [Procs -> Command] /\ hurt' \subseteq Names
        /\ proc'[p] = [c EXCEPT !.alone = Others(p, c.name) = {}]
    BY <1>0, TouchTyped
  <2>2. TypeOK'
    BY <1>0, <2>1 DEF TypeOK, Listed
  <2>3. proc'[p].name = n /\ proc'[p].pc # "idle"
    BY <2>1 DEF Command
  <2>4. proc'[p].alone = (Others(p, n) = {})
    BY <2>1 DEF Command
  <2> QED
    BY <2>2, <2>3, <2>4
<1>2. ASSUME NEW q \in Procs \ {p}
      PROVE  /\ proc'[q].name = proc[q].name /\ proc'[q].pc = proc[q].pc
             /\ proc[q].name = n => ~proc'[q].alone
             /\ proc[q].name # n => proc'[q] = proc[q]
  BY <1>0, TouchOthers
<1>3. /\ hurt \subseteq hurt' /\ hurt' \subseteq hurt \cup {n}
      /\ Others(p, n) # {} => n \in hurt'
      /\ \A q \in Procs \ {p} : proc[q].name = n => n \in hurt'
  BY <1>0 DEF Touch, Others
<1>4. Working'
  BY <1>0, <1>1, <1>2 DEF Working, IInv, At
<1>5. Separate'
  <2> SUFFICES ASSUME NEW q \in Procs, NEW r \in Procs, q # r, proc'[q].name # None,
                      proc'[r].name = proc'[q].name
               PROVE  ~proc'[q].alone
    BY DEF Separate
  <2>1. CASE q = p
    BY <1>1, <1>2, <2>1 DEF Others
  <2>2. CASE q # p /\ proc'[q].name = n
    BY <1>2, <2>2
  <2>3. CASE q # p /\ proc'[q].name # n
    BY <1>1, <1>2, <2>3 DEF IInv, Separate
  <2> QED
    BY <2>1, <2>2, <2>3
<1>6. Accidents'
  BY <1>0, <1>1, <1>2, <1>3 DEF Accidents, IInv
<1>7. Stages'
  <2> SUFFICES ASSUME NEW q \in Procs, proc'[q].name # None, proc'[q].alone
               PROVE  Stage(q)'
    BY DEF Stages
  <2>1. CASE q = p
    BY <1>1, <2>1
  <2>2. CASE q # p
    <3>1. proc'[q] = proc[q] /\ proc[q].name # n /\ Stage(q)
      BY <1>2, <2>2 DEF IInv, Stages
    <3>2. proc[q].name \in hurt' <=> proc[q].name \in hurt
      BY <1>3, <3>1
    <3>3. Made(q, proc[q].name) => Made(q, proc[q].name)'
      BY <3>1 DEF Made, At
    <3>4. Undisturbed(q, proc[q].name) => Undisturbed(q, proc[q].name)'
      BY <3>1 DEF Undisturbed
    <3> QED
      BY <3>1, <3>2, <3>3, <3>4 DEF Stage
  <2> QED
    BY <2>1, <2>2
<1>8. Rest'
  <2> SUFFICES ASSUME NEW m \in Names, m \notin hurt', ~AtWork(m)'
               PROVE  Settled(m)'
    BY DEF Rest
  <2>1. ~AtWork(m) /\ m \notin hurt
    BY <1>0, <1>2, <1>3, NamesAssumption DEF AtWork
  <2> QED
    BY <2>1 DEF IInv, Rest, Settled
<1> QED
  BY <1>1, <1>4, <1>5, <1>6, <1>7, <1>8 DEF IInv

-----------------------------------------------------------------------------
(* The steps of the commands *)

\* A process in a command is at work on a version.
LEMMA Busy ==
  ASSUME IInv, NEW p \in Procs, ~At(p, "idle")
  PROVE  proc[p].name \in Names /\ proc[p] \in Command /\ versions[proc[p].name] \subseteq Parts
BY NamesAssumption DEF IInv, Working, TypeOK, Command

\* What Goto leaves alone.
LEMMA GotoElsewhere ==
  ASSUME IInv, NEW p \in Procs, NEW pc, Goto(p, pc),
         pc \in {"mkdir", "venv", "pip", "scripts", "cleanup", "read", "unlink", "write"},
         ~At(p, "idle"), hurt' = hurt,
         \A m \in Names \ {proc[p].name} : versions'[m] = versions[m] /\ (global' = m => global = m),
         versions' \in [Names -> SUBSET Parts],
         versions'[proc[p].name] # {} => "dir" \in versions'[proc[p].name],
         global' \in Texts, local' \in [Dirs -> Texts],
         proc[p].alone => Stage(p)'
  PROVE  IInv'
<1> DEFINE n == proc[p].name
<1>1. n \in Names /\ TypeOK
  BY Busy DEF IInv
<1>2. /\ proc' \in [Procs -> Command] /\ \A q \in Procs \ {p} : proc'[q] = proc[q]
      /\ proc'[p].pc = pc /\ proc'[p].name = n /\ proc'[p].alone = proc[p].alone
  BY <1>1, GotoTyped
<1>3. TypeOK'
  <2>1. \A m \in Names : versions'[m] # {} => "dir" \in versions'[m]
    BY <1>1 DEF TypeOK, Listed
  <2> QED
    BY <1>1, <1>2, <2>1 DEF TypeOK, Listed
<1>4. Elsewhere(p, n)
  BY <1>2 DEF Elsewhere
<1>5. ~At(p, "idle")'
  BY <1>2 DEF At
<1> QED
  BY <1>1, <1>2, <1>3, <1>4, <1>5, Worked

\* An entry of a tree goes.
LEMMA RemoveTreeKeeps ==
  ASSUME IInv, NEW p \in Procs, RemoveTree(p)
  PROVE  IInv'
<1> DEFINE n == proc[p].name
<1>1. PICK part \in Parts : Erase(n, part)
  BY DEF RemoveTree
<1>2. proc[p].pc \in {"clear", "cleanup", "remove"} /\ ~At(p, "idle")
  BY DEF RemoveTree, At
<1>3. n \in Names /\ TypeOK /\ n # None
  BY <1>2, Busy, NamesAssumption DEF IInv
<1>4. /\ versions' = [versions EXCEPT ![n] = versions[n] \ {part}]
      /\ UNCHANGED <<global, local, proc, hurt>>
      /\ part = "dir" => versions[n] = {"dir"}
  BY <1>1 DEF Erase
<1>5. versions'[n] = versions[n] \ {part} /\ \A m \in Names \ {n} : versions'[m] = versions[m]
  BY <1>3, <1>4 DEF TypeOK
<1>6. TypeOK'
  <2>1. versions' \in [Names -> SUBSET Parts]
    BY <1>3, <1>4 DEF TypeOK
  <2>2. \A m \in Names : versions'[m] # {} => "dir" \in versions'[m]
    BY <1>3, <1>4, <1>5 DEF TypeOK, Listed
  <2> QED
    BY <1>3, <1>4, <2>1, <2>2 DEF TypeOK, Listed
<1>7. Elsewhere(p, n)
  BY <1>4, <1>5 DEF Elsewhere
<1>8. proc[p].alone => Stage(p)'
  <2> SUFFICES ASSUME proc[p].alone
               PROVE  Stage(p)'
    OBVIOUS
  <2>1. Stage(p)
    BY <1>3 DEF IInv, Stages
  <2>2. Made(p, n)'
    BY <1>2, <1>4, <1>5, <2>1 DEF Stage, Made, At, Emptied
  <2>3. n \notin hurt' => Undisturbed(p, n)'
    BY <1>2, <1>4, <2>1 DEF Stage, Undisturbed, Selecting
  <2> QED
    BY <1>4, <2>2, <2>3 DEF Stage
<1> QED
  BY <1>2, <1>3, <1>4, <1>6, <1>7, <1>8, Worked DEF At

\* The old version is all gone: the install begins with the directory.
LEMMA ClearedKeeps ==
  ASSUME IInv, NEW p \in Procs, Cleared(p)
  PROVE  IInv'
<1> DEFINE n == proc[p].name
<1>1. /\ proc[p].pc = "clear" /\ ~At(p, "idle") /\ versions[n] = {} /\ Goto(p, "mkdir")
      /\ UNCHANGED <<versions, global, local, hurt>>
  BY DEF Cleared, At
<1>2. TypeOK /\ n # None
  BY <1>1, Busy, NamesAssumption DEF IInv
<1>3. proc'[p].pc = "mkdir" /\ proc'[p].name = n /\ proc'[p].forced = proc[p].forced
  BY <1>1, <1>2, GotoTyped
<1>4. proc[p].alone => Stage(p)'
  BY <1>1, <1>2, <1>3 DEF IInv, Stages, Stage, Made, Undisturbed, At, Emptied, Installing, Selecting
<1> QED
  BY <1>1, <1>2, <1>4, GotoElsewhere DEF TypeOK, Listed

\* The directory is made, or what was made is to be cleaned up.
LEMMA MakeDirectoryKeeps ==
  ASSUME IInv, NEW p \in Procs, MakeDirectory(p)
  PROVE  IInv'
<1> DEFINE n == proc[p].name
<1>1. PICK pc \in {"venv", "cleanup"} : Goto(p, pc)
  BY DEF MakeDirectory
<1>2. /\ proc[p].pc = "mkdir" /\ ~At(p, "idle")
      /\ versions' = [versions EXCEPT ![n] = versions[n] \cup {"dir"}]
      /\ UNCHANGED <<global, local, hurt>>
  BY DEF MakeDirectory, At
<1>3. n \in Names /\ TypeOK /\ n # None /\ versions[n] \subseteq Parts
  BY <1>2, Busy, NamesAssumption DEF IInv
<1>4. /\ versions' \in [Names -> SUBSET Parts]
      /\ versions'[n] = versions[n] \cup {"dir"}
      /\ \A m \in Names \ {n} : versions'[m] = versions[m]
  BY <1>2, <1>3 DEF TypeOK, Parts
<1>5. proc'[p].pc = pc /\ proc'[p].name = n /\ proc'[p].forced = proc[p].forced
  BY <1>1, <1>3, GotoTyped
<1>6. proc[p].alone => Stage(p)'
  BY <1>2, <1>3, <1>4, <1>5
     DEF IInv, Stages, Stage, Made, Undisturbed, At, Emptied, Installing, Selecting
<1> QED
  BY <1>1, <1>2, <1>3, <1>4, <1>6, GotoElsewhere DEF TypeOK

\* The venv is made anew.
LEMMA MakeVenvKeeps ==
  ASSUME IInv, NEW p \in Procs, MakeVenv(p)
  PROVE  IInv'
<1> DEFINE n == proc[p].name
<1>1. /\ proc[p].pc = "venv" /\ ~At(p, "idle") /\ Goto(p, "pip")
      /\ versions' = [versions EXCEPT ![n] = {"dir", "venv"}]
      /\ UNCHANGED <<global, local, hurt>>
  BY DEF MakeVenv, At
<1>2. n \in Names /\ TypeOK /\ n # None
  BY <1>1, Busy, NamesAssumption DEF IInv
<1>3. /\ versions' \in [Names -> SUBSET Parts]
      /\ versions'[n] = {"dir", "venv"}
      /\ \A m \in Names \ {n} : versions'[m] = versions[m]
  BY <1>1, <1>2 DEF TypeOK, Parts
<1>4. proc'[p].pc = "pip" /\ proc'[p].name = n /\ proc'[p].forced = proc[p].forced
  BY <1>1, <1>2, GotoTyped
<1>5. proc[p].alone => Stage(p)'
  BY <1>1, <1>2, <1>3, <1>4
     DEF IInv, Stages, Stage, Made, Undisturbed, At, Emptied, Installing, Selecting
<1> QED
  BY <1>1, <1>2, <1>3, <1>5, GotoElsewhere DEF TypeOK

\* The library is there; or pip has failed.
LEMMA PipKeeps ==
  ASSUME IInv, NEW p \in Procs, Pip(p)
  PROVE  IInv'
<1> DEFINE n == proc[p].name
<1>1. /\ proc[p].pc = "pip" /\ ~At(p, "idle") /\ UNCHANGED <<global, local, hurt>>
  BY DEF Pip, At
<1>2. n \in Names /\ TypeOK /\ n # None /\ versions[n] \subseteq Parts
  BY <1>1, Busy, NamesAssumption DEF IInv
<1>3. CASE /\ "venv" \in versions[n]
           /\ versions' = [versions EXCEPT ![n] = versions[n] \cup {"lib"}]
           /\ Goto(p, "scripts")
  <2>1. /\ versions' \in [Names -> SUBSET Parts]
        /\ versions'[n] = versions[n] \cup {"lib"} /\ "dir" \in versions[n]
        /\ \A m \in Names \ {n} : versions'[m] = versions[m]
    BY <1>2, <1>3 DEF TypeOK, Parts, Listed
  <2>2. proc'[p].pc = "scripts" /\ proc'[p].name = n /\ proc'[p].forced = proc[p].forced
    BY <1>2, <1>3, GotoTyped
  <2>3. proc[p].alone => Stage(p)'
    BY <1>1, <1>2, <2>1, <2>2
       DEF IInv, Stages, Stage, Made, Undisturbed, At, Emptied, Installing, Selecting
  <2> QED
    BY <1>1, <1>2, <1>3, <2>1, <2>3, GotoElsewhere DEF TypeOK
<1>4. CASE Goto(p, "cleanup") /\ UNCHANGED versions
  <2>1. proc'[p].pc = "cleanup" /\ proc'[p].name = n /\ proc'[p].forced = proc[p].forced
    BY <1>2, <1>4, GotoTyped
  <2>2. proc[p].alone => Stage(p)'
    BY <1>1, <1>2, <1>4, <2>1
       DEF IInv, Stages, Stage, Made, Undisturbed, At, Emptied, Installing, Selecting
  <2> QED
    BY <1>1, <1>2, <1>4, <2>2, GotoElsewhere DEF TypeOK, Listed
<1> QED
  BY <1>3, <1>4 DEF Pip

\* What the end of a command leaves alone.
LEMMA EndElsewhere ==
  ASSUME IInv, NEW p \in Procs, ~At(p, "idle"), proc' = [proc EXCEPT ![p] = Idle],
         NEW n \in Names, n = proc[p].name,
         hurt' \in {hurt, hurt \ {n}, hurt \cup {n}},
         \A m \in Names \ {n} : versions'[m] = versions[m] /\ (global' = m => global = m),
         versions' \in [Names -> SUBSET Parts], versions'[n] # {} => "dir" \in versions'[n],
         global' \in Texts, local' \in [Dirs -> Texts],
         n \notin hurt' => proc[p].alone /\ Settled(n)'
  PROVE  IInv'
<1>1. TypeOK
  BY DEF IInv
<1>2. /\ proc' \in [Procs -> Command] /\ \A q \in Procs \ {p} : proc'[q] = proc[q]
      /\ proc'[p] = Idle
  BY <1>1, IdleTyped
<1>3. hurt' \subseteq Names /\ \A m \in Names \ {n} : m \in hurt' <=> m \in hurt
  BY <1>1 DEF TypeOK
<1>4. TypeOK'
  <2>1. \A m \in Names : versions'[m] # {} => "dir" \in versions'[m]
    BY <1>1 DEF TypeOK, Listed
  <2> QED
    BY <1>1, <1>2, <1>3, <2>1 DEF TypeOK, Listed
<1>5. Elsewhere(p, n)
  BY <1>2, <1>3 DEF Elsewhere
<1> QED
  BY <1>1, <1>2, <1>4, <1>5, Ended

\* What a completed command makes of the accidents.
LEMMA Completed ==
  ASSUME IInv, NEW p \in Procs, ~At(p, "idle"), Complete(p)
  PROVE  /\ proc' = [proc EXCEPT ![p] = Idle]
         /\ hurt' \in {hurt, hurt \ {proc[p].name}}
         /\ proc[p].name \notin hurt' => proc[p].alone
BY Busy, NamesAssumption DEF Complete, IInv, Accidents

\* The install is over: the version is whole.
LEMMA InstalledKeeps ==
  ASSUME IInv, NEW p \in Procs, Installed(p)
  PROVE  IInv'
<1>0. PICK n \in Names : n = proc[p].name
  BY Busy DEF Installed, At
<1>1. /\ proc[p].pc = "scripts" /\ ~At(p, "idle") /\ UNCHANGED <<global, local>> /\ Complete(p)
      /\ "venv" \in versions[n]
      /\ versions' = [versions EXCEPT ![n] = versions[n] \cup {"exe"}]
  BY <1>0 DEF Installed, At
<1>2. n \in Names /\ TypeOK /\ n # None /\ versions[n] \subseteq Parts
  BY <1>0, <1>1, Busy, NamesAssumption DEF IInv
<1>3. /\ versions' \in [Names -> SUBSET Parts] /\ "dir" \in versions[n]
      /\ versions'[n] = versions[n] \cup {"exe"}
      /\ \A m \in Names \ {n} : versions'[m] = versions[m]
  BY <1>0, <1>1, <1>2 DEF TypeOK, Parts, Listed
<1>4. proc[p].alone => Settled(n)'
  BY <1>0, <1>1, <1>2, <1>3 DEF IInv, Stages, Stage, Made, At, Settled, Whole, Parts
<1> QED
  BY <1>0, <1>1, <1>2, <1>3, <1>4, Completed, EndElsewhere DEF TypeOK

\* A failed install is over: nothing is left of it, or it has done harm.
LEMMA GiveUpKeeps ==
  ASSUME IInv, NEW p \in Procs, GiveUp(p)
  PROVE  IInv'
<1>0. PICK n \in Names : n = proc[p].name
  BY Busy DEF GiveUp, At
<1>1. /\ proc[p].pc = "cleanup" /\ ~At(p, "idle")
      /\ proc' = [proc EXCEPT ![p] = Idle] /\ UNCHANGED <<versions, global, local>>
      /\ hurt' = IF proc[p].forced \/ versions[n] # {} THEN hurt \cup {n} ELSE hurt
  BY <1>0 DEF GiveUp, At
<1>2. n \in Names /\ TypeOK /\ n # None
  BY <1>0, <1>1, Busy, NamesAssumption DEF IInv
<1>3. n \notin hurt' => proc[p].alone /\ ~proc[p].forced /\ n \notin hurt /\ versions[n] = {}
  BY <1>0, <1>1, <1>2 DEF IInv, Accidents
<1>4. n \notin hurt' => Settled(n)'
  BY <1>0, <1>1, <1>2, <1>3 DEF IInv, Stages, Stage, Undisturbed, Installing, Settled
<1> QED
  BY <1>0, <1>1, <1>2, <1>3, <1>4, EndElsewhere DEF TypeOK, Listed

\* The version is all gone; the global file is looked at next.
LEMMA RemovedKeeps ==
  ASSUME IInv, NEW p \in Procs, Removed(p)
  PROVE  IInv'
<1> DEFINE n == proc[p].name
<1>1. /\ proc[p].pc = "remove" /\ ~At(p, "idle") /\ versions[n] = {} /\ Goto(p, "read")
      /\ UNCHANGED <<versions, global, local, hurt>>
  BY DEF Removed, At
<1>2. TypeOK /\ n # None
  BY <1>1, Busy, NamesAssumption DEF IInv
<1>3. proc'[p].pc = "read" /\ proc'[p].name = n
  BY <1>1, <1>2, GotoTyped
<1>4. proc[p].alone => Stage(p)'
  BY <1>1, <1>2, <1>3 DEF IInv, Stages, Stage, Made, Undisturbed, At, Emptied, Installing, Selecting
<1> QED
  BY <1>1, <1>2, <1>4, GotoElsewhere DEF TypeOK, Listed

\* The global file names the version, which is gone, or the command is over.
LEMMA ReadGlobalKeeps ==
  ASSUME IInv, NEW p \in Procs, ReadGlobal(p)
  PROVE  IInv'
<1>0. PICK n \in Names : n = proc[p].name
  BY Busy DEF ReadGlobal, At
<1>1. proc[p].pc = "read" /\ ~At(p, "idle") /\ UNCHANGED <<versions, global, local>>
  BY <1>0 DEF ReadGlobal, At
<1>2. TypeOK /\ n # None /\ n \in Names
  BY <1>0, <1>1, Busy, NamesAssumption DEF IInv
<1>3. CASE global = n
  <2>1. Goto(p, "unlink") /\ hurt' = hurt
    BY <1>0, <1>3 DEF ReadGlobal
  <2>2. proc'[p].pc = "unlink" /\ proc'[p].name = n
    BY <1>0, <1>2, <2>1, GotoTyped
  <2>3. proc[p].alone => Stage(p)'
    BY <1>0, <1>1, <1>2, <2>1, <2>2
       DEF IInv, Stages, Stage, Made, Undisturbed, At, Emptied, Installing, Selecting
  <2> QED
    BY <1>0, <1>1, <1>2, <2>1, <2>3, GotoElsewhere DEF TypeOK, Listed
<1>4. CASE global # n
  <2>1. Complete(p)
    BY <1>0, <1>4 DEF ReadGlobal
  <2>2. proc[p].alone => Settled(n)'
    BY <1>0, <1>1, <1>2, <1>4 DEF IInv, Stages, Stage, Made, Emptied, Settled
  <2> QED
    BY <1>0, <1>1, <1>2, <2>1, <2>2, Completed, EndElsewhere DEF TypeOK, Listed
<1> QED
  BY <1>3, <1>4

\* The global file goes, whichever version it names by now.
LEMMA UnlinkKeeps ==
  ASSUME IInv, NEW p \in Procs, Unlink(p)
  PROVE  IInv'
<1>0. PICK n \in Names : n = proc[p].name
  BY Busy DEF Unlink, At
<1>1. /\ proc[p].pc = "unlink" /\ ~At(p, "idle") /\ UNCHANGED <<versions, local>>
      /\ global' = None /\ Complete(p)
  BY <1>0 DEF Unlink, At
<1>2. TypeOK /\ n # None /\ n \in Names
  BY <1>0, <1>1, Busy, NamesAssumption DEF IInv
<1>3. proc[p].alone => Settled(n)'
  BY <1>0, <1>1, <1>2 DEF IInv, Stages, Stage, Made, Emptied, Settled
<1>4. global' \in Texts /\ \A m \in Names : global' # m
  BY <1>1, NamesAssumption DEF Texts
<1> QED
  BY <1>0, <1>1, <1>2, <1>3, <1>4, Completed, EndElsewhere DEF TypeOK, Listed

\* What is written to one of the files that select a version.
LEMMA PutTyped ==
  ASSUME TypeOK, NEW d \in Dirs \cup {0}, NEW text \in Texts, PutText(d, text)
  PROVE  /\ global' \in Texts /\ local' \in [Dirs -> Texts]
         /\ global' \in {global, text}
BY DEF PutText, TypeOK

\* The file that is to select the version is emptied.
LEMMA TruncateKeeps ==
  ASSUME IInv, NEW p \in Procs, Truncate(p)
  PROVE  IInv'
<1> DEFINE n == proc[p].name
<1>1. /\ proc[p].pc = "truncate" /\ ~At(p, "idle") /\ PutText(proc[p].dir, Blank)
      /\ Goto(p, "write") /\ UNCHANGED <<versions, hurt>>
  BY DEF Truncate, At
<1>2. TypeOK /\ n # None /\ n \in Names /\ proc[p].dir \in Dirs \cup {0}
  BY <1>1, Busy, NamesAssumption DEF IInv, Command
<1>3. /\ global' \in Texts /\ local' \in [Dirs -> Texts]
      /\ \A m \in Names : global' = m => global = m
  BY <1>1, <1>2, PutTyped, NamesAssumption DEF Texts
<1>4. proc'[p].pc = "write" /\ proc'[p].name = n
  BY <1>1, <1>2, GotoTyped
<1>5. proc[p].alone => Stage(p)'
  BY <1>1, <1>2, <1>4 DEF IInv, Stages, Stage, Made, Undisturbed, At, Emptied, Installing, Selecting
<1> QED
  BY <1>1, <1>2, <1>3, <1>5, GotoElsewhere DEF TypeOK, Listed

\* The version is selected.
LEMMA WriteNameKeeps ==
  ASSUME IInv, NEW p \in Procs, WriteName(p)
  PROVE  IInv'
<1>0. PICK n \in Names : n = proc[p].name
  BY Busy DEF WriteName, At
<1>1. /\ proc[p].pc = "write" /\ ~At(p, "idle") /\ PutText(proc[p].dir, n)
      /\ proc' = [proc EXCEPT ![p] = Idle] /\ UNCHANGED <<versions, hurt>>
  BY <1>0 DEF WriteName, At
<1>2. TypeOK /\ n # None /\ n \in Names /\ proc[p].dir \in Dirs \cup {0}
  BY <1>0, <1>1, Busy, NamesAssumption DEF IInv, Command
<1>3. /\ global' \in Texts /\ local' \in [Dirs -> Texts]
      /\ \A m \in Names \ {n} : global' = m => global = m
  BY <1>0, <1>1, <1>2, PutTyped DEF Texts
<1>4. n \notin hurt => proc[p].alone
  BY <1>0, <1>2 DEF IInv, Accidents
<1>5. n \notin hurt' => Settled(n)'
  BY <1>0, <1>1, <1>2, <1>4 DEF IInv, Stages, Stage, Undisturbed, Selecting, Settled
<1> QED
  BY <1>0, <1>1, <1>2, <1>3, <1>4, <1>5, EndElsewhere DEF TypeOK, Listed

\* The process is killed: that is an accident.
LEMMA DieKeeps ==
  ASSUME IInv, NEW p \in Procs, Die(p)
  PROVE  IInv'
<1>1. PICK n \in Names : n = proc[p].name
  BY Busy DEF Die
<1>2. n \in hurt'
  BY <1>1 DEF Die
<1> QED
  BY <1>1, <1>2, EndElsewhere DEF Die, IInv, TypeOK, Listed

\* A version no other process is at work on, when a command on it begins.
LEMMA BeginFinds ==
  ASSUME IInv, NEW p \in Procs, NEW c \in Command, c.name \in Names, Touch(p, c),
         UNCHANGED <<versions, global, local>>, Others(p, c.name) = {}
  PROVE  /\ TypeOK /\ hurt' = hurt
         /\ proc'[p].name = c.name /\ proc'[p].pc = c.pc /\ proc'[p].forced = c.forced
         /\ c.name \notin hurt => Settled(c.name)
<1>1. TypeOK /\ At(p, "idle") /\ proc[p].name = None
  BY DEF IInv, Working, Touch
<1>2. proc'[p] = [c EXCEPT !.alone = Others(p, c.name) = {}]
  BY <1>1, TouchTyped
<1>3. proc'[p].name = c.name /\ proc'[p].pc = c.pc /\ proc'[p].forced = c.forced
  BY <1>2 DEF Command
<1>4. ~AtWork(c.name)
  BY <1>1, NamesAssumption DEF AtWork, Others
<1> QED
  BY <1>1, <1>3, <1>4 DEF IInv, Rest, Touch

\* An install begins: one of an installed version with what is there, as it is
\* to be replaced, one of another version with nothing there or selecting it.
LEMMA BeginInstallKeeps ==
  ASSUME IInv, NEW p \in Procs, NEW n \in Names, NEW zip \in BOOLEAN, NEW forced \in BOOLEAN,
         BeginInstall(p, n, zip, forced)
  PROVE  IInv'
<1> DEFINE c == [Idle EXCEPT !.pc = IF Listed(n) THEN "clear" ELSE "mkdir",
                             !.name = n, !.zip = zip, !.forced = Listed(n)]
<1>1. /\ c \in Command /\ c.name = n /\ c.forced = Listed(n)
      /\ c.pc = IF Listed(n) THEN "clear" ELSE "mkdir"
  <2>1. Listed(n) = TRUE \/ Listed(n) = FALSE
    BY DEF Listed
  <2>2. CASE Listed(n) = TRUE
    BY <2>2, Zenon DEF Command, Idle
  <2>3. CASE Listed(n) = FALSE
    BY <2>3 DEF Command, Idle
  <2> QED
    BY <2>1, <2>2, <2>3
<1>2. Touch(p, c) /\ UNCHANGED <<versions, global, local>>
  BY DEF BeginInstall
<1> HIDE DEF c
<1>3. ASSUME Others(p, n) = {}
      PROVE  Stage(p)'
  <2>1. /\ TypeOK /\ hurt' = hurt /\ proc'[p].name = n /\ proc'[p].pc = c.pc
        /\ proc'[p].forced = c.forced /\ (n \notin hurt => Settled(n))
    BY <1>1, <1>2, <1>3, BeginFinds
  <2>2. ~Listed(n) => versions[n] = {}
    BY <2>1 DEF TypeOK
  <2>3. Made(p, n)'
    BY <1>1, <1>2, <2>1, <2>2 DEF Made, At, Emptied
  <2>4. n \notin hurt /\ ~Listed(n) => global # n
    BY <2>1, <2>2 DEF Settled, Whole, Parts
  <2>5. n \notin hurt => Undisturbed(p, n)'
    BY <1>1, <1>2, <2>1, <2>4 DEF Undisturbed, Selecting
  <2> QED
    BY <2>1, <2>3, <2>5 DEF Stage
<1> QED
  BY <1>1, <1>2, <1>3, Began

\* An uninstall begins.
LEMMA BeginUninstallKeeps ==
  ASSUME IInv, NEW p \in Procs, NEW n \in Names, BeginUninstall(p, n)
  PROVE  IInv'
<1> DEFINE c == [Idle EXCEPT !.pc = "remove", !.name = n]
<1>1. c \in Command /\ c.name = n /\ c.pc = "remove"
  BY DEF Command, Idle
<1>2. Touch(p, c) /\ UNCHANGED <<versions, global, local>>
  BY DEF BeginUninstall
<1> HIDE DEF c
<1>3. ASSUME Others(p, n) = {}
      PROVE  Stage(p)'
  BY <1>1, <1>2, <1>3, BeginFinds
     DEF Stage, Made, Undisturbed, At, Emptied, Installing, Selecting
<1> QED
  BY <1>1, <1>2, <1>3, Began

\* A version that is there is to be selected: it is whole.
LEMMA BeginSelectKeeps ==
  ASSUME IInv, NEW p \in Procs, NEW n \in Names, NEW d \in Dirs \cup {0}, BeginSelect(p, n, d)
  PROVE  IInv'
<1> DEFINE c == [Idle EXCEPT !.pc = "truncate", !.name = n, !.dir = d]
<1>1. c \in Command /\ c.name = n /\ c.pc = "truncate"
  BY DEF Command, Idle
<1>2. Touch(p, c) /\ UNCHANGED <<versions, global, local>> /\ Listed(n)
  BY DEF BeginSelect
<1> HIDE DEF c
<1>3. ASSUME Others(p, n) = {}
      PROVE  Stage(p)'
  <2>1. /\ hurt' = hurt /\ proc'[p].name = n /\ proc'[p].pc = "truncate"
        /\ (n \notin hurt => Settled(n))
    BY <1>1, <1>2, <1>3, BeginFinds
  <2>2. n \notin hurt => versions'[n] = Whole
    BY <1>2, <2>1 DEF Settled, Listed
  <2> QED
    BY <2>1, <2>2 DEF Stage, Made, Undisturbed, At, Emptied, Installing
<1> QED
  BY <1>1, <1>2, <1>3, Began

\* The choice of a directory is taken back.
LEMMA UnsetKeeps ==
  ASSUME IInv, NEW p \in Procs, NEW d \in Dirs, Unset(p, d)
  PROVE  IInv'
<1>1. TypeOK'
  BY DEF IInv, TypeOK, Unset, Texts, Listed
<1>2. UNCHANGED <<versions, global, proc, hurt>>
  BY DEF Unset
<1> QED
  BY <1>1, <1>2 DEF IInv, Working, Separate, Accidents, Stages, Stage, Made, Undisturbed, At,
                    Rest, AtWork, Settled

-----------------------------------------------------------------------------
(* The nearest file *)

\* The order of the natural numbers is well-founded, so a set of them has a least ...
Less == {ss \in Nat \X Nat : ss[1] < ss[2]}

LEMMA LessWellFounded == IsWellFoundedOn(Less, Nat)
BY NatLessThanWellFounded DEF OpToRel, Less

LEMMA Smallest ==
  ASSUME NEW T \in SUBSET Nat, T # {}
  PROVE  \E n \in T : \A m \in T : n <= m
<1>1. PICK n \in T : \A m \in T : ~(<<m, n>> \in Less)
  BY LessWellFounded, WFMin
<1>2. ASSUME NEW m \in T PROVE n <= m
  <2>1. <<m, n>> \in Nat \X Nat /\ ~(m < n)
    BY <1>1 DEF Less
  <2> QED
    BY <2>1
<1> QED
  BY <1>2

\* ... and a set of directories on the way up from cwd a nearest: the one with
\* the least distance.
LEMMA NearestIn ==
  ASSUME NEW cwd \in Nat, NEW ds \in SUBSET (1..cwd), ds # {}
  PROVE  Nearest(ds) \in ds
<1> DEFINE R == {k \in Nat : \E d \in ds : k = cwd - d}
<1>1. R \in SUBSET Nat /\ R # {}
  <2>1. PICK d \in ds : TRUE
    OBVIOUS
  <2>2. cwd - d \in R
    BY <2>1
  <2> QED
    BY <2>2
<1>2. PICK k \in R : \A m \in R : k <= m
  <2> HIDE DEF R
  <2> QED
    BY <1>1, Smallest
<1>3. PICK d \in ds : k = cwd - d
  BY <1>2
<1>4. ASSUME NEW e \in ds PROVE e <= d
  <2>1. cwd - e \in R
    OBVIOUS
  <2>2. k <= cwd - e
    BY <1>2, <2>1
  <2> QED
    BY <2>2, <1>3
<1> QED
  BY <1>4 DEF Nearest

-----------------------------------------------------------------------------
(* Theorems *)

\* Nothing is installed at first.
LEMMA Initially == Init => IInv
<1> SUFFICES ASSUME Init PROVE IInv
  OBVIOUS
<1>1. Idle \in Command /\ Idle.name = None /\ Idle.pc = "idle"
  BY DEF Idle, Command
<1>2. TypeOK
  BY <1>1 DEF Init, TypeOK, Texts, Listed
<1>3. \A p \in Procs : proc[p] = Idle
  BY DEF Init
<1>4. Working /\ Separate /\ Accidents /\ Stages
  BY <1>1, <1>3 DEF Working, Separate, Accidents, Stages, At
<1>5. Rest
  BY NamesAssumption DEF Rest, Settled, Init
<1> QED
  BY <1>2, <1>4, <1>5 DEF IInv

\* Every step keeps the invariant.
LEMMA Inductive == IInv /\ [Next]_vars => IInv'
<1> SUFFICES ASSUME IInv, [Next]_vars PROVE IInv'
  OBVIOUS
<1>1. CASE UNCHANGED vars
  BY <1>1 DEF vars, IInv, TypeOK, Listed, Working, Separate, Accidents, Stages, Stage, Made,
              Undisturbed, At, Rest, AtWork, Settled
<1>2. ASSUME NEW p \in Procs, Step(p) PROVE IInv'
  BY <1>2, RemoveTreeKeeps, ClearedKeeps, MakeDirectoryKeeps, MakeVenvKeeps, PipKeeps,
     InstalledKeeps, GiveUpKeeps, RemovedKeeps, ReadGlobalKeeps, UnlinkKeeps, TruncateKeeps,
     WriteNameKeeps DEF Step
<1> QED
  BY <1>1, <1>2, BeginInstallKeeps, BeginUninstallKeeps, BeginSelectKeeps, UnsetKeeps, DieKeeps
     DEF Next

\* The invariant of the version switcher holds throughout.
THEOREM Invariance == Spec => []IInv
BY Initially, Inductive, PTL DEF Spec

\* A version that nothing has happened to and no command is at work on is there
\* with all its parts or not at all, and is there when the global file names it:
\* for any number of versions, and of processes that each may die anywhere.
THEOREM VersionsWhole == Spec => []WholeOrGone
<1>1. IInv => WholeOrGone
  BY DEF IInv, Rest, Settled, WholeOrGone
<1> QED
  BY <1>1, Invariance, PTL

\* The shim finds the zy command of such a version only when all of it is there,
\* or one process, alone on it, is removing it.
THEOREM NeverHalfRun == Spec => []NoHalfRun
<1>1. IInv => NoHalfRun
  <2> SUFFICES ASSUME IInv, NEW n \in Names \ hurt, Found(n), versions[n] # Whole
               PROVE  \E p \in Procs : proc[p].name = n /\ proc[p].pc \in {"clear", "remove"}
    BY DEF NoHalfRun
  <2>1. "exe" \in versions[n] /\ n # None
    BY NamesAssumption DEF Found
  <2>2. PICK p \in Procs : proc[p].name = n
    BY <2>1 DEF IInv, Rest, Settled, AtWork
  <2>3. Stage(p) /\ proc[p].pc # "idle" /\ proc[p] \in Command
    BY <2>1, <2>2 DEF IInv, Accidents, Stages, Working, At, TypeOK
  <2>4. Made(p, n) /\ proc[p].pc \notin Selecting
    BY <2>2, <2>3 DEF Stage, Undisturbed
  <2>5. proc[p].pc \in {"clear", "remove"}
    BY <2>1, <2>3, <2>4 DEF Made, At, Emptied, Selecting, Command
  <2> QED
    BY <2>2, <2>5
<1> QED
  BY <1>1, Invariance, PTL

\* In every state zyenv and the shim agree on the active version wherever no
\* .zy-version on the way up is blank.
THEOREM ResolutionsAgree == Spec => []WhichIsShim
<1>1. IInv => WhichIsShim
  <2> SUFFICES ASSUME NEW env \in Names \cup {None}, NEW cwd \in Dirs,
                      \A d \in 1..cwd : local[d] # Blank
               PROVE  ResolveVersion(env, cwd) = Shim(env, cwd)
    BY DEF WhichIsShim
  <2> DEFINE files == {d \in 1..cwd : local[d] # None}
  <2>1. {d \in 1..cwd : local[d] \notin {None, Blank}} = files
    OBVIOUS
  <2>2. cwd \in Nat /\ files \in SUBSET (1..cwd)
    BY DEF Dirs
  <2>3. files # {} => Nearest(files) \in files
    <3> HIDE DEF files
    <3> QED
      BY <2>2, NearestIn
  <2>4. files # {} => local[Nearest(files)] # Blank
    BY <2>3
  <2> QED
    BY <2>1, <2>4 DEF ResolveVersion, Shim
<1> QED
  BY <1>1, Invariance, PTL

-----------------------------------------------------------------------------
(* The import paths and the levels below a file *)

\* A function that applies g once more at each number, and that there is one.
Iterates(f, start, g, n) == f = [i \in 0..n |-> IF i = 0 THEN start ELSE g[f[i - 1]]]

LEMMA IterationExists ==
  ASSUME NEW X, NEW start \in X, NEW g \in [X -> X], NEW N \in Nat
  PROVE  \E f \in [0..N -> X] : Iterates(f, start, g, N)
<1> DEFINE Bad == {n \in 0..N : ~ \E f \in [0..n -> X] : Iterates(f, start, g, n)}
<1>1. SUFFICES ASSUME Bad # {} PROVE FALSE
  OBVIOUS
<1>2. Bad \subseteq Nat
  OBVIOUS
<1>3. PICK n \in Bad : \A m \in Bad : n <= m
  BY <1>2, <1>1, Smallest, Zenon
<1>4. n \in 0..N
  BY <1>3
<1>5. CASE n = 0
  <2> DEFINE f == [i \in 0..0 |-> start]
  <2>1. f \in [0..0 -> X] /\ Iterates(f, start, g, 0)
    BY DEF Iterates
  <2> QED
    BY <1>3, <1>5, <2>1
<1>6. CASE n # 0
  <2>1. n - 1 \in 0..N /\ ~(n <= n - 1) /\ n \in Nat \ {0}
    BY <1>4, <1>6
  <2>2. n - 1 \notin Bad
    BY <1>3, <2>1
  <2>3. PICK f \in [0..(n - 1) -> X] : Iterates(f, start, g, n - 1)
    BY <2>1, <2>2
  <2> DEFINE h == [i \in 0..n |-> IF i < n THEN f[i] ELSE g[f[n - 1]]]
  <2>4. h \in [0..n -> X]
    <3>1. \A i \in 0..n : i < n => i \in 0..(n - 1)
      BY <2>1
    <3>2. n - 1 \in 0..(n - 1)
      BY <2>1
    <3> QED
      BY <3>1, <3>2
  <2>5. ASSUME NEW i \in 0..n PROVE h[i] = IF i = 0 THEN start ELSE g[h[i - 1]]
    <3>1. i - 1 < n /\ (i # 0 => i - 1 \in 0..n)
      BY <2>1
    <3>2. CASE i < n
      <4>1. i \in 0..(n - 1) /\ h[i] = f[i] /\ (i # 0 => h[i - 1] = f[i - 1])
        BY <3>1, <3>2
      <4>2. f[i] = IF i = 0 THEN start ELSE g[f[i - 1]]
        BY <2>3, <4>1 DEF Iterates
      <4> QED
        BY <4>1, <4>2
    <3>3. CASE i = n
      <4>1. h[i] = g[f[n - 1]] /\ h[i - 1] = f[n - 1] /\ i # 0
        BY <2>1, <3>1, <3>3
      <4> QED
        BY <3>3, <4>1
    <3> QED
      BY <3>2, <3>3, <2>1
  <2>6. h = [i \in 0..n |-> h[i]]
    OBVIOUS
  <2> HIDE DEF h
  <2>7. Iterates(h, start, g, n)
    BY <2>5, <2>6 DEF Iterates
  <2> QED
    BY <1>3, <2>4, <2>7
<1> QED
  BY <1>5, <1>6

\* A namespace and the file it is loaded from.
Nodes == Seq(Aliases) \X Files
Way(p, from, a) == <<Append(from[1], p.imports[from[2]][a].alias), p.imports[from[2]][a].target>>
Size(p, f) == Len(p.imports[f])
Start == <<<<>>, Root>>

LEMMA FilesFinite == IsFiniteSet(Files) /\ Cardinality(Files) \in Nat /\ Root \in Files
BY FilesAssumption, FS_CardinalityType

LEMMA ImportsTyped ==
  ASSUME NEW p \in Programs, NEW f \in Files
  PROVE  /\ p.imports[f] \in Seq(Import) /\ Size(p, f) \in Nat /\ DOMAIN p.imports[f] = 1..Size(p, f)
         /\ \A a \in 1..Size(p, f) : /\ p.imports[f][a].alias \in Aliases /\ p.imports[f][a].target \in Files
                                     /\ p.imports[f][a].via \in {"std", "crate", "package"}
<1>1. p \in Program
  BY FilesAssumption
<1>2. p.imports[f] \in Seq(Import)
  BY <1>1 DEF Program
<1>3. \A a \in 1..Len(p.imports[f]) : p.imports[f][a] \in Import
  BY <1>2, ElementOfSeq
<1> QED
  BY <1>2, <1>3 DEF Import, Size

LEMMA WayTyped ==
  ASSUME NEW p \in Programs, NEW x \in Nodes, NEW a \in 1..Size(p, x[2])
  PROVE  /\ Way(p, x, a) \in Nodes /\ Way(p, x, a) \in Ways(p, x)
         /\ Len(Way(p, x, a)[1]) = Len(x[1]) + 1
<1>1. x[1] \in Seq(Aliases) /\ x[2] \in Files
  BY DEF Nodes
<1>2. p.imports[x[2]][a].alias \in Aliases /\ p.imports[x[2]][a].target \in Files
  BY <1>1, ImportsTyped
<1>3. Way(p, x, a) \in Nodes /\ Len(Way(p, x, a)[1]) = Len(x[1]) + 1
  <2> DEFINE ns == Append(x[1], p.imports[x[2]][a].alias)
  <2>1. ns \in Seq(Aliases) /\ Len(ns) = Len(x[1]) + 1
    BY <1>1, <1>2
  <2> HIDE DEF ns
  <2>2. Way(p, x, a) = <<ns, p.imports[x[2]][a].target>>
    BY DEF Way, ns
  <2> QED
    BY <1>2, <2>1, <2>2 DEF Nodes
<1> QED
  BY <1>3 DEF Way, Ways, Size

LEMMA WaysAre ==
  ASSUME NEW p, NEW x, NEW y \in Ways(p, x)
  PROVE  \E a \in 1..Size(p, x[2]) : y = Way(p, x, a)
BY DEF Ways, Way, Size

LEMMA WaysTyped ==
  ASSUME NEW p \in Programs, NEW x \in Nodes
  PROVE  Ways(p, x) \subseteq Nodes
BY WayTyped, WaysAre

\* What the recursion of Paths says.
LEMMA PathsSteps ==
  ASSUME NEW p \in Programs
  PROVE  /\ Paths(p) \in [0..Cardinality(Files) -> SUBSET Nodes]
         /\ Paths(p)[0] = {Start}
         /\ \A n \in 1..Cardinality(Files) : Paths(p)[n] = Further(p, Paths(p)[n - 1])
<1> DEFINE N == Cardinality(Files)
           g == [ps \in SUBSET Nodes |-> Further(p, ps)]
           Solves(f) == f = [n \in 0..N |-> IF n = 0 THEN {Start} ELSE Further(p, f[n - 1])]
<1>1. g \in [SUBSET Nodes -> SUBSET Nodes]
  BY WaysTyped DEF Further
<1>2. {Start} \in SUBSET Nodes
  <2> DEFINE empty == <<>>
  <2>1. empty \in Seq(Aliases)
    OBVIOUS
  <2>2. Start = <<empty, Root>>
    BY DEF Start
  <2> HIDE DEF empty
  <2>3. Start \in Nodes
    BY <2>1, <2>2, FilesFinite DEF Nodes
  <2> QED
    BY <2>3
<1>3. N \in Nat
  BY FilesFinite
<1>4. PICK f \in [0..N -> SUBSET Nodes] : Iterates(f, {Start}, g, N)
  <2> HIDE DEF g, N
  <2> QED
    BY <1>1, <1>2, <1>3, IterationExists
<1>5. \A n \in 0..N : n # 0 => n - 1 \in 0..N
  BY <1>3
<1>6. Solves(f)
  <2>1. \A n \in 0..N : f[n] = IF n = 0 THEN {Start} ELSE g[f[n - 1]]
    BY <1>4 DEF Iterates
  <2>2. \A n \in 0..N : n # 0 => g[f[n - 1]] = Further(p, f[n - 1])
    BY <1>5
  <2>3. f = [n \in 0..N |-> f[n]]
    OBVIOUS
  <2> HIDE DEF g, N
  <2> QED
    BY <2>1, <2>2, <2>3
<1>7. Paths(p) = CHOOSE h : Solves(h)
  BY DEF Paths, Start
<1>8. Solves(Paths(p))
  <2> HIDE DEF Solves
  <2> QED
    BY <1>6, <1>7, Zenon
<1> DEFINE h == Paths(p)
<1> HIDE DEF h
<1>9. /\ h = [n \in 0..N |-> h[n]]
      /\ \A n \in 0..N : h[n] = IF n = 0 THEN {Start} ELSE Further(p, h[n - 1])
  BY <1>8 DEF h
<1> DEFINE Bad == {n \in 0..N : h[n] \notin SUBSET Nodes}
<1>10. Bad = {}
  <2>1. SUFFICES ASSUME Bad # {} PROVE FALSE
    OBVIOUS
  <2>2. Bad \subseteq Nat
    OBVIOUS
  <2>3. PICK n \in Bad : \A m \in Bad : n <= m
    BY <2>2, <2>1, Smallest, Zenon
  <2>4. n # 0
    BY <1>2, <1>9, <2>3
  <2>5. n - 1 \in 0..N /\ ~(n <= n - 1)
    BY <1>3, <2>3, <2>4
  <2>6. h[n - 1] \in SUBSET Nodes
    BY <2>3, <2>5
  <2>7. h[n] = Further(p, h[n - 1])
    BY <1>9, <2>3, <2>4
  <2>8. Further(p, h[n - 1]) \in SUBSET Nodes
    BY <1>1, <2>6
  <2> QED
    BY <2>3, <2>7, <2>8
<1>11. h \in [0..N -> SUBSET Nodes]
  BY <1>9, <1>10
<1>12. \A n \in 1..N : n \in 0..N /\ n # 0
  BY <1>3
<1>13. 0 \in 0..N
  BY <1>3
<1> QED
  BY <1>9, <1>11, <1>12, <1>13 DEF h

\* What the recursion of Levels says.
LEMMA LevelsSteps ==
  ASSUME NEW p \in Programs, NEW f0 \in Files
  PROVE  /\ Levels(p, f0) \in [0..Cardinality(Files) -> SUBSET Files]
         /\ Levels(p, f0)[0] = Targets(p, f0)
         /\ \A n \in 1..Cardinality(Files) : Levels(p, f0)[n] = Lower(p, Levels(p, f0)[n - 1])
<1> DEFINE N == Cardinality(Files)
           g == [ps \in SUBSET Files |-> Lower(p, ps)]
           Solves(f) == f = [n \in 0..N |-> IF n = 0 THEN Targets(p, f0) ELSE Lower(p, f[n - 1])]
<1>1. g \in [SUBSET Files -> SUBSET Files]
  BY ImportsTyped DEF Lower, Targets, Size
<1>2. Targets(p, f0) \in SUBSET Files
  BY ImportsTyped DEF Targets, Size
<1>3. N \in Nat
  BY FilesFinite
<1>4. PICK f \in [0..N -> SUBSET Files] : Iterates(f, Targets(p, f0), g, N)
  <2> HIDE DEF g, N
  <2> QED
    BY <1>1, <1>2, <1>3, IterationExists
<1>5. \A n \in 0..N : n # 0 => n - 1 \in 0..N
  BY <1>3
<1>6. Solves(f)
  <2>1. \A n \in 0..N : f[n] = IF n = 0 THEN Targets(p, f0) ELSE g[f[n - 1]]
    BY <1>4 DEF Iterates
  <2>2. \A n \in 0..N : n # 0 => g[f[n - 1]] = Lower(p, f[n - 1])
    BY <1>5
  <2>3. f = [n \in 0..N |-> f[n]]
    OBVIOUS
  <2> HIDE DEF g, N
  <2> QED
    BY <2>1, <2>2, <2>3
<1>7. Levels(p, f0) = CHOOSE h : Solves(h)
  BY DEF Levels
<1>8. Solves(Levels(p, f0))
  <2> HIDE DEF Solves
  <2> QED
    BY <1>6, <1>7, Zenon
<1> DEFINE h == Levels(p, f0)
<1> HIDE DEF h
<1>9. /\ h = [n \in 0..N |-> h[n]]
      /\ \A n \in 0..N : h[n] = IF n = 0 THEN Targets(p, f0) ELSE Lower(p, h[n - 1])
  BY <1>8 DEF h
<1> DEFINE Bad == {n \in 0..N : h[n] \notin SUBSET Files}
<1>10. Bad = {}
  <2>1. SUFFICES ASSUME Bad # {} PROVE FALSE
    OBVIOUS
  <2>2. Bad \subseteq Nat
    OBVIOUS
  <2>3. PICK n \in Bad : \A m \in Bad : n <= m
    BY <2>2, <2>1, Smallest, Zenon
  <2>4. n # 0
    BY <1>2, <1>9, <2>3
  <2>5. n - 1 \in 0..N /\ ~(n <= n - 1)
    BY <1>3, <2>3, <2>4
  <2>6. h[n - 1] \in SUBSET Files
    BY <2>3, <2>5
  <2>7. h[n] = Lower(p, h[n - 1])
    BY <1>9, <2>3, <2>4
  <2>8. Lower(p, h[n - 1]) \in SUBSET Files
    BY <1>1, <2>6
  <2> QED
    BY <2>3, <2>7, <2>8
<1>11. h \in [0..N -> SUBSET Files]
  BY <1>9, <1>10
<1>12. \A n \in 1..N : n \in 0..N /\ n # 0
  BY <1>3
<1>13. 0 \in 0..N
  BY <1>3
<1> QED
  BY <1>9, <1>11, <1>12, <1>13 DEF h

LEMMA PathsGrow ==
  ASSUME NEW p \in Programs, NEW n \in 0..Cardinality(Files)
  PROVE  /\ Paths(p)[n] \subseteq Everything(p)
         /\ n < Cardinality(Files) => \A x \in Paths(p)[n] : Ways(p, x) \subseteq Paths(p)[n + 1]
<1> DEFINE N == Cardinality(Files)
           h == Paths(p)
<1>1. N \in Nat
  BY FilesFinite
<1>2. \A m \in 1..N : h[m] = h[m - 1] \cup UNION {Ways(p, x) : x \in h[m - 1]}
  BY PathsSteps DEF Further
<1>3. Everything(p) = h[N]
  BY DEF Everything
<1> HIDE DEF N, h
<1> DEFINE Bad == {m \in Nat : n + m \in 0..N /\ ~(h[n] \subseteq h[n + m])}
<1>4. Bad = {}
  <2>1. SUFFICES ASSUME Bad # {} PROVE FALSE
    OBVIOUS
  <2>2. Bad \subseteq Nat
    OBVIOUS
  <2>3. PICK m \in Bad : \A k \in Bad : m <= k
    BY <2>2, <2>1, Smallest, Zenon
  <2>4. m # 0
    <3>1. n + 0 = n
      BY DEF N
    <3> QED
      BY <2>3, <3>1
  <2>5. m \in Nat /\ m - 1 \in Nat /\ ~(m <= m - 1) /\ n + (m - 1) \in 0..N /\ n + m \in 1..N /\ (n + m) - 1 = n + (m - 1)
    BY <1>1, <2>3, <2>4 DEF N
  <2>6. h[n] \subseteq h[n + (m - 1)]
    BY <2>3, <2>5
  <2>7. h[n + (m - 1)] \subseteq h[n + m]
    BY <1>2, <2>5
  <2> QED
    BY <2>3, <2>6, <2>7
<1>5. h[n] \subseteq h[N]
  <2>1. N - n \in Nat /\ n + (N - n) = N /\ N \in 0..N
    BY <1>1 DEF N
  <2>2. N - n \notin Bad
    BY <1>4
  <2> QED
    BY <2>1, <2>2
<1>6. ASSUME n < N, NEW x \in h[n] PROVE Ways(p, x) \subseteq h[n + 1]
  <2>1. n + 1 \in 1..N /\ (n + 1) - 1 = n
    BY <1>1, <1>6 DEF N
  <2> QED
    BY <1>2, <1>6, <2>1
<1> QED
  BY <1>3, <1>5, <1>6 DEF N, h

\* What has the root and with a path its ways on has every path.
LEMMA PathsClosed ==
  ASSUME NEW p \in Programs, NEW xs, Start \in xs, \A x \in xs : Ways(p, x) \subseteq xs
  PROVE  Everything(p) \subseteq xs
<1> DEFINE N == Cardinality(Files)
           h == Paths(p)
           Bad == {n \in 0..N : ~(h[n] \subseteq xs)}
<1>1. N \in Nat
  BY FilesFinite
<1>2. h[0] = {Start} /\ \A m \in 1..N : h[m] = h[m - 1] \cup UNION {Ways(p, x) : x \in h[m - 1]}
  BY PathsSteps DEF Further
<1>3. Everything(p) = h[N]
  BY DEF Everything
<1> HIDE DEF N, h
<1>4. Bad = {}
  <2>1. SUFFICES ASSUME Bad # {} PROVE FALSE
    OBVIOUS
  <2>2. Bad \subseteq Nat
    OBVIOUS
  <2>3. PICK n \in Bad : \A m \in Bad : n <= m
    BY <2>2, <2>1, Smallest, Zenon
  <2>4. n # 0
    BY <1>2, <2>3
  <2>5. n - 1 \in 0..N /\ ~(n <= n - 1) /\ n \in 1..N
    BY <1>1, <2>3, <2>4
  <2>6. h[n - 1] \subseteq xs
    BY <2>3, <2>5
  <2>7. h[n] \subseteq xs
    BY <1>2, <2>5, <2>6
  <2> QED
    BY <2>3, <2>7
<1>5. N \in 0..N
  BY <1>1
<1> QED
  BY <1>3, <1>4, <1>5

LEMMA EverythingTyped ==
  ASSUME NEW p \in Programs
  PROVE  Everything(p) \subseteq Nodes /\ Start \in Everything(p)
<1>1. Cardinality(Files) \in 0..Cardinality(Files) /\ 0 \in 0..Cardinality(Files)
  BY FilesFinite
<1>2. Everything(p) \subseteq Nodes
  BY <1>1, PathsSteps DEF Everything
<1>3. Start \in Everything(p)
  BY <1>1, PathsSteps, PathsGrow
<1> QED
  BY <1>2, <1>3

LEMMA LevelsClosed ==
  ASSUME NEW p \in Programs, NEW f \in Files, NEW fs,
         Targets(p, f) \subseteq fs, \A g \in fs : Targets(p, g) \subseteq fs
  PROVE  Below(p, f) \subseteq fs
<1> DEFINE N == Cardinality(Files)
           h == Levels(p, f)
           Bad == {n \in 0..N : ~(h[n] \subseteq fs)}
<1>1. N \in Nat
  BY FilesFinite
<1>2. h[0] = Targets(p, f) /\ \A m \in 1..N : h[m] = h[m - 1] \cup UNION {Targets(p, g) : g \in h[m - 1]}
  BY LevelsSteps DEF Lower
<1>3. Below(p, f) = h[N]
  BY DEF Below
<1> HIDE DEF N, h
<1>4. Bad = {}
  <2>1. SUFFICES ASSUME Bad # {} PROVE FALSE
    OBVIOUS
  <2>2. Bad \subseteq Nat
    OBVIOUS
  <2>3. PICK n \in Bad : \A m \in Bad : n <= m
    BY <2>2, <2>1, Smallest, Zenon
  <2>4. n # 0
    BY <1>2, <2>3
  <2>5. n - 1 \in 0..N /\ ~(n <= n - 1) /\ n \in 1..N
    BY <1>1, <2>3, <2>4
  <2>6. h[n - 1] \subseteq fs
    BY <2>3, <2>5
  <2>7. h[n] \subseteq fs
    BY <1>2, <2>5, <2>6
  <2> QED
    BY <2>3, <2>7
<1>5. N \in 0..N
  BY <1>1
<1> QED
  BY <1>3, <1>4, <1>5

\* A chain of imports leads down at most as many levels as it has files.
LEMMA ChainBelow ==
  ASSUME NEW p \in Programs, NEW n \in 1..Cardinality(Files), NEW s \in [1..(n + 1) -> Files],
         \A i \in 1..n : s[i + 1] \in Targets(p, s[i])
  PROVE  s[n + 1] \in Below(p, s[1])
<1> DEFINE N == Cardinality(Files)
           f == s[1]
           h == Levels(p, f)
<1>1. N \in Nat /\ n \in Nat /\ n <= N /\ 1 <= n
  BY FilesFinite
<1>2. f \in Files
  BY <1>1
<1>3. h[0] = Targets(p, f) /\ \A m \in 1..N : h[m] = h[m - 1] \cup UNION {Targets(p, g) : g \in h[m - 1]}
  BY <1>2, LevelsSteps DEF Lower
<1>4. Below(p, f) = h[N]
  BY DEF Below
<1> HIDE DEF N, h
\* The file reached by m imports, and by no more than m, is at the levels from m on.
<1> DEFINE There(m) == IF m < n THEN s[m + 2] ELSE s[n + 1]
           Bad == {m \in 0..N : There(m) \notin h[m]}
<1>5. Bad = {}
  <2>1. SUFFICES ASSUME Bad # {} PROVE FALSE
    OBVIOUS
  <2>2. Bad \subseteq Nat
    OBVIOUS
  <2>3. PICK m \in Bad : \A k \in Bad : m <= k
    BY <2>2, <2>1, Smallest, Zenon
  <2>4. m # 0
    <3>1. 1 \in 1..n /\ 0 < n /\ There(0) = s[1 + 1]
      BY <1>1
    <3> QED
      BY <1>3, <2>3, <3>1
  <2>5. m - 1 \in 0..N /\ ~(m <= m - 1) /\ m \in 1..N /\ m \in Nat
    BY <1>1, <2>3, <2>4
  <2>6. There(m - 1) \in h[m - 1]
    BY <2>3, <2>5
  <2>7. CASE m < n
    <3>1. m - 1 < n /\ (m - 1) + 2 = m + 1 /\ (m + 1) + 1 = m + 2 /\ m + 1 \in 1..n
      BY <1>1, <2>5, <2>7
    <3>2. There(m - 1) = s[m + 1] /\ There(m) = s[(m + 1) + 1]
      BY <2>7, <3>1
    <3>3. s[(m + 1) + 1] \in Targets(p, s[m + 1])
      BY <3>1
    <3> QED
      BY <1>3, <2>3, <2>5, <2>6, <3>2, <3>3
  <2>8. CASE ~(m < n)
    <3>1. There(m - 1) = s[n + 1] /\ There(m) = s[n + 1]
      <4>1. m - 1 < n => m = n /\ (m - 1) + 2 = n + 1
        BY <1>1, <2>5, <2>8
      <4> QED
        BY <2>8, <4>1
    <3> QED
      BY <1>3, <2>3, <2>5, <2>6, <3>1
  <2> QED
    BY <2>7, <2>8
<1>6. N \in 0..N /\ ~(N < n)
  BY <1>1
<1>7. There(N) \in h[N] /\ There(N) = s[n + 1]
  BY <1>5, <1>6
<1> QED
  BY <1>4, <1>7

-----------------------------------------------------------------------------
(* The walk: what is so of the calls in progress and the definitions delivered *)

Definition == [kind : {"struct", "module"}, file : Files, ns : Seq(Aliases)]
Frames == [file : Files, ns : Seq(Aliases), next : Nat, generated : Seq(Definition)]

Node(d) == <<d.ns, d.file>>
Mods(ds) == {i \in DOMAIN ds : ds[i].kind = "module"}
Met(st, ds) == {Node(ds[i]) : i \in Mods(ds)} \cup {Node(st[k]) : k \in DOMAIN st}
Struct(f, ns) == [kind |-> "struct", file |-> f, ns |-> ns]

\* The namespace us begins with the namespace vs.
Under(vs, us) == Len(vs) <= Len(us) /\ \A m \in 1..Len(vs) : us[m] = vs[m]

\* The calls in progress are an import path, of different files.
Framed(p, st) ==
    \A k \in 1..Len(st) : /\ st[k].next \in 1..(Size(p, st[k].file) + 1)
                          /\ Len(st[k].ns) = k - 1 /\ k - 1 \in 0..Cardinality(Files)
                          /\ Node(st[k]) \in Paths(p)[k - 1]
Linked(p, st) ==
    \A k \in 1..(Len(st) - 1) : /\ st[k].next \in 2..(Size(p, st[k].file) + 1)
                                /\ Node(st[k + 1]) = Way(p, Node(st[k]), st[k].next - 1)
Apart(st) == \A k, l \in 1..Len(st) : st[k].file = st[l].file => k = l

\* What has been delivered is behind what it imports, and so is what a call in
\* progress has gone through.
Delivered(ds, x, i) == \E j \in Mods(ds) : j < i /\ Node(ds[j]) = x
Behind(p, ds) ==
    \A i \in Mods(ds) : /\ Node(ds[i]) \in Everything(p)
                        /\ \A a \in 1..Size(p, ds[i].file) : Delivered(ds, Way(p, Node(ds[i]), a), i)
Begun(p, st, ds) ==
    \A k \in 1..Len(st) : \A a \in 1..(st[k].next - 1) :
        \/ k < Len(st) /\ a = st[k].next - 1
        \/ Delivered(ds, Way(p, Node(st[k]), a), Len(ds) + 1)

\* It has also passed the checks of imports.
Checked(p, f, n) ==
    \A a \in 1..n : p.imports[f][a].alias \notin Seen(p, f, a) /\ Allowed(p, f, p.imports[f][a])
Passed(p, st, ds) ==
    /\ \A k \in 1..Len(st) : Checked(p, st[k].file, st[k].next - 1)
    /\ \A i \in Mods(ds) : Checked(p, ds[i].file, Size(p, ds[i].file))

\* What has been delivered of the namespace of a call in progress has come by an
\* import that call has begun; a namespace is delivered once, behind those in it.
Fresh(p, st, ds) ==
    \A i \in Mods(ds), k \in 1..Len(st) : Under(st[k].ns, ds[i].ns) =>
        k <= Len(ds[i].ns) /\ ds[i].ns[k] \in Seen(p, st[k].file, st[k].next)
InOrder(ds) == \A i, j \in Mods(ds) : Under(ds[j].ns, ds[i].ns) => i <= j

\* The counters count what has been met.
Counts(p, st, ds, un, ex) ==
    /\ Start \in Met(st, ds) /\ IsFiniteSet(Met(st, ds))
    /\ ex = Cardinality(Met(st, ds)) /\ un = {x[2] : x \in Met(st, ds)}
    /\ \A x \in Met(st, ds) : Len(x[1]) <= MaxDepth /\ x[2] \in p.exists

\* The structs of templates: each native module has its own in front of it, and
\* a legacy template has one, with the first call for its file or delivered.
Prepared(p, st) ==
    \A k \in 1..Len(st) :
        LET f == st[k].file IN
        /\ p.native[f] = "none" => st[k].generated = <<>>
        /\ p.native[f] = "module" => st[k].generated = <<Struct(f, st[k].ns)>>
        /\ p.native[f] = "legacy" => st[k].generated \in {<<>>, <<Struct(f, <<>>)>>}
Structured(p, ds) ==
    /\ \A i \in DOMAIN ds \ Mods(ds) :
           /\ p.native[ds[i].file] \in {"module", "legacy"}
           /\ p.native[ds[i].file] = "legacy" => ds[i].ns = <<>>
           /\ p.native[ds[i].file] = "module" => i + 1 \in Mods(ds) /\ Node(ds[i + 1]) = Node(ds[i])
    /\ \A i \in Mods(ds) : p.native[ds[i].file] = "module" =>
           \E j \in DOMAIN ds : ds[j] = Struct(ds[i].file, ds[i].ns)
Holds(ds, f) == {i \in DOMAIN ds \ Mods(ds) : ds[i].file = f}
Held(st, f) == {k \in 1..Len(st) : st[k].file = f /\ st[k].generated # <<>>}
Once(p, st, ds, un, em) ==
    /\ em = {f \in un : p.native[f] = "legacy"}
    /\ \A f \in Files : p.native[f] = "legacy" =>
           /\ f \notin em => Holds(ds, f) = {}
           /\ f \in em => \/ Held(st, f) = {} /\ \E i \in DOMAIN ds : Holds(ds, f) = {i}
                          \/ Held(st, f) # {} /\ Holds(ds, f) = {}

Walk(p, st, ds, em, un, ex) ==
    /\ st \in Seq(Frames) /\ ds \in Seq(Definition)
    /\ Framed(p, st) /\ Linked(p, st) /\ Apart(st)
    /\ Behind(p, ds) /\ Begun(p, st, ds) /\ Passed(p, st, ds)
    /\ Fresh(p, st, ds) /\ InOrder(ds)
    /\ Counts(p, st, ds, un, ex)
    /\ Prepared(p, st) /\ Structured(p, ds) /\ Once(p, st, ds, un, em)

LoadInv ==
    /\ VerdictRight /\ PathsDelivered /\ StructsThere
    /\ Situations(program) \subseteq Shapes
    /\ verdict = "loading" =>
           /\ stack # <<>> /\ stack[1].file = Root /\ stack[1].ns = <<>>
           /\ Walk(program, stack, defs, emitted, unique, expansions)

LEMMA FrameTyped ==
  ASSUME NEW st \in Seq(Frames), NEW k \in 1..Len(st)
  PROVE  /\ st[k] \in Frames /\ st[k].file \in Files /\ st[k].ns \in Seq(Aliases) /\ st[k].next \in Nat
         /\ st[k].generated \in Seq(Definition) /\ Node(st[k]) \in Nodes
         /\ Node(st[k])[1] = st[k].ns /\ Node(st[k])[2] = st[k].file
<1>1. st[k] \in Frames
  BY ElementOfSeq
<1> QED
  BY <1>1 DEF Frames, Node, Nodes

LEMMA DefinitionTyped ==
  ASSUME NEW ds \in Seq(Definition), NEW i \in DOMAIN ds
  PROVE  /\ ds[i] \in Definition /\ ds[i].file \in Files /\ ds[i].ns \in Seq(Aliases)
         /\ ds[i].kind \in {"struct", "module"} /\ Node(ds[i]) \in Nodes
         /\ Node(ds[i])[1] = ds[i].ns /\ Node(ds[i])[2] = ds[i].file
<1>1. ds[i] \in Definition
  OBVIOUS
<1> QED
  BY <1>1 DEF Definition, Node, Nodes

\* There are no more calls in progress than files.
LEMMA StackBound ==
  ASSUME NEW st \in Seq(Frames), Apart(st)
  PROVE  Len(st) \in 0..Cardinality(Files)
<1> DEFINE n == Len(st)
           f == [k \in 1..n |-> st[k].file]
<1>1. n \in Nat /\ IsFiniteSet(1..n) /\ Cardinality(1..n) = n
  <2>1. n \in Nat
    OBVIOUS
  <2> HIDE DEF n
  <2> QED
    BY <2>1, FS_Interval
<1>2. f \in [1..n -> Files]
  BY FrameTyped
<1>3. SUFFICES ASSUME ~(n <= Cardinality(Files)) PROVE FALSE
  BY <1>1, FilesFinite
<1>4. Cardinality(Files) < Cardinality(1..n)
  BY <1>1, <1>3, FilesFinite
<1> HIDE DEF n
<1>5. \E k, l \in 1..n : k # l /\ f[k] = f[l]
  <2> HIDE DEF f
  <2> QED
    BY <1>1, <1>2, <1>4, FilesFinite, FS_PigeonHole
<1> QED
  BY <1>5 DEF Apart, n

\* The namespace of a call in progress names the imports its callers are at.
LEMMA ChainNames ==
  ASSUME NEW p \in Programs, NEW st \in Seq(Frames), Framed(p, st), Linked(p, st),
         NEW k \in 1..Len(st), NEW l \in 1..Len(st), k < l
  PROVE  /\ st[l].ns[k] = p.imports[st[k].file][st[k].next - 1].alias
         /\ st[l].ns[k] \in Seen(p, st[k].file, st[k].next)
         /\ Under(st[k].ns, st[l].ns)
<1> DEFINE name == p.imports[st[k].file][st[k].next - 1].alias
           Right(m) == st[m].ns[k] = name /\ \A i \in 1..(k - 1) : st[m].ns[i] = st[k].ns[i]
           Bad == {m \in (k + 1)..Len(st) : ~Right(m)}
<1>1. Len(st) \in Nat /\ k \in Nat /\ l \in Nat
  OBVIOUS
<1>2. \A m \in 1..Len(st) : st[m].ns \in Seq(Aliases) /\ Len(st[m].ns) = m - 1
  BY FrameTyped DEF Framed
<1>3. ASSUME NEW m \in 1..(Len(st) - 1)
      PROVE  st[m + 1].ns = Append(st[m].ns, p.imports[st[m].file][st[m].next - 1].alias)
  <2>1. m \in 1..Len(st) /\ m + 1 \in 1..Len(st)
    BY <1>1
  <2>2. Node(st[m + 1]) = Way(p, Node(st[m]), st[m].next - 1)
    BY <1>3 DEF Linked
  <2>3. Node(st[m])[1] = st[m].ns /\ Node(st[m])[2] = st[m].file /\ Node(st[m + 1])[1] = st[m + 1].ns
    BY <2>1, FrameTyped
  <2> QED
    BY <2>2, <2>3 DEF Way
<1>4. Bad = {}
  <2>1. SUFFICES ASSUME Bad # {} PROVE FALSE
    OBVIOUS
  <2>2. Bad \subseteq Nat
    BY <1>1
  <2>3. PICK m \in Bad : \A i \in Bad : m <= i
    BY <2>2, <2>1, Smallest, Zenon
  <2>4. m \in (k + 1)..Len(st)
    BY <2>3
  <2>5. ~Right(m)
    BY <2>3
  <2>6. /\ m \in Nat /\ m - 1 \in 1..(Len(st) - 1) /\ m - 1 \in 1..Len(st) /\ (m - 1) + 1 = m
        /\ ~(m <= m - 1) /\ m - 1 >= k
    BY <1>1, <2>4
  <2> DEFINE s == st[m - 1].ns
             e == p.imports[st[m - 1].file][st[m - 1].next - 1].alias
  <2>7. st[m].ns = Append(s, e) /\ s \in Seq(Aliases) /\ Len(s) = m - 2
    <3>1. st[(m - 1) + 1].ns = Append(s, e)
      BY <1>3, <2>6
    <3>2. s \in Seq(Aliases) /\ Len(s) = (m - 1) - 1
      BY <1>2, <2>6
    <3> QED
      BY <2>6, <3>1, <3>2
  <2>8. CASE m = k + 1
    <3>1. m - 1 = k
      BY <1>1, <2>8
    <3>2. s = st[k].ns /\ e = name
      BY <3>1
    <3> HIDE DEF s, e, name
    <3>3. Append(s, e)[k] = e /\ \A i \in 1..(k - 1) : Append(s, e)[i] = s[i]
      BY <1>1, <2>7, <2>8
    <3>4. st[m].ns[k] = name /\ \A i \in 1..(k - 1) : st[m].ns[i] = st[k].ns[i]
      BY <2>7, <3>2, <3>3
    <3> QED
      BY <2>5, <3>4
  <2>9. CASE m # k + 1
    <3>1. m - 1 \in (k + 1)..Len(st)
      BY <1>1, <2>4, <2>6, <2>9
    <3>2. m - 1 \notin Bad
      BY <2>3, <2>6
    <3>3. Right(m - 1)
      BY <3>1, <3>2
    <3> HIDE DEF e, name
    <3>4. \A i \in 1..k : Append(s, e)[i] = s[i]
      <4> HIDE DEF s
      <4>1. \A i \in 1..k : i \in 1..Len(s)
        BY <1>1, <2>4, <2>7, <2>9
      <4> QED
        BY <2>7, <4>1
    <3>5. k \in 1..k /\ \A i \in 1..(k - 1) : i \in 1..k
      BY <1>1
    <3>6. Right(m)
      BY <2>7, <3>3, <3>4, <3>5
    <3> QED
      BY <2>5, <3>6
  <2> QED
    BY <2>8, <2>9
<1>5. l \in (k + 1)..Len(st)
  BY <1>1
<1>6. Right(l)
  BY <1>4, <1>5
<1>7. st[k].next - 1 \in 1..(st[k].next - 1)
  <2>1. k \in 1..(Len(st) - 1)
    BY <1>1
  <2>2. st[k].next \in 2..(Size(p, st[k].file) + 1)
    BY <2>1 DEF Linked
  <2>3. Size(p, st[k].file) \in Nat
    BY FrameTyped, ImportsTyped
  <2> QED
    BY <2>2, <2>3
<1>8. Under(st[k].ns, st[l].ns)
  <2>1. Len(st[k].ns) = k - 1 /\ Len(st[l].ns) = l - 1
    BY <1>2
  <2>2. k - 1 <= l - 1
    BY <1>1
  <2> QED
    BY <1>6, <2>1, <2>2, Zenon DEF Under
<1> QED
  BY <1>6, <1>7, <1>8, Zenon DEF Seen

\* What Deliver appends: the structs made for the call, which are one at most, and its module.
LEMMA DeliverParts ==
  ASSUME NEW p \in Programs, NEW st \in Seq(Frames), NEW ds \in Seq(Definition), Prepared(p, st),
         NEW k \in 1..Len(st)
  PROVE  LET all == Deliver(st[k], ds)
             new == Len(all) IN
         /\ all \in Seq(Definition) /\ new \in Nat /\ new > Len(ds) /\ DOMAIN all = 1..new
         /\ \A i \in DOMAIN ds : i \in DOMAIN all /\ all[i] = ds[i] /\ i < new
         /\ Mods(all) = Mods(ds) \cup {new} /\ Node(all[new]) = Node(st[k])
         /\ all[new].file = st[k].file /\ all[new].ns = st[k].ns
         /\ st[k].generated = <<>> => DOMAIN all \ Mods(all) = DOMAIN ds \ Mods(ds)
         /\ st[k].generated # <<>> =>
                /\ DOMAIN all \ Mods(all) = (DOMAIN ds \ Mods(ds)) \cup {new - 1}
                /\ new - 1 \notin DOMAIN ds /\ new - 1 \in Nat
                /\ p.native[st[k].file] = "module" => all[new - 1] = Struct(st[k].file, st[k].ns)
                /\ p.native[st[k].file] = "legacy" => all[new - 1] = Struct(st[k].file, <<>>)
                /\ p.native[st[k].file] \in {"module", "legacy"}
<1> DEFINE g == st[k].generated
           mod == [kind |-> "module", file |-> st[k].file, ns |-> st[k].ns]
           all == Deliver(st[k], ds)
           L == Len(ds)
           new == Len(all)
           f == st[k].file
<1>1. g \in Seq(Definition) /\ f \in Files /\ st[k].ns \in Seq(Aliases) /\ mod \in Definition
  BY FrameTyped DEF Definition
<1>2. L \in Nat /\ DOMAIN ds = 1..L
  OBVIOUS
<1>3. p.native[f] \in {"none", "module", "legacy"}
  BY <1>1, FilesAssumption DEF Program
<1> DEFINE e(b) == Struct(f, IF b THEN st[k].ns ELSE <<>>)
<1>4. g = <<>> \/ /\ g = <<Struct(f, st[k].ns)>> \/ g = <<Struct(f, <<>>)>>
                  /\ p.native[f] = "module" => g = <<Struct(f, st[k].ns)>>
                  /\ p.native[f] = "legacy" => g = <<Struct(f, <<>>)>>
                  /\ p.native[f] \in {"module", "legacy"}
  BY <1>3 DEF Prepared
<1>5. all = (ds \o g) \o <<mod>>
  BY DEF Deliver
<1>6. mod.kind = "module" /\ mod.file = f /\ mod.ns = st[k].ns /\ \A us : Struct(f, us).kind = "struct"
  BY DEF Struct
<1> HIDE DEF mod
<1>7. CASE g = <<>>
  <2> DEFINE base == ds \o g
  <2>1. base = ds
    BY <1>7
  <2>2. all = Append(ds, mod)
    <3>1. ds \o <<mod>> = Append(ds, mod)
      BY <1>1
    <3> QED
      BY <1>5, <2>1, <3>1
  <2>3. all \in Seq(Definition) /\ new = L + 1 /\ DOMAIN all = 1..(L + 1) /\ all[L + 1] = mod
        /\ \A i \in 1..L : all[i] = ds[i]
    <3> HIDE DEF all
    <3>1. all \in Seq(Definition) /\ Len(all) = L + 1
      BY <1>1, <2>2
    <3> QED
      BY <1>1, <1>2, <2>2, <3>1
  <2> HIDE DEF all
  <2>4. \A i \in DOMAIN ds : i \in DOMAIN all /\ all[i] = ds[i] /\ i < new
    BY <1>2, <2>3
  <2>5. Mods(all) = Mods(ds) \cup {new}
    BY <1>2, <1>6, <2>3 DEF Mods
  <2>6. DOMAIN all \ Mods(all) = DOMAIN ds \ Mods(ds)
    BY <1>2, <2>3, <2>5
  <2> QED
    BY <1>2, <1>6, <1>7, <2>3, <2>4, <2>5, <2>6 DEF Node, all
<1>8. CASE g # <<>>
  <2> DEFINE q == g[1]
             base == ds \o g
  <2>1. g = <<q>> /\ Len(g) = 1 /\ q \in Definition /\ q.kind = "struct"
        /\ (p.native[f] = "module" => q = Struct(f, st[k].ns))
        /\ (p.native[f] = "legacy" => q = Struct(f, <<>>))
        /\ p.native[f] \in {"module", "legacy"}
    <3>1. g = <<q>> /\ Len(g) = 1 /\ q.kind = "struct"
      <4>1. \E us : g = <<Struct(f, us)>>
        <5> HIDE DEF g, f
        <5> QED
          BY <1>4, <1>8, Zenon
      <4>2. PICK us : g = <<Struct(f, us)>>
        BY <4>1
      <4> DEFINE r == Struct(f, us)
      <4>3. r.kind = "struct"
        BY <1>6
      <4> HIDE DEF r, g
      <4>4. g = <<r>>
        BY <4>2 DEF r
      <4> QED
        BY <4>3, <4>4
    <3>2. (p.native[f] = "module" => q = Struct(f, st[k].ns)) /\ (p.native[f] = "legacy" => q = Struct(f, <<>>))
          /\ p.native[f] \in {"module", "legacy"}
      BY <1>4, <1>8
    <3>3. q \in Definition
      BY <1>1, <3>1, ElementOfSeq
    <3> QED
      BY <3>1, <3>2, <3>3
  <2> HIDE DEF q
  <2>2. base \in Seq(Definition) /\ Len(base) = L + 1 /\ base[L + 1] = q /\ \A i \in 1..L : base[i] = ds[i]
    <3>1. base = Append(ds, q)
      <4>1. ds \o <<q>> = Append(ds, q)
        BY <2>1
      <4> QED
        BY <2>1, <4>1
    <3> HIDE DEF base
    <3>2. base \in Seq(Definition) /\ Len(base) = L + 1
      BY <2>1, <3>1
    <3> QED
      BY <1>2, <2>1, <3>1, <3>2
  <2>3. all = Append(base, mod)
    <3> HIDE DEF base
    <3>1. base \o <<mod>> = Append(base, mod)
      BY <1>1, <2>2
    <3>2. all = base \o <<mod>>
      BY <1>5 DEF base
    <3> QED
      BY <3>1, <3>2
  <2> HIDE DEF base
  <2>4. all \in Seq(Definition) /\ new = L + 2 /\ DOMAIN all = 1..(L + 2) /\ all[L + 2] = mod
        /\ all[L + 1] = q /\ \A i \in 1..L : all[i] = ds[i]
    <3> HIDE DEF all
    <3>1. all \in Seq(Definition) /\ Len(all) = L + 2 /\ all[L + 2] = mod
      BY <1>1, <1>2, <2>2, <2>3
    <3>2. \A i \in 1..(L + 1) : all[i] = base[i]
      BY <1>1, <1>2, <2>2, <2>3
    <3>3. L + 1 \in 1..(L + 1) /\ \A i \in 1..L : i \in 1..(L + 1)
      BY <1>2
    <3> QED
      BY <1>2, <2>2, <3>1, <3>2, <3>3
  <2> HIDE DEF all
  <2>5. \A i \in DOMAIN ds : i \in DOMAIN all /\ all[i] = ds[i] /\ i < new
    BY <1>2, <2>4
  <2>6. 1..(L + 2) = (1..L) \cup {L + 1, L + 2} /\ L + 1 \notin 1..L /\ L + 2 \notin 1..L /\ L + 1 # L + 2
        /\ (L + 2) - 1 = L + 1
    BY <1>2
  <2>7. Mods(all) = Mods(ds) \cup {new} /\ L + 1 \notin Mods(all)
    <3>1. all[L + 1].kind # "module" /\ all[L + 2].kind = "module"
      BY <1>6, <2>1, <2>4
    <3>2. L + 1 \notin Mods(all) /\ Mods(all) = Mods(ds) \cup {L + 2}
      BY <1>2, <2>4, <2>6, <3>1 DEF Mods
    <3> QED
      BY <2>4, <3>2
  <2>8. DOMAIN all \ Mods(all) = (DOMAIN ds \ Mods(ds)) \cup {L + 1}
    BY <1>2, <2>4, <2>6, <2>7
  <2> QED
    BY <1>2, <1>6, <1>8, <2>1, <2>4, <2>5, <2>6, <2>7, <2>8 DEF Node, all
<1> QED
  BY <1>7, <1>8

\* The calls that remain when the innermost is done.
LEMMA Remaining ==
  ASSUME NEW p \in Programs, NEW st \in Seq(Frames), Len(st) # 0,
         Framed(p, st), Linked(p, st), Apart(st), Prepared(p, st)
  PROVE  LET rest == SubSeq(st, 1, Len(st) - 1) IN
         /\ rest \in Seq(Frames) /\ Len(rest) = Len(st) - 1 /\ \A k \in 1..Len(rest) : rest[k] = st[k]
         /\ Framed(p, rest) /\ Linked(p, rest) /\ Apart(rest) /\ Prepared(p, rest)
<1> DEFINE n == Len(st)
           rest == SubSeq(st, 1, n - 1)
<1>1. n \in Nat /\ n >= 1
  OBVIOUS
<1>2. rest \in Seq(Frames) /\ Len(rest) = n - 1 /\ \A k \in 1..(n - 1) : rest[k] = st[k]
  <2>1. 1 \in 1..(n + 1) /\ n - 1 \in 0..n /\ 1..(n - 1) \subseteq 1..n
    BY <1>1
  <2>2. \A k \in 1..(n - 1) : st[k] \in Frames
    BY <2>1, FrameTyped
  <2>3. rest = [k \in 1..(n - 1) |-> st[k]]
    BY <1>1
  <2>4. n - 1 \in Nat
    BY <1>1
  <2> DEFINE m == n - 1
  <2> HIDE DEF m, rest
  <2>5. rest \in [1..m -> Frames] /\ m \in Nat /\ DOMAIN rest = 1..m
    BY <2>2, <2>3, <2>4 DEF m
  <2>6. rest \in Seq(Frames) /\ Len(rest) = m
    BY <2>5
  <2> QED
    BY <2>3, <2>6 DEF m
<1>3. \A k \in 1..Len(rest) : rest[k] = st[k] /\ k \in 1..n
  BY <1>1, <1>2
<1>4. \A k \in 1..(Len(rest) - 1) : k \in 1..(n - 1) /\ k \in 1..Len(rest) /\ k + 1 \in 1..Len(rest)
  BY <1>1, <1>2
<1> HIDE DEF rest
<1>5. Framed(p, rest)
  BY <1>3 DEF Framed, Node
<1>6. Linked(p, rest)
  BY <1>3, <1>4 DEF Linked
<1>7. Apart(rest)
  BY <1>3 DEF Apart
<1>8. Prepared(p, rest)
  BY <1>3 DEF Prepared
<1> QED
  BY <1>2, <1>5, <1>6, <1>7, <1>8 DEF rest

\* What is delivered for a call comes behind what its module imports, and nothing
\* with a namespace that its own is under is there yet.
LEMMA DeliverOrdered ==
  ASSUME NEW p \in Programs, NEW st \in Seq(Frames), NEW ds \in Seq(Definition), Len(st) # 0,
         Framed(p, st), Linked(p, st), Prepared(p, st), Fresh(p, st, ds), InOrder(ds)
  PROVE  InOrder(Deliver(st[Len(st)], ds))
<1> DEFINE n == Len(st)
           all == Deliver(st[n], ds)
           new == Len(all)
<1>1. n \in Nat /\ n \in 1..n
  OBVIOUS
<1>2. /\ Mods(all) = Mods(ds) \cup {new} /\ all[new].ns = st[n].ns /\ new \in Nat /\ DOMAIN all = 1..new
      /\ \A i \in Mods(ds) : all[i] = ds[i] /\ i < new
  <2>1. /\ Mods(all) = Mods(ds) \cup {new} /\ all[new].ns = st[n].ns /\ new \in Nat /\ DOMAIN all = 1..new
        /\ \A i \in DOMAIN ds : all[i] = ds[i] /\ i < new
    BY <1>1, DeliverParts
  <2>2. Mods(ds) \subseteq DOMAIN ds
    BY DEF Mods
  <2> HIDE DEF all, new
  <2> QED
    BY <2>1, <2>2
<1>3. \A k \in 1..n : st[k].ns \in Seq(Aliases) /\ Len(st[k].ns) = k - 1
  BY FrameTyped DEF Framed
<1> HIDE DEF all, new
<1>4. ASSUME NEW j \in Mods(ds), Under(ds[j].ns, st[n].ns) PROVE FALSE
  <2> DEFINE k == Len(ds[j].ns) + 1
  <2>1. j \in DOMAIN ds /\ ds[j].ns \in Seq(Aliases) /\ Len(ds[j].ns) \in Nat
    BY DefinitionTyped DEF Mods
  <2>2. k \in 1..n /\ k - 1 = Len(ds[j].ns) /\ ~(k <= Len(ds[j].ns))
    <3>1. Len(ds[j].ns) <= Len(st[n].ns) /\ Len(st[n].ns) = n - 1
      BY <1>1, <1>3, <1>4 DEF Under
    <3> QED
      BY <1>1, <2>1, <3>1
  <2>3. Under(st[k].ns, st[n].ns)
    <3>1. CASE k = n
      BY <1>1, <1>3, <3>1 DEF Under
    <3>2. CASE k # n
      <4>1. k < n
        BY <1>1, <2>2, <3>2
      <4> HIDE DEF k
      <4> QED
        BY <1>1, <2>2, <4>1, ChainNames
    <3> QED
      BY <3>1, <3>2
  <2>4. Len(st[k].ns) = k - 1
    BY <1>3, <2>2
  <2> HIDE DEF k
  <2>5. Under(st[k].ns, ds[j].ns)
    BY <1>4, <2>1, <2>2, <2>3, <2>4 DEF Under
  <2> QED
    BY <2>2, <2>5 DEF Fresh
<1>5. ASSUME NEW i \in Mods(all), NEW j \in Mods(all), Under(all[j].ns, all[i].ns) PROVE i <= j
  <2>1. CASE j = new
    <3>1. i \in 1..new
      BY <1>2 DEF Mods
    <3> QED
      BY <1>2, <2>1, <3>1
  <2>2. CASE j # new
    <3>1. j \in Mods(ds) /\ all[j] = ds[j]
      BY <1>2, <2>2
    <3>2. i # new
      BY <1>2, <1>4, <1>5, <3>1
    <3>3. i \in Mods(ds) /\ all[i] = ds[i]
      BY <1>2, <3>2
    <3> QED
      BY <1>5, <3>1, <3>3 DEF InOrder
  <2> QED
    BY <2>1, <2>2
<1> QED
  BY <1>5 DEF InOrder, all

\* The walk goes on where the call that is done was made.
LEMMA Delivering ==
  ASSUME NEW p \in Programs, NEW st, NEW ds, NEW em, NEW un, NEW ex,
         Walk(p, st, ds, em, un, ex), Len(st) # 0, st[Len(st)].next > Size(p, st[Len(st)].file)
  PROVE  Walk(p, SubSeq(st, 1, Len(st) - 1), Deliver(st[Len(st)], ds), em, un, ex)
<1> DEFINE n == Len(st)
           top == st[n]
           rest == SubSeq(st, 1, n - 1)
           all == Deliver(top, ds)
           new == Len(all)
<1>1. st \in Seq(Frames) /\ ds \in Seq(Definition)
  BY DEF Walk
<1>2. n \in Nat /\ n >= 1 /\ n \in 1..n /\ (n - 1) + 1 = n
  BY <1>1
<1>3. /\ Framed(p, st) /\ Linked(p, st) /\ Apart(st) /\ Behind(p, ds) /\ Begun(p, st, ds) /\ Passed(p, st, ds)
      /\ Fresh(p, st, ds) /\ InOrder(ds) /\ Counts(p, st, ds, un, ex)
      /\ Prepared(p, st) /\ Structured(p, ds) /\ Once(p, st, ds, un, em)
  BY DEF Walk
<1>4. /\ rest \in Seq(Frames) /\ Len(rest) = n - 1 /\ \A k \in 1..Len(rest) : rest[k] = st[k]
      /\ Framed(p, rest) /\ Linked(p, rest) /\ Apart(rest) /\ Prepared(p, rest)
  BY <1>1, <1>3, Remaining
<1>5. \A k \in 1..Len(rest) : rest[k] = st[k] /\ k \in 1..n /\ k # n /\ k < n
  BY <1>2, <1>4
<1>6. /\ all \in Seq(Definition) /\ new \in Nat /\ new > Len(ds) /\ DOMAIN all = 1..new
      /\ \A i \in DOMAIN ds : i \in DOMAIN all /\ all[i] = ds[i] /\ i < new
      /\ Mods(all) = Mods(ds) \cup {new} /\ Node(all[new]) = Node(top)
      /\ all[new].file = top.file /\ all[new].ns = top.ns
      /\ top.generated = <<>> => DOMAIN all \ Mods(all) = DOMAIN ds \ Mods(ds)
      /\ top.generated # <<>> =>
             /\ DOMAIN all \ Mods(all) = (DOMAIN ds \ Mods(ds)) \cup {new - 1}
             /\ new - 1 \notin DOMAIN ds /\ new - 1 \in Nat
             /\ p.native[top.file] = "module" => all[new - 1] = Struct(top.file, top.ns)
             /\ p.native[top.file] = "legacy" => all[new - 1] = Struct(top.file, <<>>)
             /\ p.native[top.file] \in {"module", "legacy"}
  BY <1>1, <1>2, <1>3, DeliverParts
<1>7. InOrder(all)
  BY <1>1, <1>3, DeliverOrdered
<1>8. /\ top \in Frames /\ top.file \in Files /\ top.ns \in Seq(Aliases) /\ Node(top)[1] = top.ns
      /\ Node(top)[2] = top.file /\ Size(p, top.file) \in Nat /\ top.next - 1 = Size(p, top.file)
  <2>1. top \in Frames /\ top.file \in Files /\ top.ns \in Seq(Aliases) /\ Node(top)[1] = top.ns
        /\ Node(top)[2] = top.file /\ Size(p, top.file) \in Nat
    BY <1>1, <1>2, FrameTyped, ImportsTyped
  <2>2. top.next \in 1..(Size(p, top.file) + 1)
    BY <1>2, <1>3 DEF Framed
  <2> QED
    BY <2>1, <2>2
<1>9. Mods(ds) \subseteq DOMAIN ds /\ DOMAIN ds = 1..Len(ds) /\ Len(ds) \in Nat /\ new \in DOMAIN all
  BY <1>1, <1>6 DEF Mods
<1>10. \A i \in Mods(ds) : i \in Mods(all) /\ all[i] = ds[i] /\ i < new /\ i \in Nat
  BY <1>6, <1>9
<1> HIDE DEF rest, all, new
<1>11. \A x : \A i \in Mods(ds) : Delivered(ds, x, i) => Delivered(all, x, i)
  BY <1>10 DEF Delivered
<1>12. \A x : Delivered(ds, x, Len(ds) + 1) => Delivered(all, x, new) /\ Delivered(all, x, new + 1)
  <2>1. \A i \in Mods(ds) : i < new + 1
    BY <1>6, <1>10
  <2> QED
    BY <1>10, <2>1 DEF Delivered
<1>13. Behind(p, all)
  <2>1. ASSUME NEW i \in Mods(ds)
        PROVE  /\ Node(all[i]) \in Everything(p)
               /\ \A a \in 1..Size(p, all[i].file) : Delivered(all, Way(p, Node(all[i]), a), i)
    BY <1>3, <1>10, <1>11 DEF Behind
  <2>2. Node(all[new]) \in Everything(p)
    <3>1. n - 1 \in 0..Cardinality(Files) /\ Node(top) \in Paths(p)[n - 1]
      BY <1>2, <1>3 DEF Framed
    <3> QED
      BY <1>6, <3>1, PathsGrow
  <2>3. ASSUME NEW a \in 1..Size(p, all[new].file) PROVE Delivered(all, Way(p, Node(all[new]), a), new)
    <3>1. a \in 1..(top.next - 1)
      BY <1>6, <1>8
    <3>2. Delivered(ds, Way(p, Node(top), a), Len(ds) + 1)
      BY <1>2, <1>3, <3>1 DEF Begun
    <3> QED
      BY <1>6, <1>12, <3>2
  <2> QED
    BY <1>6, <2>1, <2>2, <2>3 DEF Behind
<1>14. Begun(p, rest, all)
  <2> SUFFICES ASSUME NEW k \in 1..Len(rest), NEW a \in 1..(rest[k].next - 1)
               PROVE  \/ k < Len(rest) /\ a = rest[k].next - 1
                      \/ Delivered(all, Way(p, Node(rest[k]), a), Len(all) + 1)
    BY DEF Begun
  <2>1. k \in 1..n /\ k < n /\ rest[k] = st[k]
    BY <1>5
  <2>2. a = st[k].next - 1 \/ Delivered(ds, Way(p, Node(st[k]), a), Len(ds) + 1)
    BY <1>3, <2>1 DEF Begun
  <2>3. CASE a = st[k].next - 1 /\ ~(k < Len(rest))
    <3>1. k = n - 1 /\ k \in 1..(n - 1)
      <4>1. Len(rest) = n - 1
        BY <1>4
      <4>2. k \in 1..n /\ k < n /\ ~(k < Len(rest))
        BY <2>1, <2>3
      <4> HIDE DEF n
      <4> QED
        BY <1>2, <4>1, <4>2
    <3>2. Node(top) = Way(p, Node(st[k]), a)
      BY <1>2, <1>3, <2>3, <3>1 DEF Linked
    <3>3. new \in Mods(all) /\ new < new + 1
      BY <1>6
    <3> QED
      BY <1>6, <2>1, <3>2, <3>3 DEF Delivered, new
  <2> QED
    BY <1>12, <2>1, <2>2, <2>3 DEF new
<1>15. Passed(p, rest, all)
  <2>1. \A k \in 1..Len(rest) : Checked(p, rest[k].file, rest[k].next - 1)
    BY <1>3, <1>5 DEF Passed
  <2>2. \A i \in Mods(ds) : Checked(p, all[i].file, Size(p, all[i].file))
    BY <1>3, <1>10 DEF Passed
  <2>3. Checked(p, all[new].file, Size(p, all[new].file))
    BY <1>2, <1>3, <1>6, <1>8 DEF Passed
  <2> QED
    BY <1>6, <2>1, <2>2, <2>3 DEF Passed
<1>16. Fresh(p, rest, all)
  <2> SUFFICES ASSUME NEW i \in Mods(all), NEW k \in 1..Len(rest), Under(rest[k].ns, all[i].ns)
               PROVE  k <= Len(all[i].ns) /\ all[i].ns[k] \in Seen(p, rest[k].file, rest[k].next)
    BY DEF Fresh
  <2>1. CASE i \in Mods(ds)
    BY <1>3, <1>5, <1>10, <2>1 DEF Fresh
  <2>2. CASE i = new
    <3>1. k \in 1..n /\ k < n /\ rest[k] = st[k]
      BY <1>5
    <3>2. top.ns[k] \in Seen(p, st[k].file, st[k].next)
      BY <1>1, <1>2, <1>3, <3>1, ChainNames
    <3>3. Len(top.ns) = n - 1
      BY <1>2, <1>3, Zenon DEF Framed
    <3>4. all[i].ns = top.ns
      BY <1>6, <2>2
    <3>5. k <= n - 1
      <4> HIDE DEF n
      <4> QED
        BY <1>2, <3>1
    <3> HIDE DEF top, n
    <3>6. k <= Len(all[i].ns)
      BY <3>3, <3>4, <3>5
    <3> QED
      BY <3>1, <3>2, <3>4, <3>6
  <2> QED
    BY <1>6, <2>1, <2>2
<1>17. Counts(p, rest, all, un, ex)
  <2>1. {Node(all[i]) : i \in Mods(all)} = {Node(ds[i]) : i \in Mods(ds)} \cup {Node(top)}
    BY <1>6, <1>10
  <2>2. DOMAIN st = 1..n /\ DOMAIN rest = 1..(n - 1) /\ 1..n = (1..(n - 1)) \cup {n} /\ \A k \in 1..(n - 1) : rest[k] = st[k]
    BY <1>1, <1>2, <1>4
  <2>3. {Node(st[k]) : k \in DOMAIN st} = {Node(rest[k]) : k \in DOMAIN rest} \cup {Node(top)}
    BY <2>2
  <2>4. Met(rest, all) = Met(st, ds)
    BY <2>1, <2>3 DEF Met
  <2> QED
    BY <1>3, <2>4 DEF Counts
<1>18. Structured(p, all)
  <2>1. ASSUME NEW i \in DOMAIN ds \ Mods(ds)
        PROVE  /\ p.native[all[i].file] \in {"module", "legacy"}
               /\ p.native[all[i].file] = "legacy" => all[i].ns = <<>>
               /\ p.native[all[i].file] = "module" => i + 1 \in Mods(all) /\ Node(all[i + 1]) = Node(all[i])
    <3>1. all[i] = ds[i]
      BY <1>6
    <3>2. /\ p.native[ds[i].file] \in {"module", "legacy"}
          /\ p.native[ds[i].file] = "legacy" => ds[i].ns = <<>>
          /\ p.native[ds[i].file] = "module" => i + 1 \in Mods(ds) /\ Node(ds[i + 1]) = Node(ds[i])
      BY <1>3 DEF Structured
    <3> QED
      BY <1>10, <3>1, <3>2
  <2>2. ASSUME top.generated # <<>>
        PROVE  /\ p.native[all[new - 1].file] \in {"module", "legacy"}
               /\ p.native[all[new - 1].file] = "legacy" => all[new - 1].ns = <<>>
               /\ p.native[all[new - 1].file] = "module" =>
                      (new - 1) + 1 \in Mods(all) /\ Node(all[(new - 1) + 1]) = Node(all[new - 1])
    <3>1. (new - 1) + 1 = new
      BY <1>6
    <3>2. \A f, us : Struct(f, us).file = f /\ Struct(f, us).ns = us
      BY DEF Struct
    <3>3. CASE p.native[top.file] = "module"
      <4>1. all[new - 1] = Struct(top.file, top.ns)
        BY <1>6, <2>2, <3>3
      <4>2. all[new - 1].file = top.file /\ all[new - 1].ns = top.ns
        BY <3>2, <4>1
      <4> QED
        BY <1>6, <3>1, <3>3, <4>2 DEF Node
    <3>4. CASE p.native[top.file] = "legacy"
      <4>1. all[new - 1] = Struct(top.file, <<>>)
        BY <1>6, <2>2, <3>4
      <4>2. all[new - 1].file = top.file /\ all[new - 1].ns = <<>>
        BY <3>2, <4>1
      <4> QED
        BY <3>4, <4>2
    <3> QED
      BY <1>6, <2>2, <3>3, <3>4
  <2>3. ASSUME NEW i \in Mods(ds), p.native[all[i].file] = "module"
        PROVE  \E j \in DOMAIN all : all[j] = Struct(all[i].file, all[i].ns)
    <3>1. all[i] = ds[i]
      BY <1>10
    <3>2. PICK j \in DOMAIN ds : ds[j] = Struct(ds[i].file, ds[i].ns)
      BY <1>3, <2>3, <3>1 DEF Structured
    <3> QED
      BY <1>6, <3>1, <3>2
  <2>4. ASSUME p.native[all[new].file] = "module"
        PROVE  \E j \in DOMAIN all : all[j] = Struct(all[new].file, all[new].ns)
    <3>1. top.generated # <<>>
      <4>1. top.generated = <<Struct(top.file, top.ns)>>
        BY <1>2, <1>3, <1>6, <2>4 DEF Prepared
      <4> DEFINE q == Struct(top.file, top.ns)
      <4> HIDE DEF q
      <4>2. top.generated = <<q>>
        BY <4>1 DEF q
      <4> QED
        BY <4>2
    <3>2. all[new - 1] = Struct(all[new].file, all[new].ns) /\ new - 1 \in DOMAIN all
      BY <1>6, <2>4, <3>1
    <3> QED
      BY <3>2
  <2>5. DOMAIN all \ Mods(all) = DOMAIN ds \ Mods(ds) \/ (top.generated # <<>> /\ DOMAIN all \ Mods(all) = (DOMAIN ds \ Mods(ds)) \cup {new - 1})
    BY <1>6
  <2>6. \A i \in DOMAIN all \ Mods(all) :
           /\ p.native[all[i].file] \in {"module", "legacy"}
           /\ p.native[all[i].file] = "legacy" => all[i].ns = <<>>
           /\ p.native[all[i].file] = "module" => i + 1 \in Mods(all) /\ Node(all[i + 1]) = Node(all[i])
    BY <2>1, <2>2, <2>5
  <2>7. \A i \in Mods(all) : p.native[all[i].file] = "module" => \E j \in DOMAIN all : all[j] = Struct(all[i].file, all[i].ns)
    BY <1>6, <2>3, <2>4
  <2> QED
    BY <2>6, <2>7 DEF Structured
<1>19. Once(p, rest, all, un, em)
  <2>1. em = {f \in un : p.native[f] = "legacy"}
    BY <1>3 DEF Once
  <2>2. ASSUME NEW f \in Files, p.native[f] = "legacy"
        PROVE  /\ top.generated = <<>> \/ top.file # f => Holds(all, f) = Holds(ds, f)
               /\ top.generated # <<>> /\ top.file = f => Holds(all, f) = Holds(ds, f) \cup {new - 1}
    <3>1. \A i \in DOMAIN ds \ Mods(ds) : all[i] = ds[i]
      BY <1>6
    <3>2. CASE top.generated = <<>>
      BY <1>6, <3>1, <3>2 DEF Holds
    <3>3. CASE top.generated # <<>>
      <4>1. all[new - 1].file = top.file
        <5>1. \A us : Struct(top.file, us).file = top.file
          BY DEF Struct
        <5>2. all[new - 1] = Struct(top.file, top.ns) \/ all[new - 1] = Struct(top.file, <<>>)
          BY <1>6, <3>3
        <5> QED
          BY <5>1, <5>2
      <4>2. DOMAIN all \ Mods(all) = (DOMAIN ds \ Mods(ds)) \cup {new - 1}
        BY <1>6, <3>3
      <4> QED
        BY <3>1, <3>3, <4>1, <4>2 DEF Holds
    <3> QED
      BY <3>2, <3>3
  <2>3. ASSUME NEW f \in Files
        PROVE  /\ top.generated = <<>> \/ top.file # f => Held(rest, f) = Held(st, f)
               /\ top.generated # <<>> /\ top.file = f => n \in Held(st, f) /\ Held(rest, f) = {}
    <3>1. 1..n = 1..Len(rest) \cup {n} /\ n \notin 1..Len(rest)
      BY <1>2, <1>4
    <3>2. CASE top.generated = <<>> \/ top.file # f
      <4>1. n \notin Held(st, f)
        BY <3>2 DEF Held
      <4> QED
        BY <1>5, <3>1, <3>2, <4>1 DEF Held
    <3>3. CASE top.generated # <<>> /\ top.file = f
      <4>1. n \in Held(st, f)
        BY <1>2, <3>3 DEF Held
      <4>2. \A k \in 1..Len(rest) : rest[k].file # f
        BY <1>2, <1>3, <1>5, <3>3, Zenon DEF Apart
      <4>3. Held(rest, f) = {}
        BY <4>2 DEF Held
      <4> QED
        BY <3>3, <4>1, <4>3
    <3> QED
      BY <3>2, <3>3
  <2>4. ASSUME NEW f \in Files, p.native[f] = "legacy", f \notin em PROVE Holds(all, f) = {}
    <3>1. Holds(ds, f) = {}
      BY <1>3, <2>4 DEF Once
    <3>2. f # top.file
      <4>1. Node(top) \in Met(st, ds)
        <5>1. n \in DOMAIN st
          BY <1>1, <1>2
        <5> QED
          BY <5>1 DEF Met
      <4>2. top.file \in un
        <5>1. un = {x[2] : x \in Met(st, ds)}
          BY <1>3 DEF Counts
        <5> QED
          BY <1>8, <4>1, <5>1
      <4> QED
        BY <2>1, <2>4, <4>2
    <3> QED
      BY <3>1, <3>2, <2>2, <2>4
  <2>5. ASSUME NEW f \in Files, p.native[f] = "legacy", f \in em
        PROVE  \/ Held(rest, f) = {} /\ \E i \in DOMAIN all : Holds(all, f) = {i}
               \/ Held(rest, f) # {} /\ Holds(all, f) = {}
    <3>1. \/ Held(st, f) = {} /\ \E i \in DOMAIN ds : Holds(ds, f) = {i}
          \/ Held(st, f) # {} /\ Holds(ds, f) = {}
      BY <1>3, <2>5 DEF Once
    <3>2. CASE top.generated = <<>> \/ top.file # f
      <4>1. Held(rest, f) = Held(st, f) /\ Holds(all, f) = Holds(ds, f)
        BY <2>2, <2>3, <2>5, <3>2
      <4> QED
        BY <1>6, <3>1, <4>1
    <3>3. CASE top.generated # <<>> /\ top.file = f
      <4>1. Holds(all, f) = {new - 1} /\ Held(rest, f) = {}
        BY <2>2, <2>3, <2>5, <3>1, <3>3
      <4>2. new - 1 \in DOMAIN all
        BY <1>6, <3>3
      <4> QED
        BY <4>1, <4>2
    <3> QED
      BY <3>2, <3>3
  <2> QED
    BY <2>1, <2>4, <2>5 DEF Once
<1> QED
  BY <1>4, <1>6, <1>7, <1>13, <1>14, <1>15, <1>16, <1>17, <1>18, <1>19 DEF Walk, rest, all

\* The import at which a call in progress is may be loaded, and what is made for it.
Ahead(p, st) == LET top == st[Len(st)] IN Way(p, Node(top), top.next)
Enters(p, st, em, made) ==
    LET top == st[Len(st)]
        item == p.imports[top.file][top.next]
        f == Ahead(p, st)[2] IN
    /\ top.next <= Size(p, top.file)
    /\ item.alias \notin Seen(p, top.file, top.next) /\ Allowed(p, top.file, item)
    /\ \A k \in 1..Len(st) : st[k].file # f
    /\ Len(st) <= MaxDepth /\ f \in p.exists
    /\ p.native[f] = "none" => made = <<>>
    /\ p.native[f] = "module" => made = <<Struct(f, Ahead(p, st)[1])>>
    /\ p.native[f] = "legacy" => made = IF f \in em THEN <<>> ELSE <<Struct(f, <<>>)>>
Entered(p, st, made) ==
    Append([st EXCEPT ![Len(st)].next = @ + 1],
           [file |-> Ahead(p, st)[2], ns |-> Ahead(p, st)[1], next |-> 1, generated |-> made])

\* The next import has not been met: the alias is new, and no call for its file is in progress.
LEMMA AheadIs ==
  ASSUME NEW p \in Programs, NEW st \in Seq(Frames), NEW ds \in Seq(Definition), Len(st) # 0,
         Framed(p, st), Linked(p, st), Apart(st), st[Len(st)].next <= Size(p, st[Len(st)].file)
  PROVE  LET top == st[Len(st)]
             y == Ahead(p, st) IN
         /\ top.next \in 1..Size(p, top.file) /\ y \in Nodes /\ Len(st) < Cardinality(Files) + 1
         /\ y[2] = p.imports[top.file][top.next].target /\ y = <<y[1], y[2]>>
         /\ y[1] = Append(top.ns, p.imports[top.file][top.next].alias)
         /\ Len(y[1]) = Len(st) /\ y[1][Len(st)] = p.imports[top.file][top.next].alias
         /\ \A m \in 1..(Len(st) - 1) : y[1][m] = top.ns[m]
         /\ y \in Paths(p)[Len(st)] /\ y \in Everything(p)
<1> DEFINE n == Len(st)
           top == st[n]
           a == top.next
           alias == p.imports[top.file][a].alias
           y == Ahead(p, st)
<1>1. n \in Nat /\ n \in 1..n /\ n >= 1 /\ n <= Cardinality(Files) /\ Cardinality(Files) \in Nat
  BY StackBound, FilesFinite
<1>2. /\ top \in Frames /\ top.file \in Files /\ top.ns \in Seq(Aliases) /\ Node(top) \in Nodes
      /\ Node(top)[1] = top.ns /\ Node(top)[2] = top.file /\ Size(p, top.file) \in Nat
  BY <1>1, FrameTyped, ImportsTyped
<1>3. a \in 1..(Size(p, top.file) + 1) /\ Len(top.ns) = n - 1 /\ Node(top) \in Paths(p)[n - 1]
  BY <1>1 DEF Framed
<1>4. a \in 1..Size(p, top.file)
  BY <1>2, <1>3
<1>5. y \in Nodes /\ y \in Ways(p, Node(top)) /\ Len(y[1]) = Len(top.ns) + 1
  BY <1>2, <1>4, WayTyped DEF Ahead
<1>6. y = <<Append(top.ns, alias), p.imports[top.file][a].target>>
  BY <1>2 DEF Ahead, Way
<1>7. alias \in Aliases
  BY <1>2, <1>4, ImportsTyped
<1>8. y \in Paths(p)[n]
  <2>1. n - 1 \in 0..Cardinality(Files) /\ n - 1 < Cardinality(Files) /\ (n - 1) + 1 = n
    BY <1>1
  <2>2. Ways(p, Node(top)) \subseteq Paths(p)[(n - 1) + 1]
    BY <1>3, <2>1, PathsGrow, Zenon
  <2> QED
    BY <1>5, <2>1, <2>2
<1>9. y \in Everything(p)
  <2>1. n \in 0..Cardinality(Files)
    BY <1>1
  <2> QED
    BY <1>8, <2>1, PathsGrow
<1> DEFINE us == Append(top.ns, alias)
<1>10. Len(us) = n /\ us[n] = alias /\ \A m \in 1..(n - 1) : us[m] = top.ns[m]
  <2> HIDE DEF alias
  <2>1. us[Len(top.ns) + 1] = alias
    BY <1>2, <1>7
  <2>2. \A m \in 1..Len(top.ns) : us[m] = top.ns[m]
    BY <1>2, <1>7
  <2>3. Len(top.ns) + 1 = n
    BY <1>1, <1>3
  <2>4. Len(us) = Len(top.ns) + 1
    BY <1>2, <1>7
  <2> QED
    BY <1>3, <2>1, <2>2, <2>3, <2>4, Zenon
<1>11. n < Cardinality(Files) + 1
  BY <1>1
<1>12. y[1] = us /\ y[2] = p.imports[top.file][a].target /\ y = <<y[1], y[2]>>
  <2> DEFINE t == p.imports[top.file][a].target
  <2>1. y = <<us, t>>
    BY <1>6
  <2> HIDE DEF us, t, y
  <2>2. y[1] = us /\ y[2] = t /\ y = <<y[1], y[2]>>
    BY <2>1
  <2> QED
    BY <2>2 DEF t
<1> HIDE DEF us, y, a
<1> QED
  BY <1>4, <1>5, <1>8, <1>9, <1>10, <1>11, <1>12, Zenon DEF us, y, a

LEMMA AheadNew ==
  ASSUME NEW p \in Programs, NEW st \in Seq(Frames), NEW ds \in Seq(Definition), Len(st) # 0,
         Framed(p, st), Linked(p, st), Apart(st), Fresh(p, st, ds),
         st[Len(st)].next <= Size(p, st[Len(st)].file),
         p.imports[st[Len(st)].file][st[Len(st)].next].alias \notin Seen(p, st[Len(st)].file, st[Len(st)].next),
         \A k \in 1..Len(st) : st[k].file # Ahead(p, st)[2]
  PROVE  /\ \A i \in Mods(ds) : ~Under(Ahead(p, st)[1], ds[i].ns)
         /\ Ahead(p, st) \notin Met(st, ds)
<1> DEFINE n == Len(st)
           top == st[n]
           a == top.next
           alias == p.imports[top.file][a].alias
           y == Ahead(p, st)
<1>1. /\ y \in Nodes /\ Len(y[1]) = n /\ y[1][n] = alias
      /\ \A m \in 1..(n - 1) : y[1][m] = top.ns[m]
  BY AheadIs, Zenon
<1>2. n \in Nat /\ n \in 1..n /\ n >= 1
  OBVIOUS
<1>3. Len(top.ns) = n - 1
  BY <1>2 DEF Framed
<1> HIDE DEF y
<1>4. ASSUME NEW i \in Mods(ds), Under(y[1], ds[i].ns) PROVE FALSE
  <2>1. i \in DOMAIN ds /\ Len(ds[i].ns) \in Nat
    BY DefinitionTyped DEF Mods
  <2>2. n <= Len(ds[i].ns) /\ \A m \in 1..n : ds[i].ns[m] = y[1][m]
    BY <1>1, <1>4 DEF Under
  <2>3. Len(top.ns) <= Len(ds[i].ns)
    BY <1>2, <1>3, <2>1, <2>2
  <2>4. \A m \in 1..Len(top.ns) : m \in 1..n /\ m \in 1..(n - 1)
    BY <1>2, <1>3
  <2>5. Under(top.ns, ds[i].ns)
    BY <1>1, <2>2, <2>3, <2>4 DEF Under
  <2>6. ds[i].ns[n] \in Seen(p, top.file, a)
    BY <1>2, <2>5 DEF Fresh
  <2> QED
    BY <1>1, <1>2, <2>2, <2>6
<1>5. ASSUME y \in Met(st, ds) PROVE FALSE
  <2>1. CASE \E i \in Mods(ds) : y = Node(ds[i])
    <3>1. PICK i \in Mods(ds) : y = Node(ds[i])
      BY <2>1
    <3>2. y[1] = ds[i].ns
      BY <3>1 DEF Node
    <3> QED
      BY <1>1, <1>2, <1>4, <3>2 DEF Under
  <2>2. CASE \E k \in DOMAIN st : y = Node(st[k])
    <3>1. PICK k \in DOMAIN st : y = Node(st[k])
      BY <2>2
    <3>2. y[2] = st[k].file /\ k \in 1..Len(st)
      BY <3>1 DEF Node
    <3> QED
      BY <3>2 DEF y
  <2> QED
    BY <1>5, <2>1, <2>2 DEF Met
<1> QED
  BY <1>4, <1>5 DEF y

\* The walk goes on in the file of the import.
LEMMA Descending ==
  ASSUME NEW p \in Programs, NEW st, NEW ds, NEW em, NEW un, NEW ex, NEW made,
         Walk(p, st, ds, em, un, ex), Len(st) # 0, Enters(p, st, em, made)
  PROVE  LET f == Ahead(p, st)[2] IN
         Walk(p, Entered(p, st, made), ds, IF p.native[f] = "legacy" THEN em \cup {f} ELSE em,
              un \cup {f}, ex + 1)
<1> DEFINE n == Len(st)
           top == st[n]
           a == top.next
           item == p.imports[top.file][a]
           y == Ahead(p, st)
           f == y[2]
           fr == [file |-> f, ns |-> y[1], next |-> 1, generated |-> made]
           on == Entered(p, st, made)
           em1 == IF p.native[f] = "legacy" THEN em \cup {f} ELSE em
           un1 == un \cup {f}
<1>1. st \in Seq(Frames) /\ ds \in Seq(Definition)
  BY DEF Walk
<1>2. n \in Nat /\ n \in 1..n /\ n >= 1 /\ n + 1 \in Nat
  BY <1>1
<1>3. /\ Framed(p, st) /\ Linked(p, st) /\ Apart(st) /\ Behind(p, ds) /\ Begun(p, st, ds) /\ Passed(p, st, ds)
      /\ Fresh(p, st, ds) /\ InOrder(ds) /\ Counts(p, st, ds, un, ex)
      /\ Prepared(p, st) /\ Structured(p, ds) /\ Once(p, st, ds, un, em)
  BY DEF Walk
<1>4. /\ a <= Size(p, top.file) /\ item.alias \notin Seen(p, top.file, a) /\ Allowed(p, top.file, item)
      /\ \A k \in 1..n : st[k].file # f
      /\ n <= MaxDepth /\ f \in p.exists
      /\ p.native[f] = "none" => made = <<>>
      /\ p.native[f] = "module" => made = <<Struct(f, y[1])>>
      /\ p.native[f] = "legacy" => made = IF f \in em THEN <<>> ELSE <<Struct(f, <<>>)>>
  BY DEF Enters
<1>5. /\ a \in 1..Size(p, top.file) /\ y \in Nodes /\ n < Cardinality(Files) + 1 /\ y = <<y[1], f>>
      /\ Len(y[1]) = n /\ y \in Paths(p)[n] /\ y \in Everything(p)
  BY <1>1, <1>3, <1>4, AheadIs, Zenon
<1>6. y \notin Met(st, ds) /\ \A i \in Mods(ds) : ~Under(y[1], ds[i].ns)
  BY <1>1, <1>3, <1>4, AheadNew, Zenon
<1>7. f \in Files /\ y[1] \in Seq(Aliases)
  BY <1>5 DEF Nodes
<1>8. /\ top \in Frames /\ top.file \in Files /\ top.ns \in Seq(Aliases) /\ top.next = a /\ a \in Nat
      /\ Size(p, top.file) \in Nat /\ top.generated \in Seq(Definition)
  BY <1>1, <1>2, FrameTyped, ImportsTyped
<1>9. made \in Seq(Definition)
  <2>1. p.native[f] \in {"none", "module", "legacy"}
    BY <1>7, FilesAssumption DEF Program
  <2> DEFINE q == Struct(f, y[1])
             r == Struct(f, <<>>)
             empty == <<>>
  <2>2. q \in Definition
    BY <1>7 DEF Struct, Definition
  <2>3. empty \in Seq(Aliases) /\ empty \in Seq(Definition)
    OBVIOUS
  <2>4. r \in Definition
    <3> HIDE DEF f
    <3>1. r = [kind |-> "struct", file |-> f, ns |-> empty]
      BY DEF Struct
    <3> HIDE DEF empty, r
    <3> QED
      BY <1>7, <2>3, <3>1 DEF Definition
  <2>5. made = empty \/ made = <<q>> \/ made = <<r>>
    <3>1. made = <<>> \/ made = <<q>> \/ made = <<r>>
      <4> HIDE DEF f, y
      <4> QED
        BY <1>4, <2>1, Zenon DEF f, q, r
    <3> QED
      BY <3>1, Zenon
  <2> HIDE DEF q, r, empty
  <2>6. <<q>> \in Seq(Definition) /\ <<r>> \in Seq(Definition)
    BY <2>2, <2>4
  <2> QED
    BY <2>3, <2>5, <2>6, Zenon
<1> HIDE DEF y
<1>10. fr \in Frames
  BY <1>7, <1>9 DEF Frames
<1> DEFINE moved == [st EXCEPT ![n].next = @ + 1]
<1>11. moved \in Seq(Frames) /\ Len(moved) = n
  <2>1. [top EXCEPT !.next = @ + 1] \in Frames
    BY <1>8 DEF Frames
  <2>2. moved = [st EXCEPT ![n] = [top EXCEPT !.next = @ + 1]]
    BY <1>1
  <2> DEFINE t2 == [top EXCEPT !.next = @ + 1]
  <2> HIDE DEF t2
  <2> QED
    BY <1>1, <1>2, <2>1, <2>2 DEF t2
<1>12. /\ \A k \in 1..n : moved[k].file = st[k].file /\ moved[k].ns = st[k].ns /\ moved[k].generated = st[k].generated
       /\ \A k \in 1..n : k # n => moved[k] = st[k]
       /\ moved[n].next = a + 1
  <2>1. \A k \in 1..n : st[k] \in Frames
    BY <1>1, FrameTyped
  <2>2. DOMAIN st = 1..n
    BY <1>1
  <2> QED
    BY <1>2, <2>1, <2>2 DEF Frames
<1>13. /\ on \in Seq(Frames) /\ Len(on) = n + 1 /\ on[n + 1] = fr /\ DOMAIN on = 1..(n + 1)
       /\ \A k \in 1..n : on[k] = moved[k]
  <2>1. on = Append(moved, fr)
    BY DEF Entered, y
  <2> HIDE DEF moved, fr, on
  <2> QED
    BY <1>10, <1>11, <2>1
<1> HIDE DEF moved
<1>14. /\ \A k \in 1..n : /\ on[k].file = st[k].file /\ on[k].ns = st[k].ns /\ on[k].generated = st[k].generated
                          /\ Node(on[k]) = Node(st[k]) /\ (k # n => on[k] = st[k])
       /\ on[n].next = a + 1 /\ on[n + 1].file = f /\ on[n + 1].ns = y[1] /\ on[n + 1].next = 1
       /\ on[n + 1].generated = made /\ Node(on[n + 1]) = y
  BY <1>2, <1>5, <1>12, <1>13 DEF Node
<1>15. /\ 1..(n + 1) = (1..n) \cup {n + 1} /\ n + 1 \notin 1..n /\ (n + 1) - 1 = n /\ n # n + 1
       /\ n + 1 \in 1..(n + 1) /\ 1..n \subseteq 1..(n + 1)
       /\ \A k \in 1..(n + 1) : k \in 1..n \/ k = n + 1
       /\ \A k \in 1..n : k # n => k \in 1..(n - 1) /\ k + 1 \in 1..n /\ k < n /\ k < n + 1
  BY <1>2
<1>16. on \in Seq(Frames) /\ Len(on) = n + 1 /\ DOMAIN on = 1..(n + 1)
  BY <1>13
<1> HIDE DEF on, fr
<1>17. Framed(p, on)
  <2>1. ASSUME NEW k \in 1..n
        PROVE  /\ on[k].next \in 1..(Size(p, on[k].file) + 1)
               /\ Len(on[k].ns) = k - 1 /\ k - 1 \in 0..Cardinality(Files)
               /\ Node(on[k]) \in Paths(p)[k - 1]
    <3>1. /\ st[k].next \in 1..(Size(p, st[k].file) + 1)
          /\ Len(st[k].ns) = k - 1 /\ k - 1 \in 0..Cardinality(Files)
          /\ Node(st[k]) \in Paths(p)[k - 1]
      BY <1>3 DEF Framed
    <3>2. on[k].next \in 1..(Size(p, on[k].file) + 1)
      <4>1. CASE k # n
        BY <1>14, <3>1, <4>1
      <4>2. CASE k = n
        <5>1. on[k].next = a + 1 /\ on[k].file = top.file
          BY <1>2, <1>14, <4>2
        <5>2. a + 1 \in 1..(Size(p, top.file) + 1)
          <6> HIDE DEF a, top
          <6> QED
            BY <1>5, <1>8
        <5> QED
          BY <5>1, <5>2
      <4> QED
        BY <4>1, <4>2
    <3> QED
      BY <1>14, <3>1, <3>2
  <2>2. /\ on[n + 1].next \in 1..(Size(p, on[n + 1].file) + 1)
        /\ Len(on[n + 1].ns) = (n + 1) - 1 /\ (n + 1) - 1 \in 0..Cardinality(Files)
        /\ Node(on[n + 1]) \in Paths(p)[(n + 1) - 1]
    <3>1. Size(p, f) \in Nat
      BY <1>7, ImportsTyped
    <3>2. 1 \in 1..(Size(p, f) + 1)
      BY <3>1
    <3>3. n \in 0..Cardinality(Files)
      BY <1>2, <1>5, FilesFinite
    <3> QED
      BY <1>5, <1>14, <1>15, <3>2, <3>3, Zenon
  <2> QED
    BY <1>15, <1>16, <2>1, <2>2, Zenon DEF Framed
<1>18. Linked(p, on)
  <2> SUFFICES ASSUME NEW k \in 1..n
               PROVE  /\ on[k].next \in 2..(Size(p, on[k].file) + 1)
                      /\ Node(on[k + 1]) = Way(p, Node(on[k]), on[k].next - 1)
    BY <1>15, <1>16, Zenon DEF Linked
  <2>1. CASE k # n
    <3>1. k \in 1..(n - 1) /\ k + 1 \in 1..n
      BY <1>15, <2>1, Zenon
    <3>2. st[k].next \in 2..(Size(p, st[k].file) + 1) /\ Node(st[k + 1]) = Way(p, Node(st[k]), st[k].next - 1)
      BY <1>3, <3>1 DEF Linked
    <3> QED
      BY <1>14, <2>1, <3>1, <3>2
  <2>2. CASE k = n
    <3>1. on[n].next = a + 1 /\ on[n].file = top.file /\ Node(on[n]) = Node(top) /\ Node(on[n + 1]) = y
      BY <1>2, <1>14
    <3>2. y = Way(p, Node(top), a)
      BY DEF y, Ahead
    <3>3. a + 1 \in 2..(Size(p, top.file) + 1) /\ (a + 1) - 1 = a
      <4> HIDE DEF a, top
      <4> QED
        BY <1>5, <1>8
    <3> QED
      BY <2>2, <3>1, <3>2, <3>3
  <2> QED
    BY <2>1, <2>2
<1>19. Apart(on)
  <2> SUFFICES ASSUME NEW k \in 1..(n + 1), NEW l \in 1..(n + 1), on[k].file = on[l].file PROVE k = l
    BY <1>16 DEF Apart
  <2>1. \A m \in 1..n : on[m].file = st[m].file /\ on[m].file # f
    BY <1>4, <1>14
  <2>2. on[n + 1].file = f /\ (k \in 1..n \/ k = n + 1) /\ (l \in 1..n \/ l = n + 1)
    BY <1>14, <1>15, Zenon
  <2>3. CASE k \in 1..n /\ l \in 1..n
    BY <1>3, <2>1, <2>3 DEF Apart
  <2> QED
    BY <2>1, <2>2, <2>3
<1>20. Begun(p, on, ds)
  <2> SUFFICES ASSUME NEW k \in 1..(n + 1), NEW b \in 1..(on[k].next - 1)
               PROVE  \/ k < n + 1 /\ b = on[k].next - 1
                      \/ Delivered(ds, Way(p, Node(on[k]), b), Len(ds) + 1)
    BY <1>16 DEF Begun
  <2>1. CASE k \in 1..n /\ k # n
    <3>1. on[k] = st[k] /\ k < n + 1
      BY <1>14, <1>15, <2>1, Zenon
    <3> QED
      BY <1>3, <2>1, <3>1 DEF Begun
  <2>2. CASE k = n
    <3>1. on[k].next - 1 = a /\ Node(on[k]) = Node(top) /\ k < n + 1
      <4>1. on[n].next = a + 1 /\ Node(on[n]) = Node(top)
        BY <1>2, <1>14
      <4>2. (a + 1) - 1 = a /\ n < n + 1
        <5> HIDE DEF a, n
        <5> QED
          BY <1>2, <1>8
      <4> QED
        BY <2>2, <4>1, <4>2
    <3>2. b = a \/ b \in 1..(a - 1)
      <4> HIDE DEF a
      <4> QED
        BY <1>8, <3>1
    <3>3. CASE b \in 1..(a - 1)
      BY <1>2, <1>3, <3>1, <3>3 DEF Begun
    <3> QED
      BY <3>1, <3>2, <3>3
  <2>3. k # n + 1
    BY <1>14
  <2> QED
    BY <1>15, <2>1, <2>2, <2>3, Zenon
<1>21. Passed(p, on, ds)
  <2>1. \A i \in Mods(ds) : Checked(p, ds[i].file, Size(p, ds[i].file))
    BY <1>3 DEF Passed
  <2>2. ASSUME NEW k \in 1..(n + 1) PROVE Checked(p, on[k].file, on[k].next - 1)
    <3>1. CASE k \in 1..n /\ k # n
      BY <1>3, <1>14, <3>1 DEF Passed
    <3>2. CASE k = n
      <4>1. Checked(p, top.file, a - 1)
        BY <1>2, <1>3 DEF Passed
      <4>2. \A b \in 1..a : b = a \/ b \in 1..(a - 1)
        <5> HIDE DEF a
        <5> QED
          BY <1>8
      <4>3. Checked(p, top.file, a)
        BY <1>4, <4>1, <4>2, Zenon DEF Checked
      <4>4. on[k].file = top.file /\ on[k].next - 1 = a
        <5>1. on[n].file = top.file /\ on[n].next = a + 1
          BY <1>2, <1>14
        <5>2. (a + 1) - 1 = a
          <6> HIDE DEF a
          <6> QED
            BY <1>8
        <5> QED
          BY <3>2, <5>1, <5>2
      <4> QED
        BY <4>3, <4>4
    <3>3. CASE k = n + 1
      <4>1. on[k].next - 1 = 0
        BY <1>14, <3>3
      <4> QED
        BY <4>1 DEF Checked
    <3> QED
      BY <1>15, <3>1, <3>2, <3>3, Zenon
  <2> QED
    BY <1>16, <2>1, <2>2 DEF Passed
<1>22. Fresh(p, on, ds)
  <2> SUFFICES ASSUME NEW i \in Mods(ds), NEW k \in 1..(n + 1), Under(on[k].ns, ds[i].ns)
               PROVE  k <= Len(ds[i].ns) /\ ds[i].ns[k] \in Seen(p, on[k].file, on[k].next)
    BY <1>16 DEF Fresh
  <2>1. k # n + 1
    BY <1>6, <1>14
  <2>2. k \in 1..n
    BY <1>15, <2>1, Zenon
  <2>3. k <= Len(ds[i].ns) /\ ds[i].ns[k] \in Seen(p, st[k].file, st[k].next)
    BY <1>3, <1>14, <2>2 DEF Fresh
  <2>4. Seen(p, st[k].file, st[k].next) \subseteq Seen(p, on[k].file, on[k].next)
    <3>1. CASE k = n
      <4>1. 1..(a - 1) \subseteq 1..((a + 1) - 1)
        <5> HIDE DEF a
        <5> QED
          BY <1>8
      <4>2. on[k].file = top.file /\ on[k].next = a + 1
        BY <1>2, <1>14, <3>1
      <4> QED
        BY <3>1, <4>1, <4>2 DEF Seen
    <3> QED
      BY <1>14, <2>2, <3>1
  <2> QED
    BY <2>3, <2>4
<1>23. Counts(p, on, ds, un1, ex + 1)
  <2>1. Met(on, ds) = Met(st, ds) \cup {y}
    <3>1. {Node(on[k]) : k \in DOMAIN on} = {Node(st[k]) : k \in DOMAIN st} \cup {y}
      <4>1. DOMAIN st = 1..n
        BY <1>1
      <4>2. /\ \A k \in 1..n : Node(on[k]) = Node(st[k]) /\ k \in 1..(n + 1)
            /\ Node(on[n + 1]) = y /\ n + 1 \in 1..(n + 1)
            /\ \A k \in 1..(n + 1) : k \in 1..n \/ k = n + 1
        BY <1>14, <1>15, Zenon
      <4>3. {Node(on[k]) : k \in 1..(n + 1)} = {Node(st[k]) : k \in 1..n} \cup {y}
        <5> HIDE DEF n
        <5> QED
          BY <4>2
      <4> QED
        BY <1>16, <4>1, <4>3, Zenon
    <3> QED
      BY <3>1 DEF Met
  <2>2. IsFiniteSet(Met(st, ds)) /\ ex = Cardinality(Met(st, ds)) /\ un = {x[2] : x \in Met(st, ds)}
    BY <1>3 DEF Counts
  <2>3. IsFiniteSet(Met(on, ds)) /\ Cardinality(Met(on, ds)) = ex + 1
    BY <1>6, <2>1, <2>2, FS_AddElement
  <2>4. un1 = {x[2] : x \in Met(on, ds)}
    BY <2>1, <2>2
  <2>5. \A x \in Met(on, ds) : Len(x[1]) <= MaxDepth /\ x[2] \in p.exists
    BY <1>3, <1>4, <1>5, <2>1 DEF Counts
  <2>6. Start \in Met(on, ds)
    BY <1>3, <2>1 DEF Counts
  <2> QED
    BY <2>3, <2>4, <2>5, <2>6 DEF Counts
<1>24. Prepared(p, on)
  <2> SUFFICES ASSUME NEW k \in 1..(n + 1)
               PROVE  /\ p.native[on[k].file] = "none" => on[k].generated = <<>>
                      /\ p.native[on[k].file] = "module" => on[k].generated = <<Struct(on[k].file, on[k].ns)>>
                      /\ p.native[on[k].file] = "legacy" => on[k].generated \in {<<>>, <<Struct(on[k].file, <<>>)>>}
    BY <1>16 DEF Prepared
  <2>1. CASE k \in 1..n
    BY <1>3, <1>14, <2>1 DEF Prepared
  <2>2. CASE k = n + 1
    BY <1>4, <1>14, <2>2
  <2> QED
    BY <1>15, <2>1, <2>2, Zenon
<1>25. Once(p, on, ds, un1, em1)
  <2>1. em = {g \in un : p.native[g] = "legacy"}
    BY <1>3 DEF Once
  <2>2. em1 = {g \in un1 : p.native[g] = "legacy"}
    BY <2>1
  <2>3. ASSUME NEW g \in Files, g # f PROVE Held(on, g) = Held(st, g)
    <3>1. /\ \A k \in 1..n : on[k].file = st[k].file /\ on[k].generated = st[k].generated /\ k \in 1..(n + 1)
          /\ on[n + 1].file # g
          /\ \A k \in 1..(n + 1) : k \in 1..n \/ k = n + 1
      BY <1>14, <1>15, <2>3, Zenon
    <3>2. Held(on, g) = {k \in 1..(n + 1) : on[k].file = g /\ on[k].generated # <<>>}
      BY <1>16 DEF Held
    <3>3. Held(st, g) = {k \in 1..n : st[k].file = g /\ st[k].generated # <<>>}
      BY DEF Held
    <3> HIDE DEF n
    <3> QED
      BY <3>1, <3>2, <3>3
  <2>4. /\ made # <<>> => n + 1 \in Held(on, f)
        /\ made = <<>> => Held(on, f) = {}
    <3>1. \A k \in 1..n : on[k].file # f
      BY <1>4, <1>14
    <3>2. /\ n + 1 \in 1..(n + 1) /\ on[n + 1].file = f /\ on[n + 1].generated = made
          /\ \A k \in 1..(n + 1) : k \in 1..n \/ k = n + 1
      BY <1>14, <1>15, Zenon
    <3>3. Held(on, f) = {k \in 1..(n + 1) : on[k].file = f /\ on[k].generated # <<>>}
      BY <1>16 DEF Held
    <3> HIDE DEF n, f
    <3> QED
      BY <3>1, <3>2, <3>3
  <2>5. ASSUME NEW g \in Files, p.native[g] = "legacy", g \notin em1 PROVE Holds(ds, g) = {}
    <3>1. g \notin em
      BY <2>5
    <3> QED
      BY <1>3, <2>5, <3>1 DEF Once
  <2>6. ASSUME NEW g \in Files, p.native[g] = "legacy", g \in em1
        PROVE  \/ Held(on, g) = {} /\ \E i \in DOMAIN ds : Holds(ds, g) = {i}
               \/ Held(on, g) # {} /\ Holds(ds, g) = {}
    <3>1. CASE g # f
      <4>1. g \in em
        BY <2>6, <3>1
      <4> QED
        BY <1>3, <2>3, <2>6, <3>1, <4>1 DEF Once
    <3>2. CASE g = f /\ f \in em
      <4>1. made = <<>>
        BY <1>4, <2>6, <3>2
      <4>2. Held(st, f) = {}
        BY <1>4 DEF Held
      <4> QED
        BY <1>3, <2>4, <2>6, <3>2, <4>1, <4>2 DEF Once
    <3>3. CASE g = f /\ f \notin em
      <4>1. made # <<>>
        <5> DEFINE q == Struct(f, <<>>)
        <5>1. made = <<q>>
          BY <1>4, <2>6, <3>3
        <5> HIDE DEF q
        <5> QED
          BY <5>1
      <4>2. Holds(ds, f) = {}
        BY <1>3, <2>6, <3>3 DEF Once
      <4> QED
        BY <2>4, <3>3, <4>1, <4>2
    <3> QED
      BY <3>1, <3>2, <3>3
  <2> QED
    BY <2>2, <2>5, <2>6 DEF Once
<1> QED
  BY <1>1, <1>3, <1>16, <1>17, <1>18, <1>19, <1>20, <1>21, <1>22, <1>23, <1>24, <1>25 DEF Walk, y, on

\* The walk starts in the root.
LEMMA WalkStarts == LoadInit => Walk(program, stack, defs, emitted, unique, expansions)
<1> SUFFICES ASSUME LoadInit PROVE Walk(program, stack, defs, emitted, unique, expansions)
  OBVIOUS
<1> DEFINE made == IF program.native[Root] = "none" THEN <<>> ELSE <<Struct(Root, <<>>)>>
           fr == [file |-> Root, ns |-> <<>>, next |-> 1, generated |-> made]
           empty == <<>>
           st == <<fr>>
<1>1. program \in Programs /\ stack = st /\ defs = empty /\ unique = {Root} /\ expansions = 1
      /\ emitted = IF program.native[Root] = "legacy" THEN {Root} ELSE {}
  BY DEF LoadInit, Struct
<1>2. empty \in Seq(Aliases) /\ empty \in Seq(Definition) /\ Len(empty) = 0 /\ DOMAIN empty = {}
  OBVIOUS
<1>3. Root \in Files /\ program.native[Root] \in {"none", "module", "legacy"} /\ Root \in program.exists
  BY <1>1, FilesAssumption DEF Program
<1>4. made \in Seq(Definition) /\ (program.native[Root] = "legacy" => made # <<>>)
  <2> DEFINE q == Struct(Root, <<>>)
  <2>1. q \in Definition
    <3>1. q = [kind |-> "struct", file |-> Root, ns |-> empty]
      BY DEF Struct
    <3> HIDE DEF empty, q
    <3> QED
      BY <1>2, <1>3, <3>1 DEF Definition
  <2>2. made = IF program.native[Root] = "none" THEN empty ELSE <<q>>
    OBVIOUS
  <2> HIDE DEF q, empty, made
  <2>3. <<q>> \in Seq(Definition) /\ <<q>> # <<>>
    BY <2>1
  <2> QED
    BY <1>2, <2>2, <2>3
<1>5. fr \in Frames /\ fr.file = Root /\ fr.ns = empty /\ fr.next = 1 /\ fr.generated = made /\ Node(fr) = Start
  <2>1. fr = [file |-> Root, ns |-> empty, next |-> 1, generated |-> made]
    OBVIOUS
  <2> HIDE DEF made
  <2>2. fr.file = Root /\ fr.ns = empty /\ fr.next = 1 /\ fr.generated = made /\ Node(fr) = Start
    BY DEF Node, Start
  <2> HIDE DEF empty, fr
  <2> QED
    BY <1>2, <1>3, <1>4, <2>1, <2>2 DEF Frames
<1>6. /\ program.native[Root] = "none" => made = <<>>
      /\ program.native[Root] = "module" => made = <<Struct(Root, empty)>>
      /\ program.native[Root] = "legacy" => made \in {<<>>, <<Struct(Root, <<>>)>>}
  OBVIOUS
<1> HIDE DEF fr, made
<1>7. st \in Seq(Frames) /\ Len(st) = 1 /\ st[1] = fr /\ DOMAIN st = 1..1 /\ \A k \in 1..Len(st) : k = 1
  BY <1>5
<1> HIDE DEF st
<1>8. \A us \in {empty} : Mods(us) = {} /\ DOMAIN us \ Mods(us) = {}
  BY <1>2 DEF Mods
<1> HIDE DEF empty
<1>9. Framed(program, st)
  <2>1. Size(program, Root) \in Nat
    BY <1>1, <1>3, ImportsTyped
  <2>2. Cardinality(Files) \in Nat /\ Start \in Paths(program)[0]
    BY <1>1, FilesFinite, PathsSteps
  <2>3. 1 \in 1..(Size(program, Root) + 1) /\ 1 - 1 = 0 /\ 0 \in 0..Cardinality(Files)
    BY <2>1, <2>2
  <2> QED
    BY <1>2, <1>5, <1>7, <2>2, <2>3 DEF Framed
<1>10. Linked(program, st) /\ Apart(st)
  <2>1. 1..(Len(st) - 1) = {}
    BY <1>7
  <2> QED
    BY <1>7, <2>1 DEF Linked, Apart
<1>11. Behind(program, empty) /\ Fresh(program, st, empty) /\ InOrder(empty) /\ Structured(program, empty)
  BY <1>8 DEF Behind, Fresh, InOrder, Structured
<1>12. Begun(program, st, empty) /\ Passed(program, st, empty)
  <2>1. \A k \in 1..Len(st) : st[k].next - 1 = 0 /\ 1..(st[k].next - 1) = {}
    BY <1>5, <1>7
  <2> QED
    BY <1>8, <2>1 DEF Begun, Passed, Checked
<1>13. Counts(program, st, empty, {Root}, 1)
  <2>1. Met(st, empty) = {Start}
    BY <1>5, <1>7, <1>8 DEF Met
  <2>2. IsFiniteSet({Start}) /\ Cardinality({Start}) = 1
    BY FS_Singleton
  <2>3. Start[2] = Root /\ Start[1] = empty
    BY DEF Start, empty
  <2>4. {x[2] : x \in {Start}} = {Root}
    BY <2>3
  <2>5. MaxDepth \in Nat
    BY LimitsAssumption
  <2> QED
    BY <1>2, <1>3, <2>1, <2>2, <2>3, <2>4, <2>5 DEF Counts
<1>14. Prepared(program, st)
  BY <1>5, <1>6, <1>7 DEF Prepared
<1>15. Once(program, st, empty, {Root}, emitted)
  <2>1. emitted = {f \in {Root} : program.native[f] = "legacy"}
    BY <1>1
  <2>2. \A f \in Files : Holds(empty, f) = {}
    BY <1>8 DEF Holds
  <2>3. ASSUME NEW f \in Files, f \in emitted PROVE Held(st, f) # {}
    <3>1. f = Root /\ program.native[Root] = "legacy"
      BY <2>1, <2>3
    <3>2. 1 \in 1..Len(st)
      BY <1>7
    <3>3. 1 \in Held(st, f)
      BY <1>4, <1>5, <1>7, <3>1, <3>2 DEF Held
    <3> QED
      BY <3>3
  <2> QED
    BY <2>1, <2>2, <2>3 DEF Once
<1> QED
  BY <1>1, <1>2, <1>7, <1>9, <1>10, <1>11, <1>12, <1>13, <1>14, <1>15 DEF Walk

\* When no call is left, what was delivered is all there is to load.
LEMMA AllMet ==
  ASSUME NEW p \in Programs, NEW st, NEW ds, NEW em, NEW un, NEW ex, Walk(p, st, ds, em, un, ex), Len(st) = 0
  PROVE  /\ Everything(p) = {Node(ds[i]) : i \in Mods(ds)} /\ Met(st, ds) = Everything(p)
         /\ IsFiniteSet(Everything(p)) /\ Cardinality(Everything(p)) = ex /\ Reachable(p) = un
<1> DEFINE M == {Node(ds[i]) : i \in Mods(ds)}
<1>1. st \in Seq(Frames) /\ ds \in Seq(Definition) /\ Behind(p, ds) /\ Counts(p, st, ds, un, ex)
  BY DEF Walk
<1>2. Met(st, ds) = M
  <2>1. DOMAIN st = {}
    BY <1>1
  <2> QED
    BY <2>1 DEF Met
<1>3. M \subseteq Everything(p)
  BY <1>1 DEF Behind
<1>4. ASSUME NEW x \in M PROVE Ways(p, x) \subseteq M
  <2>1. PICK i \in Mods(ds) : x = Node(ds[i])
    BY <1>4
  <2>2. x[2] = ds[i].file
    BY <2>1 DEF Node
  <2> SUFFICES ASSUME NEW y \in Ways(p, x) PROVE y \in M
    OBVIOUS
  <2>3. PICK a \in 1..Size(p, x[2]) : y = Way(p, x, a)
    BY WaysAre
  <2>4. Delivered(ds, y, i)
    BY <1>1, <2>1, <2>2, <2>3 DEF Behind
  <2> QED
    BY <2>4 DEF Delivered
<1>5. Start \in M
  BY <1>1, <1>2 DEF Counts
<1>6. Everything(p) \subseteq M
  <2> HIDE DEF M
  <2> QED
    BY <1>4, <1>5, PathsClosed
<1>7. Everything(p) = M
  BY <1>3, <1>6
<1> QED
  BY <1>1, <1>2, <1>7 DEF Counts, Reachable

\* Nothing that was delivered imports itself by some path.
LEMMA NoneCircular ==
  ASSUME NEW p \in Programs, NEW st, NEW ds, NEW em, NEW un, NEW ex, Walk(p, st, ds, em, un, ex), Len(st) = 0
  PROVE  ~Cyclic(p)
<1> SUFFICES ASSUME NEW f \in Reachable(p), f \in Below(p, f) PROVE FALSE
  BY DEF Cyclic
<1> DEFINE These == {i \in Mods(ds) : ds[i].file = f}
<1>1. ds \in Seq(Definition) /\ Behind(p, ds)
  BY DEF Walk
<1>2. /\ Mods(ds) \subseteq Nat
      /\ \A i \in Mods(ds) : ds[i].file \in Files /\ Node(ds[i]) \in Nodes /\ Node(ds[i])[2] = ds[i].file
  BY <1>1, DefinitionTyped DEF Mods
<1>3. These # {} /\ These \subseteq Nat /\ f \in Files
  <2>1. PICK x \in Everything(p) : f = x[2]
    BY DEF Reachable
  <2>2. PICK i \in Mods(ds) : x = Node(ds[i])
    BY AllMet
  <2> QED
    BY <1>2, <2>1, <2>2
<1>4. PICK i \in These : \A j \in These : i <= j
  BY <1>3, Smallest, Zenon
<1> DEFINE fs == {ds[j].file : j \in {k \in Mods(ds) : k < i}}
<1>5. ASSUME NEW j \in Mods(ds), j <= i PROVE Targets(p, ds[j].file) \subseteq fs
  <2> SUFFICES ASSUME NEW a \in 1..Size(p, ds[j].file) PROVE p.imports[ds[j].file][a].target \in fs
    BY DEF Targets, Size
  <2>1. Delivered(ds, Way(p, Node(ds[j]), a), j)
    BY <1>1 DEF Behind
  <2>2. PICK k \in Mods(ds) : k < j /\ Node(ds[k]) = Way(p, Node(ds[j]), a)
    BY <2>1 DEF Delivered
  <2>3. ds[k].file = p.imports[ds[j].file][a].target
    <3>1. Node(ds[k])[2] = ds[k].file /\ Node(ds[j])[2] = ds[j].file
      BY <1>2
    <3> QED
      BY <2>2, <3>1 DEF Way
  <2>4. k < i
    <3>1. i \in Nat /\ j \in Nat /\ k \in Nat
      BY <1>2, <1>3
    <3> QED
      BY <1>5, <2>2, <3>1
  <2> QED
    BY <2>3, <2>4
<1>6. i \in Mods(ds) /\ i \in Nat /\ i <= i /\ ds[i].file = f
  BY <1>2
<1>7. Targets(p, f) \subseteq fs
  BY <1>5, <1>6
<1>8. \A g \in fs : Targets(p, g) \subseteq fs
  <2> SUFFICES ASSUME NEW j \in Mods(ds), j < i PROVE Targets(p, ds[j].file) \subseteq fs
    OBVIOUS
  <2>1. j <= i
    BY <1>2, <1>6
  <2> QED
    BY <1>5, <2>1
<1>9. f \in fs
  <2> HIDE DEF fs
  <2> QED
    BY <1>3, <1>7, <1>8, LevelsClosed
<1>10. PICK j \in Mods(ds) : j < i /\ ds[j].file = f
  BY <1>9
<1>11. i <= j /\ j \in Nat
  BY <1>2, <1>4, <1>10
<1> QED
  BY <1>6, <1>10, <1>11

\* What PathsDelivered, StructsThere and AcceptedIsSound say of an accepted program.
Sound(p) ==
    /\ ~Cyclic(p)
    /\ Cardinality(Everything(p)) <= MaxExpansions \/ Everything(p) = {<<<<>>, Root>>}
    /\ Cardinality(Reachable(p)) <= MaxUnique \/ Reachable(p) = {Root}
    /\ \A path \in Everything(p) : Len(path[1]) <= MaxDepth
    /\ Reachable(p) \subseteq p.exists
    /\ \A f \in Reachable(p) : \A i, j \in 1..Len(p.imports[f]) :
           /\ i # j => p.imports[f][i].alias # p.imports[f][j].alias
           /\ LET target == Owner[p.imports[f][i].target] IN
              target \in p.declares[Owner[f]] \cup {Owner[f], Std, Project}
AllDelivered(p, ds) ==
    /\ {<<ds[i].ns, ds[i].file>> : i \in Mods(ds)} = Everything(p)
    /\ Cardinality(Mods(ds)) = Cardinality(Everything(p))
    /\ \A i, j \in Mods(ds) :
           /\ Len(ds[i].ns) > Len(ds[j].ns)
           /\ SubSeq(ds[i].ns, 1, Len(ds[j].ns)) = ds[j].ns
           => i < j
AllThere(p, ds) ==
    \A path \in Everything(p) :
        LET f == path[2]
            mine == {i \in 1..Len(ds) : ds[i].kind = "struct" /\ ds[i].file = f} IN
        /\ p.native[f] = "module" => \E i \in mine : ds[i].ns = path[1]
        /\ p.native[f] = "legacy" => Cardinality(mine) = 1

LEMMA FinishedSound ==
  ASSUME NEW p \in Programs, NEW st, NEW ds, NEW em, NEW un, NEW ex, Walk(p, st, ds, em, un, ex), Len(st) = 0,
         ex <= MaxExpansions \/ ex = 1, Cardinality(un) <= MaxUnique \/ un = {Root}
  PROVE  Sound(p)
<1>1. /\ Everything(p) = {Node(ds[i]) : i \in Mods(ds)} /\ Met(st, ds) = Everything(p)
      /\ IsFiniteSet(Everything(p)) /\ Cardinality(Everything(p)) = ex /\ Reachable(p) = un
  BY AllMet
<1>2. Counts(p, st, ds, un, ex) /\ Passed(p, st, ds) /\ ds \in Seq(Definition)
  BY DEF Walk
<1>3. ~Cyclic(p)
  BY NoneCircular
<1>4. Cardinality(Everything(p)) <= MaxExpansions \/ Everything(p) = {<<<<>>, Root>>}
  <2>1. SUFFICES ASSUME Cardinality(Everything(p)) = 1 PROVE Everything(p) = {Start}
    BY <1>1 DEF Start
  <2>2. Start \in Everything(p)
    BY EverythingTyped
  <2>3. IsFiniteSet(Everything(p) \ {Start}) /\ Cardinality(Everything(p) \ {Start}) = 0
    <3> DEFINE all == Everything(p)
    <3>1. IsFiniteSet(all) /\ Cardinality(all) = 1 /\ Start \in all
      BY <1>1, <2>1, <2>2
    <3> HIDE DEF all
    <3>2. IsFiniteSet(all \ {Start}) /\ Cardinality(all \ {Start}) = Cardinality(all) - 1
      BY <3>1, FS_RemoveElement
    <3> QED
      BY <3>1, <3>2 DEF all
  <2>4. Everything(p) \ {Start} = {}
    BY <2>3, FS_EmptySet
  <2> QED
    BY <2>2, <2>4
<1>5. Cardinality(Reachable(p)) <= MaxUnique \/ Reachable(p) = {Root}
  BY <1>1
<1>6. \A path \in Everything(p) : Len(path[1]) <= MaxDepth /\ path[2] \in p.exists
  BY <1>1, <1>2 DEF Counts
<1>7. Reachable(p) \subseteq p.exists
  BY <1>6 DEF Reachable
<1>8. ASSUME NEW f \in Reachable(p), NEW i \in 1..Len(p.imports[f]), NEW j \in 1..Len(p.imports[f])
      PROVE  /\ i # j => p.imports[f][i].alias # p.imports[f][j].alias
             /\ Owner[p.imports[f][i].target] \in p.declares[Owner[f]] \cup {Owner[f], Std, Project}
  <2>1. PICK k \in Mods(ds) : f = ds[k].file
    <3>1. PICK x \in Everything(p) : f = x[2]
      BY DEF Reachable
    <3>2. PICK k \in Mods(ds) : x = Node(ds[k])
      BY <1>1
    <3> QED
      BY <3>1, <3>2 DEF Node
  <2>2. f \in Files /\ Len(p.imports[f]) \in Nat
    <3>1. k \in DOMAIN ds
      BY DEF Mods
    <3> QED
      BY <1>2, <2>1, <3>1, DefinitionTyped, ImportsTyped DEF Size
  <2>3. \A a \in 1..Len(p.imports[f]) : p.imports[f][a].alias \notin Seen(p, f, a) /\ Allowed(p, f, p.imports[f][a])
    BY <1>2, <2>1 DEF Passed, Checked, Size
  <2>4. ASSUME NEW a \in 1..Len(p.imports[f]), NEW b \in 1..Len(p.imports[f]), a < b
        PROVE  p.imports[f][a].alias # p.imports[f][b].alias
    <3>1. a \in 1..(b - 1)
      BY <2>2, <2>4
    <3>2. p.imports[f][a].alias \in Seen(p, f, b)
      BY <3>1 DEF Seen
    <3> QED
      BY <2>3, <3>2
  <2>5. i # j => i < j \/ j < i
    BY <2>2
  <2>6. i # j => p.imports[f][i].alias # p.imports[f][j].alias
    BY <2>4, <2>5
  <2>7. Allowed(p, f, p.imports[f][i])
    BY <2>3
  <2>8. p.imports[f][i].via \in {"std", "crate", "package"}
    BY <2>2, ImportsTyped DEF Size
  <2>9. Owner[p.imports[f][i].target] \in p.declares[Owner[f]] \cup {Owner[f], Std, Project}
    BY <2>7, <2>8 DEF Allowed
  <2> QED
    BY <2>6, <2>9
<1> QED
  BY <1>3, <1>4, <1>5, <1>6, <1>7, <1>8 DEF Sound

\* A module is delivered once for a path.
LEMMA OncePerPath ==
  ASSUME NEW p \in Programs, NEW ds \in Seq(Definition), InOrder(ds),
         NEW i \in Mods(ds), NEW j \in Mods(ds), ds[i].ns = ds[j].ns
  PROVE  i = j
<1>1. i \in Nat /\ j \in Nat /\ Len(ds[i].ns) \in Nat
  BY DefinitionTyped DEF Mods
<1>2. Under(ds[i].ns, ds[j].ns) /\ Under(ds[j].ns, ds[i].ns)
  BY <1>1 DEF Under
<1>3. i <= j /\ j <= i
  BY <1>2 DEF InOrder
<1> QED
  BY <1>1, <1>3

LEMMA FinishedPaths ==
  ASSUME NEW p \in Programs, NEW st, NEW ds, NEW em, NEW un, NEW ex, Walk(p, st, ds, em, un, ex), Len(st) = 0
  PROVE  AllDelivered(p, ds)
<1>1. Everything(p) = {Node(ds[i]) : i \in Mods(ds)} /\ IsFiniteSet(Everything(p))
  BY AllMet
<1>2. ds \in Seq(Definition) /\ InOrder(ds)
  BY DEF Walk
<1>3. IsFiniteSet(Mods(ds)) /\ Mods(ds) \subseteq Nat
  <2>1. Mods(ds) \subseteq 1..Len(ds) /\ Len(ds) \in Nat
    BY <1>2 DEF Mods
  <2>2. IsFiniteSet(1..Len(ds))
    BY <2>1, FS_Interval
  <2> QED
    BY <2>1, <2>2, FS_Subset
<1>4. Cardinality(Mods(ds)) = Cardinality(Everything(p))
  <2> DEFINE h == [i \in Mods(ds) |-> Node(ds[i])]
  <2>1. h \in Injection(Mods(ds), Everything(p))
    <3>1. h \in [Mods(ds) -> Everything(p)]
      BY <1>1
    <3>2. ASSUME NEW i \in Mods(ds), NEW j \in Mods(ds), h[i] = h[j] PROVE i = j
      <4>1. ds[i].ns = ds[j].ns
        BY <3>2 DEF Node
      <4> QED
        BY <1>2, <4>1, OncePerPath
    <3> HIDE DEF h
    <3> QED
      BY <3>1, <3>2 DEF Injection, IsInjective
  <2>2. h \in Surjection(Mods(ds), Everything(p))
    <3>1. h \in [Mods(ds) -> Everything(p)]
      BY <1>1
    <3>2. \A x \in Everything(p) : \E i \in Mods(ds) : h[i] = x
      BY <1>1
    <3> HIDE DEF h
    <3> QED
      BY <3>1, <3>2 DEF Surjection
  <2>3. h \in Bijection(Mods(ds), Everything(p))
    BY <2>1, <2>2 DEF Bijection
  <2> HIDE DEF h
  <2> QED
    BY <1>3, <2>3, FS_Bijection DEF ExistsBijection
<1>5. ASSUME NEW i \in Mods(ds), NEW j \in Mods(ds), Len(ds[i].ns) > Len(ds[j].ns),
             SubSeq(ds[i].ns, 1, Len(ds[j].ns)) = ds[j].ns
      PROVE  i < j
  <2> DEFINE us == ds[i].ns
             vs == ds[j].ns
  <2>1. us \in Seq(Aliases) /\ vs \in Seq(Aliases) /\ i \in Nat /\ j \in Nat
    BY <1>2, DefinitionTyped DEF Mods
  <2> HIDE DEF us, vs
  <2>2. Len(us) > Len(vs) /\ SubSeq(us, 1, Len(vs)) = vs
    BY <1>5 DEF us, vs
  <2>3. \A m \in 1..Len(vs) : SubSeq(us, 1, Len(vs))[m] = us[m]
    BY <2>1, <2>2
  <2>4. Under(vs, us)
    BY <2>1, <2>2, <2>3 DEF Under
  <2>5. i <= j
    BY <1>2, <2>4 DEF InOrder, us, vs
  <2>6. i # j
    BY <2>1, <2>2 DEF us, vs
  <2> QED
    BY <2>1, <2>5, <2>6
<1>6. {<<ds[i].ns, ds[i].file>> : i \in Mods(ds)} = Everything(p)
  BY <1>1 DEF Node
<1> QED
  BY <1>4, <1>5, <1>6 DEF AllDelivered

LEMMA FinishedStructs ==
  ASSUME NEW p \in Programs, NEW st, NEW ds, NEW em, NEW un, NEW ex, Walk(p, st, ds, em, un, ex), Len(st) = 0
  PROVE  AllThere(p, ds)
<1>1. Everything(p) = {Node(ds[i]) : i \in Mods(ds)} /\ Reachable(p) = un
  BY AllMet
<1>2. ds \in Seq(Definition) /\ Structured(p, ds) /\ Once(p, st, ds, un, em)
  BY DEF Walk
<1>3. DOMAIN ds = 1..Len(ds) /\ \A i \in DOMAIN ds : ds[i].kind = "struct" <=> i \notin Mods(ds)
  <2>1. \A i \in DOMAIN ds : ds[i].kind \in {"struct", "module"}
    BY <1>2, DefinitionTyped
  <2> QED
    BY <1>2, <2>1 DEF Mods
<1> SUFFICES ASSUME NEW x \in Everything(p)
             PROVE  LET f == x[2]
                        mine == {i \in 1..Len(ds) : ds[i].kind = "struct" /\ ds[i].file = f} IN
                    /\ p.native[f] = "module" => \E i \in mine : ds[i].ns = x[1]
                    /\ p.native[f] = "legacy" => Cardinality(mine) = 1
  BY DEF AllThere
<1> DEFINE f == x[2]
           mine == {i \in 1..Len(ds) : ds[i].kind = "struct" /\ ds[i].file = f}
<1>4. PICK k \in Mods(ds) : x = Node(ds[k])
  BY <1>1
<1>5. k \in DOMAIN ds /\ ds[k].file = f /\ ds[k].ns = x[1] /\ f \in Files
  <2>1. k \in DOMAIN ds
    BY DEF Mods
  <2> QED
    BY <1>2, <1>4, <2>1, DefinitionTyped
<1>6. ASSUME p.native[f] = "module" PROVE \E i \in mine : ds[i].ns = x[1]
  <2>1. PICK j \in DOMAIN ds : ds[j] = Struct(ds[k].file, ds[k].ns)
    BY <1>2, <1>5, <1>6 DEF Structured
  <2>2. ds[j].kind = "struct" /\ ds[j].file = f /\ ds[j].ns = x[1]
    BY <1>5, <2>1 DEF Struct
  <2> QED
    BY <1>3, <2>2
<1>7. ASSUME p.native[f] = "legacy" PROVE Cardinality(mine) = 1
  <2>1. f \in un
    BY <1>1 DEF Reachable
  <2>2. Held(st, f) = {}
    <3>1. 1..Len(st) = {}
      BY DEF Walk
    <3> QED
      BY <3>1 DEF Held
  <2>3. f \in em
    BY <1>2, <1>7, <2>1 DEF Once
  <2>4. PICK i \in DOMAIN ds : Holds(ds, f) = {i}
    BY <1>2, <1>5, <1>7, <2>2, <2>3 DEF Once
  <2>5. mine = Holds(ds, f)
    BY <1>3 DEF Holds
  <2> QED
    BY <2>4, <2>5, FS_Singleton
<1> QED
  BY <1>6, <1>7

\* Two structs of one template are of a native module that is reached twice.
LEMMA FinishedDiamond ==
  ASSUME NEW p \in Programs, NEW st, NEW ds, NEW em, NEW un, NEW ex, Walk(p, st, ds, em, un, ex), Len(st) = 0,
         Repeated(ds) \/ Conflict(ds)
  PROVE  "diamond" \in Situations(p)
<1>1. Everything(p) = {Node(ds[i]) : i \in Mods(ds)} /\ Reachable(p) = un /\ IsFiniteSet(Everything(p))
  BY AllMet
<1>2. ds \in Seq(Definition) /\ Structured(p, ds) /\ Once(p, st, ds, un, em) /\ InOrder(ds)
  BY DEF Walk
<1>3. /\ DOMAIN ds = 1..Len(ds) /\ Len(ds) \in Nat
      /\ \A i \in DOMAIN ds : (ds[i].kind = "struct" <=> i \notin Mods(ds)) /\ ds[i].file \in Files /\ i \in Nat
  <2>1. \A i \in DOMAIN ds : ds[i].kind \in {"struct", "module"} /\ ds[i].file \in Files
    BY <1>2, DefinitionTyped
  <2>2. DOMAIN ds = 1..Len(ds) /\ Len(ds) \in Nat
    BY <1>2
  <2> QED
    BY <2>1, <2>2 DEF Mods
<1>4. ASSUME NEW i \in DOMAIN ds \ Mods(ds), NEW j \in DOMAIN ds \ Mods(ds), i # j, ds[i].file = ds[j].file
      PROVE  p.native[ds[i].file] = "module"
  <2>1. SUFFICES ASSUME p.native[ds[i].file] = "legacy" PROVE FALSE
    BY <1>2 DEF Structured
  <2>2. i \in Holds(ds, ds[i].file) /\ j \in Holds(ds, ds[i].file)
    BY <1>4 DEF Holds
  <2>3. Held(st, ds[i].file) = {}
    <3>1. 1..Len(st) = {}
      BY DEF Walk
    <3> QED
      BY <3>1 DEF Held
  <2>4. ds[i].file \in Files
    BY <1>3
  <2>5. Holds(ds, ds[i].file) = {} \/ \E k \in DOMAIN ds : Holds(ds, ds[i].file) = {k}
    BY <1>2, <2>1, <2>3, <2>4 DEF Once
  <2> QED
    BY <1>4, <2>2, <2>5
<1>5. ASSUME NEW i \in DOMAIN ds \ Mods(ds), p.native[ds[i].file] = "module"
      PROVE  i + 1 \in Mods(ds) /\ Node(ds[i + 1]) = Node(ds[i])
  BY <1>2, <1>5 DEF Structured
<1>6. \E i, j \in DOMAIN ds \ Mods(ds) : ds[i].file = ds[j].file /\ ds[i].ns # ds[j].ns
  <2>1. CASE Conflict(ds)
    <3>1. PICK i, j \in 1..Len(ds) : /\ ds[i].kind = "struct" /\ ds[j].kind = "struct"
                                     /\ ds[i].file = ds[j].file /\ ds[i].ns # ds[j].ns
      BY <2>1 DEF Conflict
    <3>2. i \in DOMAIN ds \ Mods(ds) /\ j \in DOMAIN ds \ Mods(ds)
      BY <1>3, <3>1
    <3> QED
      BY <3>1, <3>2
  <2>2. CASE Repeated(ds)
    <3>1. PICK i, j \in 1..Len(ds) : i # j /\ ds[i] = ds[j]
      BY <2>2 DEF Repeated
    <3>2. CASE i \in Mods(ds)
      <4>1. j \in Mods(ds)
        BY <1>3, <3>1, <3>2
      <4>2. ds[i].ns = ds[j].ns
        BY <3>1
      <4> QED
        BY <1>2, <3>1, <3>2, <4>1, <4>2, OncePerPath
    <3>3. CASE i \notin Mods(ds)
      <4>1. i \in DOMAIN ds \ Mods(ds) /\ j \in DOMAIN ds \ Mods(ds)
        BY <1>3, <3>1, <3>3
      <4>2. p.native[ds[i].file] = "module" /\ p.native[ds[j].file] = "module"
        BY <1>4, <3>1, <4>1
      <4>3. /\ i + 1 \in Mods(ds) /\ j + 1 \in Mods(ds) /\ Node(ds[i + 1]) = Node(ds[j + 1])
        BY <1>5, <3>1, <4>1, <4>2
      <4>4. ds[i + 1].ns = ds[j + 1].ns
        BY <4>3 DEF Node
      <4>5. i + 1 = j + 1
        <5> DEFINE k == i + 1
                   l == j + 1
        <5>1. k \in Mods(ds) /\ l \in Mods(ds) /\ ds[k].ns = ds[l].ns
          BY <4>3, <4>4
        <5> HIDE DEF k, l
        <5>2. k = l
          BY <1>2, <5>1, OncePerPath
        <5> QED
          BY <5>2 DEF k, l
      <4>6. i \in Nat /\ j \in Nat
        BY <1>3
      <4> QED
        BY <3>1, <4>5, <4>6
    <3> QED
      BY <3>2, <3>3
  <2> QED
    BY <2>1, <2>2
<1>7. PICK i, j \in DOMAIN ds \ Mods(ds) : ds[i].file = ds[j].file /\ ds[i].ns # ds[j].ns
  BY <1>6
<1> DEFINE f == ds[i].file
           X == {path \in Everything(p) : path[2] = f}
<1>8. p.native[f] = "module" /\ f \in Files
  BY <1>3, <1>4, <1>7
<1>9. Node(ds[i]) \in X /\ Node(ds[j]) \in X /\ Node(ds[i]) # Node(ds[j])
  <2>1. Node(ds[i]) \in Everything(p)
    BY <1>1, <1>5, <1>8
  <2>2. Node(ds[j]) \in Everything(p)
    BY <1>1, <1>5, <1>7, <1>8
  <2> QED
    BY <1>7, <2>1, <2>2 DEF Node
<1>10. Cardinality(X) > 1
  <2>1. IsFiniteSet(X)
    BY <1>1, FS_Subset
  <2> HIDE DEF X
  <2>2. IsFiniteSet(X \ {Node(ds[i])}) /\ Cardinality(X \ {Node(ds[i])}) = Cardinality(X) - 1
    BY <1>9, <2>1, FS_RemoveElement
  <2>3. X \ {Node(ds[i])} # {}
    BY <1>9
  <2>4. Cardinality(X \ {Node(ds[i])}) # 0 /\ Cardinality(X \ {Node(ds[i])}) \in Nat /\ Cardinality(X) \in Nat
    BY <2>1, <2>2, <2>3, FS_EmptySet, FS_CardinalityType
  <2> QED
    BY <2>2, <2>4
<1> QED
  BY <1>8, <1>10 DEF Situations

\* A program has finitely many import paths that go round a cycle once at most.
LEMMA EverythingFinite == ASSUME NEW p \in Programs PROVE IsFiniteSet(Everything(p))
<1> DEFINE N == Cardinality(Files)
           h == Paths(p)
           Bad == {n \in 0..N : ~IsFiniteSet(h[n])}
<1>1. N \in Nat
  BY FilesFinite
<1>2. /\ \A n \in 0..N : h[n] \subseteq Nodes
      /\ h[0] = {Start} /\ \A m \in 1..N : h[m] = h[m - 1] \cup UNION {Ways(p, x) : x \in h[m - 1]}
  BY PathsSteps DEF Further
<1>3. Everything(p) = h[N]
  BY DEF Everything
<1> HIDE DEF N, h
<1>4. ASSUME NEW x \in Nodes PROVE IsFiniteSet(Ways(p, x))
  <2> DEFINE S == 1..Size(p, x[2])
             f == [a \in S |-> Way(p, x, a)]
  <2>1. Size(p, x[2]) \in Nat
    BY ImportsTyped DEF Nodes
  <2>2. IsFiniteSet(S)
    BY <2>1, FS_Interval
  <2>3. f \in Surjection(S, Ways(p, x))
    <3>1. f \in [S -> Ways(p, x)]
      BY WayTyped
    <3>2. \A y \in Ways(p, x) : \E a \in S : f[a] = y
      BY WaysAre
    <3> HIDE DEF f, S
    <3> QED
      BY <3>1, <3>2 DEF Surjection
  <2> HIDE DEF f, S
  <2> QED
    BY <2>2, <2>3, FS_Surjection
<1>5. ASSUME NEW xs, xs \subseteq Nodes, IsFiniteSet(xs) PROVE IsFiniteSet(xs \cup UNION {Ways(p, x) : x \in xs})
  <2> DEFINE T == {Ways(p, x) : x \in xs}
             f == [x \in xs |-> Ways(p, x)]
  <2>1. f \in Surjection(xs, T)
    <3>1. f \in [xs -> T]
      OBVIOUS
    <3>2. \A y \in T : \E x \in xs : f[x] = y
      OBVIOUS
    <3> HIDE DEF f, T
    <3> QED
      BY <3>1, <3>2 DEF Surjection
  <2>2. \A y \in T : IsFiniteSet(y)
    BY <1>4, <1>5
  <2> HIDE DEF f, T
  <2>3. IsFiniteSet(T)
    BY <1>5, <2>1, FS_Surjection
  <2>4. IsFiniteSet(UNION T)
    BY <2>2, <2>3, FS_UNION
  <2>5. IsFiniteSet(xs \cup UNION T)
    BY <1>5, <2>4, FS_Union
  <2> QED
    BY <2>5 DEF T
<1>6. Bad = {}
  <2>1. SUFFICES ASSUME Bad # {} PROVE FALSE
    OBVIOUS
  <2>2. Bad \subseteq Nat
    OBVIOUS
  <2>3. PICK n \in Bad : \A m \in Bad : n <= m
    BY <2>2, <2>1, Smallest, Zenon
  <2>4. n # 0
    <3>1. IsFiniteSet({Start})
      BY FS_Singleton
    <3> QED
      BY <1>2, <2>3, <3>1
  <2>5. n - 1 \in 0..N /\ ~(n <= n - 1) /\ n \in 1..N
    BY <1>1, <2>3, <2>4
  <2>6. IsFiniteSet(h[n - 1]) /\ h[n - 1] \subseteq Nodes
    BY <1>2, <2>3, <2>5
  <2>7. h[n] = h[n - 1] \cup UNION {Ways(p, x) : x \in h[n - 1]}
    BY <1>2, <2>5
  <2>8. IsFiniteSet(h[n])
    BY <1>5, <2>6, <2>7
  <2> QED
    BY <2>3, <2>8
<1>7. N \in 0..N
  BY <1>1
<1> QED
  BY <1>3, <1>6, <1>7

LEMMA MetWithin ==
  ASSUME NEW p \in Programs, NEW st, NEW ds, NEW em, NEW un, NEW ex, Walk(p, st, ds, em, un, ex)
  PROVE  Met(st, ds) \subseteq Everything(p)
<1>1. \A i \in Mods(ds) : Node(ds[i]) \in Everything(p)
  BY DEF Walk, Behind
<1>2. ASSUME NEW k \in DOMAIN st PROVE Node(st[k]) \in Everything(p)
  <2>1. k \in 1..Len(st)
    BY DEF Walk
  <2>2. k - 1 \in 0..Cardinality(Files) /\ Node(st[k]) \in Paths(p)[k - 1]
    BY <2>1 DEF Walk, Framed
  <2> QED
    BY <2>2, PathsGrow
<1> QED
  BY <1>1, <1>2 DEF Met

\* What the walk says of the program at an import it refuses.
LEMMA RefusalsRight ==
  ASSUME NEW p \in Programs, NEW st, NEW ds, NEW em, NEW un, NEW ex, Walk(p, st, ds, em, un, ex),
         Len(st) # 0, st[Len(st)].next <= Size(p, st[Len(st)].file)
  PROVE  LET top == st[Len(st)]
             f == p.imports[top.file][top.next].target IN
         /\ (\E k \in 1..Len(st) : st[k].file = f) => Cyclic(p)
         /\ Len(st) > MaxDepth => \E path \in Everything(p) : Len(path[1]) > MaxDepth
         /\ /\ p.imports[top.file][top.next].alias \notin Seen(p, top.file, top.next)
            /\ ~(\E k \in 1..Len(st) : st[k].file = f)
            /\ ex + 1 > MaxExpansions
            => Cardinality(Everything(p)) > MaxExpansions
         /\ Cardinality(un \cup {f}) > MaxUnique => Cardinality(Reachable(p)) > MaxUnique
         /\ f \notin p.exists => ~(Reachable(p) \subseteq p.exists)
<1> DEFINE n == Len(st)
           top == st[n]
           a == top.next
           f == p.imports[top.file][a].target
           y == Ahead(p, st)
<1>1. st \in Seq(Frames) /\ ds \in Seq(Definition)
  BY DEF Walk
<1>2. n \in Nat /\ n \in 1..n /\ n >= 1
  BY <1>1
<1>3. /\ Framed(p, st) /\ Linked(p, st) /\ Apart(st) /\ Fresh(p, st, ds) /\ Counts(p, st, ds, un, ex)
  BY DEF Walk
<1>4. /\ a \in 1..Size(p, top.file) /\ y \in Nodes /\ n < Cardinality(Files) + 1 /\ y[2] = f
      /\ Len(y[1]) = n /\ y \in Everything(p)
  BY <1>1, <1>3, AheadIs
<1>5. f \in Reachable(p) /\ f \in Files
  BY <1>4 DEF Reachable, Nodes
<1>6. ASSUME NEW k \in 1..n, st[k].file = f PROVE Cyclic(p)
  <2> DEFINE m == n - k + 1
             s == [i \in 1..(m + 1) |-> IF i <= m THEN st[k + i - 1].file ELSE f]
  <2>1. m \in 1..Cardinality(Files) /\ m \in Nat /\ k + m - 1 = n /\ 1 <= m
    BY <1>2, <1>4, FilesFinite
  <2>2. \A i \in 1..m : k + i - 1 \in 1..n
    BY <1>2
  <2>3. \A l \in 1..n : st[l].file \in Files
    BY <1>1, FrameTyped
  <2>4. s \in [1..(m + 1) -> Files]
    <3>1. \A i \in 1..(m + 1) : i <= m => i \in 1..m
      BY <2>1
    <3> QED
      BY <1>5, <2>2, <2>3, <3>1
  <2>5. ASSUME NEW i \in 1..m PROVE s[i + 1] \in Targets(p, s[i])
    <3> DEFINE l == k + i - 1
    <3>1. l \in 1..n /\ i \in 1..(m + 1) /\ i <= m /\ i + 1 \in 1..(m + 1) /\ i \in Nat
      <4> HIDE DEF s
      <4> QED
        BY <2>1, <2>2
    <3>2. l \in 1..n /\ i + 1 \in 1..(m + 1) /\ s[i] = st[l].file
      BY <3>1
    <3>3. CASE i = m
      <4>1. l = n /\ ~(i + 1 <= m)
        BY <2>1, <3>1, <3>3
      <4>2. s[i + 1] = f
        BY <3>2, <4>1
      <4>3. f \in Targets(p, top.file)
        BY <1>4, Zenon DEF Targets, Size
      <4> HIDE DEF l, s, m, f
      <4> QED
        BY <3>2, <4>1, <4>2, <4>3
    <3>4. CASE i # m
      <4>1. l \in 1..(n - 1) /\ i + 1 <= m /\ k + (i + 1) - 1 = l + 1 /\ l + 1 \in 1..n
        <5> HIDE DEF s, m, n
        <5> QED
          BY <1>2, <2>1, <3>1, <3>4
      <4>2. s[i + 1] = st[l + 1].file
        <5>1. s[i + 1] = st[k + (i + 1) - 1].file
          BY <3>2, <4>1
        <5> QED
          BY <4>1, <5>1
      <4> HIDE DEF l, s
      <4>3. st[l].next \in 2..(Size(p, st[l].file) + 1) /\ Node(st[l + 1]) = Way(p, Node(st[l]), st[l].next - 1)
        BY <1>3, <4>1 DEF Linked
      <4>4. Node(st[l + 1])[2] = st[l + 1].file /\ Node(st[l])[2] = st[l].file /\ Size(p, st[l].file) \in Nat
        BY <1>1, <3>2, <4>1, FrameTyped, ImportsTyped
      <4>5. st[l + 1].file = p.imports[st[l].file][st[l].next - 1].target
        BY <4>3, <4>4 DEF Way
      <4>6. st[l].next - 1 \in 1..Size(p, st[l].file)
        BY <4>3, <4>4
      <4>7. st[l + 1].file \in Targets(p, st[l].file)
        BY <4>5, <4>6, Zenon DEF Targets, Size
      <4> QED
        BY <3>2, <4>2, <4>7
    <3> QED
      BY <3>3, <3>4
  <2>6. s[1] = f /\ s[m + 1] = f
    <3>1. 1 \in 1..(m + 1) /\ m + 1 \in 1..(m + 1) /\ ~(m + 1 <= m) /\ k + 1 - 1 = k
      BY <1>2, <2>1
    <3>2. s[1] = st[k + 1 - 1].file /\ s[m + 1] = f
      BY <2>1, <3>1
    <3> QED
      BY <1>6, <3>1, <3>2, Zenon
  <2> HIDE DEF s, m
  <2>7. f \in Below(p, f)
    BY <2>1, <2>4, <2>5, <2>6, ChainBelow
  <2> QED
    BY <1>5, <2>7 DEF Cyclic
<1>7. n > MaxDepth => \E path \in Everything(p) : Len(path[1]) > MaxDepth
  BY <1>4
<1>8. ASSUME p.imports[top.file][a].alias \notin Seen(p, top.file, a), ~(\E k \in 1..n : st[k].file = f),
             ex + 1 > MaxExpansions
      PROVE  Cardinality(Everything(p)) > MaxExpansions
  <2>1. y \notin Met(st, ds)
    BY <1>1, <1>3, <1>4, <1>8, AheadNew, Zenon
  <2>2. IsFiniteSet(Met(st, ds)) /\ ex = Cardinality(Met(st, ds))
    BY <1>3 DEF Counts
  <2> DEFINE M == Met(st, ds) \cup {y}
  <2>3. IsFiniteSet(M) /\ Cardinality(M) = ex + 1
    BY <2>1, <2>2, FS_AddElement
  <2>4. M \subseteq Everything(p)
    BY <1>4, MetWithin
  <2> HIDE DEF M
  <2>5. Cardinality(M) <= Cardinality(Everything(p))
    BY <2>4, EverythingFinite, FS_Subset
  <2>6. Cardinality(M) \in Nat /\ Cardinality(Everything(p)) \in Nat /\ MaxExpansions \in Nat
    BY <2>3, EverythingFinite, FS_CardinalityType, LimitsAssumption
  <2> QED
    BY <1>8, <2>3, <2>5, <2>6
<1>9. ASSUME Cardinality(un \cup {f}) > MaxUnique PROVE Cardinality(Reachable(p)) > MaxUnique
  <2> DEFINE M == un \cup {f}
  <2>1. M \subseteq Reachable(p)
    <3>1. un = {x[2] : x \in Met(st, ds)}
      BY <1>3 DEF Counts
    <3>2. un \subseteq Reachable(p)
      BY <3>1, MetWithin DEF Reachable
    <3> QED
      BY <1>5, <3>2
  <2>2. IsFiniteSet(Reachable(p))
    <3>1. Reachable(p) \subseteq Files
      BY EverythingTyped DEF Reachable, Nodes
    <3> QED
      BY <3>1, FilesFinite, FS_Subset
  <2>3. Cardinality(M) > MaxUnique
    BY <1>9
  <2> HIDE DEF M
  <2>4. IsFiniteSet(M) /\ Cardinality(M) <= Cardinality(Reachable(p))
    BY <2>1, <2>2, FS_Subset
  <2>5. Cardinality(M) \in Nat /\ Cardinality(Reachable(p)) \in Nat /\ MaxUnique \in Nat
    BY <2>2, <2>4, FS_CardinalityType, LimitsAssumption
  <2> QED
    BY <2>3, <2>4, <2>5
<1>10. f \notin p.exists => ~(Reachable(p) \subseteq p.exists)
  BY <1>5
<1> QED
  BY <1>6, <1>7, <1>8, <1>9, <1>10

\* The walk is within the bounds of LoadTypeOK.
LEMMA WalkTyped ==
  ASSUME NEW p \in Programs, NEW st, NEW ds, NEW em, NEW un, NEW ex, Walk(p, st, ds, em, un, ex), Len(st) # 0
  PROVE  /\ \A i \in 1..Len(st) : st[i].file \in Files /\ st[i].next \in 1..(Len(p.imports[st[i].file]) + 1)
         /\ Len(st) \in 1..(MaxDepth + 1) /\ em \subseteq un
<1>1. st \in Seq(Frames) /\ Framed(p, st) /\ Counts(p, st, ds, un, ex) /\ Once(p, st, ds, un, em)
  BY DEF Walk
<1>2. \A i \in 1..Len(st) : st[i].file \in Files /\ st[i].next \in 1..(Len(p.imports[st[i].file]) + 1)
  BY <1>1, FrameTyped DEF Framed, Size
<1>3. Len(st) \in 1..(MaxDepth + 1)
  <2> DEFINE n == Len(st)
  <2>1. n \in Nat /\ n # 0 /\ n \in 1..n /\ n \in DOMAIN st
    BY <1>1
  <2>2. Node(st[n]) \in Met(st, ds)
    BY <2>1 DEF Met
  <2>3. Len(Node(st[n])[1]) <= MaxDepth
    BY <1>1, <2>2 DEF Counts
  <2>4. Len(st[n].ns) = n - 1 /\ Node(st[n])[1] = st[n].ns
    BY <1>1, <2>1, FrameTyped DEF Framed
  <2>5. n - 1 <= MaxDepth /\ MaxDepth \in Nat
    BY <2>3, <2>4, LimitsAssumption
  <2> HIDE DEF n
  <2>6. n \in 1..(MaxDepth + 1)
    BY <2>1, <2>5
  <2> QED
    BY <2>6 DEF n
<1> QED
  BY <1>1, <1>2, <1>3 DEF Once

-----------------------------------------------------------------------------
(* The loader *)

LEMMA LoadInvInit == LoadInit => LoadInv
<1> SUFFICES ASSUME LoadInit PROVE LoadInv
  OBVIOUS
<1>1. Walk(program, stack, defs, emitted, unique, expansions)
  BY WalkStarts
<1>2. /\ program \in Programs /\ verdict = "loading" /\ Situations(program) \subseteq Shapes
      /\ unique = {Root} /\ expansions = 1
  BY DEF LoadInit
<1>3. Len(stack) = 1 /\ stack # <<>> /\ stack[1].file = Root /\ stack[1].ns = <<>>
  <2> DEFINE fr == [file |-> Root, ns |-> <<>>, next |-> 1,
                    generated |-> IF program.native[Root] = "none" THEN <<>>
                                  ELSE <<[kind |-> "struct", file |-> Root, ns |-> <<>>]>>]
  <2>1. stack = <<fr>> /\ fr.file = Root /\ fr.ns = <<>>
    BY DEF LoadInit
  <2> HIDE DEF fr
  <2> QED
    BY <2>1
<1>4. LoadTypeOK
  <2>1. /\ \A i \in 1..Len(stack) :
               stack[i].file \in Files /\ stack[i].next \in 1..(Len(program.imports[stack[i].file]) + 1)
        /\ Len(stack) \in 1..(MaxDepth + 1) /\ emitted \subseteq unique
    <3>1. program \in Programs /\ Len(stack) # 0
      BY <1>2, <1>3
    <3> QED
      BY <1>1, <3>1, WalkTyped
  <2> QED
    BY <1>2, <2>1 DEF LoadTypeOK, Verdicts
<1>5. AcceptedIsSound /\ RefusedIsFaulty /\ PathsDelivered /\ StructsThere
  BY <1>2 DEF AcceptedIsSound, RefusedIsFaulty, PathsDelivered, StructsThere
<1> QED
  BY <1>1, <1>2, <1>3, <1>4, <1>5 DEF LoadInv, VerdictRight

LEMMA InvOfRefuse == LoadInv /\ RefuseImport => LoadInv'
<1> SUFFICES ASSUME LoadInv, RefuseImport PROVE LoadInv'
  OBVIOUS
<1> DEFINE top == stack[Len(stack)]
           item == program.imports[top.file][top.next]
           f == item.target
<1>1. /\ verdict = "loading" /\ top.next <= Size(program, top.file)
      /\ \/ BadImport(item) # "none" /\ Refuse(BadImport(item))
         \/ BadImport(item) = "none" /\ BadModule(f) # "none" /\ Refuse(BadModule(f))
  BY DEF RefuseImport, Top, Size
<1>2. /\ program \in Programs /\ Situations(program) \subseteq Shapes /\ LoadTypeOK /\ Len(stack) # 0
      /\ Walk(program, stack, defs, emitted, unique, expansions)
  <2>1. Walk(program, stack, defs, emitted, unique, expansions) /\ stack # <<>> /\ LoadTypeOK
        /\ Situations(program) \subseteq Shapes
    BY <1>1 DEF LoadInv, VerdictRight
  <2>2. stack \in Seq(Frames)
    BY <2>1 DEF Walk
  <2>3. Len(stack) # 0
    BY <2>1, <2>2
  <2> QED
    BY <2>1, <2>3 DEF LoadTypeOK
<1>3. UNCHANGED <<program, stack, expansions, unique, emitted, defs>>
  BY <1>1 DEF Refuse
<1>4. /\ (\E k \in 1..Len(stack) : stack[k].file = f) => Cyclic(program)
      /\ Len(stack) > MaxDepth => \E path \in Everything(program) : Len(path[1]) > MaxDepth
      /\ /\ item.alias \notin Seen(program, top.file, top.next)
         /\ ~(\E k \in 1..Len(stack) : stack[k].file = f)
         /\ expansions + 1 > MaxExpansions
         => Cardinality(Everything(program)) > MaxExpansions
      /\ Cardinality(unique \cup {f}) > MaxUnique => Cardinality(Reachable(program)) > MaxUnique
      /\ f \notin program.exists => ~(Reachable(program) \subseteq program.exists)
  BY <1>1, <1>2, RefusalsRight, Zenon
<1>5. \/ verdict' = "alias" \/ verdict' = "undeclared"
      \/ verdict' = "cycle" /\ OnStack(f)
      \/ verdict' = "depth" /\ Len(stack) > MaxDepth
      \/ /\ verdict' = "expansions" /\ expansions + 1 > MaxExpansions
         /\ item.alias \notin Seen(program, top.file, top.next) /\ ~OnStack(f)
      \/ verdict' = "unique" /\ Cardinality(unique \cup {f}) > MaxUnique
      \/ verdict' = "missing" /\ f \notin program.exists
  <2> HIDE DEF item
  <2>1. \/ BadImport(item) = "none" /\ item.alias \notin Seen(program, top.file, top.next) /\ ~OnStack(item.target)
        \/ BadImport(item) = "alias" \/ BadImport(item) = "undeclared"
        \/ BadImport(item) = "cycle" /\ OnStack(item.target)
    BY DEF BadImport, Top
  <2> HIDE DEF f
  <2>2. \/ BadModule(f) = "none"
        \/ BadModule(f) = "depth" /\ Len(stack) > MaxDepth
        \/ BadModule(f) = "expansions" /\ expansions + 1 > MaxExpansions
        \/ BadModule(f) = "unique" /\ Cardinality(unique \cup {f}) > MaxUnique
        \/ BadModule(f) = "missing" /\ f \notin program.exists
    BY DEF BadModule
  <2>3. CASE BadImport(item) # "none" /\ Refuse(BadImport(item))
    BY <2>1, <2>3 DEF Refuse, f
  <2>4. CASE BadImport(item) = "none" /\ BadModule(f) # "none" /\ Refuse(BadModule(f))
    BY <2>1, <2>2, <2>4 DEF Refuse, f
  <2> QED
    BY <1>1, <2>3, <2>4
<1>6. verdict' \notin {"loading", "loaded", "duplicate"} /\ verdict' \in Verdicts
  BY <1>5, Zenon DEF Verdicts
<1>7. RefusedIsFaulty'
  <2>1. /\ verdict' = "cycle" => Cyclic(program)
        /\ verdict' = "depth" => \E path \in Everything(program) : Len(path[1]) > MaxDepth
        /\ verdict' = "expansions" => Cardinality(Everything(program)) > MaxExpansions
        /\ verdict' = "unique" => Cardinality(Reachable(program)) > MaxUnique
        /\ verdict' = "missing" => ~(Reachable(program) \subseteq program.exists)
    <3> HIDE DEF top, item, f
    <3> QED
      BY <1>4, <1>5 DEF OnStack
  <2>2. program' = program
    BY <1>3
  <2> QED
    BY <1>6, <2>1, <2>2 DEF RefusedIsFaulty
<1>8. LoadTypeOK'
  BY <1>2, <1>3, <1>6 DEF LoadTypeOK
<1>9. AcceptedIsSound' /\ PathsDelivered' /\ StructsThere'
  BY <1>6 DEF AcceptedIsSound, PathsDelivered, StructsThere
<1>10. (Situations(program) \subseteq Shapes)'
  BY <1>2, <1>3
<1> QED
  BY <1>6, <1>7, <1>8, <1>9, <1>10 DEF LoadInv, VerdictRight

LEMMA InvOfDescend == LoadInv /\ Descend => LoadInv'
<1> SUFFICES ASSUME LoadInv, Descend PROVE LoadInv'
  OBVIOUS
<1> DEFINE n == Len(stack)
           top == stack[n]
           item == program.imports[top.file][top.next]
           f == item.target
           ns == Append(top.ns, item.alias)
           made == Generated(f, ns, program)
<1>1. /\ verdict = "loading" /\ top.next <= Size(program, top.file)
      /\ BadImport(item) = "none" /\ BadModule(f) = "none"
      /\ stack' = Append([stack EXCEPT ![n].next = @ + 1], Frame(f, ns, program))
      /\ expansions' = expansions + 1 /\ unique' = unique \cup {f} /\ emitted' = Emits(f)
      /\ program' = program /\ defs' = defs /\ verdict' = verdict
  BY Zenon DEF Descend, Top, Size
<1>2. /\ program \in Programs /\ Situations(program) \subseteq Shapes /\ LoadTypeOK /\ n # 0
      /\ stack[1].file = Root /\ stack[1].ns = <<>> /\ stack \in Seq(Frames) /\ defs \in Seq(Definition)
      /\ Walk(program, stack, defs, emitted, unique, expansions)
  <2>1. Walk(program, stack, defs, emitted, unique, expansions) /\ stack # <<>> /\ LoadTypeOK
        /\ Situations(program) \subseteq Shapes /\ stack[1].file = Root /\ stack[1].ns = <<>>
    BY <1>1, Zenon DEF LoadInv, VerdictRight
  <2>2. stack \in Seq(Frames) /\ defs \in Seq(Definition)
    BY <2>1 DEF Walk
  <2>3. Len(stack) # 0
    BY <2>1, <2>2
  <2> QED
    BY <2>1, <2>2, <2>3 DEF LoadTypeOK
<1>3. item.alias \notin Seen(program, top.file, top.next) /\ Allowed(program, top.file, item) /\ ~OnStack(f)
  <2> HIDE DEF item
  <2> QED
    BY <1>1 DEF BadImport, Top
<1>4. ~(n > MaxDepth) /\ ~(expansions + 1 > MaxExpansions) /\ ~(Cardinality(unique \cup {f}) > MaxUnique)
      /\ f \in program.exists
  <2> HIDE DEF f, item
  <2> QED
    BY <1>1 DEF BadModule
<1>5. Ahead(program, stack)[2] = f /\ Ahead(program, stack)[1] = ns
  <2>1. Framed(program, stack) /\ Linked(program, stack) /\ Apart(stack)
    BY <1>2 DEF Walk
  <2> QED
    BY <1>1, <1>2, <2>1, AheadIs, Zenon
<1>6. n \in Nat /\ MaxDepth \in Nat /\ MaxExpansions \in Nat /\ MaxUnique \in Nat
  BY <1>2, LimitsAssumption
<1>7. Enters(program, stack, emitted, made)
  <2>1. /\ program.native[f] = "none" => made = <<>>
        /\ program.native[f] = "module" => made = <<Struct(f, ns)>>
        /\ program.native[f] = "legacy" => made = IF f \in emitted THEN <<>> ELSE <<Struct(f, <<>>)>>
    <3> HIDE DEF f, ns
    <3> QED
      BY DEF Generated, NativeModule, Hidden, Struct
  <2>2. \A k \in 1..n : stack[k].file # f
    BY <1>3, Zenon DEF OnStack
  <2>3. n <= MaxDepth
    BY <1>4, <1>6
  <2> HIDE DEF f, ns, made
  <2> QED
    BY <1>1, <1>3, <1>4, <1>5, <2>1, <2>2, <2>3 DEF Enters
<1>8. stack' = Entered(program, stack, made)
  <2>1. Frame(f, ns, program) = [file |-> f, ns |-> ns, next |-> 1, generated |-> made]
    BY DEF Frame
  <2> HIDE DEF f, ns, made
  <2> QED
    BY <1>1, <1>5, <2>1 DEF Entered
<1>9. Walk(program, stack', defs, emitted', unique', expansions')
  <2>1. Walk(program, Entered(program, stack, made), defs,
             IF program.native[Ahead(program, stack)[2]] = "legacy" THEN emitted \cup {Ahead(program, stack)[2]} ELSE emitted,
             unique \cup {Ahead(program, stack)[2]}, expansions + 1)
    BY <1>2, <1>7, Descending, Zenon
  <2>2. emitted' = IF program.native[f] = "legacy" THEN emitted \cup {f} ELSE emitted
    BY <1>1, Zenon DEF Emits
  <2> HIDE DEF f, made
  <2> QED
    BY <1>1, <1>5, <1>8, <2>1, <2>2, Zenon
<1>10. stack' \in Seq(Frames) /\ Len(stack') # 0 /\ stack'[1].file = Root /\ stack'[1].ns = <<>>
  <2> DEFINE moved == [stack EXCEPT ![n].next = @ + 1]
             fr == Frame(f, ns, program)
  <2>1. Len(moved) = n /\ DOMAIN moved = 1..n /\ moved \in Seq(Frames)
    <3>1. \A k \in 1..n : stack[k] \in Frames
      BY <1>2, FrameTyped
    <3>2. n \in 1..n
      BY <1>2, <1>6
    <3>3. [top EXCEPT !.next = @ + 1] \in Frames
      <4>1. top \in Frames
        BY <3>1, <3>2
      <4> HIDE DEF top
      <4> QED
        BY <4>1 DEF Frames
    <3>4. moved = [stack EXCEPT ![n] = [top EXCEPT !.next = @ + 1]]
      BY <1>2
    <3> DEFINE t2 == [top EXCEPT !.next = @ + 1]
    <3> HIDE DEF t2
    <3> QED
      BY <1>2, <3>2, <3>3, <3>4 DEF t2
  <2>2. moved[1].file = Root /\ moved[1].ns = <<>>
    <3>1. stack[1] \in Frames /\ 1 \in DOMAIN stack
      BY <1>2, <1>6, FrameTyped
    <3> QED
      BY <1>2, <3>1 DEF Frames
  <2>3. stack' \in Seq(Frames)
    BY <1>9 DEF Walk
  <2>4. stack' = Append(moved, fr)
    BY <1>1, Zenon
  <2> HIDE DEF moved, fr
  <2>5. Len(Append(moved, fr)) = n + 1 /\ Append(moved, fr)[1] = moved[1]
    BY <1>2, <1>6, <2>1
  <2> QED
    BY <1>2, <1>6, <2>2, <2>3, <2>4, <2>5
<1>11. LoadTypeOK'
  <2>1. /\ \A i \in 1..Len(stack') :
               stack'[i].file \in Files /\ stack'[i].next \in 1..(Len(program.imports[stack'[i].file]) + 1)
        /\ Len(stack') \in 1..(MaxDepth + 1) /\ emitted' \subseteq unique'
    BY <1>2, <1>9, <1>10, WalkTyped
  <2>2. expansions' = Cardinality(Met(stack', defs)) /\ IsFiniteSet(Met(stack', defs))
        /\ unique' = {x[2] : x \in Met(stack', defs)}
    BY <1>9 DEF Walk, Counts
  <2>3. expansions' \in Nat
    BY <2>2, FS_CardinalityType
  <2>4. expansions' <= MaxExpansions
    <3>1. ~(expansions' > MaxExpansions)
      BY <1>1, <1>4, Zenon
    <3> QED
      BY <1>6, <2>3, <3>1
  <2>5. Cardinality(unique') \in Nat
    <3>1. unique' \subseteq Reachable(program)
      BY <1>2, <1>9, <2>2, MetWithin DEF Reachable
    <3>2. Reachable(program) \subseteq Files
      BY <1>2, EverythingTyped DEF Reachable, Nodes
    <3>3. IsFiniteSet(unique')
      BY <3>1, <3>2, FilesFinite, FS_Subset
    <3> QED
      BY <3>3, FS_CardinalityType
  <2>6. Cardinality(unique') <= MaxUnique
    <3>1. ~(Cardinality(unique') > MaxUnique)
      BY <1>1, <1>4, Zenon
    <3> QED
      BY <1>6, <2>5, <3>1
  <2>7. program' = program /\ program \in Programs /\ verdict' \in Verdicts
    BY <1>1, <1>2, Zenon DEF LoadTypeOK
  <2> QED
    BY <2>1, <2>4, <2>6, <2>7 DEF LoadTypeOK
<1>12. verdict' = "loading"
  BY <1>1, Zenon
<1>13. AcceptedIsSound' /\ RefusedIsFaulty' /\ PathsDelivered' /\ StructsThere'
  BY <1>12 DEF AcceptedIsSound, RefusedIsFaulty, PathsDelivered, StructsThere
<1>14. Walk(program, stack, defs, emitted, unique, expansions)'
  BY <1>1, <1>9, Zenon
<1>15. (stack # <<>>)'
  BY <1>10
<1>16. (Situations(program) \subseteq Shapes)'
  BY <1>1, <1>2, Zenon
<1> QED
  BY <1>10, <1>11, <1>13, <1>14, <1>15, <1>16 DEF LoadInv, VerdictRight

LEMMA InvOfReturn == LoadInv /\ Return => LoadInv'
<1> SUFFICES ASSUME LoadInv, Return PROVE LoadInv'
  OBVIOUS
<1> DEFINE n == Len(stack)
           top == stack[n]
<1>1. /\ verdict = "loading" /\ n > 1 /\ top.next > Size(program, top.file)
      /\ defs' = Deliver(top, defs) /\ stack' = SubSeq(stack, 1, n - 1)
      /\ UNCHANGED <<program, expansions, unique, emitted, verdict>>
  BY DEF Return, Top, Size
<1>2. /\ program \in Programs /\ Situations(program) \subseteq Shapes /\ LoadTypeOK /\ n \in Nat
      /\ stack[1].file = Root /\ stack[1].ns = <<>> /\ stack \in Seq(Frames)
      /\ Walk(program, stack, defs, emitted, unique, expansions)
  <2>1. Walk(program, stack, defs, emitted, unique, expansions) /\ LoadTypeOK
        /\ Situations(program) \subseteq Shapes /\ stack[1].file = Root /\ stack[1].ns = <<>>
    BY <1>1 DEF LoadInv, VerdictRight
  <2>2. stack \in Seq(Frames)
    BY <2>1 DEF Walk
  <2>3. n \in Nat
    BY <2>2
  <2> QED
    BY <2>1, <2>2, <2>3 DEF LoadTypeOK
<1>3. Walk(program, stack', defs', emitted, unique, expansions)
  BY <1>1, <1>2, Delivering
<1>4. stack' \in Seq(Frames) /\ Len(stack') = n - 1 /\ stack'[1] = stack[1]
  <2>1. Framed(program, stack) /\ Linked(program, stack) /\ Apart(stack) /\ Prepared(program, stack)
    BY <1>2 DEF Walk
  <2> DEFINE rest == SubSeq(stack, 1, n - 1)
  <2>2. rest \in Seq(Frames) /\ Len(rest) = n - 1 /\ \A k \in 1..Len(rest) : rest[k] = stack[k]
    BY <1>1, <1>2, <2>1, Remaining
  <2> HIDE DEF rest
  <2>3. 1 \in 1..Len(rest)
    BY <1>1, <1>2, <2>2
  <2>4. stack' = rest
    BY <1>1 DEF rest
  <2> QED
    BY <2>2, <2>3, <2>4
<1>5. Len(stack') # 0 /\ stack' # <<>>
  <2>1. Len(stack') # 0
    BY <1>1, <1>2, <1>4
  <2> QED
    BY <2>1
<1>6. LoadTypeOK'
  <2>1. /\ \A i \in 1..Len(stack') :
               stack'[i].file \in Files /\ stack'[i].next \in 1..(Len(program.imports[stack'[i].file]) + 1)
        /\ Len(stack') \in 1..(MaxDepth + 1) /\ emitted \subseteq unique
    BY <1>2, <1>3, <1>5, WalkTyped
  <2> QED
    BY <1>1, <1>2, <2>1 DEF LoadTypeOK
<1>7. verdict' = "loading" /\ (Situations(program) \subseteq Shapes)'
  BY <1>1, <1>2
<1>8. AcceptedIsSound' /\ RefusedIsFaulty' /\ PathsDelivered' /\ StructsThere'
  BY <1>7 DEF AcceptedIsSound, RefusedIsFaulty, PathsDelivered, StructsThere
<1>9. Walk(program, stack, defs, emitted, unique, expansions)'
  BY <1>1, <1>3
<1>10. (stack # <<>> /\ stack[1].file = Root /\ stack[1].ns = <<>>)'
  BY <1>2, <1>4, <1>5
<1> QED
  BY <1>6, <1>7, <1>8, <1>9, <1>10 DEF LoadInv, VerdictRight

LEMMA InvOfFinish == LoadInv /\ FinishLoad => LoadInv'
<1> SUFFICES ASSUME LoadInv, FinishLoad PROVE LoadInv'
  OBVIOUS
<1> DEFINE all == Deliver(stack[1], defs)
           none == SubSeq(stack, 1, Len(stack) - 1)
<1>1. /\ verdict = "loading" /\ Len(stack) = 1 /\ stack[1].next > Size(program, Root)
      /\ defs' = all /\ verdict' = IF Repeated(all) \/ Conflict(all) THEN "duplicate" ELSE "loaded"
      /\ UNCHANGED <<program, stack, expansions, unique, emitted>>
  BY DEF FinishLoad, Top, Size
<1>2. /\ program \in Programs /\ Situations(program) \subseteq Shapes /\ LoadTypeOK
      /\ stack[1].file = Root /\ stack \in Seq(Frames)
      /\ Walk(program, stack, defs, emitted, unique, expansions)
  <2>1. Walk(program, stack, defs, emitted, unique, expansions) /\ LoadTypeOK
        /\ Situations(program) \subseteq Shapes /\ stack[1].file = Root
    BY <1>1 DEF LoadInv, VerdictRight
  <2> QED
    BY <2>1 DEF LoadTypeOK, Walk
<1>3. Walk(program, none, all, emitted, unique, expansions)
  <2>1. Len(stack) # 0 /\ stack[Len(stack)].next > Size(program, stack[Len(stack)].file)
    BY <1>1, <1>2
  <2>2. Walk(program, none, Deliver(stack[Len(stack)], defs), emitted, unique, expansions)
    BY <1>2, <2>1, Delivering
  <2> HIDE DEF none
  <2> QED
    BY <1>1, <2>2
<1>4. Len(none) = 0
  <2>1. Framed(program, stack) /\ Linked(program, stack) /\ Apart(stack) /\ Prepared(program, stack)
    BY <1>2 DEF Walk
  <2>2. Len(none) = Len(stack) - 1
    BY <1>1, <1>2, <2>1, Remaining
  <2> HIDE DEF none
  <2> QED
    BY <1>1, <2>2
<1> HIDE DEF all, none
<1>5. (expansions <= MaxExpansions \/ expansions = 1) /\ (Cardinality(unique) <= MaxUnique \/ unique = {Root})
  BY <1>2 DEF LoadTypeOK
<1>6. Sound(program)
  BY <1>2, <1>3, <1>4, <1>5, FinishedSound
<1>7. AllDelivered(program, all) /\ AllThere(program, all)
  BY <1>2, <1>3, <1>4, FinishedPaths, FinishedStructs
<1>8. Repeated(all) \/ Conflict(all) => "diamond" \in Shapes
  BY <1>2, <1>3, <1>4, FinishedDiamond
<1>9. verdict' \in {"loaded", "duplicate"} /\ (verdict' = "duplicate" => "diamond" \in Shapes)
  BY <1>1, <1>8
<1>10. LoadTypeOK'
  BY <1>1, <1>2, <1>9 DEF LoadTypeOK, Verdicts
<1>11. Sound(program') /\ AllDelivered(program', defs') /\ AllThere(program', defs')
  BY <1>1, <1>6, <1>7
<1>12. AcceptedIsSound'
  BY <1>11 DEF AcceptedIsSound, Sound
<1>13. RefusedIsFaulty'
  BY <1>9 DEF RefusedIsFaulty
<1>14. PathsDelivered'
  BY <1>11 DEF PathsDelivered, AllDelivered, Mods
<1>15. StructsThere'
  BY <1>11 DEF StructsThere, AllThere
<1>16. (Situations(program) \subseteq Shapes)'
  BY <1>1, <1>2
<1> QED
  BY <1>9, <1>10, <1>12, <1>13, <1>14, <1>15, <1>16 DEF LoadInv, VerdictRight

LEMMA InvOfStutter == LoadInv /\ UNCHANGED loadVars => LoadInv'
<1> SUFFICES ASSUME LoadInv, UNCHANGED loadVars PROVE LoadInv'
  OBVIOUS
<1>1. UNCHANGED <<program, stack, expansions, unique, emitted, defs, verdict>>
  BY DEF loadVars
<1>2. LoadTypeOK'
  BY <1>1 DEF LoadInv, VerdictRight, LoadTypeOK
<1>3. AcceptedIsSound'
  BY <1>1 DEF LoadInv, VerdictRight, AcceptedIsSound
<1>4. RefusedIsFaulty'
  BY <1>1 DEF LoadInv, VerdictRight, RefusedIsFaulty
<1>5. PathsDelivered'
  BY <1>1 DEF LoadInv, PathsDelivered
<1>6. StructsThere'
  BY <1>1 DEF LoadInv, StructsThere
<1>7. /\ (Situations(program) \subseteq Shapes)'
      /\ verdict' = "loading" =>
             /\ (stack # <<>> /\ stack[1].file = Root /\ stack[1].ns = <<>>)'
             /\ Walk(program, stack, defs, emitted, unique, expansions)'
  BY <1>1 DEF LoadInv
<1> QED
  BY <1>2, <1>3, <1>4, <1>5, <1>6, <1>7 DEF LoadInv, VerdictRight

\* The inductive invariant of the walk holds in every state of it.
THEOREM LoadInvHolds == LoadSpec => []LoadInv
<1>1. LoadInv /\ [LoadNext]_loadVars => LoadInv'
  BY InvOfRefuse, InvOfDescend, InvOfReturn, InvOfFinish, InvOfStutter DEF LoadNext
<1> QED
  BY LoadInvInit, <1>1, PTL DEF LoadSpec

\* A program the loader accepts is sound, and one it refuses has the fault it is
\* refused for (load, load_namespaced, _account_module, resolve_package).
THEOREM VerdictIsRight == LoadSpec => []VerdictRight
<1>1. LoadInv => VerdictRight
  BY DEF LoadInv
<1> QED
  BY LoadInvHolds, <1>1, PTL

\* The definitions of an accepted program are those of every import path, in
\* order (the lists that load and load_namespaced return).
THEOREM EveryPathDelivered == LoadSpec => []PathsDelivered
<1>1. LoadInv => PathsDelivered
  BY DEF LoadInv
<1> QED
  BY LoadInvHolds, <1>1, PTL

\* Every module of an accepted program finds its template's struct
\* (expand_c_modules, c_module_emitted).
THEOREM TemplatesThere == LoadSpec => []StructsThere
<1>1. LoadInv => StructsThere
  BY DEF LoadInv
<1> QED
  BY LoadInvHolds, <1>1, PTL
=============================================================================
