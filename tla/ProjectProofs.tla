---------------------------- MODULE ProjectProofs ----------------------------
(***************************************************************************)
(* Theorems about Project, for any number of processes, packages, versions *)
(* and dependencies.                                                       *)
(***************************************************************************)
EXTENDS Project, SequenceTheorems, TLAPS

-----------------------------------------------------------------------------
(* Types *)

\* What an installation knows at each of its stages
InstallKnows(p) ==
  LET i == install[p] IN
  /\ i.stage # "none" =>
       i.source \in Sources /\ i.digest \in Contents /\ pc[p] \in {"resolve", "populate"}
  /\ i.stage \in {"verify", "rename"} => i.copy \in Contents
  /\ i.stage = "rename" => i.copy = i.digest

\* Every package being visited but the root has a name and a source.
StackNamed(p) ==
  \A i \in 1..Len(stack[p]) :
    /\ stack[p][i].left \subseteq Listed(stack[p][i].deps)
    /\ i > 1 => /\ stack[p][i].alias \in Aliases /\ stack[p][i].source \in Sources
                /\ stack[p][i].id \in Identities

\* What a resolution, an add or remove, and a locked install have at hand
CommandHas(p) ==
  /\ pc[p] = "resolve" => Len(stack[p]) >= 1
  /\ pc[p] = "resolve" /\ install[p].stage # "none" =>
       Len(stack[p]) > 1 /\ Top(p).left = {} /\ install[p].source = Top(p).source
  /\ Changes(p) => pc[p] \in {"update", "start", "resolve", "restore"}
  /\ pc[p] \in {"update", "restore"} => Changes(p)
  /\ pc[p] = "update" => wanted[p] \in Dependencies
  /\ pc[p] = "populate" => held[p] # None /\ left[p] \subseteq Listed(held[p].packages)

TInv ==
  /\ TypeOK
  /\ CacheSound
  /\ \A p \in Procs : InstallKnows(p) /\ StackNamed(p) /\ CommandHas(p)

LEMMA FrameMade ==
  ASSUME NEW a \in Aliases \cup {None}, NEW s \in Sources \cup {None},
         NEW id \in Identities \cup {None}, NEW deps \in Dependencies
  PROVE  Visit(a, s, id, deps) \in Frame
BY DEF Visit, Frame, Listed

LEMMA FrameReplaced ==
  ASSUME NEW s \in Seq(Frame), NEW n \in 1..Len(s), NEW g \in Frame
  PROVE  /\ [s EXCEPT ![n] = g] \in Seq(Frame)
         /\ Len([s EXCEPT ![n] = g]) = Len(s)
         /\ \A i \in 1..Len(s) : [s EXCEPT ![n] = g][i] = IF i = n THEN g ELSE s[i]
BY ExceptSeq

LEMMA FrameTicked ==
  ASSUME NEW f \in Frame, NEW a
  PROVE  /\ TickOff(f, a) \in Frame
         /\ TickOff(f, a).alias = f.alias
         /\ TickOff(f, a).source = f.source
         /\ TickOff(f, a).id = f.id
         /\ TickOff(f, a).deps = f.deps
         /\ TickOff(f, a).left = f.left \ {a}
<1>1. f.left \ {a} \in SUBSET Aliases
  BY DEF Frame
<1> QED
  BY <1>1 DEF Frame, TickOff

\* A dependency is ticked off in the package visited last.
TickTop(s, a) == [s EXCEPT ![Len(s)] = TickOff(@, a)]

TickedOff(s, a, next) ==
  /\ \A i \in 1..Len(s) :
       /\ next[i].alias = s[i].alias
       /\ next[i].source = s[i].source
       /\ next[i].id = s[i].id
       /\ next[i].deps = s[i].deps
       /\ next[i].left \subseteq s[i].left
       /\ i # Len(s) => next[i] = s[i]
  /\ next[Len(s)].left = s[Len(s)].left \ {a}

LEMMA Ticked ==
  ASSUME NEW s \in Seq(Frame), Len(s) >= 1, NEW a,
         NEW rest, rest = TickTop(s, a)
  PROVE  rest \in Seq(Frame) /\ Len(rest) = Len(s) /\ TickedOff(s, a, rest)
<1>1. s[Len(s)] \in Frame /\ \A i \in 1..Len(s) : s[i] \in Frame
  OBVIOUS
<1>2. TickOff(s[Len(s)], a) \in Frame
  BY <1>1, FrameTicked
<1>3. /\ rest \in Seq(Frame)
      /\ Len(rest) = Len(s)
      /\ \A i \in 1..Len(s) : rest[i] = IF i = Len(s) THEN TickOff(s[i], a) ELSE s[i]
  <2> DEFINE g == TickOff(s[Len(s)], a)
  <2>1. rest = [s EXCEPT ![Len(s)] = g]
    BY DEF TickTop
  <2>2. g \in Frame /\ Len(s) \in 1..Len(s)
    BY <1>2
  <2> HIDE DEF g
  <2>3. PICK n \in 1..Len(s) : n = Len(s)
    BY <2>2
  <2>4. rest = [s EXCEPT ![n] = g]
    BY <2>1, <2>3
  <2>5. /\ rest \in Seq(Frame)
        /\ Len(rest) = Len(s)
        /\ \A i \in 1..Len(s) : rest[i] = IF i = n THEN g ELSE s[i]
    BY <2>2, <2>4, FrameReplaced
  <2> QED
    BY <2>3, <2>5 DEF g
<1>4. \A i \in 1..Len(s) :
        /\ TickOff(s[i], a) \in Frame
        /\ TickOff(s[i], a).alias = s[i].alias
        /\ TickOff(s[i], a).source = s[i].source
        /\ TickOff(s[i], a).id = s[i].id
        /\ TickOff(s[i], a).deps = s[i].deps
        /\ TickOff(s[i], a).left = s[i].left \ {a}
  BY <1>1, FrameTicked
<1>5. ASSUME NEW i \in 1..Len(s)
      PROVE  /\ rest[i] \in Frame
             /\ rest[i].alias = s[i].alias
             /\ rest[i].source = s[i].source
             /\ rest[i].id = s[i].id
             /\ rest[i].deps = s[i].deps
             /\ rest[i].left \subseteq s[i].left
  <2>1. CASE i = Len(s)
    BY <1>3, <1>4, <2>1
  <2>2. CASE i # Len(s)
    <3>1. rest[i] = s[i] /\ s[i] \in Frame
      BY <1>1, <1>3, <2>2
    <3> QED
      BY <2>2, <3>1
  <2> QED
    BY <2>1, <2>2
<1>6. \A i \in 1..Len(s) : i # Len(s) => rest[i] = s[i]
  BY <1>3
<1>7. rest[Len(s)].left = s[Len(s)].left \ {a}
  <2>1. Len(s) \in 1..Len(s)
    OBVIOUS
  <2> QED
    BY <1>3, <1>4, <2>1
<1> QED
  BY <1>3, <1>5, <1>6, <1>7 DEF TickedOff

LEMMA Pushed ==
  ASSUME NEW s \in Seq(Frame), NEW f \in Frame
  PROVE  /\ Append(s, f) \in Seq(Frame)
         /\ Len(Append(s, f)) = Len(s) + 1
         /\ \A i \in 1..Len(s) : Append(s, f)[i] = s[i]
         /\ Append(s, f)[Len(s) + 1] = f
OBVIOUS

LEMMA Popped ==
  ASSUME NEW s \in Seq(Frame), Len(s) > 1
  PROVE  /\ SubSeq(s, 1, Len(s) - 1) \in Seq(Frame)
         /\ Len(SubSeq(s, 1, Len(s) - 1)) = Len(s) - 1
         /\ \A i \in 1..(Len(s) - 1) : SubSeq(s, 1, Len(s) - 1)[i] = s[i]
OBVIOUS

-----------------------------------------------------------------------------

LEMMA InitTyped ==
  ASSUME Init
  PROVE  TInv
<1>1. content \in [Sources -> Contents] /\ CacheTypeOK /\ CacheSound
  BY DEF Init, CacheInit, CacheTypeOK, NoInstall, Install, Stages, CacheSound
<1>2. manifest \in Dependencies /\ crlf \in BOOLEAN /\ NoPackages \in Packages
  BY DEF Init, Dependencies, NoPackages, Packages
<1>3. /\ lock \in Lock \cup {None}
      /\ pc \in [Procs -> Places]
      /\ original \in [Procs -> Dependencies \cup {None}]
      /\ wanted \in [Procs -> Dependencies \cup {None}]
      /\ held \in [Procs -> Lock \cup {None}]
      /\ left \in [Procs -> SUBSET Aliases]
      /\ settled \in BOOLEAN
      /\ stocked \in BOOLEAN
  BY DEF Init, Places
<1>4. stack \in [Procs -> Seq(Frame)] /\ selected \in [Procs -> Packages]
  BY <1>2 DEF Init
<1>5. ASSUME NEW p \in Procs
      PROVE  InstallKnows(p) /\ StackNamed(p) /\ CommandHas(p)
  BY DEF Init, CacheInit, NoInstall, InstallKnows, StackNamed, CommandHas, Changes
<1> QED
  BY <1>1, <1>2, <1>3, <1>4, <1>5 DEF TInv, TypeOK

\* The end of every command
LEMMA EndTyped ==
  ASSUME TInv, NEW p \in Procs, End(p),
         manifest' \in Dependencies, crlf' \in BOOLEAN, lock' \in Lock \cup {None},
         settled' \in BOOLEAN, stocked' \in BOOLEAN
  PROVE  TInv'
<1>1. NoPackages \in Packages /\ NoInstall \in Install /\ <<>> \in Seq(Frame)
  BY DEF NoPackages, Packages, NoInstall, Install, Stages
<1>2. CacheTypeOK' /\ CacheSound'
  BY <1>1 DEF TInv, TypeOK, CacheTypeOK, CacheSound, End
<1>3. TypeOK'
  BY <1>1, <1>2 DEF TInv, TypeOK, End, Places
<1>4. ASSUME NEW q \in Procs
      PROVE  InstallKnows(q)' /\ StackNamed(q)' /\ CommandHas(q)'
  BY DEF TInv, TypeOK, CacheTypeOK, End, NoInstall, InstallKnows, StackNamed, CommandHas, Changes, Top
<1> QED
  BY <1>2, <1>3, <1>4 DEF TInv

\* The steps that begin or carry on a command without touching the packages
LEMMA CommandTyped ==
  ASSUME TInv, NEW p \in Procs,
         \/ \E a \in Aliases, s \in Sources \cup {None} : Change(p, a, s)
         \/ Update(p)
         \/ BeginInstall(p)
         \/ BeginLocked(p)
         \/ BeginBuild(p)
  PROVE  TInv'
<1>1. ASSUME NEW a \in Aliases, NEW s \in Sources \cup {None}, Change(p, a, s)
      PROVE  TInv'
  <2>1. [manifest EXCEPT ![a] = s] \in Dependencies /\ manifest # None
    BY NoRecordAssumption DEF TInv, TypeOK, Dependencies
  <2>2. TypeOK' /\ CacheSound'
    BY <1>1, <2>1 DEF TInv, TypeOK, CacheTypeOK, CacheSound, Change, cacheVars, history, Places
  <2>3. ASSUME NEW q \in Procs
        PROVE  InstallKnows(q)' /\ StackNamed(q)' /\ CommandHas(q)'
    BY <1>1, <2>1 DEF TInv, TypeOK, CacheTypeOK, Change, cacheVars, InstallKnows, StackNamed,
      CommandHas, Changes, Top
  <2> QED
    BY <2>2, <2>3 DEF TInv
<1>2. ASSUME Update(p)
      PROVE  TInv'
  <2>1. TypeOK' /\ CacheSound'
    BY <1>2 DEF TInv, TypeOK, CacheTypeOK, CacheSound, Update, cacheVars, history, Places, CommandHas
  <2>2. ASSUME NEW q \in Procs
        PROVE  InstallKnows(q)' /\ StackNamed(q)' /\ CommandHas(q)'
    BY <1>2 DEF TInv, TypeOK, CacheTypeOK, Update, cacheVars, InstallKnows, StackNamed,
      CommandHas, Changes, Top
  <2> QED
    BY <2>1, <2>2 DEF TInv
<1>3. ASSUME BeginInstall(p) \/ BeginBuild(p)
      PROVE  TInv'
  <2>1. TypeOK' /\ CacheSound'
    BY <1>3 DEF TInv, TypeOK, CacheTypeOK, CacheSound, BeginInstall, BeginBuild, cacheVars, history, Places
  <2>2. ASSUME NEW q \in Procs
        PROVE  InstallKnows(q)' /\ StackNamed(q)' /\ CommandHas(q)'
    BY <1>3 DEF TInv, TypeOK, CacheTypeOK, BeginInstall, BeginBuild, cacheVars, InstallKnows,
      StackNamed, CommandHas, Changes, Top
  <2> QED
    BY <2>1, <2>2 DEF TInv
<1>4. ASSUME BeginLocked(p)
      PROVE  TInv'
  <2>1. lock \in Lock /\ lock # None /\ Listed(lock.packages) \in SUBSET Aliases
    BY <1>4 DEF TInv, TypeOK, BeginLocked, Current, Listed
  <2>2. TypeOK' /\ CacheSound'
    BY <1>4, <2>1 DEF TInv, TypeOK, CacheTypeOK, CacheSound, BeginLocked, cacheVars, history, Places
  <2>3. ASSUME NEW q \in Procs
        PROVE  InstallKnows(q)' /\ StackNamed(q)' /\ CommandHas(q)'
    BY <1>4, <2>1 DEF TInv, TypeOK, CacheTypeOK, BeginLocked, cacheVars, InstallKnows,
      StackNamed, CommandHas, Changes, Top
  <2> QED
    BY <2>2, <2>3 DEF TInv
<1> QED
  BY <1>1, <1>2, <1>3, <1>4

-----------------------------------------------------------------------------

\* An installation goes on.
LEMMA InstallTyped ==
  ASSUME TInv, NEW p \in Procs, NEW i \in Install, install' = [install EXCEPT ![p] = i],
         UNCHANGED <<content, manifest, crlf, lock, command, history>>,
         cache' \in [Contents -> Contents \cup {None}], CacheSound', InstallKnows(p)',
         pc[p] = "resolve" /\ i.stage # "none" =>
           Len(stack[p]) > 1 /\ Top(p).left = {} /\ i.source = Top(p).source
  PROVE  TInv'
<1>1. TypeOK'
  BY DEF TInv, TypeOK, CacheTypeOK, command, history
<1>2. ASSUME NEW q \in Procs
      PROVE  InstallKnows(q)'
  BY DEF TInv, TypeOK, CacheTypeOK, command, InstallKnows
<1>3. ASSUME NEW q \in Procs
      PROVE  StackNamed(q)' /\ CommandHas(q)'
  BY DEF TInv, TypeOK, CacheTypeOK, command, StackNamed, CommandHas, Changes, Top
<1> QED
  BY <1>1, <1>2, <1>3 DEF TInv

LEMMA CacheStepTyped ==
  ASSUME TInv, NEW p \in Procs, CacheAction(p)
  PROVE  TInv'
<1>1. /\ install[p] \in Install
      /\ cache \in [Contents -> Contents \cup {None}]
      /\ content \in [Sources -> Contents]
      /\ InstallKnows(p) /\ CommandHas(p) /\ CacheSound
      /\ install \in [Procs -> Install]
  BY DEF TInv, TypeOK, CacheTypeOK
<1>2. UNCHANGED <<content, manifest, crlf, lock, command, history>>
  BY DEF CacheAction, CacheStep, CheckCache, CopyFiles, Verify, Rename
<1>3. ASSUME NEW stage \in Stages \ {"rename", "verify"}, install[p].stage # "none", Goto(p, stage),
             cache' \in [Contents -> Contents \cup {None}], CacheSound'
      PROVE  TInv'
  <2>1. PICK i \in Install : i = [install[p] EXCEPT !.stage = stage]
    BY <1>1, <1>3 DEF Install
  <2>2. install' = [install EXCEPT ![p] = i] /\ install'[p] = i
    BY <1>1, <1>3, <2>1 DEF Goto
  <2>3. i.stage = stage /\ i.source = install[p].source /\ i.digest = install[p].digest
    BY <1>1, <2>1 DEF Install
  <2>4. InstallKnows(p)'
    BY <1>1, <1>2, <1>3, <2>2, <2>3 DEF InstallKnows, command
  <2> QED
    BY <1>1, <1>2, <1>3, <2>2, <2>3, <2>4, InstallTyped DEF CommandHas
<1>4. CASE CheckCache(p)
  BY <1>1, <1>3, <1>4 DEF CheckCache, Stages, CacheSound
<1>5. CASE CopyFiles(p)
  <2>1. PICK c \in Contents : c = content[install[p].source]
    BY <1>1, <1>5 DEF CopyFiles, InstallKnows
  <2>2. PICK i \in Install : i = [install[p] EXCEPT !.copy = c, !.stage = "verify"]
    BY <1>1, <2>1 DEF Install, Stages
  <2>3. install' = [install EXCEPT ![p] = i] /\ install'[p] = i
    BY <1>1, <1>5, <2>1, <2>2 DEF CopyFiles
  <2>4. i.stage = "verify" /\ i.source = install[p].source /\ i.digest = install[p].digest /\ i.copy = c
    BY <1>1, <2>2 DEF Install
  <2>5. InstallKnows(p)'
    BY <1>1, <1>2, <1>5, <2>1, <2>3, <2>4 DEF InstallKnows, command, CopyFiles
  <2>6. cache' = cache /\ CacheSound'
    BY <1>1, <1>5 DEF CopyFiles, CacheSound
  <2> QED
    BY <1>1, <1>2, <1>5, <2>3, <2>4, <2>5, <2>6, InstallTyped DEF CommandHas, CopyFiles
<1>6. CASE Verify(p)
  <2>1. CASE Digest(install[p].copy) = install[p].digest
    <3>1. PICK i \in Install : i = [install[p] EXCEPT !.stage = "rename"]
      BY <1>1 DEF Install, Stages
    <3>2. install' = [install EXCEPT ![p] = i] /\ install'[p] = i
      BY <1>1, <1>6, <2>1, <3>1 DEF Verify, Goto
    <3>3. /\ i.stage = "rename" /\ i.source = install[p].source
          /\ i.digest = install[p].digest /\ i.copy = install[p].copy
      BY <1>1, <3>1 DEF Install
    <3>4. InstallKnows(p)'
      BY <1>1, <1>2, <1>6, <2>1, <3>2, <3>3 DEF InstallKnows, command, Verify, Digest
    <3>5. cache' = cache /\ CacheSound'
      BY <1>1, <1>6 DEF Verify, CacheSound
    <3> QED
      BY <1>1, <1>2, <1>6, <3>2, <3>3, <3>4, <3>5, InstallTyped DEF CommandHas, Verify
  <2>2. CASE Digest(install[p].copy) # install[p].digest
    BY <1>1, <1>3, <1>6, <2>2 DEF Verify, Stages, CacheSound
  <2> QED
    BY <2>1, <2>2
<1>7. CASE Rename(p)
  <2>1. install[p].copy \in Contents /\ install[p].copy = install[p].digest
    BY <1>1, <1>7 DEF Rename, InstallKnows
  <2>2. cache' \in [Contents -> Contents \cup {None}] /\ CacheSound'
    BY <1>1, <1>7, <2>1 DEF Rename, CacheSound, Digest
  <2> QED
    BY <1>1, <1>3, <1>7, <2>2 DEF Rename, Stages
<1> QED
  BY <1>4, <1>5, <1>6, <1>7 DEF CacheAction, CacheStep

LEMMA StartTyped ==
  ASSUME TInv, NEW p \in Procs, Start(p)
  PROVE  TInv'
<1>1. VisitRoot(manifest) \in Frame /\ <<VisitRoot(manifest)>> \in Seq(Frame)
  <2>1. manifest \in Dependencies
    BY DEF TInv, TypeOK
  <2>2. VisitRoot(manifest) \in Frame
    BY <2>1, FrameMade DEF VisitRoot
  <2> QED
    BY <2>2
<1>2. TypeOK'
  BY <1>1 DEF TInv, TypeOK, CacheTypeOK, Start, cacheVars, command, history, Places
<1>3. CacheSound'
  BY <1>1 DEF TInv, TypeOK, CacheTypeOK, CacheSound, Start, VisitRoot, Visit, cacheVars
<1>4. ASSUME NEW q \in Procs
      PROVE  InstallKnows(q)' /\ StackNamed(q)' /\ CommandHas(q)'
  BY <1>1 DEF TInv, TypeOK, CacheTypeOK, Start, VisitRoot, Visit, cacheVars, command, InstallKnows,
    StackNamed, CommandHas, Changes, Top
<1> QED
  BY <1>2, <1>3, <1>4 DEF TInv

\* The package visited last, and what it is known by
LEMMA TopTyped ==
  ASSUME TInv, NEW p \in Procs, Len(stack[p]) >= 1
  PROVE  /\ Top(p) \in Frame
         /\ stack[p] \in Seq(Frame)
         /\ Len(stack[p]) \in Nat
         /\ Len(stack[p]) > 1 => /\ Top(p).alias \in Aliases /\ Top(p).source \in Sources
                                 /\ Top(p).id \in Identities
<1>1. stack[p] \in Seq(Frame) /\ StackNamed(p)
  BY DEF TInv, TypeOK
<1>2. Len(stack[p]) \in 1..Len(stack[p])
  BY <1>1
<1> QED
  BY <1>1, <1>2 DEF StackNamed, Top

\* ensure_cached is called.
LEMMA EnsureTyped ==
  ASSUME TInv, NEW p \in Procs, NEW s \in Sources, NEW d \in Contents, Ensure(p, s, d),
         UNCHANGED <<content, cache, manifest, crlf, lock, command, history>>,
         pc[p] \in {"resolve", "populate"},
         pc[p] = "resolve" => Len(stack[p]) > 1 /\ Top(p).left = {} /\ s = Top(p).source
  PROVE  TInv'
<1>1. PICK i \in Install : i = [stage |-> "check", source |-> s, digest |-> d, copy |-> None]
  BY DEF Install, Stages
<1>2. install' = [install EXCEPT ![p] = i] /\ install'[p] = i
  BY <1>1 DEF Ensure, TInv, TypeOK, CacheTypeOK
<1>3. InstallKnows(p)'
  BY <1>1, <1>2 DEF InstallKnows, command
<1>4. CacheSound' /\ cache' \in [Contents -> Contents \cup {None}]
  BY DEF TInv, CacheSound, TypeOK, CacheTypeOK
<1> QED
  BY <1>1, <1>2, <1>3, <1>4, InstallTyped

LEMMA HashPackageTyped ==
  ASSUME TInv, NEW p \in Procs, HashPackage(p)
  PROVE  TInv'
<1>1. Top(p).source \in Sources
  BY TopTyped DEF HashPackage
<1>2. content[Top(p).source] \in Contents
  BY <1>1 DEF TInv, TypeOK, CacheTypeOK
<1> QED
  BY <1>1, <1>2, EnsureTyped DEF HashPackage, Resolving, Digest

LEMMA PopulateTyped ==
  ASSUME TInv, NEW p \in Procs, NEW a \in Aliases, Populate(p, a)
  PROVE  TInv'
<1>1. held[p].packages[a] \in Record
  BY DEF TInv, TypeOK, CommandHas, Populate, Lock, Packages, Listed
<1>2. CASE left' = [left EXCEPT ![p] = @ \ {a}] /\ UNCHANGED install
  <2>1. TypeOK' /\ CacheSound'
    BY <1>2 DEF TInv, TypeOK, CacheTypeOK, CacheSound, Populate, history
  <2>2. ASSUME NEW q \in Procs
        PROVE  InstallKnows(q)' /\ StackNamed(q)' /\ CommandHas(q)'
    BY <1>2 DEF TInv, TypeOK, CacheTypeOK, Populate, InstallKnows, StackNamed, CommandHas, Changes, Top
  <2> QED
    BY <2>1, <2>2 DEF TInv
<1>3. CASE Ensure(p, held[p].packages[a].source, held[p].packages[a].digest) /\ UNCHANGED left
  <2>1. /\ held[p].packages[a].source \in Sources
        /\ held[p].packages[a].digest \in Contents
    BY <1>1 DEF Record
  <2> QED
    BY <1>3, <2>1, EnsureTyped DEF Populate, command
<1> QED
  BY <1>2, <1>3 DEF Populate

LEMMA PopulatedTyped ==
  ASSUME TInv, NEW p \in Procs, Populated(p)
  PROVE  TInv'
<1>1. NoInstall \in Install /\ NoInstall.stage = "none"
  BY DEF NoInstall, Install, Stages
<1>2. InstallKnows(p)' /\ CacheSound'
  BY <1>1 DEF Populated, InstallKnows, TInv, CacheSound, TypeOK, CacheTypeOK
<1>3. cache' \in [Contents -> Contents \cup {None}]
  BY DEF TInv, TypeOK, CacheTypeOK, Populated
<1> QED
  BY <1>1, <1>2, <1>3, InstallTyped DEF Populated

\* What VisitNext makes of the packages being visited: the dependency is ticked
\* off in the last one, and is the last one itself unless it is done with.
LEMMA VisitShape ==
  ASSUME TInv, NEW p \in Procs, NEW a \in Aliases, VisitNext(p, a)
  PROVE  \E s \in Sources, next \in Seq(Frame) :
           /\ a \in Top(p).left /\ s = Top(p).deps[a]
           /\ stack' = [stack EXCEPT ![p] = next]
           /\ TickedOff(stack[p], a, next)
           /\ \/ /\ selected[p][a] # None /\ selected[p][a].source = s
                 /\ Len(next) = Len(stack[p])
              \/ /\ selected[p][a] = None
                 /\ Len(next) = Len(stack[p]) + 1
                 /\ next[Len(stack[p]) + 1] = VisitPackage(a, s, content[s])
<1>1. Len(stack[p]) >= 1
  BY DEF TInv, CommandHas, VisitNext, Resolving
<1>2. /\ Top(p) \in Frame /\ stack[p] \in Seq(Frame) /\ Len(stack[p]) \in Nat /\ StackNamed(p)
  BY <1>1, TopTyped DEF TInv
<1>3. PICK s \in Sources : s = Top(p).deps[a]
  <2>1. a \in Listed(Top(p).deps)
    BY <1>1, <1>2 DEF StackNamed, Top, VisitNext
  <2> QED
    BY <1>2, <2>1 DEF Frame, Dependencies, Listed
<1>4. Requires[content[s]] \in Dependencies /\ Identity[content[s]] \in Identities
  BY RequiresAssumption DEF TInv, TypeOK, CacheTypeOK, Identities
<1>5. PICK f \in Frame : f = VisitPackage(a, s, content[s])
  BY <1>4, FrameMade DEF VisitPackage
<1>6. PICK rest : rest = [stack[p] EXCEPT ![Len(stack[p])] = TickOff(@, a)]
  OBVIOUS
<1>7. rest \in Seq(Frame) /\ Len(rest) = Len(stack[p]) /\ TickedOff(stack[p], a, rest)
  <2>1. PICK st \in Seq(Frame) : st = stack[p]
    BY <1>2
  <2>2. rest = TickTop(st, a) /\ Len(st) >= 1
    BY <1>1, <1>6, <2>1 DEF TickTop
  <2>3. rest \in Seq(Frame) /\ Len(rest) = Len(st) /\ TickedOff(st, a, rest)
    BY <2>2, Ticked, Zenon
  <2> QED
    BY <2>1, <2>3
<1>8. CASE selected[p][a] # None
  BY <1>3, <1>6, <1>7, <1>8 DEF VisitNext
<1>9. CASE selected[p][a] = None
  <2>1. PICK next \in Seq(Frame) : next = Append(rest, f)
    BY <1>7, Pushed
  <2>2. stack' = [stack EXCEPT ![p] = next]
    BY <1>3, <1>5, <1>6, <1>9, <2>1 DEF VisitNext
  <2>3. /\ Len(next) = Len(rest) + 1
        /\ \A i \in 1..Len(rest) : next[i] = rest[i]
        /\ next[Len(rest) + 1] = f
    BY <1>7, <2>1, Pushed
  <2>4. TickedOff(stack[p], a, next)
    BY <1>1, <1>2, <1>7, <2>3 DEF TickedOff
  <2> QED
    BY <1>3, <1>5, <1>7, <1>9, <2>2, <2>3, <2>4 DEF VisitNext
<1> QED
  BY <1>8, <1>9

LEMMA VisitNextTyped ==
  ASSUME TInv, NEW p \in Procs, NEW a \in Aliases, VisitNext(p, a)
  PROVE  TInv'
<1>1. Len(stack[p]) >= 1 /\ Len(stack[p]) \in Nat /\ StackNamed(p)
  BY TopTyped DEF TInv, CommandHas, VisitNext, Resolving
<1>2. PICK s \in Sources, next \in Seq(Frame) :
        /\ stack' = [stack EXCEPT ![p] = next]
        /\ TickedOff(stack[p], a, next)
        /\ \/ Len(next) = Len(stack[p])
           \/ /\ Len(next) = Len(stack[p]) + 1
              /\ next[Len(stack[p]) + 1] = VisitPackage(a, s, content[s])
  BY VisitShape
<1>3. stack'[p] = next /\ \A q \in Procs \ {p} : stack'[q] = stack[q]
  BY <1>2 DEF TInv, TypeOK
<1>4. TypeOK' /\ CacheSound'
  BY <1>2 DEF TInv, TypeOK, CacheTypeOK, CacheSound, VisitNext, cacheVars, history
<1>5. StackNamed(p)' /\ Len(next) >= 1
  <2>1. \A i \in 1..Len(stack[p]) :
          /\ next[i].left \subseteq Listed(next[i].deps)
          /\ i > 1 => /\ next[i].alias \in Aliases /\ next[i].source \in Sources
                      /\ next[i].id \in Identities
    BY <1>1, <1>2 DEF StackNamed, TickedOff
  <2>2. CASE Len(next) = Len(stack[p])
    BY <1>1, <1>3, <2>1, <2>2 DEF StackNamed
  <2>3. CASE /\ Len(next) = Len(stack[p]) + 1
             /\ next[Len(stack[p]) + 1] = VisitPackage(a, s, content[s])
    <3>1. /\ next[Len(stack[p]) + 1].alias = a /\ next[Len(stack[p]) + 1].source = s
          /\ next[Len(stack[p]) + 1].left = Listed(next[Len(stack[p]) + 1].deps)
          /\ next[Len(stack[p]) + 1].id = Identity[content[s]]
      BY <2>3 DEF VisitPackage, Visit
    <3>2. Identity[content[s]] \in Identities
      BY DEF TInv, TypeOK, CacheTypeOK, Identities
    <3> QED
      BY <1>1, <1>3, <2>1, <2>3, <3>1, <3>2 DEF StackNamed
  <2> QED
    BY <1>2, <2>2, <2>3
<1>6. ASSUME NEW q \in Procs
      PROVE  InstallKnows(q)' /\ StackNamed(q)' /\ CommandHas(q)'
  <2>1. /\ UNCHANGED <<install, pc, original, wanted, held, left>>
        /\ install[p].stage = "none" /\ pc[p] = "resolve"
    BY DEF VisitNext, Resolving, cacheVars
  <2>2. InstallKnows(q) /\ StackNamed(q) /\ CommandHas(q)
    BY DEF TInv
  <2>3. InstallKnows(q)'
    BY <2>1, <2>2 DEF InstallKnows
  <2>4. CASE q = p
    BY <1>3, <1>5, <2>1, <2>2, <2>3, <2>4 DEF CommandHas, Changes
  <2>5. CASE q # p
    <3>1. stack'[q] = stack[q]
      BY <1>3, <2>5
    <3> QED
      BY <2>1, <2>2, <2>3, <3>1 DEF StackNamed, CommandHas, Changes, Top
  <2> QED
    BY <2>4, <2>5
<1> QED
  BY <1>4, <1>6 DEF TInv

\* What Select makes of them: the last one is done with, and is recorded.
LEMMA SelectShape ==
  ASSUME TInv, NEW p \in Procs, Select(p)
  PROVE  \E next \in Seq(Frame), r \in Record, chosen \in Packages :
           /\ Len(stack[p]) > 1 /\ Len(stack[p]) \in Nat /\ Top(p).alias \in Aliases
           /\ r = [source |-> Top(p).source, id |-> Top(p).id,
                 digest |-> install[p].digest, deps |-> Listed(Top(p).deps)]
           /\ chosen = [selected[p] EXCEPT ![Top(p).alias] = r]
           /\ Len(next) = Len(stack[p]) - 1
           /\ \A i \in 1..Len(next) : next[i] = stack[p][i]
           /\ stack' = [stack EXCEPT ![p] = next]
           /\ selected' = [selected EXCEPT ![p] = chosen]
           /\ install' = [install EXCEPT ![p] = NoInstall]
<1>1. /\ Len(stack[p]) > 1 /\ pc[p] = "resolve" /\ Top(p).source \in Sources
      /\ Top(p).id \in Identities /\ install[p].digest \in Contents
  BY TopTyped DEF TInv, CommandHas, InstallKnows, Select
<1>2. /\ Top(p) \in Frame /\ stack[p] \in Seq(Frame) /\ Len(stack[p]) \in Nat
      /\ Top(p).alias \in Aliases /\ StackNamed(p)
  BY <1>1, TopTyped DEF TInv
<1>3. PICK next \in Seq(Frame) :
        /\ next = SubSeq(stack[p], 1, Len(stack[p]) - 1)
        /\ Len(next) = Len(stack[p]) - 1
        /\ \A i \in 1..Len(next) : next[i] = stack[p][i]
  <2>1. PICK st \in Seq(Frame) : st = stack[p] /\ Len(st) > 1
    BY <1>1, <1>2
  <2>2. /\ SubSeq(st, 1, Len(st) - 1) \in Seq(Frame)
        /\ Len(SubSeq(st, 1, Len(st) - 1)) = Len(st) - 1
        /\ \A i \in 1..(Len(st) - 1) : SubSeq(st, 1, Len(st) - 1)[i] = st[i]
    BY <2>1, Popped, Zenon
  <2>3. PICK n \in Seq(Frame) : n = SubSeq(st, 1, Len(st) - 1)
    BY <2>2, Zenon
  <2>4. Len(n) = Len(st) - 1 /\ \A i \in 1..Len(n) : n[i] = st[i]
    BY <2>2, <2>3, Zenon
  <2>5. n = SubSeq(stack[p], 1, Len(stack[p]) - 1) /\ Len(n) = Len(stack[p]) - 1
        /\ \A i \in 1..Len(n) : n[i] = stack[p][i]
    BY <2>1, <2>3, <2>4, Zenon
  <2> QED
    BY <2>5
<1>4. PICK r \in Record :
        r = [source |-> Top(p).source, id |-> Top(p).id,
                 digest |-> install[p].digest, deps |-> Listed(Top(p).deps)]
  BY <1>1, <1>2 DEF Record, Listed
<1>5. /\ stack' = [stack EXCEPT ![p] = next]
      /\ selected' = [selected EXCEPT ![p] = [@ EXCEPT ![Top(p).alias] = r]]
      /\ install' = [install EXCEPT ![p] = NoInstall]
  BY <1>3, <1>4 DEF Select
<1>6. [selected[p] EXCEPT ![Top(p).alias] = r] \in Packages
  BY <1>2 DEF TInv, TypeOK, Packages
<1>7. PICK chosen \in Packages : chosen = [selected[p] EXCEPT ![Top(p).alias] = r]
  BY <1>6
<1>8. selected' = [selected EXCEPT ![p] = chosen]
  BY <1>5, <1>7
<1> QED
  BY <1>1, <1>2, <1>3, <1>4, <1>5, <1>7, <1>8

LEMMA SelectTyped ==
  ASSUME TInv, NEW p \in Procs, Select(p)
  PROVE  TInv'
<1>1. PICK next \in Seq(Frame), chosen \in Packages :
        /\ Len(stack[p]) > 1 /\ Len(stack[p]) \in Nat
        /\ Len(next) = Len(stack[p]) - 1
        /\ \A i \in 1..Len(next) : next[i] = stack[p][i]
        /\ stack' = [stack EXCEPT ![p] = next]
        /\ selected' = [selected EXCEPT ![p] = chosen]
        /\ install' = [install EXCEPT ![p] = NoInstall]
  BY SelectShape
<1>2. NoInstall \in Install /\ NoInstall.stage = "none"
  BY DEF NoInstall, Install, Stages
<1>3. TypeOK' /\ CacheSound'
  <2>1. stack' \in [Procs -> Seq(Frame)] /\ selected' \in [Procs -> Packages]
    BY <1>1 DEF TInv, TypeOK
  <2>2. install' \in [Procs -> Install]
    BY <1>1, <1>2 DEF TInv, TypeOK, CacheTypeOK
  <2> QED
    BY <2>1, <2>2 DEF TInv, TypeOK, CacheTypeOK, CacheSound, Select, history
<1>4. ASSUME NEW q \in Procs
      PROVE  InstallKnows(q)' /\ StackNamed(q)' /\ CommandHas(q)'
  <2>1. /\ UNCHANGED <<pc, original, wanted, held, left>>
        /\ InstallKnows(q) /\ StackNamed(q) /\ CommandHas(q)
    BY DEF TInv, Select
  <2>2. CASE q = p
    <3>1. stack'[p] = next /\ install'[p] = NoInstall
      BY <1>1 DEF TInv, TypeOK, CacheTypeOK
    <3>2. StackNamed(p)' /\ Len(next) >= 1
      <4>1. /\ Len(next) >= 1
            /\ \A i \in 1..Len(next) : i \in 1..Len(stack[p]) /\ next[i] = stack[p][i]
        BY <1>1
      <4>2. \A i \in 1..Len(next) :
              /\ stack[p][i].left \subseteq Listed(stack[p][i].deps)
              /\ i > 1 => /\ stack[p][i].alias \in Aliases /\ stack[p][i].source \in Sources
                          /\ stack[p][i].id \in Identities
        BY <2>1, <2>2, <4>1 DEF StackNamed
      <4>3. \A i \in 1..Len(next) :
              /\ next[i].left \subseteq Listed(next[i].deps)
              /\ i > 1 => /\ next[i].alias \in Aliases /\ next[i].source \in Sources
                          /\ next[i].id \in Identities
        BY <4>1, <4>2, Zenon
      <4> QED
        BY <3>1, <4>1, <4>3 DEF StackNamed
    <3> QED
      BY <1>2, <2>1, <2>2, <3>1, <3>2 DEF InstallKnows, CommandHas, Changes
  <2>3. CASE q # p
    <3>1. stack'[q] = stack[q] /\ install'[q] = install[q]
      BY <1>1, <2>3 DEF TInv, TypeOK, CacheTypeOK
    <3> QED
      BY <2>1, <3>1 DEF InstallKnows, StackNamed, CommandHas, Changes, Top
  <2> QED
    BY <2>2, <2>3
<1> QED
  BY <1>3, <1>4 DEF TInv

LEMMA FailTyped ==
  ASSUME TInv, NEW p \in Procs, Fail(p)
  PROVE  TInv'
<1>1. CASE Changes(p)
  <2>1. NoPackages \in Packages /\ NoInstall \in Install /\ NoInstall.stage = "none" /\ <<>> \in Seq(Frame)
    BY DEF NoPackages, Packages, NoInstall, Install, Stages
  <2>2. TypeOK' /\ CacheSound'
    BY <1>1, <2>1 DEF TInv, TypeOK, CacheTypeOK, CacheSound, Fail, history, Places
  <2>3. ASSUME NEW q \in Procs
        PROVE  InstallKnows(q)' /\ StackNamed(q)' /\ CommandHas(q)'
    BY <1>1, <2>1 DEF TInv, TypeOK, CacheTypeOK, Fail, InstallKnows, StackNamed, CommandHas, Changes, Top
  <2> QED
    BY <2>2, <2>3 DEF TInv
<1>2. CASE ~Changes(p)
  BY <1>2, EndTyped DEF Fail, TInv, TypeOK, history
<1> QED
  BY <1>1, <1>2

\* The other ends of a command
LEMMA FinishTyped ==
  ASSUME TInv, NEW p \in Procs,
         \/ WriteLock(p) \/ Restore(p) \/ EndLocked(p) \/ Refuse(p) \/ Relock(p) \/ Crash(p)
  PROVE  TInv'
<1>1. /\ manifest \in Dependencies /\ crlf \in BOOLEAN /\ lock \in Lock \cup {None}
      /\ settled \in BOOLEAN /\ stocked \in BOOLEAN
  BY DEF TInv, TypeOK
<1>2. CASE WriteLock(p)
  <2>1. [manifest |-> manifest, crlf |-> crlf, packages |-> selected[p]] \in Lock
    BY DEF TInv, TypeOK, Lock
  <2> QED
    BY <1>1, <1>2, <2>1, EndTyped DEF WriteLock
<1>3. CASE Relock(p)
  <2>1. [manifest |-> manifest, crlf |-> crlf, packages |-> NoPackages] \in Lock
    BY <1>1 DEF Lock, NoPackages, Packages
  <2> QED
    BY <1>1, <1>3, <2>1, EndTyped DEF Relock
<1>4. CASE Restore(p)
  <2>1. original[p] \in Dependencies
    BY <1>4 DEF TInv, TypeOK, CommandHas, Changes, Restore
  <2> QED
    BY <1>1, <1>4, <2>1, EndTyped DEF Restore, history
<1>5. CASE EndLocked(p)
  BY <1>1, <1>5, EndTyped DEF EndLocked
<1>6. CASE Refuse(p)
  BY <1>1, <1>6, EndTyped DEF Refuse, history
<1>7. CASE Crash(p)
  BY <1>1, <1>7, EndTyped DEF Crash, Changes
<1> QED
  BY <1>2, <1>3, <1>4, <1>5, <1>6, <1>7

LEMMA EnsureLockTyped ==
  ASSUME TInv, NEW p \in Procs, EnsureLock(p)
  PROVE  TInv'
<1>1. CASE pc' = [pc EXCEPT ![p] = "relock"] /\ UNCHANGED <<cacheVars, original, wanted, stack, selected, held, left>>
  <2>1. TypeOK' /\ CacheSound'
    BY <1>1 DEF TInv, TypeOK, CacheTypeOK, CacheSound, EnsureLock, cacheVars, history, Places
  <2>2. ASSUME NEW q \in Procs
        PROVE  InstallKnows(q)' /\ StackNamed(q)' /\ CommandHas(q)'
    BY <1>1 DEF TInv, TypeOK, CacheTypeOK, EnsureLock, cacheVars, InstallKnows, StackNamed,
      CommandHas, Changes, Top
  <2> QED
    BY <2>1, <2>2 DEF TInv
<1>2. CASE End(p)
  BY <1>2, EndTyped DEF EnsureLock, TInv, TypeOK, history
<1> QED
  BY <1>1, <1>2 DEF EnsureLock

LEMMA WorldTyped ==
  ASSUME TInv,
         \/ \E deps \in Dependencies, windows \in BOOLEAN : EditManifest(deps, windows)
         \/ \E s \in Sources, c \in Contents : EditPackage(s, c)
         \/ Clear
  PROVE  TInv'
<1>1. TypeOK' /\ CacheSound'
  <2>1. ASSUME NEW deps \in Dependencies, NEW windows \in BOOLEAN, EditManifest(deps, windows)
        PROVE  TypeOK' /\ CacheSound'
    BY <2>1 DEF TInv, TypeOK, CacheTypeOK, CacheSound, EditManifest, cacheVars, command
  <2>2. ASSUME NEW s \in Sources, NEW c \in Contents, EditPackage(s, c)
        PROVE  TypeOK' /\ CacheSound'
    BY <2>2 DEF TInv, TypeOK, CacheTypeOK, CacheSound, EditPackage, EditSource, command, history
  <2>3. CASE Clear
    BY <2>3 DEF TInv, TypeOK, CacheTypeOK, CacheSound, Clear, ClearCache, command
  <2> QED
    BY <2>1, <2>2, <2>3
<1>2. UNCHANGED <<install, command>>
  BY DEF EditManifest, EditPackage, EditSource, Clear, ClearCache, cacheVars
<1>3. ASSUME NEW q \in Procs
      PROVE  InstallKnows(q)' /\ StackNamed(q)' /\ CommandHas(q)'
  BY <1>2 DEF TInv, command, InstallKnows, StackNamed, CommandHas, Changes, Top
<1> QED
  BY <1>1, <1>3 DEF TInv

LEMMA NextTyped ==
  ASSUME TInv, [Next]_vars
  PROVE  TInv'
<1>1. CASE UNCHANGED vars
  BY <1>1 DEF vars, cacheVars, command, history, TInv, TypeOK, CacheTypeOK, CacheSound,
    InstallKnows, StackNamed, CommandHas, Changes, Top
<1>2. ASSUME NEW p \in Procs, Resolve(p)
      PROVE  TInv'
  BY <1>2, CommandTyped, StartTyped, VisitNextTyped, HashPackageTyped, SelectTyped, FinishTyped,
    FailTyped DEF Resolve
<1>3. ASSUME NEW p \in Procs, Check(p)
      PROVE  TInv'
  BY <1>3, CommandTyped, PopulateTyped, PopulatedTyped, FinishTyped, EnsureLockTyped DEF Check
<1>4. ASSUME NEW p \in Procs, CacheAction(p) \/ Crash(p)
      PROVE  TInv'
  BY <1>4, CacheStepTyped, FinishTyped
<1> QED
  BY <1>1, <1>2, <1>3, <1>4, WorldTyped DEF Next

LEMMA Typed == Spec => []TInv
BY InitTyped, NextTyped, PTL DEF Spec

\* Every variable keeps its type: of resolve_dependencies, a package that is
\* recorded has a source and a content, and the root is never recorded.
THEOREM TypeCorrect == Spec => []TypeOK
<1>1. TInv => TypeOK
  BY DEF TInv
<1> QED
  BY <1>1, Typed, PTL

\* A directory of the cache holds what its name says, for any number of
\* installers, whatever happens to the sources while they are copied and
\* wherever a process is killed.
THEOREM CacheIntact == Spec => []CacheSound
<1>1. TInv => CacheSound
  BY DEF TInv
<1> QED
  BY <1>1, Typed, PTL

-----------------------------------------------------------------------------
(* The packages being visited *)

\* The alias is done with, from this source.
Chosen(p, a, s) == selected[p][a] # None /\ selected[p][a].source = s

\* A package being visited is not done with, and is not being visited twice.
Distinct(p) ==
  \A i \in 2..Len(stack[p]) :
    /\ selected[p][stack[p][i].alias] = None
    /\ \A j \in 1..(i - 1) : stack[p][j].alias # stack[p][i].alias

\* Of the dependencies of a package being visited those ticked off are done
\* with, from the source listed for them, and the last of them perhaps is the
\* next one being visited.
Reached(p, i) ==
  \A a \in Listed(stack[p][i].deps) \ stack[p][i].left :
    \/ Chosen(p, a, stack[p][i].deps[a])
    \/ /\ i < Len(stack[p])
       /\ stack[p][i + 1].alias = a /\ stack[p][i + 1].source = stack[p][i].deps[a]

Resolved(p) ==
  /\ Distinct(p)
  /\ \A i \in 1..Len(stack[p]) : Reached(p, i)
  /\ pc[p] # "resolve" => stack[p] = <<>> /\ selected[p] = NoPackages

\* What a step makes of the resolution of p
LEMMA ResolutionEffect ==
  ASSUME TInv, Next, NEW p \in Procs
  PROVE  \/ /\ stack'[p] = stack[p] /\ selected'[p] = selected[p]
            /\ pc[p] = "resolve" => pc'[p] = "resolve"
         \/ stack'[p] = <<>> /\ selected'[p] = NoPackages /\ pc'[p] # "resolve"
         \/ Start(p) \/ Select(p) \/ \E a \in Aliases : VisitNext(p, a)
<1>1. TypeOK
  BY DEF TInv
<1> DEFINE Same == /\ stack'[p] = stack[p] /\ selected'[p] = selected[p]
                   /\ pc[p] = "resolve" => pc'[p] = "resolve"
           Over == stack'[p] = <<>> /\ selected'[p] = NoPackages /\ pc'[p] # "resolve"
<1>2. ASSUME NEW q \in Procs, End(q) PROVE Same \/ Over
  BY <1>1, <1>2 DEF End, TypeOK
<1>3. ASSUME NEW q \in Procs,
             (\E a \in Aliases, s \in Sources \cup {None} : Change(q, a, s)) \/ Update(q)
             \/ BeginInstall(q) \/ BeginLocked(q) \/ BeginBuild(q)
      PROVE  Same
  BY <1>1, <1>3 DEF Change, Update, BeginInstall, BeginLocked, BeginBuild, TypeOK
<1>4. ASSUME NEW q \in Procs, q # p,
             Start(q) \/ Select(q) \/ \E a \in Aliases : VisitNext(q, a)
      PROVE  Same
  BY <1>1, <1>4 DEF Start, Select, VisitNext, TypeOK
<1>5. ASSUME NEW q \in Procs,
             HashPackage(q) \/ CacheAction(q) \/ Populated(q) \/ \E a \in Aliases : Populate(q, a)
      PROVE  Same
  BY <1>5 DEF HashPackage, CacheAction, Populated, Populate, command
<1>6. ASSUME NEW q \in Procs, Fail(q) PROVE Same \/ Over
  BY <1>1, <1>2, <1>6 DEF Fail, TypeOK
<1>7. ASSUME NEW q \in Procs, EnsureLock(q) PROVE Same \/ Over
  BY <1>1, <1>2, <1>7 DEF EnsureLock, TypeOK
<1>8. ASSUME NEW q \in Procs,
             WriteLock(q) \/ Restore(q) \/ EndLocked(q) \/ Refuse(q) \/ Relock(q) \/ Crash(q)
      PROVE  Same \/ Over
  BY <1>2, <1>8 DEF WriteLock, Restore, EndLocked, Refuse, Relock, Crash
<1>9. ASSUME \/ \E deps \in Dependencies, windows \in BOOLEAN : EditManifest(deps, windows)
             \/ \E s \in Sources, c \in Contents : EditPackage(s, c)
             \/ Clear
      PROVE  Same
  BY <1>9 DEF EditManifest, EditPackage, Clear, command
<1> QED
  BY <1>3, <1>4, <1>5, <1>6, <1>7, <1>8, <1>9 DEF Next, Resolve, Check

\* A dependency is ticked off.
LEMMA VisitNextResolved ==
  ASSUME TInv, NEW p \in Procs, NEW a \in Aliases, VisitNext(p, a), Resolved(p)
  PROVE  Resolved(p)'
<1> DEFINE n == Len(stack[p])
<1>1. n >= 1 /\ n \in Nat /\ StackNamed(p) /\ pc[p] = "resolve"
  BY TopTyped DEF TInv, CommandHas, VisitNext, Resolving
<1>2. PICK s \in Sources, next \in Seq(Frame) :
        /\ a \in Top(p).left /\ s = Top(p).deps[a]
        /\ stack' = [stack EXCEPT ![p] = next]
        /\ TickedOff(stack[p], a, next)
        /\ \/ /\ selected[p][a] # None /\ selected[p][a].source = s
              /\ Len(next) = n
           \/ /\ selected[p][a] = None
              /\ Len(next) = n + 1
              /\ next[n + 1] = VisitPackage(a, s, content[s])
  BY VisitShape
<1>3. stack'[p] = next /\ selected' = selected /\ pc' = pc
  BY <1>2 DEF TInv, TypeOK, VisitNext
<1>4. \A i \in 1..n : stack[p][i].alias # a
  <2>1. stack[p] \in Seq(Frame)
    BY DEF TInv, TypeOK
  <2> QED
    BY <1>1, <2>1 DEF VisitNext
<1>5. \A i \in 1..n :
        /\ next[i].alias = stack[p][i].alias /\ next[i].source = stack[p][i].source
        /\ next[i].deps = stack[p][i].deps
        /\ i # n => next[i] = stack[p][i]
  BY <1>2 DEF TickedOff
<1>6. next[n].left = stack[p][n].left \ {a} /\ s = stack[p][n].deps[a]
  BY <1>2 DEF TickedOff, Top
<1>7. Len(next) \in {n, n + 1}
  BY <1>2
<1>8. Len(next) = n + 1 => /\ next[n + 1].alias = a /\ next[n + 1].source = s
                           /\ next[n + 1].left = Listed(next[n + 1].deps) /\ selected[p][a] = None
  BY <1>1, <1>2 DEF VisitPackage, Visit
<1> HIDE DEF n
<1>9. Distinct(p)'
  <2> SUFFICES ASSUME NEW i \in 2..Len(next)
               PROVE  /\ selected[p][next[i].alias] = None
                      /\ \A j \in 1..(i - 1) : next[j].alias # next[i].alias
    BY <1>3 DEF Distinct
  <2>1. CASE i \in 2..n
    <3>1. next[i].alias = stack[p][i].alias /\ \A j \in 1..(i - 1) : next[j].alias = stack[p][j].alias
      BY <1>1, <1>5, <2>1
    <3> QED
      BY <2>1, <3>1 DEF Resolved, Distinct, n
  <2>2. CASE i = n + 1
    <3>1. \A j \in 1..n : next[j].alias # a
      BY <1>4, <1>5
    <3> QED
      BY <1>1, <1>7, <1>8, <2>2, <3>1
  <2> QED
    BY <1>1, <1>7, <2>1, <2>2
<1>10. ASSUME NEW i \in 1..Len(next)
       PROVE  Reached(p, i)'
  <2> SUFFICES ASSUME NEW x \in Listed(next[i].deps), x \notin next[i].left
               PROVE  \/ Chosen(p, x, next[i].deps[x])
                      \/ /\ i < Len(next)
                         /\ next[i + 1].alias = x /\ next[i + 1].source = next[i].deps[x]
    BY <1>3 DEF Reached, Chosen
  <2>1. CASE i < n
    <3>1. /\ next[i] = stack[p][i] /\ i \in 1..n /\ i + 1 \in 1..n
          /\ next[i + 1].alias = stack[p][i + 1].alias /\ next[i + 1].source = stack[p][i + 1].source
      BY <1>1, <1>5, <2>1
    <3>2. Reached(p, i)
      BY <3>1 DEF Resolved, n
    <3> QED
      BY <1>1, <1>7, <2>1, <3>1, <3>2 DEF Reached
  <2>2. CASE i = n /\ x = a
    <3>1. next[i].deps[x] = s
      BY <1>1, <1>5, <1>6, <2>2
    <3>2. CASE Len(next) = n
      BY <1>2, <2>2, <3>1, <3>2, <1>1 DEF Chosen, n
    <3>3. CASE Len(next) = n + 1
      BY <1>1, <1>8, <2>2, <3>1, <3>3
    <3> QED
      BY <1>7, <3>2, <3>3
  <2>3. CASE i = n /\ x # a
    <3>1. x \in Listed(stack[p][n].deps) \ stack[p][n].left /\ next[i].deps = stack[p][n].deps
      BY <1>1, <1>5, <1>6, <2>3
    <3>2. Reached(p, n)
      BY <1>1 DEF Resolved, n
    <3> QED
      BY <1>1, <3>1, <3>2 DEF Reached, n
  <2>4. CASE i = n + 1
    BY <1>1, <1>7, <1>8, <2>4
  <2> QED
    BY <1>1, <1>7, <2>1, <2>2, <2>3, <2>4
<1> QED
  BY <1>1, <1>3, <1>9, <1>10 DEF Resolved

\* A package is done with: nothing being visited has its name, and the package
\* that asked for it asked for it from this source.
LEMMA SelectResolved ==
  ASSUME TInv, NEW p \in Procs, Select(p), Resolved(p)
  PROVE  Resolved(p)'
<1> DEFINE n == Len(stack[p])
           top == stack[p][n]
<1>1. Top(p) = top
  BY DEF Top
<1> HIDE DEF top
<1>2. PICK next \in Seq(Frame), r \in Record, chosen \in Packages :
        /\ n > 1 /\ n \in Nat /\ top.alias \in Aliases
        /\ r.source = top.source
        /\ chosen = [selected[p] EXCEPT ![top.alias] = r]
        /\ Len(next) = n - 1
        /\ \A i \in 1..(n - 1) : next[i] = stack[p][i]
        /\ stack' = [stack EXCEPT ![p] = next]
        /\ selected' = [selected EXCEPT ![p] = chosen]
  <2>1. PICK next \in Seq(Frame), r \in Record, chosen \in Packages :
          /\ n > 1 /\ n \in Nat /\ Top(p).alias \in Aliases
          /\ r = [source |-> Top(p).source, id |-> Top(p).id,
                  digest |-> install[p].digest, deps |-> Listed(Top(p).deps)]
          /\ chosen = [selected[p] EXCEPT ![Top(p).alias] = r]
          /\ Len(next) = n - 1
          /\ \A i \in 1..Len(next) : next[i] = stack[p][i]
          /\ stack' = [stack EXCEPT ![p] = next]
          /\ selected' = [selected EXCEPT ![p] = chosen]
    BY SelectShape
  <2>2. r.source = Top(p).source
    BY <2>1
  <2> HIDE DEF n
  <2>3. \A i \in 1..(n - 1) : next[i] = stack[p][i]
    BY <2>1
  <2> QED
    BY <1>1, <2>1, <2>2, <2>3
<1>3. stack'[p] = next /\ selected'[p] = chosen /\ selected[p] \in Packages
      /\ pc[p] = "resolve" /\ pc' = pc
  BY <1>2 DEF TInv, TypeOK, Select
<1>4. selected[p][top.alias] = None /\ \A j \in 1..(n - 1) : stack[p][j].alias # top.alias
  BY <1>2 DEF Resolved, Distinct, top
<1>5. chosen[top.alias] = r /\ r # None /\ \A x \in Aliases : x # top.alias => chosen[x] = selected[p][x]
  BY <1>2, <1>3, NoRecordAssumption DEF Packages
<1>6. \A i \in 1..n : stack[p][i] \in Frame
  BY DEF TInv, TypeOK
<1>7. StackNamed(p)
  BY DEF TInv
<1> HIDE DEF n, top
<1>8. Distinct(p)'
  <2> SUFFICES ASSUME NEW i \in 2..(n - 1)
               PROVE  /\ chosen[next[i].alias] = None
                      /\ \A j \in 1..(i - 1) : next[j].alias # next[i].alias
    BY <1>2, <1>3 DEF Distinct
  <2>1. /\ next[i] = stack[p][i] /\ i \in 1..(n - 1) /\ i \in 2..n
        /\ \A j \in 1..(i - 1) : next[j] = stack[p][j]
    BY <1>2
  <2>2. stack[p][i].alias \in Aliases /\ stack[p][i].alias # top.alias
    BY <1>4, <1>7, <2>1 DEF StackNamed, n
  <2>3. selected[p][stack[p][i].alias] = None /\ \A j \in 1..(i - 1) : stack[p][j].alias # stack[p][i].alias
    BY <2>1 DEF Resolved, Distinct, n
  <2> QED
    BY <1>5, <2>1, <2>2, <2>3
<1>9. ASSUME NEW i \in 1..(n - 1)
      PROVE  Reached(p, i)'
  <2>1. next[i] = stack[p][i] /\ i \in 1..n /\ i < n
    BY <1>2
  <2> SUFFICES ASSUME NEW x \in Listed(stack[p][i].deps), x \notin stack[p][i].left
               PROVE  \/ chosen[x] # None /\ chosen[x].source = stack[p][i].deps[x]
                      \/ /\ i < n - 1
                         /\ next[i + 1].alias = x /\ next[i + 1].source = stack[p][i].deps[x]
    BY <1>2, <1>3, <2>1 DEF Reached, Chosen
  <2>2. x \in Aliases
    BY DEF Listed
  <2>3. \/ selected[p][x] # None /\ selected[p][x].source = stack[p][i].deps[x]
        \/ stack[p][i + 1].alias = x /\ stack[p][i + 1].source = stack[p][i].deps[x]
    <3>1. Reached(p, i)
      BY <2>1 DEF Resolved, n
    <3> QED
      BY <3>1 DEF Reached, Chosen
  <2>4. CASE selected[p][x] # None /\ selected[p][x].source = stack[p][i].deps[x]
    BY <1>4, <1>5, <2>2, <2>4
  <2>5. CASE stack[p][i + 1].alias = x /\ stack[p][i + 1].source = stack[p][i].deps[x]
    <3>1. CASE i + 1 = n
      BY <1>2, <1>5, <2>5, <3>1 DEF top
    <3>2. CASE i + 1 # n
      <4>1. i < n - 1 /\ i + 1 \in 1..(n - 1)
        BY <1>2, <2>1, <3>2
      <4> QED
        BY <1>2, <2>5, <4>1
    <3> QED
      BY <3>1, <3>2
  <2> QED
    BY <2>3, <2>4, <2>5
<1> QED
  BY <1>2, <1>3, <1>8, <1>9 DEF Resolved

\* The root project is visited.
LEMMA StartResolved ==
  ASSUME TInv, NEW p \in Procs, Start(p), Resolved(p)
  PROVE  Resolved(p)'
<1>1. stack'[p] = <<VisitRoot(manifest)>> /\ selected'[p] = selected[p] /\ pc'[p] = "resolve"
  BY DEF TInv, TypeOK, Start
<1>2. Len(stack'[p]) = 1 /\ stack'[p][1] = VisitRoot(manifest)
  BY <1>1
<1>3. Distinct(p)'
  BY <1>2 DEF Distinct
<1>4. Reached(p, 1)'
  BY <1>2 DEF Reached, VisitRoot, Visit
<1> QED
  BY <1>1, <1>2, <1>3, <1>4 DEF Resolved

LEMMA ResolvedKept ==
  ASSUME TInv, Next, NEW p \in Procs, Resolved(p)
  PROVE  Resolved(p)'
<1>1. CASE /\ stack'[p] = stack[p] /\ selected'[p] = selected[p]
           /\ pc[p] = "resolve" => pc'[p] = "resolve"
  BY <1>1 DEF Resolved, Distinct, Reached, Chosen
<1>2. CASE stack'[p] = <<>> /\ selected'[p] = NoPackages /\ pc'[p] # "resolve"
  BY <1>2 DEF Resolved, Distinct
<1> QED
  BY <1>1, <1>2, ResolutionEffect, StartResolved, SelectResolved, VisitNextResolved

RInv == TInv /\ \A p \in Procs : Resolved(p)

LEMMA InitResolved ==
  ASSUME Init
  PROVE  RInv
<1>1. ASSUME NEW p \in Procs PROVE Resolved(p)
  BY DEF Init, Resolved, Distinct
<1> QED
  BY <1>1, InitTyped DEF RInv

LEMMA NextResolved ==
  ASSUME RInv, [Next]_vars
  PROVE  RInv'
<1>1. CASE UNCHANGED vars
  <2>1. UNCHANGED <<stack, selected, pc>>
    BY <1>1 DEF vars, command
  <2> QED
    BY <1>1, <2>1, NextTyped DEF RInv, Resolved, Distinct, Reached, Chosen
<1>2. CASE Next
  BY <1>2, NextTyped, ResolvedKept DEF RInv
<1> QED
  BY <1>1, <1>2

LEMMA ResolvedThroughout == Spec => []RInv
BY InitResolved, NextResolved, PTL DEF Spec

-----------------------------------------------------------------------------
(* The lock and the manifest *)

LEMMA LockEffect ==
  ASSUME Next
  PROVE  lock' = lock \/ \E p \in Procs : WriteLock(p) \/ Relock(p)
<1>1. ASSUME NEW p \in Procs, Resolve(p), ~WriteLock(p)
      PROVE  lock' = lock
  BY <1>1 DEF Resolve, Change, Update, BeginInstall, Start, VisitNext, HashPackage, Select, Fail, Restore
<1>2. ASSUME NEW p \in Procs, Check(p), ~Relock(p)
      PROVE  lock' = lock
  BY <1>2 DEF Check, BeginLocked, Populate, Populated, EndLocked, Refuse, BeginBuild, EnsureLock
<1> QED
  BY <1>1, <1>2 DEF Next, CacheAction, Crash, EditManifest, EditPackage, Clear

LEMMA ManifestEffect ==
  ASSUME Next
  PROVE  \/ manifest' = manifest /\ crlf' = crlf
         \/ \E p \in Procs : Update(p) \/ Restore(p)
         \/ \E deps \in Dependencies, windows \in BOOLEAN : EditManifest(deps, windows)
<1>1. ASSUME NEW p \in Procs, Resolve(p), ~Update(p), ~Restore(p)
      PROVE  manifest' = manifest /\ crlf' = crlf
  BY <1>1 DEF Resolve, Change, BeginInstall, Start, VisitNext, HashPackage, Select, WriteLock, Fail
<1>2. ASSUME NEW p \in Procs, Check(p)
      PROVE  manifest' = manifest /\ crlf' = crlf
  BY <1>2 DEF Check, BeginLocked, Populate, Populated, EndLocked, Refuse, BeginBuild, EnsureLock, Relock
<1> QED
  BY <1>1, <1>2 DEF Next, CacheAction, Crash, EditPackage, Clear

\* The commands under way that change the manifest
LEMMA OriginalEffect ==
  ASSUME TInv, Next
  PROVE  \/ original' = original
         \/ \E p \in Procs, a \in Aliases, s \in Sources \cup {None} : Change(p, a, s)
         \/ \E p \in Procs :
              /\ WriteLock(p) \/ Restore(p) \/ Crash(p)
              /\ original' = [original EXCEPT ![p] = None]
<1>1. original \in [Procs -> Dependencies \cup {None}] /\ \A p \in Procs : CommandHas(p)
  BY DEF TInv, TypeOK
<1>2. ASSUME NEW p \in Procs, ~Changes(p), End(p)
      PROVE  original' = original
  BY <1>1, <1>2 DEF End, Changes
<1>3. ASSUME NEW p \in Procs, Fail(p)
      PROVE  original' = original
  BY <1>2, <1>3 DEF Fail
<1>4. ASSUME NEW p \in Procs, EndLocked(p) \/ Refuse(p) \/ EnsureLock(p) \/ Relock(p)
      PROVE  original' = original
  <2>1. ~Changes(p)
    BY <1>1, <1>4 DEF CommandHas, EndLocked, Refuse, EnsureLock, Relock
  <2> QED
    BY <1>2, <1>4, <2>1 DEF EndLocked, Refuse, EnsureLock, Relock
<1>5. ASSUME NEW p \in Procs, WriteLock(p) \/ Restore(p) \/ Crash(p)
      PROVE  original' = [original EXCEPT ![p] = None]
  BY <1>5 DEF WriteLock, Restore, Crash, End
<1>6. ASSUME NEW p \in Procs,
             Update(p) \/ BeginInstall(p) \/ Start(p) \/ (\E a \in Aliases : VisitNext(p, a))
             \/ HashPackage(p) \/ Select(p) \/ BeginLocked(p) \/ (\E a \in Aliases : Populate(p, a))
             \/ Populated(p) \/ BeginBuild(p) \/ CacheAction(p)
      PROVE  original' = original
  BY <1>6 DEF Update, BeginInstall, Start, VisitNext, HashPackage, Select, BeginLocked, Populate,
    Populated, BeginBuild, CacheAction, command
<1>7. ASSUME \/ \E deps \in Dependencies, windows \in BOOLEAN : EditManifest(deps, windows)
             \/ \E s \in Sources, c \in Contents : EditPackage(s, c)
             \/ Clear
      PROVE  original' = original
  BY <1>7 DEF EditManifest, EditPackage, Clear, command
<1> QED
  BY <1>3, <1>4, <1>5, <1>6, <1>7 DEF Next, Resolve, Check

\* The commands under way that work from what they have read of the manifest
LEMMA RelyEffect ==
  ASSUME TInv, Next, NEW p \in Procs, Relies(p)', ~Relies(p)
  PROVE  \/ BeginInstall(p)
         \/ BeginBuild(p) /\ Listed(manifest) = {}
         \/ \E a \in Aliases, s \in Sources \cup {None} : Change(p, a, s)
<1>1. pc \in [Procs -> Places]
  BY DEF TInv, TypeOK
<1>2. ASSUME NEW q \in Procs, pc'[p] = pc[p] \/ pc'[p] \in {"idle", "build", "populate"}
      PROVE  FALSE
  BY <1>2 DEF Relies
<1>3. ASSUME NEW q \in Procs, End(q) PROVE FALSE
  BY <1>1, <1>2, <1>3 DEF End
<1>4. ASSUME NEW q \in Procs,
             (\E a \in Aliases, s \in Sources \cup {None} : Change(q, a, s))
             \/ BeginInstall(q) \/ BeginBuild(q)
      PROVE  q = p
  BY <1>1, <1>2, <1>4 DEF Change, BeginInstall, BeginBuild
<1>5. ASSUME NEW q \in Procs, Update(q) \/ Start(q) \/ BeginLocked(q) PROVE FALSE
  BY <1>1, <1>2, <1>5 DEF Update, Start, BeginLocked, Relies
<1>6. ASSUME NEW q \in Procs, Fail(q) PROVE FALSE
  BY <1>1, <1>2, <1>3, <1>6 DEF Fail, Relies
<1>7. ASSUME NEW q \in Procs, EnsureLock(q) PROVE FALSE
  BY <1>1, <1>2, <1>3, <1>7 DEF EnsureLock, Relies
<1>8. ASSUME NEW q \in Procs,
             (\E a \in Aliases : VisitNext(q, a)) \/ HashPackage(q) \/ Select(q)
             \/ (\E a \in Aliases : Populate(q, a)) \/ Populated(q) \/ CacheAction(q)
      PROVE  FALSE
  BY <1>2, <1>8 DEF VisitNext, HashPackage, Select, Populate, Populated, CacheAction, command
<1>9. ASSUME NEW q \in Procs,
             WriteLock(q) \/ Restore(q) \/ EndLocked(q) \/ Refuse(q) \/ Relock(q) \/ Crash(q)
      PROVE  FALSE
  BY <1>3, <1>9 DEF WriteLock, Restore, EndLocked, Refuse, Relock, Crash
<1>10. ASSUME \/ \E deps \in Dependencies, windows \in BOOLEAN : EditManifest(deps, windows)
              \/ \E s \in Sources, c \in Contents : EditPackage(s, c)
              \/ Clear
       PROVE  FALSE
  BY <1>2, <1>10 DEF EditManifest, EditPackage, Clear, command
<1>11. ASSUME BeginBuild(p) PROVE Listed(manifest) = {}
  BY <1>1, <1>2, <1>11 DEF BeginBuild
<1> DEFINE Goal == \/ BeginInstall(p)
                   \/ BeginBuild(p) /\ Listed(manifest) = {}
                   \/ \E a \in Aliases, s \in Sources \cup {None} : Change(p, a, s)
<1>12. ASSUME NEW q \in Procs, Resolve(q)
       PROVE  Goal
  BY <1>4, <1>5, <1>6, <1>8, <1>9, <1>12 DEF Resolve
<1>13. ASSUME NEW q \in Procs, Check(q)
       PROVE  Goal
  <2>1. BeginBuild(p)
    BY <1>4, <1>5, <1>7, <1>8, <1>9, <1>13 DEF Check
  <2> QED
    BY <1>11, <2>1
<1>14. ASSUME NEW q \in Procs, CacheAction(q) \/ Crash(q)
       PROVE  Goal
  BY <1>8, <1>9, <1>14
<1> SUFFICES Goal
  OBVIOUS
<1> HIDE DEF Goal
<1> QED
  BY <1>10, <1>12, <1>13, <1>14 DEF Next

\* The builds of a project that had no dependencies
Bare(p) == pc[p] \in {"build_bare", "relock"}

LEMMA BareEffect ==
  ASSUME TInv, Next, NEW p \in Procs, Bare(p)', ~Bare(p)
  PROVE  Listed(manifest) = {} /\ manifest' = manifest
<1>1. pc \in [Procs -> Places]
  BY DEF TInv, TypeOK
<1>2. ASSUME NEW q \in Procs, pc'[p] = pc[p] \/ pc'[p] \notin {"build_bare", "relock"}
      PROVE  FALSE
  BY <1>2 DEF Bare
<1>3. ASSUME NEW q \in Procs, End(q) PROVE FALSE
  BY <1>1, <1>2, <1>3 DEF End
<1>4. ASSUME NEW q \in Procs, Resolve(q), ~WriteLock(q), ~Fail(q), ~Restore(q)
      PROVE  FALSE
  BY <1>1, <1>2, <1>4 DEF Resolve, Change, Update, BeginInstall, Start, VisitNext, HashPackage, Select, command
<1>5. ASSUME NEW q \in Procs, Fail(q) PROVE FALSE
  BY <1>1, <1>2, <1>3, <1>5 DEF Fail
<1>6. ASSUME NEW q \in Procs, EnsureLock(q) PROVE FALSE
  BY <1>1, <1>2, <1>3, <1>6 DEF EnsureLock, Bare
<1>7. ASSUME NEW q \in Procs,
             BeginLocked(q) \/ (\E a \in Aliases : Populate(q, a)) \/ Populated(q) \/ CacheAction(q)
      PROVE  FALSE
  BY <1>1, <1>2, <1>7 DEF BeginLocked, Populate, Populated, CacheAction, command
<1>8. ASSUME NEW q \in Procs,
             WriteLock(q) \/ Restore(q) \/ EndLocked(q) \/ Refuse(q) \/ Relock(q) \/ Crash(q)
      PROVE  FALSE
  BY <1>3, <1>8 DEF WriteLock, Restore, EndLocked, Refuse, Relock, Crash
<1>9. ASSUME \/ \E deps \in Dependencies, windows \in BOOLEAN : EditManifest(deps, windows)
             \/ \E s \in Sources, c \in Contents : EditPackage(s, c)
             \/ Clear
      PROVE  FALSE
  BY <1>2, <1>9 DEF EditManifest, EditPackage, Clear, command
<1>10. ASSUME NEW q \in Procs, BeginBuild(q)
      PROVE  Listed(manifest) = {} /\ manifest' = manifest
  BY <1>1, <1>2, <1>10 DEF BeginBuild
<1> QED
  BY <1>4, <1>5, <1>6, <1>7, <1>8, <1>9, <1>10 DEF Next, Resolve, Check

\* While a command changes the manifest no other one relies on it.
OneChanger == \A p, q \in Procs : p # q /\ Changes(p) => ~Relies(q)

\* What a resolution or the build of a project without dependencies has read
\* of the manifest is what is there.
ReadCurrent ==
  \A p \in Procs :
    /\ stack[p] # <<>> => stack[p][1].deps = manifest
    /\ Bare(p) => Listed(manifest) = {}

\* The lock has what the manifest it is for asks for.
LockMatched ==
  lock # None => \A a \in Listed(lock.manifest) :
    lock.packages[a] # None /\ lock.packages[a].source = lock.manifest[a]

\* The lock is for the manifest, or for the one that a command under way found.
Recoverable ==
  settled =>
    /\ lock # None
    /\ \A p \in Procs : Changes(p) => original[p] = lock.manifest
    /\ (\A p \in Procs : ~Changes(p)) => lock.manifest = manifest
    /\ crlf => lock.crlf

MInv == RInv /\ OneChanger /\ ReadCurrent /\ LockMatched /\ Recoverable

LEMMA OneChangerKept ==
  ASSUME "edit_manifest" \notin Shapes, "two_changes" \notin Shapes, TInv, Next, OneChanger
  PROVE  OneChanger'
<1>1. /\ original \in [Procs -> Dependencies \cup {None}]
      /\ \A p \in Procs : Changes(p) => Relies(p)
  BY DEF TInv, TypeOK, CommandHas, Relies
<1> SUFFICES ASSUME NEW p \in Procs, NEW q \in Procs, p # q, Changes(p)', Relies(q)'
             PROVE  FALSE
  BY DEF OneChanger
<1>2. ASSUME NEW a \in Aliases, NEW s \in Sources \cup {None}, Change(q, a, s)
      PROVE  FALSE
  <2>1. Changes(p)
    BY <1>1, <1>2 DEF Change, Changes
  <2> QED
    BY <1>1, <1>2, <2>1 DEF Change, MayChange
<1>3. CASE Changes(p) /\ ~Relies(q)
  <2>1. ASSUME BeginInstall(q) \/ (BeginBuild(q) /\ Listed(manifest) = {})
        PROVE  FALSE
    BY <1>3, <2>1 DEF BeginInstall, BeginBuild, MayRely
  <2> QED
    BY <1>2, <1>3, <2>1, RelyEffect
<1>4. CASE ~Changes(p)
  <2>1. PICK a \in Aliases, s \in Sources \cup {None} : Change(p, a, s)
    <3>1. CASE original' = original
      BY <1>4, <3>1 DEF Changes
    <3>2. ASSUME NEW r \in Procs, original' = [original EXCEPT ![r] = None]
          PROVE  FALSE
      BY <1>1, <1>4, <3>2 DEF Changes
    <3>3. ASSUME NEW r \in Procs, NEW a \in Aliases, NEW s \in Sources \cup {None}, Change(r, a, s)
          PROVE  r = p
      BY <1>1, <1>4, <3>3 DEF Change, Changes
    <3> QED
      BY <3>1, <3>2, <3>3, OriginalEffect
  <2>2. ~Relies(q) /\ pc'[q] = pc[q]
    BY <2>1 DEF Change, MayChange, TInv, TypeOK
  <2> QED
    BY <2>2 DEF Relies
<1> QED
  BY <1>3, <1>4 DEF OneChanger

\* The manifest changes under no command that has read it.
LEMMA ManifestStays ==
  ASSUME "edit_manifest" \notin Shapes, "two_changes" \notin Shapes, TInv, Next, OneChanger,
         NEW p \in Procs, Relies(p), manifest' # manifest
  PROVE  Update(p) \/ Restore(p)
<1>1. ASSUME NEW q \in Procs, Update(q) \/ Restore(q)
      PROVE  Changes(q)
  BY <1>1 DEF TInv, CommandHas, Update, Restore
<1>2. ASSUME NEW deps \in Dependencies, NEW windows \in BOOLEAN, EditManifest(deps, windows)
      PROVE  FALSE
  BY <1>2 DEF EditManifest
<1> QED
  BY <1>1, <1>2, ManifestEffect DEF OneChanger

LEMMA ReadCurrentKept ==
  ASSUME "edit_manifest" \notin Shapes, "two_changes" \notin Shapes, RInv, Next, OneChanger, ReadCurrent
  PROVE  ReadCurrent'
<1> SUFFICES ASSUME NEW p \in Procs
             PROVE  /\ stack'[p] # <<>> => stack'[p][1].deps = manifest'
                    /\ Bare(p)' => Listed(manifest)' = {}
  BY DEF ReadCurrent
<1>1. TInv /\ Resolved(p)
  BY DEF RInv
<1>2. stack[p] # <<>> \/ Bare(p) => manifest' = manifest
  <2>1. stack[p] # <<>> \/ Bare(p) => Relies(p) /\ pc[p] # "update" /\ pc[p] # "restore"
    BY <1>1 DEF Resolved, Bare, Relies
  <2> QED
    BY <1>1, <2>1, ManifestStays DEF Update, Restore
<1>3. Bare(p)' => Listed(manifest)' = {}
  <2>1. CASE Bare(p)
    BY <1>2, <2>1 DEF ReadCurrent
  <2>2. CASE ~Bare(p)
    <3>1. Bare(p)' => Listed(manifest) = {} /\ manifest' = manifest
      BY <1>1, <2>2, BareEffect
    <3> QED
      BY <3>1
  <2> QED
    BY <2>1, <2>2
<1>4. CASE stack'[p] = stack[p]
  BY <1>2, <1>3, <1>4 DEF ReadCurrent
<1>5. CASE Start(p)
  BY <1>1, <1>3, <1>5 DEF Start, VisitRoot, Visit, TInv, TypeOK
<1>6. CASE Select(p)
  <2>1. PICK next \in Seq(Frame) :
          /\ Len(stack[p]) > 1 /\ Len(stack[p]) \in Nat
          /\ Len(next) = Len(stack[p]) - 1
          /\ \A i \in 1..Len(next) : next[i] = stack[p][i]
          /\ stack' = [stack EXCEPT ![p] = next]
    BY <1>1, <1>6, SelectShape
  <2>2. stack'[p] = next /\ next[1] = stack[p][1] /\ stack[p] # <<>>
    BY <1>1, <2>1 DEF TInv, TypeOK
  <2> QED
    BY <1>2, <1>3, <2>2 DEF ReadCurrent
<1>7. ASSUME NEW a \in Aliases, VisitNext(p, a)
      PROVE  stack'[p][1].deps = manifest'
  <2>1. Len(stack[p]) >= 1 /\ Len(stack[p]) \in Nat
    BY <1>1, <1>7, TopTyped DEF TInv, CommandHas, VisitNext, Resolving
  <2>2. PICK next \in Seq(Frame) :
          stack' = [stack EXCEPT ![p] = next] /\ TickedOff(stack[p], a, next)
    BY <1>1, <1>7, VisitShape
  <2>3. stack'[p] = next
    BY <1>1, <2>2 DEF TInv, TypeOK
  <2>4. next[1].deps = stack[p][1].deps
    BY <2>1, <2>2 DEF TickedOff
  <2>5. stack[p] # <<>>
    BY <2>1
  <2> QED
    BY <1>2, <2>3, <2>4, <2>5 DEF ReadCurrent
<1> QED
  BY <1>1, <1>3, <1>4, <1>5, <1>6, <1>7, ResolutionEffect

LEMMA LockMatchedKept ==
  ASSUME RInv, Next, ReadCurrent, LockMatched
  PROVE  LockMatched'
<1>1. CASE lock' = lock
  BY <1>1 DEF LockMatched
<1>2. ASSUME NEW p \in Procs, WriteLock(p)
      PROVE  LockMatched'
  <2>1. lock' = [manifest |-> manifest, crlf |-> crlf, packages |-> selected[p]]
        /\ Len(stack[p]) = 1 /\ stack[p][1].left = {} /\ stack[p] # <<>>
    BY <1>2 DEF WriteLock, Top
  <2>2. \A a \in Listed(stack[p][1].deps) : Chosen(p, a, stack[p][1].deps[a])
    BY <2>1 DEF RInv, Resolved, Reached
  <2> QED
    BY <2>1, <2>2 DEF ReadCurrent, LockMatched, Chosen
<1>3. ASSUME NEW p \in Procs, Relock(p)
      PROVE  LockMatched'
  BY <1>3 DEF ReadCurrent, Bare, Relock, LockMatched
<1> QED
  BY <1>1, <1>2, <1>3, LockEffect

LEMMA SettledEffect ==
  ASSUME Next, settled'
  PROVE  settled \/ \E p \in Procs : WriteLock(p) \/ Relock(p)
<1>1. ASSUME NEW p \in Procs, Resolve(p), ~WriteLock(p)
      PROVE  settled
  BY <1>1 DEF Resolve, Change, Update, BeginInstall, Start, VisitNext, HashPackage, Select, Fail,
    Restore, history
<1>2. ASSUME NEW p \in Procs, Check(p), ~Relock(p)
      PROVE  settled
  BY <1>2 DEF Check, BeginLocked, Populate, Populated, EndLocked, Refuse, BeginBuild, EnsureLock, history
<1> QED
  BY <1>1, <1>2 DEF Next, CacheAction, Crash, EditManifest, EditPackage, Clear, history

LEMMA RecoverableKept ==
  ASSUME "edit_manifest" \notin Shapes, "two_changes" \notin Shapes, TInv, Next, OneChanger, Recoverable
  PROVE  Recoverable'
<1>1. /\ original \in [Procs -> Dependencies \cup {None}]
      /\ \A p \in Procs : Changes(p) => Relies(p)
      /\ manifest # None
  BY NoRecordAssumption DEF TInv, TypeOK, CommandHas, Relies
<1> SUFFICES ASSUME settled'
             PROVE  /\ lock' # None
                    /\ \A q \in Procs : Changes(q)' => original'[q] = lock'.manifest
                    /\ (\A q \in Procs : ~Changes(q)') => lock'.manifest = manifest'
                    /\ crlf' => lock'.crlf
  BY DEF Recoverable
<1>2. ASSUME NEW p \in Procs, WriteLock(p) \/ Relock(p)
      PROVE  /\ lock' # None /\ lock'.manifest = manifest' /\ lock'.crlf = crlf'
             /\ \A q \in Procs : ~Changes(q)'
  <2>1. Relies(p) /\ End(p)
    BY <1>2 DEF Relies, WriteLock, Relock, Resolving
  <2>2. \A q \in Procs : ~Changes(q)'
    BY <1>1, <2>1 DEF OneChanger, End, Changes
  <2>3. lock'.manifest = manifest' /\ lock'.crlf = crlf'
    BY <1>2 DEF WriteLock, Relock
  <2>4. lock' \in Lock
    BY <1>2 DEF WriteLock, Relock, TInv, TypeOK, Lock, NoPackages, Packages
  <2> QED
    BY <2>2, <2>3, <2>4, NoRecordAssumption
<1>3. CASE ~\E p \in Procs : WriteLock(p) \/ Relock(p)
  <2>1. /\ lock' = lock /\ lock # None
        /\ \A q \in Procs : Changes(q) => original[q] = lock.manifest
        /\ (\A q \in Procs : ~Changes(q)) => lock.manifest = manifest
        /\ crlf => lock.crlf
    BY <1>3, LockEffect, SettledEffect DEF Recoverable
  <2>2. ASSUME NEW p \in Procs, NEW a \in Aliases, NEW s \in Sources \cup {None}, Change(p, a, s)
        PROVE  /\ \A q \in Procs : Changes(q)' => original'[q] = lock.manifest
               /\ Changes(p)'
    <3>1. \A q \in Procs : ~Changes(q)
      BY <1>1, <2>2 DEF Change, MayChange, Relies
    <3>2. original' = [original EXCEPT ![p] = manifest]
      BY <2>2 DEF Change
    <3> QED
      BY <1>1, <2>1, <3>1, <3>2 DEF Changes
  <2>3. ASSUME NEW p \in Procs, Restore(p)
        PROVE  /\ \A q \in Procs : Changes(q)' => original'[q] = lock.manifest
               /\ lock.manifest = manifest'
    <3>1. Changes(p) /\ original' = [original EXCEPT ![p] = None]
      BY <2>3 DEF TInv, CommandHas, Restore, End
    <3> QED
      BY <1>1, <2>1, <2>3, <3>1 DEF Changes, Restore
  <2>4. ASSUME original' = original, ~\E p \in Procs : Restore(p)
        PROVE  (\A q \in Procs : ~Changes(q)') => lock.manifest = manifest'
    <3>1. ASSUME NEW p \in Procs, Update(p) PROVE Changes(p)'
      BY <2>4, <3>1 DEF TInv, CommandHas, Update, Changes
    <3>2. ASSUME NEW deps \in Dependencies, NEW windows \in BOOLEAN, EditManifest(deps, windows) PROVE FALSE
      BY <3>2 DEF EditManifest
    <3> QED
      BY <2>1, <2>4, <3>1, <3>2, ManifestEffect DEF Changes
  <2>5. ASSUME NEW p \in Procs, Crash(p), original' = [original EXCEPT ![p] = None]
        PROVE  original' = original
    BY <1>1, <2>5 DEF Crash, Changes
  <2>6. ASSUME original' = original, ~\E p \in Procs : Restore(p)
        PROVE  /\ \A q \in Procs : Changes(q)' => original'[q] = lock.manifest
               /\ (\A q \in Procs : ~Changes(q)') => lock.manifest = manifest'
    BY <2>1, <2>4, <2>6 DEF Changes
  <2>7. /\ \A q \in Procs : Changes(q)' => original'[q] = lock'.manifest
        /\ (\A q \in Procs : ~Changes(q)') => lock'.manifest = manifest'
    BY <1>3, <2>1, <2>2, <2>3, <2>5, <2>6, OriginalEffect
  <2>8. crlf' => crlf
    <3>1. ASSUME NEW p \in Procs, Update(p) \/ Restore(p) PROVE ~crlf'
      BY <3>1 DEF Update, Restore
    <3>2. ASSUME NEW deps \in Dependencies, NEW windows \in BOOLEAN, EditManifest(deps, windows) PROVE FALSE
      BY <3>2 DEF EditManifest
    <3> QED
      BY <3>1, <3>2, ManifestEffect
  <2> QED
    BY <2>1, <2>7, <2>8
<1> QED
  BY <1>2, <1>3

LEMMA InitMatched ==
  ASSUME Init
  PROVE  MInv
<1>1. OneChanger /\ ReadCurrent /\ LockMatched /\ Recoverable
  BY DEF Init, OneChanger, ReadCurrent, LockMatched, Recoverable, Changes, Bare
<1> QED
  BY <1>1, InitResolved DEF MInv

LEMMA NextMatched ==
  ASSUME "edit_manifest" \notin Shapes, "two_changes" \notin Shapes, MInv, [Next]_vars
  PROVE  MInv'
<1>1. CASE UNCHANGED vars
  <2>1. UNCHANGED <<manifest, crlf, lock, pc, original, stack, settled>>
    BY <1>1 DEF vars, command, history
  <2>2. OneChanger' /\ ReadCurrent' /\ LockMatched' /\ Recoverable'
    BY <2>1 DEF MInv, OneChanger, ReadCurrent, LockMatched, Recoverable, Changes, Relies, Bare, Listed
  <2> QED
    BY <1>1, <2>2, NextResolved DEF MInv
<1>2. CASE Next
  BY <1>2, NextResolved, OneChangerKept, ReadCurrentKept, LockMatchedKept, RecoverableKept DEF MInv, RInv
<1> QED
  BY <1>1, <1>2

LEMMA MatchedThroughout ==
  ASSUME "edit_manifest" \notin Shapes, "two_changes" \notin Shapes
  PROVE  Spec => []MInv
BY InitMatched, NextMatched, PTL DEF Spec

\* What a lock has that build and check take for current: every dependency of
\* the manifest, from the source the manifest names.  It is the visit in
\* resolve_dependencies that refuses a second source for an alias, and the
\* second reading of the manifest in write_lock that must find the same one.
THEOREM LockIsForManifest ==
  ASSUME "edit_manifest" \notin Shapes, "two_changes" \notin Shapes
  PROVE  Spec => []LockMatches
<1>1. MInv => LockMatches
  BY DEF MInv, LockMatched, LockMatches, Current
<1> QED
  BY <1>1, MatchedThroughout, PTL

\* A failed add or remove undoes what it did: between commands the lock names what
\* the manifest does, unless somebody edited the manifest or killed an add or
\* remove, for any processes, as long as no add or remove runs beside another
\* command that works from the manifest.  The bytes of the manifest are the locked
\* ones again, unless those had CR LF.
THEOREM FailureUndone ==
  ASSUME "edit_manifest" \notin Shapes, "two_changes" \notin Shapes
  PROVE  Spec => []LockSettled
<1>1. MInv => LockSettled
  BY DEF MInv, RInv, TInv, TypeOK, Lock, Recoverable, LockSettled
<1> QED
  BY <1>1, MatchedThroughout, PTL

-----------------------------------------------------------------------------
(* The lock and the packages *)

\* What a step makes of the hashing of the package that p visits last
LEMMA InstallEffect ==
  ASSUME TInv, Next, NEW p \in Procs, pc[p] = "resolve"
  PROVE  \/ /\ content' = content
            /\ install'[p].stage = "none" <=> install[p].stage = "none"
            /\ install'[p].digest = install[p].digest
         \/ stack'[p] = <<>> \/ HashPackage(p) \/ Select(p)
         \/ \E s \in Sources, c \in Contents : EditPackage(s, c)
<1>1. TypeOK /\ CacheTypeOK
  BY DEF TInv, TypeOK
<1> DEFINE Same == /\ content' = content
                   /\ install'[p].stage = "none" <=> install[p].stage = "none"
                   /\ install'[p].digest = install[p].digest
<1>2. ASSUME NEW q \in Procs, End(q) PROVE Same \/ stack'[p] = <<>>
  BY <1>1, <1>2 DEF End, TypeOK, CacheTypeOK
<1>3. ASSUME UNCHANGED <<content, install>> PROVE Same
  BY <1>3
<1>4. ASSUME NEW q \in Procs,
             (\E a \in Aliases, s \in Sources \cup {None} : Change(q, a, s)) \/ Update(q)
             \/ BeginInstall(q) \/ Start(q) \/ (\E a \in Aliases : VisitNext(q, a))
             \/ BeginLocked(q) \/ BeginBuild(q)
      PROVE  Same
  BY <1>4 DEF Change, Update, BeginInstall, Start, VisitNext, BeginLocked, BeginBuild, cacheVars
<1>5. ASSUME NEW q \in Procs, q # p, HashPackage(q) \/ Select(q)
      PROVE  Same
  BY <1>1, <1>5 DEF HashPackage, Select, Ensure, CacheTypeOK
<1>6. ASSUME NEW q \in Procs, (\E a \in Aliases : Populate(q, a)) \/ Populated(q)
      PROVE  Same
  <2>1. q # p
    BY <1>6 DEF Populate, Populated
  <2> QED
    BY <1>1, <1>6, <2>1 DEF Populate, Populated, Ensure, CacheTypeOK
<1>7. ASSUME NEW q \in Procs, CacheAction(q)
      PROVE  Same
  <2>1. CASE q # p
    BY <1>1, <1>7, <2>1 DEF CacheAction, CacheStep, CheckCache, CopyFiles, Verify, Rename, Goto, CacheTypeOK
  <2>2. CASE q = p
    BY <1>1, <1>7, <2>2 DEF CacheAction, CacheStep, CheckCache, CopyFiles, Verify, Rename, Goto,
      CacheTypeOK, Install
  <2> QED
    BY <2>1, <2>2
<1>8. ASSUME NEW q \in Procs, Fail(q)
      PROVE  Same \/ stack'[p] = <<>>
  BY <1>1, <1>2, <1>8 DEF Fail, TypeOK, CacheTypeOK
<1>9. ASSUME NEW q \in Procs, EnsureLock(q)
      PROVE  Same \/ stack'[p] = <<>>
  BY <1>2, <1>9 DEF EnsureLock, cacheVars
<1>10. ASSUME NEW q \in Procs,
             WriteLock(q) \/ Restore(q) \/ EndLocked(q) \/ Refuse(q) \/ Relock(q) \/ Crash(q)
      PROVE  Same \/ stack'[p] = <<>>
  BY <1>2, <1>10 DEF WriteLock, Restore, EndLocked, Refuse, Relock, Crash
<1>11. ASSUME (\E deps \in Dependencies, windows \in BOOLEAN : EditManifest(deps, windows)) \/ Clear
       PROVE  Same
  BY <1>11 DEF EditManifest, Clear, ClearCache, cacheVars
<1> SUFFICES \/ Same \/ stack'[p] = <<>> \/ HashPackage(p) \/ Select(p)
             \/ \E s \in Sources, c \in Contents : EditPackage(s, c)
  OBVIOUS
<1> HIDE DEF Same
<1>12. ASSUME NEW q \in Procs, Resolve(q)
       PROVE  Same \/ stack'[p] = <<>> \/ HashPackage(p) \/ Select(p)
  BY <1>4, <1>5, <1>8, <1>10, <1>12 DEF Resolve
<1>13. ASSUME NEW q \in Procs, Check(q)
       PROVE  Same \/ stack'[p] = <<>>
  BY <1>4, <1>6, <1>9, <1>10, <1>13 DEF Check
<1> QED
  BY <1>7, <1>10, <1>11, <1>12, <1>13 DEF Next

\* The manifest that was read of package i on the way is that of its files, or
\* of the files that are being cached.
Read(p, i) ==
  ReadFrom(stack[p][i], IF i = Len(stack[p]) /\ install[p].stage # "none"
                        THEN install[p].digest
                        ELSE content[stack[p][i].source])

FramesRead(p) == \A i \in 2..Len(stack[p]) : Read(p, i)

\* Everything that the packages done with ask for is done with, from the
\* sources they name, and what is recorded of them is what they hold.
Closed(packages) ==
  \A a \in Listed(packages) :
    LET asked == Requires[packages[a].digest] IN
    /\ packages[a].deps = Listed(asked)
    /\ packages[a].id = Identity[packages[a].digest]
    /\ \A b \in Listed(asked) : packages[b] # None /\ packages[b].source = asked[b]

QInv ==
  /\ RInv
  /\ \A p \in Procs : FramesRead(p) /\ Closed(selected[p])
  /\ lock # None => Closed(lock.packages)

LEMMA EmptyClosed == Closed(NoPackages)
BY DEF Closed, Listed, NoPackages

\* Nobody edits a package between the reading of its manifest and the hashing
\* of its files.
LEMMA EditRead ==
  ASSUME "edit_package" \notin Shapes, TInv, NEW p \in Procs, FramesRead(p),
         NEW s \in Sources, NEW c \in Contents, EditPackage(s, c)
  PROVE  FramesRead(p)'
<1>1. /\ content' = [content EXCEPT ![s] = c] /\ content \in [Sources -> Contents]
      /\ UNCHANGED <<stack, install>>
  BY DEF EditPackage, EditSource, command, TInv, TypeOK, CacheTypeOK
<1> SUFFICES ASSUME NEW i \in 2..Len(stack[p])
             PROVE  Read(p, i)'
  BY <1>1 DEF FramesRead
<1>2. Read(p, i) /\ stack[p][i].source \in Sources
  BY DEF FramesRead, TInv, StackNamed
<1>3. CASE i = Len(stack[p]) /\ install[p].stage # "none"
  BY <1>1, <1>2, <1>3 DEF Read
<1>4. CASE ~(i = Len(stack[p]) /\ install[p].stage # "none")
  <2>1. CASE stack[p][i].source = s
    <3>1. stack[p][i] \in Unhashed(p)
      BY <1>4 DEF Unhashed, TInv, TypeOK
    <3>2. ReadFrom(stack[p][i], c)
      BY <2>1, <3>1 DEF EditPackage
    <3> QED
      BY <1>1, <1>4, <2>1, <3>2 DEF Read
  <2>2. CASE stack[p][i].source # s
    BY <1>1, <1>2, <1>4, <2>2 DEF Read
  <2> QED
    BY <2>1, <2>2
<1> QED
  BY <1>3, <1>4

LEMMA HashRead ==
  ASSUME TInv, NEW p \in Procs, FramesRead(p), HashPackage(p)
  PROVE  FramesRead(p)'
<1>1. Len(stack[p]) > 1 /\ Len(stack[p]) \in Nat
  BY TopTyped DEF HashPackage
<1>2. /\ install[p].stage = "none"
      /\ UNCHANGED <<content, stack>>
      /\ install'[p].stage = "check" /\ install'[p].digest = content[Top(p).source]
  BY DEF HashPackage, Resolving, Ensure, Digest, command, TInv, TypeOK, CacheTypeOK
<1> SUFFICES ASSUME NEW i \in 2..Len(stack[p])
             PROVE  Read(p, i)'
  BY <1>2 DEF FramesRead
<1>3. ReadFrom(stack[p][i], content[stack[p][i].source])
  BY <1>2 DEF FramesRead, Read
<1> QED
  BY <1>1, <1>2, <1>3 DEF Read, Top

LEMMA VisitNextRead ==
  ASSUME TInv, NEW p \in Procs, NEW a \in Aliases, FramesRead(p), VisitNext(p, a)
  PROVE  FramesRead(p)'
<1> DEFINE n == Len(stack[p])
<1>1. n >= 1 /\ n \in Nat
  BY TopTyped DEF TInv, CommandHas, VisitNext, Resolving
<1>2. PICK s \in Sources, next \in Seq(Frame) :
        /\ stack' = [stack EXCEPT ![p] = next]
        /\ TickedOff(stack[p], a, next)
        /\ \/ Len(next) = n
           \/ Len(next) = n + 1 /\ next[n + 1] = VisitPackage(a, s, content[s])
  BY VisitShape
<1>3. stack'[p] = next
  BY <1>2 DEF TInv, TypeOK
<1>4. UNCHANGED <<content, install>> /\ install[p].stage = "none"
  BY DEF VisitNext, Resolving, cacheVars
<1>5. \A i \in 1..n : /\ next[i].deps = stack[p][i].deps /\ next[i].source = stack[p][i].source
                      /\ next[i].id = stack[p][i].id
  BY <1>2 DEF TickedOff
<1> HIDE DEF n
<1> SUFFICES ASSUME NEW i \in 2..Len(next)
             PROVE  ReadFrom(next[i], content[next[i].source])
  BY <1>3, <1>4 DEF FramesRead, Read
<1>6. CASE i \in 2..n
  <2>1. Read(p, i) /\ i \in 1..n
    BY <1>1, <1>6 DEF FramesRead, n
  <2> QED
    BY <1>4, <1>5, <2>1 DEF Read, ReadFrom
<1>7. CASE i = n + 1
  <2>1. next[i] = VisitPackage(a, s, content[s])
    BY <1>1, <1>2, <1>7
  <2> QED
    BY <2>1 DEF VisitPackage, Visit, ReadFrom
<1> QED
  BY <1>1, <1>2, <1>6, <1>7

LEMMA SelectRead ==
  ASSUME TInv, NEW p \in Procs, FramesRead(p), Select(p)
  PROVE  FramesRead(p)'
<1>1. PICK next \in Seq(Frame) :
        /\ Len(stack[p]) \in Nat
        /\ Len(next) = Len(stack[p]) - 1
        /\ \A i \in 1..Len(next) : next[i] = stack[p][i]
        /\ stack' = [stack EXCEPT ![p] = next]
        /\ install' = [install EXCEPT ![p] = NoInstall]
  BY SelectShape
<1>2. stack'[p] = next /\ install'[p].stage = "none" /\ content' = content
  BY <1>1 DEF TInv, TypeOK, CacheTypeOK, NoInstall, Select
<1> SUFFICES ASSUME NEW i \in 2..Len(next)
             PROVE  ReadFrom(next[i], content[next[i].source])
  BY <1>2 DEF FramesRead, Read
<1>3. i \in 2..Len(stack[p]) /\ i # Len(stack[p]) /\ next[i] = stack[p][i]
  BY <1>1
<1>4. Read(p, i)
  BY <1>3 DEF FramesRead
<1> QED
  BY <1>3, <1>4 DEF Read

LEMMA FramesReadKept ==
  ASSUME "edit_package" \notin Shapes, RInv, Next, NEW p \in Procs, FramesRead(p)
  PROVE  FramesRead(p)'
<1>1. TInv /\ Resolved(p)
  BY DEF RInv
<1>2. CASE stack'[p] = <<>>
  BY <1>2 DEF FramesRead
<1>3. CASE Start(p)
  <2>1. Len(stack'[p]) = 1
    BY <1>1, <1>3 DEF Start, TInv, TypeOK
  <2> QED
    BY <2>1 DEF FramesRead
<1>4. CASE stack'[p] = stack[p] /\ stack[p] # <<>> /\ ~Select(p)
  <2>1. pc[p] = "resolve"
    BY <1>1, <1>4 DEF Resolved
  <2>2. CASE /\ content' = content
             /\ install'[p].stage = "none" <=> install[p].stage = "none"
             /\ install'[p].digest = install[p].digest
    BY <1>4, <2>2 DEF FramesRead, Read
  <2> QED
    BY <1>1, <1>4, <2>1, <2>2, InstallEffect, HashRead, EditRead
<1> QED
  BY <1>1, <1>2, <1>3, <1>4, ResolutionEffect, SelectRead, VisitNextRead

\* A package is done with when all that it asks for is.
LEMMA SelectClosed ==
  ASSUME TInv, NEW p \in Procs, Select(p), Resolved(p), FramesRead(p), Closed(selected[p])
  PROVE  Closed(selected'[p])
<1> DEFINE n == Len(stack[p])
           top == stack[p][n]
           asked == Requires[install[p].digest]
<1>1. PICK r \in Record, chosen \in Packages :
        /\ n > 1 /\ n \in Nat /\ top.alias \in Aliases
        /\ r = [source |-> top.source, id |-> top.id,
                 digest |-> install[p].digest, deps |-> Listed(top.deps)]
        /\ chosen = [selected[p] EXCEPT ![top.alias] = r]
        /\ selected' = [selected EXCEPT ![p] = chosen]
  BY SelectShape DEF Top
<1>2. selected'[p] = chosen /\ selected[p] \in Packages
  BY <1>1 DEF TInv, TypeOK
<1>3. selected[p][top.alias] = None /\ n \in 1..n /\ n \in 2..n
  BY <1>1 DEF Resolved, Distinct
<1>4. /\ chosen[top.alias] = r /\ r.deps = Listed(top.deps) /\ r.digest = install[p].digest
      /\ r.id = top.id
      /\ \A x \in Aliases : x # top.alias => chosen[x] = selected[p][x]
  BY <1>1, <1>2 DEF Packages
<1>5. top.deps = asked /\ top.id = Identity[install[p].digest]
  BY <1>3 DEF FramesRead, Read, ReadFrom, Select
<1>6. \A b \in Listed(asked) : selected[p][b] # None /\ selected[p][b].source = asked[b]
  <2>1. top.left = {}
    BY DEF TInv, CommandHas, Select, Top
  <2>2. Reached(p, n)
    BY <1>3 DEF Resolved
  <2> QED
    BY <1>1, <1>5, <2>1, <2>2 DEF Reached, Chosen
<1> HIDE DEF n, top, asked
<1>7. \A b \in Aliases : selected[p][b] # None => chosen[b] = selected[p][b]
  BY <1>3, <1>4
<1>8. ASSUME NEW x \in Aliases, chosen[x] # None
      PROVE  /\ chosen[x].deps = Listed(Requires[chosen[x].digest])
             /\ chosen[x].id = Identity[chosen[x].digest]
             /\ \A b \in Listed(Requires[chosen[x].digest]) :
                  chosen[b] # None /\ chosen[b].source = Requires[chosen[x].digest][b]
  <2>1. CASE x = top.alias
    <3>1. \A b \in Listed(asked) : chosen[b] # None /\ chosen[b].source = asked[b]
      BY <1>6, <1>7 DEF Listed
    <3> QED
      BY <1>4, <1>5, <2>1, <3>1 DEF asked
  <2>2. CASE x # top.alias
    <3>1. chosen[x] = selected[p][x] /\ x \in Listed(selected[p])
      BY <1>4, <1>8, <2>2 DEF Listed
    <3>2. /\ chosen[x].deps = Listed(Requires[chosen[x].digest])
          /\ chosen[x].id = Identity[chosen[x].digest]
          /\ \A b \in Listed(Requires[chosen[x].digest]) :
               selected[p][b] # None /\ selected[p][b].source = Requires[chosen[x].digest][b]
      BY <3>1 DEF Closed
    <3> QED
      BY <1>7, <3>2 DEF Listed
  <2> QED
    BY <2>1, <2>2
<1>9. Closed(chosen)
  BY <1>8 DEF Closed, Listed
<1> QED
  BY <1>2, <1>9

LEMMA SelectedClosedKept ==
  ASSUME RInv, Next, NEW p \in Procs, FramesRead(p), Closed(selected[p])
  PROVE  Closed(selected'[p])
<1>1. TInv /\ Resolved(p)
  BY DEF RInv
<1>2. CASE Start(p) \/ \E a \in Aliases : VisitNext(p, a)
  BY <1>2 DEF Start, VisitNext
<1> QED
  BY <1>1, <1>2, ResolutionEffect, SelectClosed, EmptyClosed

LEMMA LockClosedKept ==
  ASSUME QInv, Next, lock' # None
  PROVE  Closed(lock'.packages)
<1>1. CASE lock' = lock
  BY <1>1 DEF QInv
<1>2. ASSUME NEW p \in Procs, WriteLock(p)
      PROVE  Closed(lock'.packages)
  <2>1. lock'.packages = selected[p]
    BY <1>2 DEF WriteLock
  <2> QED
    BY <2>1 DEF QInv
<1>3. ASSUME NEW p \in Procs, Relock(p)
      PROVE  Closed(lock'.packages)
  <2>1. lock'.packages = NoPackages
    BY <1>3 DEF Relock
  <2> QED
    BY <2>1, EmptyClosed
<1> QED
  BY <1>1, <1>2, <1>3, LockEffect

LEMMA InitRead ==
  ASSUME Init
  PROVE  QInv
<1>1. ASSUME NEW p \in Procs
      PROVE  FramesRead(p) /\ Closed(selected[p])
  BY EmptyClosed DEF Init, FramesRead
<1>2. lock = None
  BY DEF Init
<1> QED
  BY <1>1, <1>2, InitResolved DEF QInv

LEMMA NextRead ==
  ASSUME "edit_package" \notin Shapes, QInv, [Next]_vars
  PROVE  QInv'
<1>1. CASE UNCHANGED vars
  <2>1. UNCHANGED <<content, install, lock, stack, selected>>
    BY <1>1 DEF vars, cacheVars, command
  <2>2. \A p \in Procs : FramesRead(p)' /\ Closed(selected'[p])
    BY <2>1 DEF QInv, FramesRead, Read
  <2> QED
    BY <1>1, <2>1, <2>2, NextResolved DEF QInv, Closed, Listed
<1>2. CASE Next
  <2>1. ASSUME NEW p \in Procs
        PROVE  FramesRead(p)' /\ Closed(selected'[p])
    BY <1>2, FramesReadKept, SelectedClosedKept DEF QInv
  <2>2. \A p \in Procs : (FramesRead(p) /\ Closed(selected[p]))'
    BY <2>1 DEF Closed, Listed
  <2>3. (lock # None => Closed(lock.packages))'
    BY <1>2, LockClosedKept DEF Closed, Listed
  <2> QED
    BY <1>2, <2>2, <2>3, NextResolved DEF QInv
<1> QED
  BY <1>1, <1>2

LEMMA ReadThroughout ==
  ASSUME "edit_package" \notin Shapes
  PROVE  Spec => []QInv
BY InitRead, NextRead, PTL DEF Spec

\* One level below LockIsForManifest, and so at every level: what a locked
\* package asks for is in the lock, from the source that it names.
THEOREM LockIsWhole ==
  ASSUME "edit_package" \notin Shapes
  PROVE  Spec => []LockClosed
<1>1. QInv => LockClosed
  BY DEF QInv, Closed, LockClosed
<1> QED
  BY <1>1, ReadThroughout, PTL

-----------------------------------------------------------------------------
(* The lock and the cache *)

\* The cache loses nothing but by being cleared.
LEMMA CacheEffect ==
  ASSUME TInv, Next
  PROVE  Clear \/ \A d \in Contents : cache[d] # None => cache'[d] # None
<1>1. ASSUME NEW p \in Procs, Rename(p)
      PROVE  \A d \in Contents : cache[d] # None => cache'[d] # None
  BY <1>1 DEF Rename, TInv, TypeOK, CacheTypeOK
<1>2. ASSUME NEW p \in Procs, CacheAction(p), ~Rename(p)
      PROVE  cache' = cache
  BY <1>2 DEF CacheAction, CacheStep, CheckCache, CopyFiles, Verify
<1>3. ASSUME NEW p \in Procs, Resolve(p)
      PROVE  cache' = cache
  BY <1>3 DEF Resolve, Change, Update, BeginInstall, Start, VisitNext, HashPackage, Select, WriteLock,
    Fail, Restore, End, cacheVars
<1>4. ASSUME NEW p \in Procs, Check(p)
      PROVE  cache' = cache
  BY <1>4 DEF Check, BeginLocked, Populate, Populated, EndLocked, Refuse, BeginBuild, EnsureLock,
    Relock, End, cacheVars
<1>5. ASSUME NEW p \in Procs, Crash(p)
      PROVE  cache' = cache
  BY <1>5 DEF Crash, End
<1>6. ASSUME \/ \E deps \in Dependencies, windows \in BOOLEAN : EditManifest(deps, windows)
             \/ \E s \in Sources, c \in Contents : EditPackage(s, c)
      PROVE  cache' = cache
  BY <1>6 DEF EditManifest, EditPackage, EditSource, cacheVars
<1> QED
  BY <1>1, <1>2, <1>3, <1>4, <1>5, <1>6 DEF Next

\* ensure_cached returns when the package is in the cache.
DoneCached(p) == install[p].stage = "done" => cache[install[p].digest] # None

LEMMA DoneEffect ==
  ASSUME TInv, Next, NEW p \in Procs, install'[p].stage = "done"
  PROVE  \/ install[p].stage = "done" /\ install'[p].digest = install[p].digest
         \/ install'[p].digest \in Contents /\ cache'[install'[p].digest] # None
<1>1. TypeOK /\ CacheTypeOK /\ \A q \in Procs : InstallKnows(q)
  BY DEF TInv, TypeOK
<1> DEFINE Goal == \/ install[p].stage = "done" /\ install'[p].digest = install[p].digest
                   \/ install'[p].digest \in Contents /\ cache'[install'[p].digest] # None
<1>2. ASSUME install'[p] = install[p] PROVE Goal
  BY <1>2
<1>3. ASSUME NEW q \in Procs, install' = [install EXCEPT ![q] = NoInstall] PROVE Goal
  BY <1>1, <1>3 DEF CacheTypeOK, NoInstall
<1>4. ASSUME NEW q \in Procs, NEW s, NEW d, Ensure(q, s, d) PROVE Goal
  BY <1>1, <1>4 DEF Ensure, CacheTypeOK
<1>5. ASSUME NEW q \in Procs, CacheAction(q) PROVE Goal
  <2>1. CASE q # p
    BY <1>1, <1>2, <1>5, <2>1 DEF CacheAction, CacheStep, CheckCache, CopyFiles, Verify, Rename, Goto,
      CacheTypeOK
  <2>2. CASE q = p
    <3>1. CASE CheckCache(p)
      BY <1>1, <3>1 DEF CheckCache, Goto, CacheTypeOK, InstallKnows, Install
    <3>2. CASE CopyFiles(p) \/ Verify(p)
      BY <1>1, <3>2 DEF CopyFiles, Verify, Goto, CacheTypeOK, Install
    <3>3. CASE Rename(p)
      <4>1. /\ install[p].digest \in Contents /\ install[p].copy \in Contents
            /\ install[p].copy # None /\ cache \in [Contents -> Contents \cup {None}]
        BY <1>1, <3>3, NoContentAssumption DEF Rename, InstallKnows, CacheTypeOK
      <4>2. install'[p].digest = install[p].digest
        BY <1>1, <3>3 DEF Rename, Goto, CacheTypeOK, Install
      <4>3. cache'[install[p].digest] # None
        BY <3>3, <4>1 DEF Rename
      <4> QED
        BY <4>1, <4>2, <4>3
    <3> QED
      BY <1>5, <2>2, <3>1, <3>2, <3>3 DEF CacheAction, CacheStep
  <2> QED
    BY <2>1, <2>2
<1> SUFFICES Goal
  OBVIOUS
<1> HIDE DEF Goal
<1>6. ASSUME NEW q \in Procs, Resolve(q) PROVE Goal
  BY <1>2, <1>3, <1>4, <1>6 DEF Resolve, Change, Update, BeginInstall, Start, VisitNext, HashPackage,
    Select, WriteLock, Fail, Restore, End, cacheVars
<1>7. ASSUME NEW q \in Procs, Check(q) PROVE Goal
  BY <1>2, <1>3, <1>4, <1>7 DEF Check, BeginLocked, Populate, Populated, EndLocked, Refuse, BeginBuild,
    EnsureLock, Relock, End, cacheVars
<1>8. ASSUME NEW q \in Procs, Crash(q) PROVE Goal
  BY <1>3, <1>8 DEF Crash, End
<1>9. ASSUME \/ \E deps \in Dependencies, windows \in BOOLEAN : EditManifest(deps, windows)
             \/ \E s \in Sources, c \in Contents : EditPackage(s, c)
             \/ Clear
      PROVE  Goal
  BY <1>2, <1>9 DEF EditManifest, EditPackage, EditSource, Clear, ClearCache, cacheVars
<1> QED
  BY <1>5, <1>6, <1>7, <1>8, <1>9 DEF Next

\* Of the lock that install --locked has read, what it is done with
LEMMA HeldEffect ==
  ASSUME TInv, Next, NEW p \in Procs, pc'[p] = "populate"
  PROVE  \/ pc[p] = "populate" /\ held'[p] = held[p] /\ left'[p] = left[p]
         \/ left'[p] = Listed(held'[p].packages)
         \/ /\ pc[p] = "populate" /\ held'[p] = held[p]
            /\ \E a \in left[p] :
                 left'[p] = left[p] \ {a} /\ cache[held[p].packages[a].digest] # None
<1>1. TypeOK
  BY DEF TInv
<1> DEFINE Same == pc[p] = "populate" /\ held'[p] = held[p] /\ left'[p] = left[p]
<1>2. ASSUME NEW q \in Procs, End(q) PROVE Same
  BY <1>1, <1>2 DEF End, TypeOK
<1>3. ASSUME NEW q \in Procs, Resolve(q), ~WriteLock(q), ~Restore(q), ~Fail(q) PROVE Same
  BY <1>1, <1>3 DEF Resolve, Change, Update, BeginInstall, Start, VisitNext, HashPackage, Select,
    command, TypeOK
<1>4. ASSUME NEW q \in Procs, Fail(q) PROVE Same
  BY <1>1, <1>2, <1>4 DEF Fail, TypeOK
<1>5. ASSUME NEW q \in Procs, BeginLocked(q) PROVE Same \/ left'[p] = Listed(held'[p].packages)
  BY <1>1, <1>5 DEF BeginLocked, TypeOK
<1>6. ASSUME NEW q \in Procs, NEW b \in Aliases, Populate(q, b)
      PROVE  \/ Same
             \/ /\ pc[p] = "populate" /\ held'[p] = held[p]
                /\ \E a \in left[p] :
                     left'[p] = left[p] \ {a} /\ cache[held[p].packages[a].digest] # None
  <2>1. CASE q # p \/ UNCHANGED left
    BY <1>1, <1>6, <2>1 DEF Populate, TypeOK
  <2>2. CASE q = p /\ ~UNCHANGED left
    BY <1>1, <1>6, <2>2 DEF Populate, TypeOK, Verified
  <2> QED
    BY <2>1, <2>2
<1>7. ASSUME NEW q \in Procs, Populated(q) \/ BeginBuild(q) \/ CacheAction(q) PROVE Same
  BY <1>1, <1>7 DEF Populated, BeginBuild, CacheAction, command, TypeOK
<1>8. ASSUME NEW q \in Procs, EnsureLock(q) PROVE Same
  BY <1>1, <1>2, <1>8 DEF EnsureLock, TypeOK
<1>9. ASSUME NEW q \in Procs,
             WriteLock(q) \/ Restore(q) \/ EndLocked(q) \/ Refuse(q) \/ Relock(q) \/ Crash(q)
      PROVE  Same
  BY <1>2, <1>9 DEF WriteLock, Restore, EndLocked, Refuse, Relock, Crash
<1>10. ASSUME \/ \E deps \in Dependencies, windows \in BOOLEAN : EditManifest(deps, windows)
              \/ \E s \in Sources, c \in Contents : EditPackage(s, c)
              \/ Clear
       PROVE  Same
  BY <1>10 DEF EditManifest, EditPackage, Clear, command
<1> DEFINE Taken == /\ pc[p] = "populate" /\ held'[p] = held[p]
                    /\ \E a \in left[p] :
                         left'[p] = left[p] \ {a} /\ cache[held[p].packages[a].digest] # None
           Goal == Same \/ left'[p] = Listed(held'[p].packages) \/ Taken
<1> SUFFICES Goal
  OBVIOUS
<1>11. ASSUME NEW q \in Procs, NEW b \in Aliases, Populate(q, b) PROVE Goal
  BY <1>6, <1>11
<1>12. ASSUME NEW q \in Procs, BeginLocked(q) PROVE Goal
  BY <1>5, <1>12
<1>13. Same => Goal
  OBVIOUS
<1> HIDE DEF Same, Goal
<1>14. ASSUME NEW q \in Procs, Check(q) PROVE Goal
  BY <1>7, <1>8, <1>9, <1>11, <1>12, <1>13, <1>14 DEF Check
<1>15. ASSUME NEW q \in Procs, Resolve(q) PROVE Goal
  BY <1>3, <1>4, <1>9, <1>13, <1>15
<1>16. ASSUME NEW q \in Procs, CacheAction(q) \/ Crash(q) PROVE Goal
  BY <1>7, <1>9, <1>13, <1>16
<1> QED
  BY <1>10, <1>13, <1>14, <1>15, <1>16 DEF Next

LEMMA StockedEffect ==
  ASSUME Next, stocked', ~\E p \in Procs : WriteLock(p) \/ Relock(p)
  PROVE  \/ stocked
         \/ \E p \in Procs : EndLocked(p) /\ held[p] = lock
<1>1. ASSUME NEW p \in Procs, Resolve(p), ~WriteLock(p)
      PROVE  stocked
  BY <1>1 DEF Resolve, Change, Update, BeginInstall, Start, VisitNext, HashPackage, Select, Fail,
    Restore, history
<1>2. ASSUME NEW p \in Procs, Check(p), ~Relock(p), ~EndLocked(p)
      PROVE  stocked
  BY <1>2 DEF Check, BeginLocked, Populate, Populated, Refuse, BeginBuild, EnsureLock, history
<1>3. ASSUME NEW p \in Procs, EndLocked(p)
      PROVE  stocked \/ held[p] = lock
  BY <1>3 DEF EndLocked
<1> QED
  BY <1>1, <1>2, <1>3 DEF Next, CacheAction, Crash, EditManifest, EditPackage, Clear, history

\* The packages are in the cache.
Cached(packages) == \A a \in Listed(packages) : cache[packages[a].digest] # None

\* Those of a locked install that are not left are.
Populating(p) ==
  pc[p] = "populate" =>
    \A a \in Listed(held[p].packages) \ left[p] : cache[held[p].packages[a].digest] # None

LockCached == stocked /\ lock # None => Cached(lock.packages)

SInv ==
  /\ RInv
  /\ \A p \in Procs : DoneCached(p) /\ Cached(selected[p]) /\ Populating(p)
  /\ LockCached

LEMMA NoneCached == Cached(NoPackages)
BY DEF Cached, Listed, NoPackages

LEMMA PackagesStay ==
  ASSUME TInv, Next, ~Clear, NEW packages \in Packages, Cached(packages)
  PROVE  Cached(packages)'
BY CacheEffect DEF Cached, Listed, Packages, Record

LEMMA DoneCachedKept ==
  ASSUME TInv, Next, NEW p \in Procs, DoneCached(p)
  PROVE  DoneCached(p)'
<1>1. CASE Clear
  BY <1>1 DEF Clear, ClearCache, DoneCached
<1>2. CASE ~Clear
  <2> SUFFICES ASSUME install'[p].stage = "done"
               PROVE  cache'[install'[p].digest] # None
    BY DEF DoneCached
  <2>1. CASE install[p].stage = "done" /\ install'[p].digest = install[p].digest
    <3>1. install[p].digest \in Contents
      BY <2>1 DEF TInv, InstallKnows
    <3> QED
      BY <1>2, <2>1, <3>1, CacheEffect DEF DoneCached
  <2> QED
    BY <2>1, DoneEffect
<1> QED
  BY <1>1, <1>2

LEMMA SelectedCachedKept ==
  ASSUME RInv, Next, NEW p \in Procs, DoneCached(p), Cached(selected[p])
  PROVE  Cached(selected[p])'
<1>1. TInv /\ Resolved(p) /\ selected[p] \in Packages /\ NoPackages \in Packages
  BY DEF RInv, TInv, TypeOK, NoPackages, Packages
<1>2. CASE Clear
  <2>1. selected'[p] = NoPackages
    BY <1>1, <1>2 DEF Clear, Resolved, command
  <2> QED
    BY <2>1 DEF Cached, Listed, NoPackages
<1>3. CASE ~Clear /\ selected'[p] = selected[p]
  <2>1. Cached(selected[p]) => \A a \in Listed(selected[p]) : cache'[selected[p][a].digest] # None
    BY <1>1, <1>3, PackagesStay DEF Cached
  <2> QED
    BY <1>3, <2>1 DEF Cached, Listed
<1>4. CASE selected'[p] = NoPackages
  BY <1>4 DEF Cached, Listed, NoPackages
<1>5. CASE ~Clear /\ Select(p)
  <2>1. PICK r \in Record, chosen \in Packages :
          /\ Top(p).alias \in Aliases
          /\ r = [source |-> Top(p).source, id |-> Top(p).id,
                 digest |-> install[p].digest, deps |-> Listed(Top(p).deps)]
          /\ chosen = [selected[p] EXCEPT ![Top(p).alias] = r]
          /\ selected' = [selected EXCEPT ![p] = chosen]
    BY <1>1, <1>5, SelectShape
  <2>2. selected'[p] = chosen
    BY <1>1, <2>1 DEF TInv, TypeOK
  <2>3. cache[r.digest] # None /\ cache' = cache
    BY <1>5, <2>1 DEF Select, DoneCached
  <2>4. \A a \in Aliases : chosen[a] = r \/ chosen[a] = selected[p][a]
    BY <1>1, <2>1 DEF Packages
  <2> QED
    BY <2>2, <2>3, <2>4 DEF Cached, Listed
<1>6. ASSUME Start(p) \/ \E a \in Aliases : VisitNext(p, a)
      PROVE  selected'[p] = selected[p]
  BY <1>6 DEF Start, VisitNext
<1> QED
  BY <1>1, <1>2, <1>3, <1>4, <1>5, <1>6, ResolutionEffect

LEMMA PopulatingKept ==
  ASSUME TInv, Next, NEW p \in Procs, Populating(p)
  PROVE  Populating(p)'
<1> SUFFICES ASSUME pc'[p] = "populate",
                    NEW a \in Listed(held'[p].packages), a \notin left'[p]
             PROVE  cache'[held'[p].packages[a].digest] # None
  BY DEF Populating, Listed
<1>1. /\ pc[p] = "populate" /\ held'[p] = held[p]
      /\ a \notin left[p] \/ cache[held[p].packages[a].digest] # None
  BY HeldEffect
<1>2. ~Clear
  BY <1>1 DEF Clear
<1>3. cache[held[p].packages[a].digest] # None
  BY <1>1 DEF Populating
<1>4. held[p].packages[a].digest \in Contents
  BY <1>1 DEF TInv, TypeOK, CommandHas, Lock, Packages, Record, Listed
<1> QED
  BY <1>1, <1>2, <1>3, <1>4, CacheEffect

LEMMA LockCachedKept ==
  ASSUME SInv, Next
  PROVE  LockCached'
<1>1. TInv
  BY DEF SInv, RInv
<1> SUFFICES ASSUME stocked', lock' # None
             PROVE  Cached(lock.packages)'
  BY DEF LockCached
<1>2. ~Clear
  BY DEF Clear
<1>3. ASSUME NEW p \in Procs, WriteLock(p)
      PROVE  Cached(lock.packages)'
  <2>1. lock'.packages = selected[p] /\ selected[p] \in Packages
    BY <1>1, <1>3 DEF WriteLock, TInv, TypeOK
  <2>2. Cached(selected[p])
    BY DEF SInv
  <2>3. \A a \in Listed(selected[p]) : cache'[selected[p][a].digest] # None
    BY <1>1, <1>2, <2>1, <2>2, PackagesStay DEF Cached
  <2> QED
    BY <2>1, <2>3 DEF Cached, Listed
<1>4. ASSUME NEW p \in Procs, Relock(p)
      PROVE  Cached(lock.packages)'
  <2>1. lock'.packages = NoPackages
    BY <1>4 DEF Relock
  <2> QED
    BY <2>1 DEF Cached, Listed, NoPackages
<1>5. CASE ~\E p \in Procs : WriteLock(p) \/ Relock(p)
  <2>1. lock' = lock /\ lock \in Lock
    BY <1>1, <1>5, LockEffect DEF TInv, TypeOK
  <2>2. Cached(lock.packages)
    <3>1. ASSUME NEW p \in Procs, EndLocked(p), held[p] = lock
          PROVE  Cached(lock.packages)
      BY <3>1 DEF SInv, Populating, EndLocked, Cached
    <3> QED
      BY <1>5, <2>1, <3>1, StockedEffect DEF SInv, LockCached
  <2>3. \A a \in Listed(lock.packages) : cache'[lock.packages[a].digest] # None
    <3>1. lock.packages \in Packages
      BY <2>1 DEF Lock
    <3> QED
      BY <1>1, <1>2, <2>2, <3>1, PackagesStay DEF Cached
  <2> QED
    BY <2>1, <2>3 DEF Cached, Listed
<1> QED
  BY <1>3, <1>4, <1>5

LEMMA InitCached ==
  ASSUME Init
  PROVE  SInv
<1>1. ASSUME NEW p \in Procs
      PROVE  DoneCached(p) /\ Cached(selected[p]) /\ Populating(p)
  BY NoneCached DEF Init, CacheInit, NoInstall, DoneCached, Populating
<1>2. LockCached
  BY DEF Init, LockCached
<1> QED
  BY <1>1, <1>2, InitResolved DEF SInv

LEMMA NextCached ==
  ASSUME SInv, [Next]_vars
  PROVE  SInv'
<1>1. CASE UNCHANGED vars
  <2>1. UNCHANGED <<cache, install, lock, pc, selected, held, left, stocked>>
    BY <1>1 DEF vars, cacheVars, command, history
  <2>2. \A p \in Procs : (DoneCached(p) /\ Cached(selected[p]) /\ Populating(p))'
    BY <2>1 DEF SInv, DoneCached, Cached, Populating, Listed
  <2>3. LockCached'
    BY <2>1 DEF SInv, LockCached, Cached, Listed
  <2> QED
    BY <1>1, <2>2, <2>3, NextResolved DEF SInv
<1>2. CASE Next
  <2>1. \A p \in Procs : (DoneCached(p) /\ Cached(selected[p]) /\ Populating(p))'
    BY <1>2, DoneCachedKept, SelectedCachedKept, PopulatingKept DEF SInv, RInv
  <2> QED
    BY <1>2, <2>1, LockCachedKept, NextResolved DEF SInv
<1> QED
  BY <1>1, <1>2

LEMMA CachedThroughout == Spec => []SInv
BY InitCached, NextCached, PTL DEF Spec

\* After an install every package in the lock is in the cache, with the content,
\* name, version and dependencies that were locked, until the cache is cleared: no
\* build whose manifest is the locked one is refused, whatever the other commands
\* do to the cache and wherever they are killed.  The manifests involved must not
\* change between being read and being hashed.
THEOREM LockStaysUsable ==
  ASSUME "edit_manifest" \notin Shapes, "two_changes" \notin Shapes, "edit_package" \notin Shapes
  PROVE  Spec => []LockUsable
<1>1. ASSUME MInv, QInv, SInv, lock # None
      PROVE  /\ Complete(lock)
             /\ stocked => \A a \in Listed(lock.packages) : Verified(lock.packages[a])
  <2>1. lock \in Lock /\ CacheSound /\ CacheTypeOK
    BY <1>1 DEF QInv, RInv, TInv, TypeOK
  <2>2. Closed(lock.packages)
    BY <1>1 DEF QInv
  <2>3. Listed(lock.manifest) \subseteq Listed(lock.packages)
    BY <1>1 DEF MInv, LockMatched, Listed
  <2>4. \A a \in Listed(lock.packages) : lock.packages[a].deps \subseteq Listed(lock.packages)
    BY <2>2 DEF Closed, Listed
  <2>5. ASSUME stocked, NEW a \in Listed(lock.packages)
        PROVE  Verified(lock.packages[a])
    <3>1. PICK d \in Contents : d = lock.packages[a].digest
      BY <2>1 DEF Lock, Packages, Record, Listed
    <3>2. cache[d] # None /\ Digest(cache[d]) = d
      BY <1>1, <2>1, <2>5, <3>1 DEF SInv, LockCached, Cached, CacheSound
    <3>3. cache[d] = d
      BY <3>2 DEF Digest
    <3>4. Listed(Requires[d]) = lock.packages[a].deps /\ Identity[d] = lock.packages[a].id
      BY <2>2, <3>1 DEF Closed
    <3> QED
      BY <3>1, <3>2, <3>3, <3>4 DEF Verified
  <2> QED
    BY <2>3, <2>4, <2>5 DEF Complete
<1>2. MInv /\ QInv /\ SInv => LockUsable
  BY <1>1 DEF LockUsable
<1> QED
  BY <1>2, MatchedThroughout, ReadThroughout, CachedThroughout, PTL
=============================================================================
