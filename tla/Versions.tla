------------------------------ MODULE Versions ------------------------------
(***************************************************************************)
(* The version switcher (src/zyenlang/cli/zyenv.py): the directories of    *)
(* the installed versions, the files that select one, the commands that    *)
(* change them, run by several processes each of which may die between two *)
(* steps, and the two programs that read them: `zyenv` itself and the shim *)
(* it writes, which has a resolution of its own.                           *)
(***************************************************************************)
EXTENDS Naturals, FiniteSets

CONSTANTS Names,   \* names of versions
          Procs,   \* processes that run zyenv
          Depth,   \* the directories 1..Depth, each in the one before it
          None,    \* no file, no name
          Blank    \* a file without a name

ASSUME DepthAssumption == Depth \in Nat \ {0}
ASSUME NamesAssumption == None \notin Names /\ Blank \notin Names /\ None # Blank

Dirs == 1..Depth
Texts == Names \cup {None, Blank}

\* What there can be of an installed version.
Parts == {"dir", "venv", "lib", "exe"}
Whole == Parts

VARIABLES versions,  \* versions[n]: what there is of version n
          global,    \* ~/.zyenv/version
          local,     \* local[d]: the .zy-version of directory d
          proc,      \* proc[p]: the command p is in
          hurt       \* history: the versions that an accident has happened to, see Touch

vars == <<versions, global, local, proc, hurt>>

Command == [pc : {"idle", "clear", "mkdir", "venv", "pip", "scripts", "cleanup",
                  "remove", "read", "unlink", "truncate", "write"},
            name : Names \cup {None}, zip : BOOLEAN, forced : BOOLEAN, dir : Dirs \cup {0},
            alone : BOOLEAN]
Idle == [pc |-> "idle", name |-> None, zip |-> FALSE, forced |-> FALSE, dir |-> 0, alone |-> TRUE]

At(p, pc) == proc[p].pc = pc
Goto(p, pc) == proc' = [proc EXCEPT ![p].pc = pc]
Others(p, n) == {q \in Procs \ {p} : proc[q].name = n}

\* list_versions: what counts is that the directory is there.
Listed(n) == "dir" \in versions[n]

Init ==
    /\ versions = [n \in Names |-> {}]
    /\ global = None
    /\ local = [d \in Dirs |-> None]
    /\ proc = [p \in Procs |-> Idle]
    /\ hurt = {}

\* p begins a command on n.  Two commands on one version are an accident for it.
Touch(p, c) ==
    /\ At(p, "idle")
    /\ proc' = [q \in Procs |->
                   IF q = p THEN [c EXCEPT !.alone = Others(p, c.name) = {}]
                   ELSE IF proc[q].name = c.name THEN [proc[q] EXCEPT !.alone = FALSE] ELSE proc[q]]
    /\ hurt' = IF Others(p, c.name) = {} THEN hurt ELSE hurt \cup {c.name}

\* A command is over, all its work done.  If no other was at work on the same
\* version this makes up for what had happened to it before.
Complete(p) ==
    /\ proc' = [proc EXCEPT ![p] = Idle]
    /\ hurt' = IF proc[p].alone THEN hurt \ {proc[p].name} ELSE hurt

-----------------------------------------------------------------------------
(* Removing a directory: shutil.rmtree, entry by entry in no order *)

\* One entry of the tree goes, an inner one first; the top only after all.
Erase(n, part) ==
    /\ part \in versions[n]
    /\ part = "venv" => versions[n] \cap {"lib", "exe"} = {}
    /\ part = "dir" => versions[n] = {"dir"}
    /\ versions' = [versions EXCEPT ![n] = @ \ {part}]
    /\ UNCHANGED <<global, local, proc, hurt>>

RemoveTree(p) ==
    /\ \E pc \in {"clear", "cleanup", "remove"} : At(p, pc)
    /\ \E part \in Parts : Erase(proc[p].name, part)

-----------------------------------------------------------------------------
(* install-local and install-zip *)

\* A version that is there is refused or, with --force, deleted first.
BeginInstall(p, n, zip, forced) ==
    /\ Listed(n) => forced
    /\ Touch(p, [Idle EXCEPT !.pc = IF Listed(n) THEN "clear" ELSE "mkdir",
                             !.name = n, !.zip = zip, !.forced = Listed(n)])
    /\ UNCHANGED <<versions, global, local>>

\* Faulty variant: entries that could not be removed are passed over.
ClearedPartly(p) ==
    /\ At(p, "clear")
    /\ Goto(p, "mkdir")
    /\ UNCHANGED <<versions, global, local, hurt>>

Cleared(p) ==
    /\ At(p, "clear")
    /\ versions[proc[p].name] = {}
    /\ Goto(p, "mkdir")
    /\ UNCHANGED <<versions, global, local, hurt>>

\* The directory; an archive is extracted into it, or is found unsafe or
\* without a package in it.
MakeDirectory(p) ==
    /\ At(p, "mkdir")
    /\ versions' = [versions EXCEPT ![proc[p].name] = @ \cup {"dir"}]
    /\ \/ Goto(p, "venv")
       \/ proc[p].zip /\ Goto(p, "cleanup")
    /\ UNCHANGED <<global, local, hurt>>

\* _make_venv: one that is there goes first.
MakeVenv(p) ==
    /\ At(p, "venv")
    /\ versions' = [versions EXCEPT ![proc[p].name] = {"dir", "venv"}]
    /\ Goto(p, "pip")
    /\ UNCHANGED <<global, local, hurt>>

\* pip installs the library and then the zy command, or says it could not.
Pip(p) ==
    /\ At(p, "pip")
    /\ \/ /\ "venv" \in versions[proc[p].name]
          /\ versions' = [versions EXCEPT ![proc[p].name] = @ \cup {"lib"}]
          /\ Goto(p, "scripts")
       \/ Goto(p, "cleanup") /\ UNCHANGED versions
    /\ UNCHANGED <<global, local, hurt>>

Installed(p) ==
    /\ At(p, "scripts")
    /\ "venv" \in versions[proc[p].name]
    /\ versions' = [versions EXCEPT ![proc[p].name] = @ \cup {"exe"}]
    /\ Complete(p)
    /\ UNCHANGED <<global, local>>

\* Faulty variant: what an install has made so far stays when it fails.
LeaveRest(p) ==
    /\ At(p, "cleanup")
    /\ proc' = [proc EXCEPT ![p] = Idle]
    /\ hurt' = IF proc[p].forced THEN hurt \cup {proc[p].name} ELSE hurt
    /\ UNCHANGED <<versions, global, local>>

\* An install that has failed ends.  The version a forced one replaced is lost,
\* with whatever still selects it; and entries that could not be removed are
\* passed over (ignore_errors), an accident nobody is told of.
GiveUp(p) ==
    /\ At(p, "cleanup")
    /\ proc' = [proc EXCEPT ![p] = Idle]
    /\ hurt' = IF proc[p].forced \/ versions[proc[p].name] # {}
               THEN hurt \cup {proc[p].name} ELSE hurt
    /\ UNCHANGED <<versions, global, local>>

-----------------------------------------------------------------------------
(* uninstall *)

BeginUninstall(p, n) ==
    /\ Listed(n)
    /\ Touch(p, [Idle EXCEPT !.pc = "remove", !.name = n])
    /\ UNCHANGED <<versions, global, local>>

Removed(p) ==
    /\ At(p, "remove")
    /\ versions[proc[p].name] = {}
    /\ Goto(p, "read")
    /\ UNCHANGED <<versions, global, local, hurt>>

\* Whether the global file names this version ...
ReadGlobal(p) ==
    /\ At(p, "read")
    /\ IF global = proc[p].name THEN Goto(p, "unlink") /\ UNCHANGED hurt ELSE Complete(p)
    /\ UNCHANGED <<versions, global, local>>

\* ... and then the file goes, whatever it names by now; it may be gone.
Unlink(p) ==
    /\ At(p, "unlink")
    /\ global # None
    /\ global' = None
    /\ Complete(p)
    /\ UNCHANGED <<versions, local>>

-----------------------------------------------------------------------------
(* use, local, unset *)

\* `use n` (d = 0) and `local n` in directory d: n has to be listed.
BeginSelect(p, n, d) ==
    /\ Listed(n)
    /\ Touch(p, [Idle EXCEPT !.pc = "truncate", !.name = n, !.dir = d])
    /\ UNCHANGED <<versions, global, local>>

PutText(d, text) ==
    IF d = 0 THEN global' = text /\ UNCHANGED local
             ELSE local' = [local EXCEPT ![d] = text] /\ UNCHANGED global

\* write_text opens the file, which empties it, and then writes.
Truncate(p) ==
    /\ At(p, "truncate")
    /\ PutText(proc[p].dir, Blank)
    /\ Goto(p, "write")
    /\ UNCHANGED <<versions, hurt>>

WriteName(p) ==
    /\ At(p, "write")
    /\ PutText(proc[p].dir, proc[p].name)
    /\ proc' = [proc EXCEPT ![p] = Idle]
    /\ UNCHANGED <<versions, hurt>>

Unset(p, d) ==
    /\ At(p, "idle")
    /\ local[d] # None
    /\ local' = [local EXCEPT ![d] = None]
    /\ UNCHANGED <<versions, global, proc, hurt>>

-----------------------------------------------------------------------------

\* The process is killed, or an exception ends it: creating the venv fails, a
\* file another process has removed is missing.
Die(p) ==
    /\ ~At(p, "idle")
    /\ proc' = [proc EXCEPT ![p] = Idle]
    /\ hurt' = hurt \cup {proc[p].name}
    /\ UNCHANGED <<versions, global, local>>

Step(p) ==
    \/ RemoveTree(p)
    \/ Cleared(p) \/ MakeDirectory(p) \/ MakeVenv(p) \/ Pip(p) \/ Installed(p) \/ GiveUp(p)
    \/ Removed(p) \/ ReadGlobal(p) \/ Unlink(p)
    \/ Truncate(p) \/ WriteName(p)

Next ==
    \E p \in Procs :
        \/ \E n \in Names : \/ \E zip, forced \in BOOLEAN : BeginInstall(p, n, zip, forced)
                            \/ BeginUninstall(p, n)
                            \/ \E d \in Dirs \cup {0} : BeginSelect(p, n, d)
        \/ \E d \in Dirs : Unset(p, d)
        \/ Step(p)
        \/ Die(p)

Spec == Init /\ [][Next]_vars

-----------------------------------------------------------------------------
(* Which version is the active one *)

Nearest(ds) == CHOOSE d \in ds : \A e \in ds : e <= d

\* resolve_version: $ZY_VERSION, the nearest .zy-version if it has a name in
\* it, the global file.
ResolveVersion(env, cwd) ==
    LET files == {d \in 1..cwd : local[d] # None} IN
    IF env # None THEN env
    ELSE IF files # {} /\ local[Nearest(files)] # Blank THEN local[Nearest(files)]
    ELSE IF global # Blank THEN global ELSE None

\* Faulty variant: the outermost file decides.
ShimOutermost(env, cwd) ==
    LET files == {d \in 1..cwd : local[d] \notin {None, Blank}} IN
    IF env # None THEN env
    ELSE IF files # {} THEN local[CHOOSE d \in files : \A e \in files : d <= e]
    ELSE IF global # Blank THEN global ELSE None

\* The shim's main, which passes over a .zy-version without a name.
Shim(env, cwd) ==
    LET files == {d \in 1..cwd : local[d] \notin {None, Blank}} IN
    IF env # None THEN env
    ELSE IF files # {} THEN local[Nearest(files)]
    ELSE IF global # Blank THEN global ELSE None

\* `zyenv which` and the shim find an executable, and the shim runs it.
Found(n) == n # None /\ "exe" \in versions[n]

-----------------------------------------------------------------------------
(* Properties *)

\* The variables have their types, and no tree is there without its top, which
\* is what list_versions and the test for an installed version look at.
TypeOK ==
    /\ versions \in [Names -> SUBSET Parts]
    /\ \A n \in Names : versions[n] # {} => Listed(n)
    /\ global \in Texts
    /\ local \in [Dirs -> Texts]
    /\ proc \in [Procs -> Command]
    /\ hurt \subseteq Names

AtWork(n) == \E p \in Procs : proc[p].name = n

\* A version that nothing has happened to, and that no command is at work on,
\* is there with all its parts or not at all, even if the last command failed and
\* took back what it had done; what it could not take back is an accident.  A forced reinstall or an uninstall that completes makes up for
\* an accident (cmd_install_local, cmd_install_zip, cmd_uninstall).  The one the
\* global file names is there: `use` only takes an installed one, and
\* `uninstall` clears the file (cmd_use, cmd_uninstall).
WholeOrGone ==
    /\ TypeOK
    /\ \A n \in Names \ hurt : ~AtWork(n) =>
           /\ versions[n] \in {{}, Whole}
           /\ global = n => versions[n] = Whole

\* The shim never runs a version before it is complete: while one is installed
\* its zy command comes last, and it is only ever run half there while, or
\* after, its tree was being removed (_pip_install_editable, resolve_zy_path).
NoHalfRun ==
    \A n \in Names \ hurt :
        Found(n) => versions[n] = Whole \/ \E p \in Procs : proc[p].name = n /\
                                            proc[p].pc \in {"clear", "remove"}

\* `zyenv which` reports what the shim will run, in every directory and with
\* every $ZY_VERSION, as long as no .zy-version on the way up is blank.
WhichIsShim ==
    \A env \in Names \cup {None}, cwd \in Dirs :
        (\A d \in 1..cwd : local[d] # Blank) => ResolveVersion(env, cwd) = Shim(env, cwd)
=============================================================================
