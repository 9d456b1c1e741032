------------------------------- MODULE Project -------------------------------
(***************************************************************************)
(* The commands of `zy` that read and write a project's zyproject.toml and *)
(* zy.lock (src/zyenlang/compiler/package_manager.py), run by several      *)
(* processes over the package cache of module PackageCache: add, remove,   *)
(* install, install --locked, and the validation that build and check      *)
(* begin with.  Files are replaced atomically (_atomic_write), and a       *)
(* process may be killed between any two steps.                            *)
(***************************************************************************)
EXTENDS Integers, Sequences, PackageCache

CONSTANTS
  Aliases,   \* names of dependencies
  Requires,  \* Requires[c]: the dependencies that the manifest in content c lists
  Identity,  \* Identity[c]: the name and the version that it gives the package
  Shapes     \* which of the situations below occur

(***************************************************************************)
(* "edit_manifest"  the user edits the manifest while a command works from *)
(*                  what it has read of it                                 *)
(* "two_changes"    an add or a remove changes the manifest while another  *)
(*                  command works from what it has read of it: there is no *)
(*                  lock that would keep them apart                        *)
(* "edit_package"   the manifest of a package (its dependencies, name or   *)
(*                  version) changes between its reading and the hashing   *)
(*                  of the package's files                                 *)
(***************************************************************************)
AllShapes == {"edit_manifest", "two_changes", "edit_package"}

Dependencies == [Aliases -> Sources \cup {None}]
Listed(deps) == {a \in Aliases : deps[a] # None}

Identities == {Identity[c] : c \in Contents}

ASSUME RequiresAssumption == Requires \in [Contents -> Dependencies] /\ DOMAIN Identity = Contents
ASSUME ShapesAssumption == Shapes \subseteq AllShapes

\* LockedPackage: where a package came from, its name and version, what it
\* held, and the names of its dependencies.
Record == [source : Sources, id : Identities, digest : Contents, deps : SUBSET Aliases]
Packages == [Aliases -> Record \cup {None}]
NoPackages == [a \in Aliases |-> None]

\* LockFile; manifest_sha256 stands for the bytes of the manifest it was computed
\* from, and root_dependencies are the names listed there.
Lock == [manifest : Dependencies, crlf : BOOLEAN, packages : Packages]

ASSUME NoRecordAssumption ==
  None \notin Record /\ None \notin Lock /\ None \notin Aliases /\ None \notin Dependencies

\* A package being visited, with what was read in its manifest and the
\* dependencies still to visit.  The root project is the first.
Frame == [alias : Aliases \cup {None}, source : Sources \cup {None},
          id : Identities \cup {None}, deps : Dependencies, left : SUBSET Aliases]
Visit(a, s, id, deps) ==
  [alias |-> a, source |-> s, id |-> id, deps |-> deps, left |-> Listed(deps)]
VisitPackage(a, s, c) == Visit(a, s, Identity[c], Requires[c])
VisitRoot(deps) == Visit(None, None, None, deps)
ReadFrom(f, c) == f.deps = Requires[c] /\ f.id = Identity[c]
TickOff(f, a) == [f EXCEPT !.left = @ \ {a}]

VARIABLES
  manifest,  \* the dependencies in zyproject.toml
  crlf,      \* its lines end with CR LF
  lock,      \* zy.lock
  pc,        \* where each process is
  original,  \* the manifest that add and remove found
  wanted,    \* the manifest that add and remove write
  stack,     \* resolve_dependencies: the packages being visited, root first
  selected,  \* resolve_dependencies: the packages it is done with
  held,      \* install --locked: the lock that was read
  left,      \* install --locked: the packages not verified yet
  settled,   \* since the lock was last written nobody has edited the manifest
             \* by hand and no command that changes it was killed
  stocked    \* install, with or without --locked, has succeeded for this lock
             \* since the cache was last cleared

command == <<pc, original, wanted, stack, selected, held, left>>
history == <<settled, stocked>>
vars == <<cacheVars, manifest, crlf, lock, command, history>>

Places == {"idle", "update", "start", "resolve", "restore", "populate",
           "build", "build_bare", "relock"}

TypeOK ==
  /\ CacheTypeOK
  /\ manifest \in Dependencies
  /\ crlf \in BOOLEAN
  /\ lock \in Lock \cup {None}
  /\ pc \in [Procs -> Places]
  /\ original \in [Procs -> Dependencies \cup {None}]
  /\ wanted \in [Procs -> Dependencies \cup {None}]
  /\ stack \in [Procs -> Seq(Frame)]
  /\ selected \in [Procs -> Packages]
  /\ held \in [Procs -> Lock \cup {None}]
  /\ left \in [Procs -> SUBSET Aliases]
  /\ settled \in BOOLEAN
  /\ stocked \in BOOLEAN

Top(p) == stack[p][Len(stack[p])]
Resolving(p) == pc[p] = "resolve" /\ install[p].stage = "none"

\* A process that works from what it has read of the manifest.
Relies(p) == pc[p] \in {"update", "start", "resolve", "restore", "build_bare", "relock"}
Changes(p) == original[p] # None

\* p may start to change the manifest; p may start to rely on it.
MayChange(p) == "two_changes" \in Shapes \/ \A q \in Procs \ {p} : ~Relies(q)
MayRely(p) == "two_changes" \in Shapes \/ \A q \in Procs \ {p} : ~Changes(q)

\* The command of p is over, and all it knew is forgotten.
End(p) ==
  /\ pc' = [pc EXCEPT ![p] = "idle"]
  /\ original' = [original EXCEPT ![p] = None]
  /\ wanted' = [wanted EXCEPT ![p] = None]
  /\ stack' = [stack EXCEPT ![p] = <<>>]
  /\ selected' = [selected EXCEPT ![p] = NoPackages]
  /\ held' = [held EXCEPT ![p] = None]
  /\ left' = [left EXCEPT ![p] = {}]
  /\ install' = [install EXCEPT ![p] = NoInstall]
  /\ UNCHANGED <<content, cache>>

-----------------------------------------------------------------------------
(* add, remove, install *)

\* add_dependency_spec and remove_dependency (s = None) read the manifest, with
\* all line endings turned into LF ...
Change(p, a, s) ==
  /\ pc[p] = "idle"
  /\ MayChange(p)
  /\ s = None => manifest[a] # None
  /\ original' = [original EXCEPT ![p] = manifest]
  /\ wanted' = [wanted EXCEPT ![p] = [manifest EXCEPT ![a] = s]]
  /\ pc' = [pc EXCEPT ![p] = "update"]
  /\ UNCHANGED <<cacheVars, manifest, crlf, lock, stack, selected, held, left, history>>

\* ... and write it, with LF (update_manifest_dependencies).
Update(p) ==
  /\ pc[p] = "update"
  /\ manifest' = wanted[p]
  /\ crlf' = FALSE
  /\ pc' = [pc EXCEPT ![p] = "start"]
  /\ UNCHANGED <<cacheVars, lock, original, wanted, stack, selected, held, left, history>>

\* install_project without --locked
BeginInstall(p) ==
  /\ pc[p] = "idle"
  /\ MayRely(p)
  /\ pc' = [pc EXCEPT ![p] = "start"]
  /\ UNCHANGED <<cacheVars, manifest, crlf, lock, original, wanted, stack, selected, held, left, history>>

\* Faulty variant: add and remove resolve the manifest they read first.
StartFromOriginal(p) ==
  /\ pc[p] = "start"
  /\ stack' = [stack EXCEPT ![p] =
       <<VisitRoot(IF Changes(p) THEN original[p] ELSE manifest)>>]
  /\ pc' = [pc EXCEPT ![p] = "resolve"]
  /\ UNCHANGED <<cacheVars, manifest, crlf, lock, original, wanted, selected, held, left, history>>

\* resolve_dependencies loads the manifest, after an add or remove again.
Start(p) ==
  /\ pc[p] = "start"
  /\ stack' = [stack EXCEPT ![p] = <<VisitRoot(manifest)>>]
  /\ pc' = [pc EXCEPT ![p] = "resolve"]
  /\ UNCHANGED <<cacheVars, manifest, crlf, lock, original, wanted, selected, held, left, history>>

\* Faulty variant: an alias that is done with may name another source.
VisitNextAnySource(p, a) ==
  /\ Resolving(p)
  /\ a \in Top(p).left
  /\ \A i \in DOMAIN stack[p] : stack[p][i].alias # a
  /\ LET s == Top(p).deps[a]
         rest == [stack[p] EXCEPT ![Len(stack[p])] = TickOff(@, a)]
     IN /\ stack' = [stack EXCEPT ![p] =
             IF selected[p][a] # None THEN rest ELSE Append(rest, VisitPackage(a, s, content[s]))]
  /\ UNCHANGED <<cacheVars, manifest, crlf, lock, pc, original, wanted, selected, held, left, history>>

\* visit: a cycle, a missing manifest and a second source for an alias are
\* errors (Fail); a package that is done with is not visited again.
VisitNext(p, a) ==
  /\ Resolving(p)
  /\ a \in Top(p).left
  /\ \A i \in DOMAIN stack[p] : stack[p][i].alias # a
  /\ LET s == Top(p).deps[a]
         rest == [stack[p] EXCEPT ![Len(stack[p])] = TickOff(@, a)]
     IN /\ selected[p][a] # None => selected[p][a].source = s
        /\ stack' = [stack EXCEPT ![p] =
             IF selected[p][a] # None THEN rest ELSE Append(rest, VisitPackage(a, s, content[s]))]
  /\ UNCHANGED <<cacheVars, manifest, crlf, lock, pc, original, wanted, selected, held, left, history>>

\* The dependencies of a package are done with: it is hashed and cached.
HashPackage(p) ==
  /\ Resolving(p)
  /\ Len(stack[p]) > 1
  /\ Top(p).left = {}
  /\ Ensure(p, Top(p).source, Digest(content[Top(p).source]))
  /\ UNCHANGED <<content, cache, manifest, crlf, lock, command, history>>

\* Faulty variant: the package is not put in the cache.
SelectUncached(p) ==
  /\ Resolving(p)
  /\ Len(stack[p]) > 1
  /\ Top(p).left = {}
  /\ selected' = [selected EXCEPT ![p][Top(p).alias] =
       [source |-> Top(p).source, id |-> Top(p).id,
        digest |-> Digest(content[Top(p).source]), deps |-> Listed(Top(p).deps)]]
  /\ stack' = [stack EXCEPT ![p] = SubSeq(@, 1, Len(@) - 1)]
  /\ UNCHANGED <<cacheVars, manifest, crlf, lock, pc, original, wanted, held, left, history>>

\* It is in the cache.
Select(p) ==
  /\ pc[p] = "resolve"
  /\ install[p].stage = "done"
  /\ selected' = [selected EXCEPT ![p][Top(p).alias] =
       [source |-> Top(p).source, id |-> Top(p).id,
        digest |-> install[p].digest, deps |-> Listed(Top(p).deps)]]
  /\ stack' = [stack EXCEPT ![p] = SubSeq(@, 1, Len(@) - 1)]
  /\ install' = [install EXCEPT ![p] = NoInstall]
  /\ UNCHANGED <<content, cache, manifest, crlf, lock, pc, original, wanted, held, left, history>>

\* write_lock loads and hashes the manifest once more.
WriteLock(p) ==
  /\ Resolving(p)
  /\ Len(stack[p]) = 1
  /\ Top(p).left = {}
  /\ lock' = [manifest |-> manifest, crlf |-> crlf, packages |-> selected[p]]
  /\ settled' = TRUE
  /\ stocked' = TRUE
  /\ End(p)
  /\ UNCHANGED <<manifest, crlf>>

\* The command fails: one of the errors above, of the cache or of git, a limit,
\* an incompatible compiler.  add and remove handle it.
Fail(p) ==
  /\ pc[p] \in {"start", "resolve"}
  /\ IF Changes(p)
     THEN /\ pc' = [pc EXCEPT ![p] = "restore"]
          /\ stack' = [stack EXCEPT ![p] = <<>>]
          /\ selected' = [selected EXCEPT ![p] = NoPackages]
          /\ install' = [install EXCEPT ![p] = NoInstall]
          /\ UNCHANGED <<content, cache, original, wanted, held, left>>
     ELSE End(p)
  /\ UNCHANGED <<manifest, crlf, lock, history>>

\* Faulty variant: the failed command leaves the manifest as it is.
RestoreNothing(p) ==
  /\ pc[p] = "restore"
  /\ End(p)
  /\ UNCHANGED <<manifest, crlf, lock, history>>

\* The text that was found is written back, with LF.
Restore(p) ==
  /\ pc[p] = "restore"
  /\ manifest' = original[p]
  /\ crlf' = FALSE
  /\ End(p)
  /\ UNCHANGED <<lock, history>>

-----------------------------------------------------------------------------
(* install --locked, build, check *)

\* read_lock: every dependency named in the lock has a record in it.
Complete(l) ==
  /\ Listed(l.manifest) \subseteq Listed(l.packages)
  /\ \A a \in Listed(l.packages) : l.packages[a].deps \subseteq Listed(l.packages)

\* The cached package is the one in the lock, and its manifest, which is loaded
\* again, has the name, version and dependencies there (_validate_locked_manifest).
Verified(r) ==
  /\ cache[r.digest] # None
  /\ Digest(cache[r.digest]) = r.digest
  /\ Identity[cache[r.digest]] = r.id
  /\ Listed(Requires[cache[r.digest]]) = r.deps

\* validate_lock, what it asks of the lock and the manifest
Current ==
  lock # None /\ lock.manifest = manifest /\ lock.crlf = crlf /\ Complete(lock)

\* validate_lock with populate_cache
BeginLocked(p) ==
  /\ pc[p] = "idle"
  /\ Current
  /\ held' = [held EXCEPT ![p] = lock]
  /\ left' = [left EXCEPT ![p] = Listed(lock.packages)]
  /\ pc' = [pc EXCEPT ![p] = "populate"]
  /\ UNCHANGED <<cacheVars, manifest, crlf, lock, original, wanted, stack, selected, history>>

\* _populate_locked_package: a package that is not in the cache is cached
\* again if its source still has the content that was locked.
Populate(p, a) ==
  LET r == held[p].packages[a] IN
  /\ pc[p] = "populate"
  /\ install[p].stage = "none"
  /\ a \in left[p]
  /\ \/ /\ Verified(r)
        /\ left' = [left EXCEPT ![p] = @ \ {a}]
        /\ UNCHANGED install
     \/ /\ cache[r.digest] = None
        /\ Digest(content[r.source]) = r.digest
        /\ Ensure(p, r.source, r.digest)
        /\ UNCHANGED left
  /\ UNCHANGED <<content, cache, manifest, crlf, lock, pc, original, wanted, stack, selected, held, history>>

Populated(p) ==
  /\ pc[p] = "populate"
  /\ install[p].stage = "done"
  /\ install' = [install EXCEPT ![p] = NoInstall]
  /\ UNCHANGED <<content, cache, manifest, crlf, lock, command, history>>

\* Every package is there.
EndLocked(p) ==
  /\ pc[p] = "populate"
  /\ left[p] = {}
  /\ stocked' = (stocked \/ held[p] = lock)
  /\ End(p)
  /\ UNCHANGED <<manifest, crlf, lock, settled>>

\* A package can neither be found in the cache nor be had again.
Refuse(p) ==
  /\ pc[p] = "populate"
  /\ End(p)
  /\ UNCHANGED <<manifest, crlf, lock, history>>

\* build and check load the manifest first (ArtifactBuilder).
BeginBuild(p) ==
  /\ pc[p] = "idle"
  /\ Listed(manifest) = {} => MayRely(p)
  /\ pc' = [pc EXCEPT ![p] = IF Listed(manifest) = {} THEN "build_bare" ELSE "build"]
  /\ UNCHANGED <<cacheVars, manifest, crlf, lock, original, wanted, stack, selected, held, left, history>>

Accepted == Current /\ \A a \in Listed(lock.packages) : Verified(lock.packages[a])

\* _ensure_lock: a lock that is not accepted stops the build, unless the
\* project has no dependencies.
EnsureLock(p) ==
  /\ pc[p] \in {"build", "build_bare"}
  /\ IF pc[p] = "build_bare" /\ ~Accepted
     THEN /\ pc' = [pc EXCEPT ![p] = "relock"]
          /\ UNCHANGED <<cacheVars, original, wanted, stack, selected, held, left>>
     ELSE End(p)
  /\ UNCHANGED <<manifest, crlf, lock, history>>

\* write_lock(root, ()) of a project that had no dependencies
Relock(p) ==
  /\ pc[p] = "relock"
  /\ lock' = [manifest |-> manifest, crlf |-> crlf, packages |-> NoPackages]
  /\ settled' = TRUE
  /\ stocked' = TRUE
  /\ End(p)
  /\ UNCHANGED <<manifest, crlf>>

-----------------------------------------------------------------------------
(* The rest of the world *)

\* A process is killed.
Crash(p) ==
  /\ pc[p] # "idle"
  /\ settled' = (settled /\ ~Changes(p))
  /\ End(p)
  /\ UNCHANGED <<manifest, crlf, lock, stocked>>

\* The user edits the manifest, or its line endings.
EditManifest(deps, windows) ==
  /\ "edit_manifest" \in Shapes \/ \A q \in Procs : ~Relies(q)
  /\ <<deps, windows>> # <<manifest, crlf>>
  /\ manifest' = deps
  /\ crlf' = windows
  /\ settled' = FALSE
  /\ UNCHANGED stocked
  /\ UNCHANGED <<cacheVars, lock, command>>

\* The packages whose manifest p has read and whose files it has not hashed.
Unhashed(p) ==
  {stack[p][i] : i \in {j \in DOMAIN stack[p] :
      j > 1 /\ (j = Len(stack[p]) => install[p].stage = "none")}}

EditPackage(s, c) ==
  /\ "edit_package" \in Shapes
     \/ \A p \in Procs : \A f \in Unhashed(p) : f.source = s => ReadFrom(f, c)
  /\ EditSource(s, c)
  /\ UNCHANGED <<manifest, crlf, lock, command, history>>

\* Not while a command is filling the cache.
Clear ==
  /\ \A p \in Procs : pc[p] \notin {"resolve", "populate"}
  /\ ClearCache
  /\ stocked' = FALSE
  /\ UNCHANGED <<manifest, crlf, lock, command, settled>>

CacheAction(p) ==
  /\ CacheStep(p)
  /\ UNCHANGED <<manifest, crlf, lock, command, history>>

-----------------------------------------------------------------------------

Init ==
  /\ CacheInit
  /\ manifest = [a \in Aliases |-> None]
  /\ crlf = FALSE
  /\ lock = None
  /\ pc = [p \in Procs |-> "idle"]
  /\ original = [p \in Procs |-> None]
  /\ wanted = [p \in Procs |-> None]
  /\ stack = [p \in Procs |-> <<>>]
  /\ selected = [p \in Procs |-> NoPackages]
  /\ held = [p \in Procs |-> None]
  /\ left = [p \in Procs |-> {}]
  /\ settled = FALSE
  /\ stocked = FALSE

Resolve(p) ==
  \/ \E a \in Aliases, s \in Sources \cup {None} : Change(p, a, s)
  \/ Update(p)
  \/ BeginInstall(p)
  \/ Start(p)
  \/ \E a \in Aliases : VisitNext(p, a)
  \/ HashPackage(p)
  \/ Select(p)
  \/ WriteLock(p)
  \/ Fail(p)
  \/ Restore(p)

Check(p) ==
  \/ BeginLocked(p)
  \/ \E a \in Aliases : Populate(p, a)
  \/ Populated(p)
  \/ EndLocked(p)
  \/ Refuse(p)
  \/ BeginBuild(p)
  \/ EnsureLock(p)
  \/ Relock(p)

Next ==
  \/ \E p \in Procs : Resolve(p) \/ Check(p) \/ CacheAction(p) \/ Crash(p)
  \/ \E deps \in Dependencies, windows \in BOOLEAN : EditManifest(deps, windows)
  \/ \E s \in Sources, c \in Contents : EditPackage(s, c)
  \/ Clear

Spec == Init /\ [][Next]_vars

-----------------------------------------------------------------------------
(* Properties *)

\* Once an install has succeeded every package in the lock is in the cache,
\* with the content, name, version and dependencies that were locked: a build
\* whose manifest still is the locked one is not refused.
LockUsable ==
  lock # None =>
    /\ Complete(lock)
    /\ stocked => \A a \in Listed(lock.packages) : Verified(lock.packages[a])

\* A lock that build and check take for current ("Build/check refuse missing,
\* stale, or digest-mismatched locked packages", src/docs/package_manager.md)
\* has every dependency in the manifest from the source that the manifest names.
LockMatches ==
  Current => \A a \in Listed(manifest) : lock.packages[a].source = manifest[a]

\* The same one level down: the packages in a lock are the ones that the
\* manifests inside the locked packages ask for.
LockClosed ==
  lock # None => \A a \in Listed(lock.packages) :
    LET asked == Requires[lock.packages[a].digest]
    IN \A b \in Listed(asked) : lock.packages[b] # None /\ lock.packages[b].source = asked[b]

\* As long as nobody edits the manifest by hand, no add or remove is killed, and
\* none runs beside another command that has read the manifest, the lock names
\* between commands what the manifest does: a failed add or remove undoes what it
\* did.  The lock stays current, except that what is put back has lost its CR.
LockSettled ==
  settled /\ (\A p \in Procs : ~Changes(p)) =>
    lock.manifest = manifest /\ (lock.crlf \/ lock.crlf = crlf)
=============================================================================
