---------------------------- MODULE PackageCache ----------------------------
(***************************************************************************)
(* The content-addressed package cache of                                  *)
(* src/zyenlang/compiler/package_manager.py (ensure_cached): directories   *)
(* named by the digest of what they hold, filled by several processes from *)
(* sources that may change while they are read.  One pass over the files   *)
(* of a directory is one step.                                             *)
(***************************************************************************)

CONSTANTS
  Procs,     \* processes that run `zy`
  Sources,   \* package sources: directories, and commits of repositories
  Contents,  \* contents of packages; SHA-256 tells any two of them apart
  Versions,  \* Versions[s]: the contents that source s has over time
  None       \* a directory that is not there

ASSUME NoContentAssumption == None \notin Contents /\ None \notin Sources
ASSUME VersionsAssumption == Versions \in [Sources -> (SUBSET Contents) \ {{}}]

VARIABLES
  content,  \* content[s]: what source s holds now
  cache,    \* cache[d]: what the directory named d holds
  install   \* install[p]: the call of ensure_cached that p is in

cacheVars == <<content, cache, install>>

\* compute_package_digest: a content is named by its digest.
Digest(c) == c

Stages == {"none", "check", "copy", "verify", "rename", "done", "failed"}
Install == [stage : Stages, source : Sources \cup {None},
            digest : Contents \cup {None}, copy : Contents \cup {None}]
NoInstall == [stage |-> "none", source |-> None, digest |-> None, copy |-> None]

CacheTypeOK ==
  /\ content \in [Sources -> Contents]
  /\ cache \in [Contents -> Contents \cup {None}]
  /\ install \in [Procs -> Install]

CacheInit ==
  /\ content \in [Sources -> Contents]
  /\ \A s \in Sources : content[s] \in Versions[s]
  /\ cache = [d \in Contents |-> None]
  /\ install = [p \in Procs |-> NoInstall]

\* ensure_cached(s, d) is called.
Ensure(p, s, d) ==
  install' = [install EXCEPT ![p] =
    [stage |-> "check", source |-> s, digest |-> d, copy |-> None]]

Goto(p, stage) == install' = [install EXCEPT ![p].stage = stage]

\* The directory is there: it is verified and used.
CheckCache(p) ==
  LET d == install[p].digest IN
  /\ install[p].stage = "check"
  /\ Goto(p, IF cache[d] = None THEN "copy" ELSE IF Digest(cache[d]) = d THEN "done" ELSE "failed")
  /\ UNCHANGED <<content, cache>>

\* The files of the source go to a temporary directory, which no other process
\* looks at.
CopyFiles(p) ==
  /\ install[p].stage = "copy"
  /\ install' = [install EXCEPT ![p].copy = content[install[p].source], ![p].stage = "verify"]
  /\ UNCHANGED <<content, cache>>

\* Faulty variant: the copy is taken to be what was hashed before.
VerifyNothing(p) ==
  /\ install[p].stage = "verify"
  /\ Goto(p, "rename")
  /\ UNCHANGED <<content, cache>>

\* "package changed while it was being cached"
Verify(p) ==
  /\ install[p].stage = "verify"
  /\ Goto(p, IF Digest(install[p].copy) = install[p].digest THEN "rename" ELSE "failed")
  /\ UNCHANGED <<content, cache>>

\* The temporary directory is renamed.  Where another process has put one in
\* the meantime the system refuses: with EEXIST, which the code answers by
\* verifying that one, or with ENOTEMPTY (Linux), which it does not expect.
Rename(p) ==
  LET d == install[p].digest IN
  /\ install[p].stage = "rename"
  /\ \/ /\ cache[d] = None
        /\ cache' = [cache EXCEPT ![d] = install[p].copy]
        /\ Goto(p, "done")
     \/ /\ cache[d] # None
        /\ \/ Goto(p, "failed")
           \/ Digest(cache[d]) = d /\ Goto(p, "done")
        /\ UNCHANGED cache
  /\ UNCHANGED content

CacheStep(p) == CheckCache(p) \/ CopyFiles(p) \/ Verify(p) \/ Rename(p)

\* Somebody works on the package in source s.
EditSource(s, c) ==
  /\ c \in Versions[s] \ {content[s]}
  /\ content' = [content EXCEPT ![s] = c]
  /\ UNCHANGED <<cache, install>>

\* The cache is removed, or the project goes on at another machine.
ClearCache ==
  /\ \A p \in Procs : install[p].stage = "none"
  /\ cache' = [d \in Contents |-> None]
  /\ UNCHANGED <<content, install>>

-----------------------------------------------------------------------------

\* A cached directory holds what its name says, whatever happened to the
\* source while it was copied, whoever else was installing it, and wherever a
\* process was killed.
CacheSound == \A d \in Contents : cache[d] # None => Digest(cache[d]) = d
=============================================================================
