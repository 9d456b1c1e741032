------------------------------- MODULE Loader -------------------------------
(***************************************************************************)
(* The module loader (modules.py, class ModuleLoader): the depth-first     *)
(* walk over the imports of a program, the rules by which an import finds  *)
(* its file, the safety limits, and the definitions the walk delivers,     *)
(* with those it generates for native modules.  semantic.py's              *)
(* collect_struct_names is the consumer of those definitions.              *)
(***************************************************************************)
EXTENDS Naturals, Sequences, FiniteSets

CONSTANTS Files,          \* the source files
          Root,           \* the file the compiler is started on
          Owner,          \* Owner[f]: the project, the standard library or a package
          Project,        \* the owner that is the root project
          Std,            \* the owner that is the standard library
          Aliases,        \* names an import may be given
          Programs,       \* the sets of files that are loaded, see Program
          MaxDepth,       \* MAX_MODULE_DEPTH
          MaxExpansions,  \* MAX_MODULE_EXPANSIONS
          MaxUnique,      \* MAX_UNIQUE_MODULES
          Shapes          \* situations that may occur:
                          \*   crate_import  a package imports through crate::
                          \*   diamond       a native module with a struct is reached twice

Owners == {Owner[f] : f \in Files}
Import == [alias : Aliases, via : {"std", "crate", "package"}, target : Files]

\* A program: the imports of each file, the dependencies each owner declares
\* (the packages of zy.lock), the files that exist, and what each file has of
\* a template: a native module (ABI 3), a legacy c_module::load, or nothing.
Program == [imports : [Files -> Seq(Import)], declares : [Owners -> SUBSET Owners],
            exists : SUBSET Files, native : [Files -> {"none", "module", "legacy"}]]

ASSUME FilesAssumption == /\ Root \in Files
                          /\ Owner \in [Files -> Owners]
                          /\ Owner[Root] = Project
                          /\ IsFiniteSet(Files)
                          /\ Programs \subseteq Program
                          /\ \A p \in Programs : Root \in p.exists
ASSUME LimitsAssumption == {MaxDepth, MaxExpansions, MaxUnique} \subseteq Nat

VARIABLES program,     \* the files as they are on disk
          stack,       \* the calls of load_namespaced in progress, the outermost first
          expansions,  \* _module_expansions
          unique,      \* _unique_modules
          emitted,     \* c_module_emitted: files of whose template the hidden names are out
          defs,        \* the definitions delivered so far
          verdict      \* "loading", "loaded", or the error the loader raised

loadVars == <<program, stack, expansions, unique, emitted, defs, verdict>>

Top == stack[Len(stack)]
OnStack(f) == \E i \in 1..Len(stack) : stack[i].file = f

-----------------------------------------------------------------------------
(* The import graph, as the reference for the walk *)

Targets(p, f) == {p.imports[f][i].target : i \in 1..Len(p.imports[f])}
Ways(p, from) == {<<Append(from[1], p.imports[from[2]][i].alias), p.imports[from[2]][i].target>> :
                      i \in 1..Len(p.imports[from[2]])}

\* The import paths from the root of up to n imports, as pairs of a namespace and
\* a file.  In a graph with a cycle the paths of Everything go round once.
Further(p, paths) == paths \cup UNION {Ways(p, from) : from \in paths}
Paths(p) ==
    LET path[n \in 0..Cardinality(Files)] ==
            IF n = 0 THEN {<<<<>>, Root>>} ELSE Further(p, path[n - 1])
    IN path
Everything(p) == Paths(p)[Cardinality(Files)]

Reachable(p) == {path[2] : path \in Everything(p)}

\* The files below f, which is one of them when it imports itself by some path.
Lower(p, fs) == fs \cup UNION {Targets(p, g) : g \in fs}
Levels(p, f) ==
    LET below[n \in 0..Cardinality(Files)] ==
            IF n = 0 THEN Targets(p, f) ELSE Lower(p, below[n - 1])
    IN below
Below(p, f) == Levels(p, f)[Cardinality(Files)]

Cyclic(p) == \E f \in Reachable(p) : f \in Below(p, f)

\* The shapes of a program.
Situations(p) ==
    {sh \in {"crate_import", "diamond"} :
       \/ /\ sh = "crate_import"
          /\ \E f \in Files : /\ Owner[f] # Project
                             /\ \E i \in 1..Len(p.imports[f]) : p.imports[f][i].via = "crate"
       \/ /\ sh = "diamond"
          /\ \E f \in Files : /\ p.native[f] = "module"
                             /\ Cardinality({path \in Everything(p) : path[2] = f}) > 1}

-----------------------------------------------------------------------------
(* Finding the file of an import *)

\* A std:: path stays below the std root, a crate:: path below the source root
\* of the project the compiler was started in, whoever the importer is; a
\* package path needs the package to be a declared dependency of the owner of
\* the importing file.
Allowed(p, f, item) ==
    LET owner == Owner[item.target] IN
    CASE item.via = "std"     -> owner = Std
      [] item.via = "crate"   -> owner = Project
      [] item.via = "package" -> owner \in p.declares[Owner[f]] \ {Std, Project}

\* The import aliases before the i-th of a file.
Seen(p, f, i) == {p.imports[f][j].alias : j \in 1..(i - 1)}

-----------------------------------------------------------------------------
(* The definitions of one module *)

\* c_module_emitted after a file is expanded.
Emits(f) == IF program.native[f] = "legacy" THEN emitted \cup {f} ELSE emitted

\* A native module's definitions are made for every namespace it is loaded
\* under.  Its first struct stands for them: handles, enums, constants and
\* functions get their names in the same way.
NativeModule(f, ns) == <<[kind |-> "struct", file |-> f, ns |-> ns]>>

\* Faulty variant: a template counts as given before it is.
HiddenMarked(f) == IF f \in Emits(f) THEN <<>> ELSE <<[kind |-> "struct", file |-> f, ns |-> <<>>]>>

\* A legacy template's definitions have hidden global names and are made once.
Hidden(f) == IF f \in emitted THEN <<>> ELSE <<[kind |-> "struct", file |-> f, ns |-> <<>>]>>

\* What expand_c_modules generates for a file loaded under namespace ns.
Generated(f, ns, p) ==
    CASE p.native[f] = "none"   -> <<>>
      [] p.native[f] = "module" -> NativeModule(f, ns)
      [] p.native[f] = "legacy" -> Hidden(f)

\* A call of load_namespaced that has read its file.  The generated definitions
\* are made now; they are delivered behind those of the imports.
Frame(f, ns, p) == [file |-> f, ns |-> ns, next |-> 1, generated |-> Generated(f, ns, p)]

\* Faulty variant of the order: a module's own definitions are delivered before
\* those of the modules it imports.
OwnFirst(frame, found) ==
    frame.generated \o <<[kind |-> "module", file |-> frame.file, ns |-> frame.ns]>> \o found

\* The definitions after a module is done.
Deliver(frame, found) ==
    found \o frame.generated \o <<[kind |-> "module", file |-> frame.file, ns |-> frame.ns]>>

-----------------------------------------------------------------------------
(* The walk *)

LoadInit ==
    /\ program \in Programs
    /\ Situations(program) \subseteq Shapes
    /\ emitted = IF program.native[Root] = "legacy" THEN {Root} ELSE {}
    /\ stack = <<[file |-> Root, ns |-> <<>>, next |-> 1,
                  generated |-> IF program.native[Root] = "none" THEN <<>>
                                ELSE <<[kind |-> "struct", file |-> Root, ns |-> <<>>]>>]>>
    /\ expansions = 1
    /\ unique = {Root}
    /\ defs = <<>>
    /\ verdict = "loading"

Refuse(why) ==
    /\ verdict' = why
    /\ UNCHANGED <<program, stack, expansions, unique, emitted, defs>>

\* Faulty variant: a file that was loaded before, by whatever path, is a cycle.
BadImportVisited(item) ==
    CASE item.alias \in Seen(program, Top.file, Top.next) -> "alias"
      [] ~Allowed(program, Top.file, item)                -> "undeclared"
      [] item.target \in unique                           -> "cycle"
      [] OTHER                                            -> "none"

\* The checks of an import at its place in the text, in the code's order.
BadImport(item) ==
    CASE item.alias \in Seen(program, Top.file, Top.next) -> "alias"
      [] ~Allowed(program, Top.file, item)                -> "undeclared"
      [] OnStack(item.target)                             -> "cycle"
      [] OTHER                                            -> "none"

\* _account_module and read: the limits, then the file.
BadModule(f) ==
    CASE Len(stack) > MaxDepth                        -> "depth"
      [] expansions + 1 > MaxExpansions               -> "expansions"
      [] Cardinality(unique \cup {f}) > MaxUnique     -> "unique"
      [] f \notin program.exists                      -> "missing"
      [] OTHER                                        -> "none"

\* The next import of the module on top is refused.
RefuseImport ==
    /\ verdict = "loading"
    /\ Top.next <= Len(program.imports[Top.file])
    /\ LET item == program.imports[Top.file][Top.next] IN
         \/ BadImport(item) # "none" /\ Refuse(BadImport(item))
         \/ BadImport(item) = "none" /\ BadModule(item.target) # "none"
            /\ Refuse(BadModule(item.target))

\* The next import is loaded: load_namespaced is called for its file.
Descend ==
    /\ verdict = "loading"
    /\ Top.next <= Len(program.imports[Top.file])
    /\ LET item == program.imports[Top.file][Top.next]
           ns == Append(Top.ns, item.alias) IN
         /\ BadImport(item) = "none"
         /\ BadModule(item.target) = "none"
         /\ stack' = Append([stack EXCEPT ![Len(stack)].next = @ + 1],
                            Frame(item.target, ns, program))
         /\ expansions' = expansions + 1
         /\ unique' = unique \cup {item.target}
         /\ emitted' = Emits(item.target)
    /\ UNCHANGED <<program, defs, verdict>>

\* All imports of a module are in: its own definitions follow theirs.
Return ==
    /\ verdict = "loading"
    /\ Len(stack) > 1
    /\ Top.next > Len(program.imports[Top.file])
    /\ defs' = Deliver(Top, defs)
    /\ stack' = SubSeq(stack, 1, Len(stack) - 1)
    /\ UNCHANGED <<program, expansions, unique, emitted, verdict>>

\* Two struct definitions of one C struct under different names.
Conflict(ds) ==
    \E i, j \in 1..Len(ds) : /\ ds[i].kind = "struct" /\ ds[j].kind = "struct"
                             /\ ds[i].file = ds[j].file /\ ds[i].ns # ds[j].ns

\* One name is defined twice.
Repeated(ds) == \E i, j \in 1..Len(ds) : i # j /\ ds[i] = ds[j]

\* The root is done, and the semantic phase collects the types.
FinishLoad ==
    /\ verdict = "loading"
    /\ Len(stack) = 1
    /\ Top.next > Len(program.imports[Root])
    /\ LET all == Deliver(Top, defs) IN
         /\ defs' = all
         /\ verdict' = IF Repeated(all) \/ Conflict(all) THEN "duplicate" ELSE "loaded"
    /\ UNCHANGED <<program, stack, expansions, unique, emitted>>

LoadNext == RefuseImport \/ Descend \/ Return \/ FinishLoad

LoadSpec == LoadInit /\ [][LoadNext]_loadVars

-----------------------------------------------------------------------------
(* Properties *)

Verdicts == {"loading", "loaded", "alias", "undeclared", "cycle", "depth", "expansions",
             "unique", "missing", "duplicate"}

\* The variables have their types, and the limits hold of what was loaded
\* (_account_module is called before every read).
LoadTypeOK ==
    /\ program \in Programs
    /\ \A i \in 1..Len(stack) : /\ stack[i].file \in Files
                                /\ stack[i].next \in 1..(Len(program.imports[stack[i].file]) + 1)
    /\ Len(stack) \in 1..(MaxDepth + 1)
    /\ expansions <= MaxExpansions \/ expansions = 1
    /\ Cardinality(unique) <= MaxUnique \/ unique = {Root}
    /\ emitted \subseteq unique
    /\ verdict \in Verdicts

\* A program the loader accepts has no import cycle, keeps within the limits,
\* imports only what exists and what its owner declares, and gives no alias
\* twice in a file (load, load_namespaced, resolve_package).
AcceptedIsSound ==
    verdict = "loaded" =>
        /\ ~Cyclic(program)
        /\ Cardinality(Everything(program)) <= MaxExpansions \/ Everything(program) = {<<<<>>, Root>>}
        /\ Cardinality(Reachable(program)) <= MaxUnique \/ Reachable(program) = {Root}
        /\ \A path \in Everything(program) : Len(path[1]) <= MaxDepth
        /\ Reachable(program) \subseteq program.exists
        /\ \A f \in Reachable(program) : \A i, j \in 1..Len(program.imports[f]) :
               /\ i # j => program.imports[f][i].alias # program.imports[f][j].alias
               /\ LET target == Owner[program.imports[f][i].target] IN
                  target \in program.declares[Owner[f]] \cup {Owner[f], Std, Project}

\* A refusal names a fault the program has: no acyclic program is refused for
\* a cycle, none within the limits for a limit.
RefusedIsFaulty ==
    /\ verdict = "cycle" => Cyclic(program)
    /\ verdict = "depth" => \E path \in Everything(program) : Len(path[1]) > MaxDepth
    /\ verdict = "expansions" => Cyclic(program) \/ Cardinality(Everything(program)) > MaxExpansions
    /\ verdict = "unique" => Cardinality(Reachable(program)) > MaxUnique
    /\ verdict = "missing" => ~(Reachable(program) \subseteq program.exists)
    /\ verdict = "duplicate" => "diamond" \in Shapes

\* The loader's verdict says what the program is, and the limits hold of all that
\* was loaded on the way to it.
VerdictRight == LoadTypeOK /\ AcceptedIsSound /\ RefusedIsFaulty

\* The definitions of an accepted program are those of every import path, once
\* each under the namespace of the path, a module behind all it imports, the
\* root last (the order in which load and load_namespaced extend their lists).
PathsDelivered ==
    LET modules == {i \in DOMAIN defs : defs[i].kind = "module"}
    IN verdict = "loaded" =>
        /\ {<<defs[i].ns, defs[i].file>> : i \in modules} = Everything(program)
        /\ Cardinality(modules) = Cardinality(Everything(program))
        /\ \A i, j \in modules :
               /\ Len(defs[i].ns) > Len(defs[j].ns)
               /\ SubSeq(defs[i].ns, 1, Len(defs[j].ns)) = defs[j].ns
               => i < j

\* Every module that uses a template finds the template's struct among the
\* definitions: a native module under its own namespace, a legacy load under
\* the hidden name, which is there once however often the file is loaded.
StructsThere ==
    verdict = "loaded" =>
        \A path \in Everything(program) :
            LET f == path[2]
                mine == {i \in 1..Len(defs) : defs[i].kind = "struct" /\ defs[i].file = f} IN
            /\ program.native[f] = "module" => \E i \in mine : defs[i].ns = path[1]
            /\ program.native[f] = "legacy" => Cardinality(mine) = 1
=============================================================================
