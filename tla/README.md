# ZyenLang in TLA+

ZyenLang (`src/`) is a statically typed language with value semantics, ARC-managed
classes, strings and lists, checked references, linear tasks, and a C11 back end. The
repository holds a compiler in Python, a C runtime, a standard library in ZyenLang with
C natives, a package manager, a version switcher and an editor extension. This directory
holds TLA+ models of the parts whose correctness depends on state that evolves over many
steps, TLC configurations that check them on small instances, and TLAPS proofs of the
properties that matter most.

## 1. Inventory

| component | source | state it keeps | operations | interacts with |
|---|---|---|---|---|
| borrow checker | `compiler/semantic.py` (class `Lowerer`: `borrow_scopes`, `reference_loan_scopes`, `protected_borrow_names`) | loans, reference bindings, names still in use, one set per open block | borrow, copy, use, assign, drop, defer, open and close a block | called for every statement by `lower_block`; trusts `name_uses` for liveness |
| lifetime checker | `compiler/semantic.py` (`dropped_scopes`, `task_scopes`, `loop_depth`, `catch_result_types`) | dropped locals, unconsumed tasks | `drop_local`, `lower_assignment`, `consume_task`, `validate_current_task_scope` | its verdict decides which cleanup the back end emits |
| cleanup generation | `compiler/backends/c.py` (`emit_block`, `emit_statement`, `capture_defer`, `cleanup_lines`) | managed locals, deferred calls per scope, loop and catch targets | scope exit, `return`, `break`, `continue`, `stop`, `recover`, `DROP__`, `defer` | emits calls of the runtime |
| ARC and handles | `runtime/zy2_runtime.h`, `runtime/zyenlang_c_abi.h` | reference counts, payload pointers, handle owners, live-control counter | new, retain, release, adopt, borrow, borrow_from, take | generated code, native adapters, several threads |
| tasks | `runtime/zy2_runtime.h` (task section) | thread, state, result | spawn, await and destroy | lifetime checker makes tasks linear |
| module graph | `compiler/modules.py` | import stack, counters of the limits, definitions delivered; the set of shadowed names while renaming | load, resolve, detect cycles, rename | front end, package manager |
| package cache | `compiler/package_manager.py` (`ensure_cached`, `checkout_git`) | content-addressed directories shared by processes | fetch, verify, install into place | every `zy install`, `build`, `check` |
| lock file | `compiler/package_manager.py` (`resolve_dependencies`, `write_lock`, `read_lock`, `validate_lock`, `add_dependency_spec`, `remove_dependency`) | `zyproject.toml`, `zy.lock` | add, remove, install, install --locked, build | package cache |
| build artifacts | `compiler/artifacts.py` | the artifact state file: recorded outputs per profile and target | build, clean | toolchain, files on disk |
| tool chain and CLI | `compiler/toolchain.py`, `compiler/__main__.py`, `cli/` | none beyond files | run a C compiler, dispatch commands | artifacts |
| version switcher | `cli/zyenv.py` | installed versions, the files that select one | install, use, local, uninstall; the shim's own resolution | files on disk |
| lexer, parser | `compiler/lexer.py`, `parser.py`, `ast.py` | position in the text | tokens, trees | semantic phase |
| types and generics | `compiler/types.py`, most of `semantic.py` | symbol tables, instances made so far, functions still to lower | instantiate, lower, refuse circular types | back end |
| type and expression emission | `compiler/backends/c.py` (`collect_program_types`, `emit_type_definition`, `type_slug`, `emit_expr`) | types collected and written; C statements in front of each expression | write definitions in order, turn an expression into C | cleanup generation |
| C interop | `compiler/c_module.py`, `bindgen.py` | none | parse C declarations, generate adapters | runtime handles |
| standard library natives | `std/*/*.c` | threads, windows, sockets, files | native calls | runtime |
| editor extension, registry, site, vendored raylib | `ide/`, `registry/`, `site/`, `vendor/` | editor state | completion, diagnostics | none of the above |

### What is hard here

* **Long legal sequences.** The checker accepts a program statement by statement. What goes
  wrong is a sequence: a reference is copied in a nested block, the block closes, a loan
  expires, and three statements later the owner is dropped.
* **Two views of one program.** The checker walks the text once; the program runs some
  branches and not others. State the checker updates in a branch (dropped, awaited) is true
  on one path only.
* **Interleavings.** Reference counts and handles are shared by threads; the package cache,
  the lock file and the build state are shared by processes.
* **Work that finds more work.** Instances of generics are discovered while others are
  lowered; types are written while the types they need are looked for; a module is loaded
  while the one that imports it is half read.
* **Two passes with one meaning.** The renamer of imported modules and the analysis have
  scopes of their own and must agree; the checks of circular types and the back end follow
  fields by different rules; `zyenv` and its shim both find the selected version.
* **Order of evaluation.** What throws is moved in front of the C expression it stands in,
  and C leaves the order of what remains open.
* **Crashes and partial failure.** Directories are replaced in two steps, records are
  written after outputs, a failed command rolls a file back.

The file `PROJECT.json` lists each hazard at the line where it bites and the properties that
would catch it.

### What makes each component correct

* Borrow checker: of the references that may still be used, a mutable one is the only one
  to its place; nobody writes or drops what they see.
* Lifetime checker: what it believes of a local is what every run of the text finds there,
  and every task is awaited exactly once.
* Cleanup generation: on every path each object is released as often as it was retained.
* ARC and handles: the count of a block is the number of its handles; a payload ends once.
* Package cache: a directory holds the content it is named by.
* Lock file: a lock that a build accepts describes the manifest, and the packages it names
  can be used.
* Build artifacts: every output is recorded, and no command touches another target's.
* Module graph: a program is refused exactly when it has a fault, and each definition is
  delivered once per import path; a name means the same wherever its module is compiled.
* Version switcher: a version is there whole or not at all, and is run only whole.
* Types and generics: what an accepted program refers to is lowered, once; circular types
  are refused; a C type is defined once, after what it needs.
* Expression emission: how far evaluation departs from the source can be told from the text
  of the expression, and every temporary value is released once.

## 2. Plan

Modules in the order in which they are written, the most important behaviour first. Those
marked with a star exist.

| module | composes | about | theorems |
|---|---|---|---|
| `Borrow`* | | the loan tables | types, loan exclusion, safety of references, arguments apart |
| `Flow`* | | dropped, narrowed, consumed against a run | types, reads find values, beliefs hold, tasks joined |
| `Cleanup`* | | emitted ownership operations along a path | exact counts, nothing leaks, nothing stale |
| `Arc`*, `Resource`* | `Arc` implements `Resource` | counts and handles, atomic step by step | types, counts, nothing touched after free, single end, implementation |
| `PackageCache`*, `Project`* | `Project` extends `PackageCache` | cache, manifest, lock | types, cache soundness, lock current, settled, closed, usable |
| `Artifacts`* | | outputs and their records | outputs known, records exact, commands apart |
| `Loader`* | | `modules.py`: import stack, cycles, limits, what is delivered | verdict right, paths delivered, structs there |
| `Names`* | | the renamer of imported modules beside the analysis | scopes agree, meaning kept |
| `Versions`* | | `zyenv.py` and its shim, with interruptions | whole or gone, no half run, resolutions agree |
| `Instances`* | | which instances of generics are made and lowered | none lowered twice, none forgotten |
| `Layout`* | | circular types, and the order and names of C types | circular types refused, written in order, names apart |
| `Evaluation`* | | C statements of an expression and the order they run in | |
| `GitCache` | `PackageCache` | git checkouts replaced in two steps | |
| `Frames` | | the ring of formatting buffers, the bounded error stack | bounds |
| `Semver` | | `version_satisfies` against a reference order | |
| `Natives` | `Arc` | thread and server natives of the standard library | |

## 3. How the models are built

**Shapes.** The compiler and the tool have behaviours that break their own promises. A model
that left them out would be unfaithful; one that always contains them could state no
property. Where there are such situations a module has a constant `Shapes`, the set of those
that may occur, listed and named at its head. (`Names`, `Instances`, `Layout` and
`Evaluation` name the exceptions in their properties instead.) With a situation in `Shapes`
the model does what the code does there. With `Shapes = {}` (or the ones that do no harm to the property) the
properties are checked and proved; section 6 lists what happens with the others. A shape
restricts which programs, edits or schedules occur, never what the code does with them.

**Faulty variants.** An operator with a comment "Faulty variant" stands before the
definition it varies. It is a bug the code could have; PROJECT.json names the property that
tells it from the definition.

**Histories.** A variable whose comment says what has happened, such as `effect`, `misread`,
`stale`, `settled` or `abandoned`, is only read by properties.


## 4. The modules

Paths are relative to `src/zyenlang/compiler/`. PROJECT.json gives the lines of every
definition.

### Borrow: the loan tables (`semantic.py`, class `Lowerer`)

A behaviour is the checker's walk over one function body; a step lowers one statement, or
opens or closes a block. Only accepted statements are steps, so an invariant speaks of every
program the checker accepts.

| state | code |
|---|---|
| `loans` | `borrow_scopes`: `BorrowLoan` with its place, mutability and aliases |
| `binds` | `reference_loan_scopes`: which loan a reference name stands for |
| `dropped` | `dropped_scopes` |
| `suffix`, `uses`, `after`, `stage` | `name_uses` of the statements still to come in each block, and `protected_borrow_names` |
| `args` | the arguments lowered for the call in progress |

`LetBorrow`, `LetCopy`, `Assign`, `Mutate`, `Read`, `Drop`, `Defer` and `Use` are the simple
statements. Each ends with `EndWith`, which is `lower_block`'s call of `expire_borrows`.
`Begin`, `PassBorrow`, `PassRef`, `OpenBlock`, `CloseBlock` and `Finish` are statements that
contain blocks or arguments. The checker learns from the syntax which names the rest of a
block mentions; the model promises that set when a block opens and makes each statement keep
the promise, which yields exactly the sets a text can have.

A place is a local or one field of it. One field is enough to show every case of `overlaps`:
the same place, disjoint places, and a place inside another. Places reached through an index
overlap whatever the index, and are one field. The checker compares names: `Overlaps` and
`Conflict`. What storage two places have in common is `Meet` and `Clash`, of which the
properties speak; the two differ for `Handles`, locals that hold an object of a class. A
handle itself cannot be lent, a field of its object can.

### Flow: drops, narrowings and tasks against a run (`semantic.py`)

The checker's tables (`dropped`, `narrowed`, `consumed`) stand beside what one run of the
same text finds (`value`, `task`). `runs[k]` says whether control is in block `k`, so the
text of a branch that is not taken is checked and not run. `Repeat` runs a loop's body again
along the same path: what it first read as narrowed has to be there again (`first`).
`Exit(k)` leaves blocks while the checker goes on with the text behind. `Validated` is
`validate_current_task_scope`, which `lower_stmt` does not call for the body of `if let` or
for a handler.

### Cleanup: emitted ownership operations (`backends/c.py`)

The statements and block ends of one function along one path, with the retains and releases
the back end emits there: `take_or_retain` for a value that is stored, the release of the
old value of an assignment, `capture_defer`, the temporaries of `emit_call`, and
`cleanup_lines(k)` at every way out of the blocks from `k` inwards (deferred calls first,
then the managed locals). The ways out are `Close`, `Exit` (`break`, `continue`), `Throw` (an
error that nobody catches, from any operand), `Stop` and `Return`; the last three yield a
value that the caller uses after the cleanup (`Yielding`). The error is a managed local of
the handler that catches it, and a handler may stand in the condition of a loop, where the
loop that the compiler cleans up for is not the one that a C `break` leaves
(`Conditions`). Operands of a call, a literal or `==` wait in `temps`. What owns an object is said by sets: `Locals(o)`, `Captures(o)`,
`Arguments(o)` and `Recoveries(o)`. Leaving blocks takes from each count the number of owners
that go with them; in which order the code releases them makes no difference to the counts.
`count[o]` is the reference count of an object; the model leaves out the classes, containers
and strings that the object may be.

### Arc and Resource: counts and handles (`runtime/zy2_runtime.h`, `bindgen.py`)

One atomic operation of the C code is one step. A release is four steps (`Release` the
`fetch_sub`, `Exchange` of the payload, `Drop` the destructor, `Free`); `zl_handle_take` is
two (`Invalidate`, `Take`), `zl_handle_borrow_from` is two (`ReturnView`, `RetainParent`). A
generated adapter evaluates the handle arguments of a call in any order, as C allows, and
calls the original function. `Panic` is `zy2_arc_panic`, after which nothing happens.

`Resource` says what a handle promises: the resource is there while a handle is, ends once,
by its destructor after the last handle is gone or by being consumed. `AbstractSpec` is that
promise with the refinement mapping `AbsHolds` and `AbsStatus`.

### PackageCache and Project: cache, manifest and lock (`package_manager.py`, `artifacts.py`)

`PackageCache` is `ensure_cached`: look, copy to a temporary directory, hash the copy,
rename. A content is its own digest, so `CacheSound` is not true by construction: a copy
that was made while the source changed is a different content.

`Project` adds the commands. `add` and `remove` (`Change`, `Update`, `Start`, then the
resolution, then `WriteLock` or `Fail` and `Restore`) read the manifest, write it, read it
again and resolve it. `VisitNext`, `HashPackage` and `Select` are the recursive `visit` of
`resolve_dependencies`, with the packages being visited on a stack. `install --locked` is
`BeginLocked`, `Populate`, `Populated`, `EndLocked` or `Refuse`. `build` and `check` are
`BeginBuild`, `EnsureLock` and `Relock`. Any process can be killed at any step (`Crash`),
any package edited (`EditPackage`), the manifest edited (`EditManifest`), the cache removed
(`Clear`). A manifest is the dependencies it lists and, as `manifest_sha256` is taken over its
bytes, whether its lines end with CR LF (`crlf`): the commands read it with universal newlines
and write it with LF, so `Update` and `Restore` clear that flag. The lock holds the manifest it
was computed from. The manifest inside a content gives the package's dependencies
(`Requires`) and its name and version (`Identity`); `Verified` compares all of them with the
record in the lock, like `_validate_locked_manifest`. Nothing keeps two commands on one
project apart: `MayChange` and `MayRely` do that in the model, and the shape `two_changes`
lifts them (section 6).

Abstractions worth knowing: dependencies are visited in any order, where the code sorts
them; `read_lock`, the comparison with the manifest and the look at the cache are one step
of `validate_lock`; `write_lock`'s reading of the manifest and writing of the lock are one
step; git sources have one content.

### Artifacts: outputs and their records (`artifacts.py`)

`Begin` is the loading of the state file with the keys to build or clean taken out;
`RemoveFile` and `WriteState` are `_remove_recorded_files` and the write after it;
`WriteFile` writes the outputs one by one; `SaveRecord` is `_save_record`; `Stop` is a
command that fails or is killed at any point. `held` is the state in memory: it is read once
and written back whole. `Plans[k]` are the outputs that a build of key `k` can have, one
sequence for each output directory and name it is given on the command line.

### Loader: the module graph (`modules.py`)

A behaviour loads one program of `Programs`: for each file its imports, whether it exists,
and whether it is a native module; for each owner what it declares. `stack` is the import
stack with how far each file has come; `expansions` and `unique` are the counters
of `_account_module`. `Descend` and `Return` are the recursion of `load_namespaced`,
`RefuseImport` every way an import is refused, `FinishLoad` the root's end and
`collect_struct_names`, which refuses what is defined twice. A file is loaded once per import
path, with a namespace per path: `defs` is that list.

### Names: renaming against resolving (`modules.py`, `semantic.py`)

`shadowed` is the renamer's set of hidden names, `scopes` the analysis' scopes, over one
definition with parameters, blocks, `if let`, handlers and closures, which open and close in
any nesting. `Imported(f, n)` is what name `n` in form `f` (value, callee, path, type
application, type, literal) means after renaming; `AsRoot(f, n)` what it means when the
module is itself the file that is compiled. `Ambiguous` lists the names for which the two differ; that
the list is complete, for names of every kind in the module and in the root file, is proved.

### Versions: the version switcher (`src/zyenlang/cli/zyenv.py`)

`versions[n]` is which parts of an installation exist; `global` and `local[d]` are the
selecting files; each process is in one command (`proc`), and the commands are cut at every
step that leaves something on disk. `Die` kills a process anywhere. `hurt` remembers which
versions an accident (a command killed, a failed virtual environment, files that the cleanup of
a failed install could not delete and ignored, two commands on one version) has happened to. `zyenv`'s own resolution and the shim's are separate operators.

### Instances: instances on demand (`semantic.py`)

`Phases` are the passes of `Lowerer.lower`. A program is a set of pairs of a site (fields,
defaults, members, body of a type or function) and what is used there. `stack` is the
recursion of class registration; `classes`, `generics`, `pending`, `lowered` and `left`
are the tables and the work lists. The order in which a site uses things is left open.
`Oversized` are the instances with types too large for the compiler: a generic that asks for
ever larger instances of itself comes to one, and there `Outgrow` ends what is modelled.

### Layout: circular types, C type definitions and their names (`semantic.py`, `backends/c.py`)

A program assigns fields to two structs and a class. `Visit…` are the two depth-first checks
with their sets of nodes done and in progress; `EmitTypes`, `Leave` and `EmitClasses` are
the back end's recursion over collected types, with what it has written. `Slug` is
`type_slug` as the sequence of words it joins: `Word`, and then the names of the `Parts`.

### Evaluation: an expression as C statements (`backends/c.py`)

`Emit` is `emit_expr`, with one operator per kind of expression. Its result is a `CExpr` as
in the code: statements of the prelude, residual code, and whether the value is owned.
Residual code is a set of events with those each must wait for; executing a statement takes
any ready event next, which is all that C promises of the operands of an operator and the
arguments of a call. (`&&` and `||` are a `Decision` event that drops the events of the right
operand or lets them run.) `todo` are the statements still to run, `trace` the nodes
evaluated, `live` the owned values that exist. The second half of the module says of an
expression alone, without the emitter, which values are settled before the next operand
begins (`Settles`, `Settled`) and which only drift in residual code (`Drifts`); the
properties relate the two.

## 5. The runs

| run | instance | distinct states | shows |
|---|---|---|---|
| `borrow_safe` | 1 owner with 2 fields, no handles, 2 names, depth 2, 2 arguments, shapes `defer`, `read` | 208 thousand | loans never conflict, live references are exclusive, see no write and never dangle, calls get no conflicting references |
| `flow_safe` | 1 local, 1 task, depth 4 | 437 thousand | what the checker believes is what the run finds; tasks are awaited once |
| `cleanup_safe` | 2 names, 2 objects, depth 3, 1 temporary and deferred call per block | 167 thousand | counts are exact on every path, nothing leaks, nothing is used after it is freed |
| `arc_safe` | 2 threads, 3 handles, 1 control block | 128 thousand | exact counts, no touch after free, one end, refinement of `Resource`, and `Reclaimed` |
| `project_safe` | 2 processes, 2 sources, 4 contents, 2 dependencies, cut by `Slice` | 1.5 million | cached directories are sound; locks are usable, match the manifest, are closed, and stay current |
| `artifacts_safe` | 1 process at a time, 2 targets, 3 keys, 2 output directories for one | 125 thousand | every output is recorded, records are whole, commands stay apart |
| `loader_safe` | 6 files of 4 owners, up to 2 imports each, 2 aliases, limits 2, 6 and 3 | 22 thousand | a program is refused exactly for a fault it has; what is delivered is one copy per import path, imports first |
| `versions_safe` | 2 versions, 2 processes, 2 directories | 2.8 million | versions are whole or gone, the selected one is installed, the shim runs no half version and agrees with `which` |
| `names_safe` | two structs, two functions and one name of each other kind, root classes called like one of each, depth 2, 2 locals | 84 thousand | both walks have the same scopes; names keep their meaning |
| `instances_safe` | 2 classes, 1 function, 1 generic function, up to 3 uses | 763 thousand | all that is referred to is lowered, once; the analysis ends |
| `layout_safe` | 2 structs and a class, up to 3 fields in the structs and 1 in the class, of 11 types, 3 more in functions | 865 thousand | circular types are refused, and no others; C types are defined once, in order, under names of their own |
| `evaluation_safe` | 30 thousand statements: expressions of one operation over 6 leaves, and of two over 4 | 612 thousand | order, number of evaluations, and releases |

Most runs check three to five properties. Where several invariants are parts of one promise the
property is their conjunction, each part defined and explained under its own name: the type
invariant `TypeOK` is a part of `RefsGuarded`, `BeliefsTrue`, `Balanced`, `RecordsWhole`,
`VerdictRight`, `WholeOrGone`, `ShadowIsScope`, `OnceOnly`, `RefusedIfCircular` and `OnceEach`
(for `Arc` and `Project` it has a theorem of its own).

**Why the bounds are enough.**
`Borrow`: a conflict is between two loans, an alias problem between two names, and an outer
block matters only as what it still uses, so two of each show every pairing; two fields of
one owner give equal, disjoint and nested places. Fields and names are interchangeable
(symmetry).
`Flow`: the tables of different locals do not touch each other, and one local and one task
already meet in every order; depth 4 has a loop inside a branch inside a loop.
`Cleanup`: two objects and two names give copies, self-assignment and exchange; depth 3 has a
handler inside a loop, the case where a way out crosses blocks of every kind.
`Arc`: control blocks share nothing, so one shows every interleaving; three handles let one
thread copy while another releases and a third handle is a view.
`Project`: the contents give two packages that are independent, a chain, a cycle, in conflict
over a name, or equal, and one that is another in a later version. `Slice` bounds the search:
two processes run at a time only while one dependency is in play, manifest and lock differ in
one dependency at most, and CR LF and the later version come with one process and one
dependency, where they already meet each step of a command. Each command may still be stopped,
and each package edited, between any two steps.
`Artifacts`: two profiles of one target and another target tell a key from its target and
from its profile.

`Loader`: a diamond, a cycle through the root or below it, an import of a neighbour's
package and each limit need two imports in two files; the limits are small so that they are
met. `Versions`: every accident is between two commands on one version, or a command and a
selection. `Names`: one name of each kind, and a second struct; a name is shadowed by the innermost scope or one around it; depth 2 has
both. `Instances`: two classes show every order of registration and three uses a chain
through both; longer chains repeat it, and one instance that is too large stands for the end of
a growing one. `Layout`: a cycle needs two types, a tuple or list
around one, and a third to come from; among the types that functions use are two whose names
run together, one of which is `Blurred`. `Evaluation`: what a parent does with an operand
depends on that operand's prelude, code and ownership, and each combination of the three is
the result of some expression of one operation; the operand beside it is the earlier or the
later of the two.

**Deadlock.** `CHECK_DEADLOCK FALSE` stands where the system may stop: a text, a function, a
load, an analysis or a statement ends (`Borrow`, `Flow`, `Cleanup`, `Loader`, `Instances`, `Layout`, `Evaluation`), control blocks are used up or the process exits (`Arc`),
the slice leaves nothing to do (`Project`).

**Fairness.** `arc_safe` assumes weak fairness of `Finish(t)`: a thread that has taken a
count to zero goes on with the rest of `zy2_arc_release`, a sequence of C statements without
a wait in it. Nothing is assumed of the program: it need not release any handle.
`instances_safe` assumes weak fairness of `Next`: the analysis is one thread that runs until
it ends. Its property `Ends` says that it does when it needs finitely many instances, and that
it fails only with an explanation (`FailuresExplained`): no instance is made again and again.

## 6. Where the code departs from its own promises

The first half are shapes of their modules: adding the name to `Shapes` in the module's
configuration makes TLC show the behaviour as a violation of the property named (or of the
property it is a part of). The others
are the exceptions that the properties of the newer modules state. All were reproduced with
the compiler or the tool itself unless said otherwise.

*Borrow checker.*
`shadow`: an inner block copies a reference under the same name. Loans know their aliases by
local name, so closing the block takes the alias of the outer reference with it; the loan
expires and the owner can be dropped while the outer reference is still used
(`NoDangling`).
`handler`: a catch handler among the arguments of a call ends its statements with
`expire_borrows`, which ends the loans of the arguments before it (`ArgsExclusive`).
`twice`: one `&mut` name is passed to two parameters (`ArgsExclusive`).
`read`: an owner is read while a mutable reference to it exists (`OwnerUnread`).
`defer`: the loan of a deferred call's argument expires at the end of the statement, and the
owner may be dropped before the call runs (`DeferredAlive`).
`loose`: only `let n = &place` and the copy of a name tie a reference to a loan. After
`let (a, b) = (&x, &y)`, or `let e = (&mut xs[0]) catch err { ... }` (the form that
`docs/language_guide_zh_TW.md:364` recommends), the loans expire with the statement, and
`DROP__(x)` or `xs.push(1)` is accepted while `a` or `e` is used further on. The loan of `&r[0]`,
where `r` is a reference, is one of the local `r` and not of the list (`LiveRefsExclusive`,
`OwnerFrozen`, `NoDangling`). The storage of a list is pinned for a reference to its element,
so such an `e` then refers to what the list was.
`alias`: a place starts at the name of a local, and after `let b = a` two handles have one
object: `two(&mut a.f, &mut b.f)` is accepted, where line 339 of the guide says that a `&mut T` is
the only one (`ArgsExclusive`, `LiveRefsExclusive`).

*Lifetime checker.*
`branch_init`: an assignment in a branch makes a dropped local count as initialized on every
path (`ReadsFindValues`).
`loop_null`: a loop assigns null to a local narrowed outside it and reads it as narrowed in
the next iteration. `lend_null`: a narrowed local is lent as `&mut`, and the callee stores
null (both `ReadsFindValues`).
`task_exit`, `block_task`, `loop_await`, `short_await`: a task is left behind by an early
way out, in the body of `if let` or a handler, is awaited by a loop's condition again, or
not at all when `&&` or `||` decide first (`TasksJoinedOnce`).

*Cleanup.*
`args_exit`: owned operands that were evaluated leak when a later operand of the same call,
list, tuple, structure or `==` throws, or its handler returns or breaks (`Balanced`,
`NoLeak`): `(mk(1), mk(0))`, `[mk(1), mk(0)]` and `name(1) == name(0)` end with "ARC leak" when
the second call throws and the caller catches it.
`stop_local`: `stop err` with an error that a handler caught, or another local, copies the
error, releases the local and returns the copy, so that the caller reads a freed message (all
three properties). In `let r = mk("") catch err { stop err }` the message, an f-string of
`mk`, is gone when the caller compares it.
`cond_exit`: in `while ok("") catch err { break } { ... }` inside another loop the checker
takes `break` for the outer loop and the locals of that loop's body are released; the C
`break` leaves the inner loop, and the outer body goes on with what was released (`Balanced`,
`NoLeak`, `NoStaleUse`). `continue` is the same.
`iflet_owned`: the value that `if let` tests leaks when no local owns it. `recover_early`:
two `recover` of one handler leak the first value (both `NoLeak`).
`iflet_drop`, `iflet_source`: the binding of `if let` is not retained, so dropping it, or
assigning the local it was tested on, frees a value still in use (`NoStaleUse`).

*Handles.* Consuming a view takes its parent's payload, where the runtime's own message says
"cannot consume a borrowed native handle" (`zy2_runtime.h:289`): `Take` of a handle with `view`. One handle passed both borrowed and
consumed to a call ends it with a panic, or not, depending on the order in which the C
compiler evaluates the arguments.

*Packages.*
`edit_manifest`: a manifest edited while a command resolves it gets a lock that passes for
current and names the old source (`LockMatches`), or wants what it does not have (`LockUsable`).
`two_changes`: no lock keeps an `add` or `remove` from running beside another command on the
same project. Either can resolve the manifest the other has replaced, with the results of
`edit_manifest`, and one that fails writes back the manifest it found, over what the other has
written and locked meanwhile (`LockSettled`, too).
`edit_package`: a package whose manifest is edited between being read (`package_manager.py:643`)
and the hashing of its files (`:659`) is locked with the name, version and dependencies of the
one and the content of the other. If only the version was changed the lock is written without
complaint, and the next build refuses it, as a fetch with `--locked` does (`LockUsable`);
if dependencies were, `LockClosed` goes too.
A manifest with CR LF comes back from a failed `add` or `remove` with LF
(`:975`, `:1012`, `:692`), so its digest is not the one in the lock, and the lock that was
current is out of date. `LockSettled` says what is left: the dependencies are the locked ones,
and the lock is current unless it was written for CR LF.
These come from the model and from reading the code.
The second of two installers of one package gets `ENOTEMPTY` from the rename on Linux, where
the code expects `FileExistsError`: the command fails, and nothing is harmed (`Rename` has
both outcomes).

*Build artifacts.*
`concurrent`: of two builds at once the one that ends last writes back the records it read
first (`NoOrphans`, with two processes).
`shared`: two targets, or the two profiles of one, with one `out-dir` share their headers
and native files, and the clean or rebuild of one removes the other's (`RecordsWhole`,
`Isolation`).
`bundle`: an included file that is neither a source nor a `.h` is copied with native sources
and not recorded, and clean leaves it (`NoOrphans`).

*Module graph.*
`crate_import`: a `crate::` import in a dependency leads into the root project
(`modules.py:96`), where `docs/architecture.md:35` says "the current package".
`diamond`: a native module with a struct that is imported along two paths is refused as a
double definition (`RefusedIsFaulty`).

*Names* (the cases of `Ambiguous`, and those before it).
A local with the name of an import alias, a type or the namespace of a native module
(`modules.py:845`: beside a local `counter`, `counter::get()` is not qualified, and unknown
when the module is imported), a type parameter with the name of a type, and `C::mk()` or `C(5)` beside a local `C` mean different things when a module is
imported and when it is compiled itself. A name the module does not define is looked up in
the root file, private definitions included. So is one that the module does define, but not as
a type, where a type could stand: a name of a function of the module, or of a struct that a
local hides, means the root's class, alias or native namespace of that name, and a name that
is a native module's namespace means by itself what the root defines. A default value that calls a
function by name is lowered in the caller's scope; at the root a caller's local of that name
is called.

*Version switcher.*
The shim passes over a blank `.zy-version`; `zyenv which` stops there. A failed creation of
the virtual environment leaves a half version that `use` accepts, and a failed forced
reinstall loses the old one. So does an entry that the cleanup of a failed install cannot
delete: `rmtree(ignore_errors=True)` (`zyenv.py:280`, `307`, `313`, `322`) says nothing
(`GiveUp`). All of these count as accidents, and `WholeOrGone` and `NoHalfRun` only say that a later
command that completes makes up for them. An `uninstall` removes a selection that another
process made after it looked. Local files outlive the version they name.

*Instances.*
Two classes that hold each other as `null`-able fields are registered twice when one has a
method with the other as parameter (`Entwined`): the C text defines their members twice. A
class with a field of its own type ends the compiler with Python's `RecursionError`
(`docs/language_guide_zh_TW.md:200` shows such a class). A struct field whose default calls a
generic function is lowered too late and fails to link (`Untimely`); a class field whose default
constructs an otherwise unused class changes a table that is being walked
(`FailuresExplained`). A generic class that only a struct field or a generic signature names
is never registered. Nothing limits the instances: `fn grow<T>(x: T) { grow((x, x)) }` makes
new ones until memory is exhausted, and with `List<T>` for the pair until Python's recursion
over the type fails (`Outgrow`). `Ends` says that the analysis comes to an end for the
programs that need finitely many.

*Layout.* The name of a tuple does not say where it ends (`Blurred`), so what stands behind
a type with a tuple in it, however deep, may belong to that tuple: `(i32, (i32, str) | null, i32)`
and `(i32, (i32, str, i32) | null)` are both defined as
`zy2_tuple_i32_optional_tuple_i32_str_i32`, and the C compiler refuses the text. A struct may
be called like a word of `type_slug` (`List`, `to`, `optional`) or like a primitive type
(`i32`), and its name is then read as that. `lib::P` and `lib__P`, or `C<i32>` and `C_i32`, also
come to one name, which the model leaves out.

*Evaluation.*
The right operand of `&&` and `||` is evaluated whatever the left one says as far as it
throws, builds something or is released: `i < 3 && xs[i] == 2` fails when `i` is out of
range (`Skipped`, with `Drifts`). A plain call or a read moves behind a throwing one that
stands to its right: `n.v - n.tryb()` reads `v` last (`InOrder`). The arguments of a call
are evaluated in the C compiler's order. An owned optional compared with `null` is never
released, and the program ends with "ARC leak" (`NothingLeft`). The value of
`xs.set(7, n.bump())` is not evaluated when the index is out of range, where
`docs/language_guide_zh_TW.md:321` says that every argument is evaluated once (`OnceEach`).

## 7. What is proved

The proofs are about every value of the constants, under the assumptions the modules name
(`BoundsAssumption`, `FiniteAssumption`, `NoneAssumption` and so on), which TLC evaluates on
every run. Each proof module EXTENDS the module it is about; three extend two modules,
`AnalysisProofs` `Instances` and `Names`, `BackendProofs` `Arc` and `Layout`, `ToolProofs`
`Versions` and `Loader`. `Names`, `Layout` and `Loader` therefore have names of their own
for the usual definitions (`WalkSpec`, `LayoutSpec`, `LoadSpec`). The
hypotheses of a theorem, where it has any, are the absence of shapes (section 3) with which
it is false; section 6 says what goes wrong with each.

* **BorrowProofs.** `LoansExclusive`: no two active loans conflict, for every program of
  every shape. It is inductive as it stands, since only `MayBorrow` adds a loan.
  `RefsSafe`: without `shadow`, `loose` and `alias`, live references are exclusive, see no write and never dangle.
  The guards of the checker look at loans only and the properties speak of names, so the
  invariant `RefsInv` ties the two: names have one binding, a live binding is an alias of an
  active loan of the place it refers to, a mutable loan is shared with nobody, a loan's
  origin is still in scope, and the blocks keep their promises about names. It says this of
  the names of places (`LiveRefsApart`, `PlaceFrozen`); that names tell storage apart
  (`NamesTell`) is where `alias` comes in.
  `ArgsApart`: without these three, `handler` and `twice`, the references a call receives do not
  conflict. `ArgsInv` says why: only the innermost block has a call under way, and each of
  its arguments has a loan of its own or is a name that the statement still uses, so nothing
  that would conflict with it can have been lent since.
* **FlowProofs.** `ValuesKnown` and `BeliefsHold`: without the three shapes about values,
  reads find values, and what is dropped or narrowed is so. `NarrowedHeld` is not inductive:
  control comes back to outer blocks, so the invariant says it of every block where control
  is, and says of a loop that what an iteration read as narrowed is narrowed outside the loop.
  `TasksJoined`: without the four shapes about tasks, a task is running just when it is
  declared in a block where control is and the checker has not seen it awaited.
* **CleanupProofs.** Without the shapes other than `iflet_source`:
  `CountsBalance` (an object has as many references as owners on every path) and
  `NothingLeaks` (only the result outlives the function). `Owners` is a sum of cardinalities
  of sets, and every step moves one owner between them or takes out those of the blocks that
  are left; the lemmas of the module are about such steps. The invariant adds that blocks that
  are closed own nothing, that a block has arguments only in a call, and that locals belong to
  open blocks. `args_exit`, `recover_early` and `iflet_owned` lose owners and never a
  reference: with them `Counts` still says that every object has at least as many references as
  owners, and `Kept` that no step gives back what is over. From that follows `NothingStale`,
  whose hypotheses are only the absence of the other four: an `if let` binding owns nothing, and `Bound`
  says that what it holds has lost its owner or is held by a managed local of a block
  further out, which is cleaned up later and which its body does not change.
* **BackendProofs, Arc.** `CountsExact`, `FreedUntouched`, `PayloadEndsOnce`, `NothingLeft`, and
  `Implements`: the atomic steps implement `Resource`. The invariant `IInv` says who may work
  on a block whose count is zero: exactly one thread, the one whose `fetch_sub` returned 1;
  that a payload is pending in one place; and that the handles of a call stay with the caller.
* **BackendProofs, Layout.** `CircularRefused`, `WrittenInOrder` and `NamesApart`, for any types,
  structs, classes and fields. All four passes are one depth-first search over different graphs, so
  the lemmas are about a search over any graph: `Walked` says that each frame of the stack is a
  node once, leads to the next one, and has what it depends on behind it, ahead of it, or in
  the next frame; `Acyclic`, that no nodes that are through with depend on each other; and
  `Ordered`, that what is written stands behind what it depends on. What makes the passes fit
  together is `NeededAcyclic`: if no structs own each other then no types need each other to
  be written, because what leads from a type back to itself would go through a struct that
  owns the next, or down through arguments without an end (`TextAssumption`: the text of a
  type is finite). The analysis has established its hypothesis when the backend starts, which
  is why the backend needs no message of its own. The types a type contains, owns or is
  collected with are recursive functions; the lemmas `ByValueFinds`, `OwnedFinds` and
  `WithArgsElements` prove that they exist and satisfy their equations, and the
  invariant uses nothing else about them.

  `NamesApart` (`NamesDistinct`) says that a name can be read back. A type without a tuple can be
  read off any text that begins with its name (`PlainDecodes`): the first word tells the kind and
  the name, and with them the number of parts, or, in a function type, the `to` that ends the
  parameters. In a type that is not `Blurred` only the last part may have a tuple, and it ends
  where the whole name ends (`NameTells`). Both take a type none of whose parts is a
  counterexample, which `TextAssumption` gives, and look at the first part in which the two
  differ (`FirstDifference`, `FlattenApart`). The proof showed that `Blurred`, once the
  types with a tuple directly in a tuple, was too narrow; the instance now has the pair of types
  that told (section 6, *Layout*), and the compiler gives the two one name. `NamesAssumption` says
  what the analysis ensures of names: a declared one is a struct's or a class's, not
  both, and takes a fixed number of arguments.
* **ProjectProofs.** `CacheIntact`: whatever the processes, sources and dependencies, a
  cached directory holds what its name says. `TInv` says what a process knows at each stage:
  an installation that verifies has a copy, one that renames has a copy equal to its digest,
  and every package on the stack but the root has a name and a source.
  The four properties of the lock, for any number of processes, packages and dependencies,
  and crashes at every step: `LockIsForManifest` and `FailureUndone` without `edit_manifest` and
  `two_changes`, `LockIsWhole` without `edit_package`, `LockStaysUsable` without all three. Their
  arguments build on each other. `RInv` is about the recursion of `visit`: what has been selected, what is on
  the stack and what is still to be visited together cover what has been asked for. `MInv`:
  one command at a time changes the manifest, the others that rely on it have read
  the current one, and one that changes it has at hand what it was. `QInv`: each frame of the
  stack has the dependencies of the content it will be locked with. `SInv`: what a resolution
  has selected, and what a lock of a finished command names, is in the cache.
* **ToolProofs, Versions.** `VersionsWhole`, `NeverHalfRun` and `ResolutionsAgree`, for any number
  of versions, processes and directories, with deaths at every step. The invariant says which
  parts of a version exist at each point of a command that is alone on it, that of several
  commands on one version none takes itself to be alone, and that every accident is noted. The
  two searches of the directories, one of which stops at a blank file, are related through
  the nearest directory that selects something.
* **ToolProofs, Loader.** `VerdictIsRight`, `EveryPathDelivered` and `TemplatesThere`, for any
  finite set of files, any import graphs over them in which the root exists, any limits and
  any shapes: the reported fault `diamond` is one of the verdicts. The properties compare what
  the loader did with `Everything`, all import paths of the program, and the invariant
  (`LoadInv`, above all its part `Walk`) says how far along them it is. The stack is an import path of
  different files. What has been delivered passed every check, has its imports delivered,
  and stands behind them. Nothing is delivered twice, because a namespace can only come by the
  import a frame is about to follow (`Fresh`), and a file gives no alias twice. The counters
  are the number of paths and of files met. A template has one struct, made by the first
  module that calls it, which may still be on the stack (`Once`). When no call is left, what has
  been delivered is closed under imports, so it is everything (`PathsClosed`), and no file is
  below itself (`NoneCircular`, from `LevelsClosed`): the first delivery of such a file
  would have another one of it before it. In the other direction, a file that is on the stack already is below itself
  (`ChainBelow`), and the rest of a refusal's claim needs that there are finitely many paths
  (`EverythingFinite`). `Everything` and `Below` are built by recursive functions, one import
  further at each number; `PathsSteps` and `LevelsSteps` prove that these functions exist and
  satisfy their equations, and the proofs use nothing else about them.
* **ArtifactsProofs.** When commands run one after another (no `concurrent`):
  `OutputsKnown` without `bundle`; `RecordsExact` and `CommandsApart` without `shared`. The
  last is an action property: no step removes or overwrites a file, or changes a record, of a
  key its command is not about. The invariant says what `held`, `doomed` and `made` are at
  each stage: the state in memory is the file's without the command's own records.
* **AnalysisProofs, Names.** `RenamerKnowsScopes` and `ImportKeepsMeaning`, for
  any names of any kinds and any nesting. The invariant says of each open block, and not only
  of the innermost, that the renamer takes for shadowed the locals of that block and those
  around it, and `this`: closing a block brings back what was there before.
  The second theorem is about names outside `Ambiguous`. The proof showed that list to be
  too short. It had been enough for the instance that TLC checked, whose root file defined no
  type called like something else of the module. `Ambiguous` now has the two cases that were
  missing (section 6, *Names*), the instance has two such names, and the compiler behaves as
  they say.
* **AnalysisProofs, Instances.** For any classes, functions and generic functions, and every
  program over them. `NoneLoweredTwice` (`OnceOnly`): the list of functions never has a
  function twice, nor one that has been lowered. A class is not in the table while it is being
  made, so what keeps it from being made again is the stack: `Nested` says that within the
  call that makes a class are only calls for classes its fields lead to. Were one of them
  the class itself, it would be `Entwined`. `FieldsSeen` (the classes of the fields a call
  has looked at are in the table) gives `FieldsFirst`, which holds of every program.
  `NoneForgotten` (`AllLowered`) is the statement about all passes at once. `OnceOnly` says
  nothing of what a use still to be looked at comes to; the invariant `LoweredInv` adds, for
  every part of the program whose turn has come, that each of its uses is in a table or ahead
  of a call in progress (`DueSeen`, `SignaturesSeen`); that what is in the tables is in the
  list, lowered, or being made (`Queued`); and of a generic instance, in each pass, where it
  can have come from (`Counted`, `InScope`): from a value of a field of a struct before the list
  is made, or of a class that no function constructs after it is empty (`Untimely`). The
  last pass calls nothing new in a class that a function has constructed, because lowering
  that function came to the values of its fields (`Expanded`). The table that is kept aside
  while the templates are looked at makes the invariant awkward (`Known`): in between the
  instances of structs are not in the table that calls look into.

Only model-checked are

* `Evaluation`: it is a RECURSIVE operator from an expression to its statements.
* `Reclaimed` of `Arc` and `Ends` of `Instances`: liveness under fairness, and ENABLED, are
  beyond the prover.


## 8. What is not modelled

* Lexing, parsing, the typing of single expressions, inference of type arguments, and
  overloads: functions of the text without state that evolves over steps.
* The values programs compute, the arithmetic of the runtime, and the C text of functions,
  closures, adapters and metadata.
* In `Evaluation`: closures, references and native slices, `await`, List shapes, and the
  statements other than a declaration and an expression statement; what is held when an
  error leaves the function is in `Cleanup`.
* Containers of managed values in `Cleanup`; closures in `Borrow` and `Flow`.
* Weak memory: the runtime's operations are atomic with the ordering they ask for
  (`memory_order_acq_rel` on the release), and `Arc` interleaves them.
* Git checkouts beyond sources with one content. A checkout is replaced by deleting the old
  directory first; one killed in between leaves part of a package that still has its marker.
  `GitCache` is planned for it.
* The rings of formatting buffers and the bounded error stack of the runtime
  (`zy2_runtime.h:525`), where a text can be overwritten while it is still referred to.
* Leftover temporary directories of killed processes: nothing reads them.
* What `init_project` writes, the registry index, the text of messages and the formatting of
  `zyproject.toml`.
