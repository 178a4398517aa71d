# A specification of gomake

gomake runs targets, Go functions in `makefile*.go` files. It compiles the
makefiles of a project into a binary (and caches it), runs that binary as a
child with the target's name, or runs targets that were compiled into gomake
itself. `cmd/install` builds gomake with such external targets compiled in.

These TLA+ modules model the parts of it in which several things happen at once
or several things can fail, and its pure algorithms; the runs check them with
TLC, and the proof modules prove the most important properties with TLAPS for
every value of the constants. Paths below are relative to the repository; lines
are those that `PROJECT.json` ("map") names for each definition.

## Inventory

| Component | State | Operations | What is hard | Correct when |
|-----------|-------|------------|--------------|--------------|
| Target runner: `internal/mkf`, the generated `run` (`internal/cli/gen_main.go`) | result channel, signal channel, context, working directory of the process | `Execute`, `runTarget`, `awaitDone`, `drainDone`, `Reraise` | signal, deadline and result race in one `select`; a goroutine restores a process-wide directory | one answer, the promised exit code, the directory restored, a signal always ends the run |
| gomake process: `internal/cli/main.go`, `cli.go` | build directory, watch goroutine, child, exit code | `Main`, `newGoMake`, `watchBuildDir`, `Execute` | signals at any point, panics, deferred clean-up against the watch | the build directory goes, the exit code is the child's, success is real |
| Binary cache: `internal/cli/cache.go`, `prepare` | files in the cache directory | key, lookup, store | several processes, edits in between two reads of a source, kills, purges | entries match their keys, no partial binary is seen, errors are harmless |
| Installer: `internal/install`, `internal/cli/pull_orchestrate.go`, `internal/builtin` | GOWORK and GOFLAGS, source tree, temporary directories, installed binary | `installTo`, `PrepareTargets`, `GenImports`, `writeFiles`, `build` | every step can fail; builds in place or in a copy; workspaces | all that was borrowed is returned, what was asked for is installed |
| Build preparation: `internal/cli/helpers.go` | files of the build directory | `prepare`, `editGoMod`, `editGoWork` | order of workspace edits, one choice of files made in three ways | the copy builds as the original |
| List cache: `internal/parser/listcache.go`, `package.go` | cached `go list` output | load, validate, store | stale entries, pruned module cache, parallel readers | an entry is used only for its key and while its directory exists |
| Parser: `internal/parser` | targets, namespaces, aliases, default | `MakefileFromPackage`, `addTargets`, `Targets` | names that collide, parallel resolution | names that compile, a default Go would take, a result that does not depend on the schedule |
| Configuration: `internal/cli/config*.go`, `pkg/gomake/config.go` | merged settings, the target's block | `applyFileConfig`, `resolveDelivered`, `GetCfg` | precedence, nearest level | the documented precedence, no leaking of child blocks |
| Targets file: `internal/cli/imports_config.go` | list of imports, store of metadata | load, merge, apply | conflicting entries, in one file or in several | each package once, no conflict goes unnoticed |
| Progress: `internal/cli/progress.go` | a goroutine and a timer | `withProgress` | panics, signals, late output | no output after the return, no goroutine left |
| Code generator: `internal/parser/gen.go` | none that lives | `importAliasMap`, templates | names shared with written code | the generated file compiles |
| Completion, paths, environment, osarch, version | none that lives | text and tables | - | - |

How they interact: `Main` creates the build directory through `prepare` (which
uses the parser and the list cache), starts the watch, asks the cache for a
binary, starts it as a child and turns its status into an exit code. The child
is a target runner in a process of its own; a built-in target is a target
runner inside gomake. Signals reach the runner, the watch and the child by
way of the operating system. Several gomake processes share the cache
directory; the installer shares the source tree with its user.

## Modules

| Module | Models |
|--------|--------|
| `Errors` | Go errors as sets of sentinels, and `ExitCode` |
| `RunPromise` | abstract: what a run of a target promises |
| `TargetRunner` | the runner and the target's goroutine, to the end of the process |
| `TargetRunnerProofs` | theorems about `TargetRunner` |
| `Gomake` | one gomake process, its watch, its progress messages and its child |
| `GomakeProofs` | theorems about `Gomake` |
| `BinaryCache` | the cache shared by processes |
| `BinaryCacheProofs` | theorems about `BinaryCache` |
| `Installer` | one call of `installTo` |
| `InstallerProofs` | theorems about `Installer` |
| `ListCache` | the parallel resolution of tagged imports, with its cache |
| `ListCacheProofs` | theorems about `ListCache` |
| `ConfigPath`, `TargetConfig`, `Settings` | pure: paths of `GetCfg`, the block a target receives, gomake's settings |
| `CheckConfig` | pure: the problems that `--check-config` reports |
| `GoWork`, `Replaces` | pure: the rewriting of go.work and go.mod in the build directory |
| `Sources` | pure: which makefiles and directories are listed, copied, hashed and built |
| `Namespaces`, `TargetNames` | pure: the trails of namespaces; import aliases and the default target |
| `TargetsFile` | pure: loading, merging and applying targets files |
| `Ordered` | what it means that a list is another without its repetitions |
| `Algorithms` | calls the pure algorithms with all small inputs |
| `Induction` | lemmas: induction, recursion, folds and lists without repetitions, in a form the provers can use |
| `AlgorithmsProofs` | theorems about paths, blocks, settings, sources, names and namespaces |
| `FilesProofs` | theorems about go.work, go.mod and targets files |

**Errors.** An error is the set of sentinels that `errors.Is` finds in it, so
wrapping is a union and `ExitCode`'s switch keeps its order. Messages are left
out.

**TargetRunner.** `main` is the runner's place: the flags (`NewMakefile`), the
paths without a run (`NotRun`), the handler and the goroutine (`Begin`), the
three cases of the `select` (`SelectSignal`, `SelectContext`, `SelectResult`),
`recvDone` and `drainDone` (`LookAfterSignal`, `Drained`), `awaitDone` with its
three ways out, the defers (`Return`) and the generated `run` (`FinishPlain`,
`Reraise`). `tgt` is the goroutine's place. `done` and `sigq` are the two
one-slot channels, `ctx` the context with its cause, `cwd` the directory of the
process and `home` the one the goroutine remembered. The target may change the
directory, may return any error it can make, or never return. The select of
`SelectContext` and its look at the channel are one step: what reaches the
channel between them is a result that could as well have come after. A signal
that arrives while the handler is not installed acts by default, or not at all
when the process inherited it as ignored.

**RunPromise.** Three events - the target finishes, the deadline hits, a
signal is received - and one answer, which is one of the events. A result
that is there wins over the deadline, and over a signal unless it only mirrors
the cancellation. `TargetRunner` implements it: `Promise` is the refinement
mapping and `RunKeepsPromise` the property.

**Gomake.** `pc` follows `Main` for the five kinds of arguments (`mode`): an
option that prints, a built-in target, another target, none, `--bin`. The watch
goroutine is a second actor with its own place, one-slot channel and select.
`Panic` is a recovered panic, at the points of `Main` before the child runs.
`ChildEnds` and `InprocEnds` abstract a run to the statuses `TargetRunner` can
end with; the child dies by a signal only when it received one. `told` records
which signals the child got: a terminal sends to the group, `kill` to gomake
alone; `built`, that a compilation has succeeded. `withProgress` wraps four steps of `Main` (`Slow`): the listing, the
analysis, the generation and the compilation. Its goroutine is a third actor
(`prog`): it waits for the timer or for the end of the action, and may be in the
middle of writing when the action ends (`ProgressTimer`, `ProgressWritten`,
`ProgressDone`). `Join` is the deferred function that waits for it, also when
the action panicked.

**BinaryCache.** A source is read at different moments by different readers,
so the sources come in two groups: those `prepare` copies (makefiles, go.mod,
go.sum, go.work) and the module's own Go files, which `go build` reads in place.
A run copies the first group, hashes both from disk, looks the key up, builds
from its copy and the files as they are, stores the binary through a temporary
file and executes its own binary, or the cached one on a hit. Hashes are taken
to be injective: a key is what was hashed. Every step but the lookup can fail
as the code's error paths say. The user edits and purges, and a process can be
killed between any two steps. `raced` is a history variable: did an edit fall
into a window in which two reads of one group can disagree?

**Installer.** One action per step of `installTo`, each of which can fail;
`defers` holds the deferred functions still to run. Every path ends in them:
`CloseWorkspace`, `RemoveCopy`, `RestoreSource`, `RestoreGowork`, the last
deferred first. The modes are the source (devel or published), whether it is in
a repository, and whether `--targets` was given. `tree` holds the five files a
build in place overwrites, in the source and in the copy. A go command may
rewrite go.mod and go.sum when GOFLAGS holds `-mod=mod`. The two renames of
`writeFiles` are two steps, so the tree with one file replaced is a state.

**ListCache.** `gmImpPackages` looks at the tags one after the other (`Scan`,
which a malformed tag ends, and with it the call), starts a goroutine for each
pair of namespace and import it kept (`Spawn`) and waits for them (`Wait`).
Each follows `NewPackage`: the key (`ListCacheKey`), the lookup with its two
checks of an entry (`Load`), `go list` (`GoList`), the store (`StoreListCache`)
and the error channel (`SendError`), and every step can fail as the code's
error paths say. The user edits what the key hashes (`EditProject`) or the
packages on his disk (`EditLocal`), prunes the module cache and purges the list
cache (`Prune`). A key is what was hashed. `seen` is a history variable: what
`go list` would have said at each moment since the goroutine hashed its key;
`raced` says that an edit came between a hash and the `go list` of the same
call, after which an entry may be wrong.

**The pure algorithms.** Each module has the algorithm as the code computes it,
beside a definition of the result that does not follow the code; `Algorithms`
calls one algorithm after another and compares the two.
`ConfigPath` scans a path over three characters, the dot, the quote and any
other; `Parses` is the grammar. `TargetConfig` has a tree of configuration as
the set of its mappings and the set of its other nodes, and three import paths,
the makefile's package, another of its module and one outside; `NearestBlock`
says which block is the nearest. `Settings` has a value as its kind with its
source, through `parse` and `applyFileConfig`. `CheckConfig` has the problems
that `runCheckConfig` finds in the two files: it loads them again, and decides
by a walk of its own what the delivery of blocks and the settings of a run
decide by theirs. `GoWork` has a use directive as
its form and the directory it means, and both loops of `editGoWork` take their
map in every order. `Namespaces` has a package as what each type is based on,
in which file it is, and which types are exported; `Breadcrumbs` sees one file,
and the loop of `addType` runs in `Algorithms` one key of its map at a time
(`VisitOne`, `EndPass`). The targets `TargetConfig` tells from settings are
those the code passes: the built-in ones for a built-in target, else those of
the makefile. A package that is both, under two namespaces, has nodes the one
list does not name, and they stay in the block; the property speaks of the
list.

`Replaces` has a file of replace directives as a list, and as the function from
versions to replacements that the go command makes of it; `AbsolutizeReplaces`
is the loop that writes directives anew one by one, and `SameReplacement` says
that every version is replaced by what replaced it before. `Sources` chooses
makefiles three times, as the code does: by name and constraint with the tag
(`SelectMakefiles`), by name alone (`makefile.go` in `CopiedMakefiles`), and by
the constraint that is left once the tag is stripped (`CompiledMakefiles`); it
puts the directories the key's walk follows (`HashedDirs`) beside those the go
command reads (`ReadDirs`). `TargetNames` has an identifier as its stem and
its number, and puts `MarkDefault` beside the import Go resolves
(`GoDefault`). `TargetsFile` follows `LoadExternalTargets`, `MergeImports` and
`applyExternalTargetMeta` entry by entry.

## Runs

| Run | Bounds | Distinct states | Shows |
|-----|--------|-----------------|-------|
| `target_runner` | 3 signals | 122,876 | 7 invariants and properties, termination |
| `gomake` | 3 signals | 26,035 | build directory, exit code, child, progress messages, termination |
| `binary_cache` | 2 processes, 2 contents per group, 2 edits | 313,588 | entries, atomicity, progress |
| `installer` | 2 imports | 87,458 | everything borrowed is returned |
| `list_cache` | 1 process, 2 tags, an import, an own package, 2 namespaces, 1 edit | 165,394 | the cache cannot be told from `go list` |
| `algorithms` | paths of 6 characters, trees of 3 levels over 2 names, gomake.yaml files with trees for 2 packages, 2 targets beside foreign ones, 3 directives for a module, 3 makefiles, 4 packages, 2 imports, 2 targets files, 3 types in 2 files | 332,823 | the pure algorithms against what is said of their results |
| `target_runner_deadline`, `gomake_builtin`, `gomake_orphan`, `binary_cache_stale`, `installer_clone`, `algorithms_names` | smaller | - | where documentation and code differ, see below |

Every run checks for deadlock: a stuttering action is enabled only when the
processes have ended.

Bounds. Three signals are one to start the wait, one to end it and one that
finds the buffer full or the handler gone. Two processes are needed for a
concurrent store and for a stale entry that another run finds; a third does
the same. Two edits let a source change and change back. Two imports are one
the workspace holds and one that must be fetched. Two tags are two goroutines
of one process; goroutines of two processes share nothing but the caches, as
these do, so they stand for both. With two namespaces and two paths the tags
can name one path twice, which makes two goroutines race for one entry. One
edit lets the project change under an entry. Six characters hold two quoted
segments, or one before a dot that ends the path. Two names at three levels
have a target, a node of another target beside or under it, and a setting at
every level; the third level has one name, since no target of the inputs lies
there. Three types are a root and two that must wait for each other, in either
order, or that form a cycle. Three replace directives are one for each of two
versions and one for any, in every order. Three makefiles are `makefile.go`,
which is treated apart, with two that differ in name or constraint; every list
of directories a project has names one directory or none, so each way from the
project to a directory is tried by itself. Four packages with three stems, and
numbers 2 and 3 in the declared names, reach the third free number. Two targets
files hold two entries in one file or in two, which is where they can
disagree. All values of a setting are tried in all four
sources. The bounds on signals and
edits are in the guards of `SignalArrives`, `Signal`, `EditCopied` and
`EditModule`; the proofs do not need them.

Fairness. `TargetRunner`: both goroutines are scheduled, and the deadline and
the grace timer elapse once armed (weak fairness); nothing makes a target
return or a signal come. `Gomake`: `Main` and the watch are scheduled; an
in-process run that received a signal ends, which `RunEnds` of `TargetRunner`
shows; the child may run for ever. The progress goroutine is scheduled too, and
its write to the standard error ends: somebody reads it. `BinaryCache`: a
process that is not killed goes on. `ListCache`: every goroutine is scheduled
and `go list` ends; nothing obliges the user to edit or prune. `Algorithms`: a
loop that can go on does. `Installer` has no fairness: its properties are
safety.

### Properties

- `SuccessIsReal` (runner): exit code 0 of a started target means it returned
  nil and the directory was restored. `DeadlineCodeIsOurs`: 125 only for
  gomake's own deadline. `AbandonsOnlyWhenAllowed`: a running target is left
  only at the deadline, after a second signal or at the end of the grace time.
  `CwdRestoredOrReported`, `InterruptDiesBySignal`, `RunKeepsPromise`,
  `RunEnds`.
- `BuildDirRemoved` names exactly when the build directory is left behind:
  a kill while `newGoMake` works or between the two defers, and a panic in
  `newGoMake`. `SuccessIsReal`: exit code 0 only when nothing but printing was
  asked, or the built-in target, the compilation that `--bin` asks for (`built`),
  or the target in the child ended well. `OrphanOnlyBySignal`. `ProgressInTime`: no
  message is written once the step it announces is over, panics included.
  `ProcessEnds`: no goroutine of gomake waits for one that does not come; only a
  target that got no signal may keep it.
- `EntriesMatchTheirKey` and `RunsCurrentSources` hold as long as no edit falls
  into a window (`raced`); `NeverPartial`, `TempOnlyFromKilled` and
  `CompiledRuns` hold always.
- `BorrowedIsReturned`, `TreeRestored`, `CopyIsolatesSource`,
  `InstalledAsAsked`, `WorkspaceWithoutModMod`.
- `LikeGoList` (list cache): without a raced edit a call returns what `go list`
  would have said at some moment of the call. `EntriesMatchTheirKey`: only what
  the key pins is cached. `ResolvedAsTagged`: the packages come in the
  order of the tags, whatever the schedule, each pair once and in its own
  namespace (`EachOnce`). `ResolutionEnds`.
- Pure algorithms: `SplitPathParses` (the scanner accepts the grammar, which is
  unambiguous); `DeliversNearest` (the block of the deepest node with a setting,
  without nested targets, from the project's file before the user's, and the
  user's never for a package of the module; `--check-config` reports the trees of
  the project's file that reach no target, and no tree that reaches one);
  `FirstSourceDecides` (a value that a higher source hides never fails a run, and
  a check that finds no problem vouches for the settings of a plain run); `CopyMeansTheSame` (the use and
  replace directives of the copy mean what they meant, in whatever order they
  are edited); `OneViewOfSources` (what is listed is compiled, what is built from
  is hashed); `NamesResolve` (no alias clashes with another or with a reserved
  name, and Default is the import Go takes it for); `TargetsMerged` (each import
  once, in the order of the files; of several files a disagreement is an error in
  whatever order and file it stands; metadata is found under its own key); `TrailsFound` (no order of a map matters); `AddTypeEnds`.

### Where documents and code differ

1. `target_runner_deadline`: a signal taken after the deadline hit, with a
   result on the channel that reports the deadline, ends in exit code 1. The
   command-line reference knows 125 and 128+n for such a run
   (`internal/mkf/helpers.go:235`).
2. `gomake_builtin`: an interrupted built-in target makes gomake exit with
   128+n; the reference says that the process dies by the signal
   (`internal/cli/main.go:191`).
3. `gomake_orphan`: a signal sent to gomake alone kills it and leaves the
   compiled makefile running and untold (`internal/cli/main.go:291`).
4. `binary_cache_stale`: an edit between `prepare`'s copy and the hash, or
   between the hash and the end of the build, stores a binary under the wrong
   key, and a later run executes it (`internal/cli/cli.go:124`).
5. `installer_clone`: with `-buildvcs=false` a clone is built in place; the
   documentation says its working tree is never touched
   (`internal/install/main.go:319`).
6. `algorithms_names`: a comment says that an import name must not repeat a
   top-level identifier of the package; the names the generated makefile itself
   declares, `run` among them, are not avoided, so a tagged package called `run`
   makes a makefile that does not compile (`internal/parser/targets.go:424`).

No run covers two sentences of `docs/content/docs/configuration.md:107`, which
`CheckConfigProblems` shows to differ from the code: that `--check-config`
reports user-level keys without a target (line 295 of the same page, and the
code, say it never does), and that it reports any relative `settings.tmp` (one
that decides fails `parse` before there is a report).

Four properties of the pure algorithms except a case by name, and the module
that has it defines the exception next to the algorithm:

- `Overrides` (`Replaces`): a replace directive for any version, written anew
  after one for a version, drops that one, as the go command says; the version is
  then replaced as any other.
- `Unfollowed` (`Sources`): the key does not follow the replace directives in
  the go.mod of another module of the workspace, nor `vendor`; an edit there
  leaves the key as it is. And a `makefile.go` whose own constraint excludes it
  is not listed but compiled.
- `NameGuessed` (`TargetNames`): the parser does not load the packages a file
  imports, so the name of an import without one is taken from its path.
- An empty file given with `--targets` counts as missing (`RawIsNil` in
  `TargetsFile`).
- Entries that disagree about a package are an error when several files are
  merged, also when both are in one of these. A file given alone is returned as
  it is (`MergeImports`, whose comment says so), and loading it objects only to
  equal paths with equal versions: it may have a package in two versions, and
  both come out. `TargetsMerged` and `ImportsAreMerged` say `Len(files) > 1`.

## Proofs

`TargetRunnerProofs` proves, for every number of signals, type correctness,
the five safety invariants of the runner, and that it implements `RunPromise`.
The invariants are not inductive. `Inv` adds what ties the two goroutines
together: `Places` (the channel, the handler and the raised signal as a
function of the two places), `Results` (what is on the channel, or was taken
from it, is the goroutine's result), `Context` (how the context can have ended
at each place), `Signal` (the interrupt reported is the signal received),
`Origins` (which errors can be in the runner's hands, and that the timeout
sentinel means gomake's deadline), `Directory`, `Success` and `Ending`.
`StepInv` has one case per action; the case of an action proves only the
parts it can disturb. The safety theorems follow from `Inv`. The refinement
has the same shape: `StepPromise` maps every step of the runner to a step of
`RunPromise` or a stutter, with `Inv` supplying that the answer is one of the
events.

`BinaryCacheProofs` proves, for every finite or infinite set of processes and
versions, type correctness and the four safety invariants. Its `Inv` says, per
process, what a run has in hands at each place (`Files`: the temporary file
and the binary; `Keyrings`: how key, copy and disk relate) and, without
a raced edit, that a process past the lookup holds a binary of its key. A step
of one process preserves the facts about the others (`Others`), because it
changes nothing they read but cache entries, and those only to a binary of
their key.

`InstallerProofs` proves, for every set of imports, type correctness and the
five safety invariants of the installer. They speak of an install that has
returned, or of one moment of it; `Inv` says what holds on the way: `Owed`
(which deferred function owes what: GOWORK and GOFLAGS as a function of
`defers`), `Unfailed`, `Restorable` (the snapshot is the source the caller left,
and in a devel build no step that may write into the source comes before it),
`Isolated` (which tree is built in, and that nothing but go.mod and go.sum of
the source has changed before it is chosen), `Prepared` (what the generated
files hold at each step of the preparation) and `Finished`. Each part has a
lemma with one case per action; `Edits` and its lemmas say once what a go
command or a write does to the trees.

`GomakeProofs` proves, for every number of signals, type correctness and the
four safety invariants of the process. `Inv` adds `Places` (where `Main` is
while the watch or the child is there), `Directory` (a build directory has a
watch that has not given up, or `Main` is at one of the named places without
one), `Codes` (a code 0 that `Main` holds on its way out was earned) and
`Messages` (the progress goroutine lives from the start of a slow step to the
end of `Join`). Each part has a lemma of its own, which cites only the parts it
needs.

`ListCacheProofs` proves, for any processes, imports, namespaces, tags and
edits, type correctness and the three safety invariants of the list cache. `Inv`
follows one goroutine: `Started` (it is there for an index of `specs` and while
the call waits), `Keyed` (without a raced edit its key is of the project as it
is until `go list` is asked), `Listed` (what `go list` says now has been seen,
and what is stored is pinned by the key), `Returned`; and one call: `Scanned`
(what is kept is what was looked at, once and in its order). The heart is `RoutineHolds`, one
case per action of a goroutine: an entry found under the key is what `go list`
would say now, because a pinned package does not change with the content of the
disk (`Truths`). `RoutineFrame` says that a goroutine leaves the others alone,
and `StepEdit` that an edit in a window sets `raced`, and any other leaves every
key in use as it is.

`AlgorithmsProofs` and `FilesProofs` prove the eight invariants of the pure
algorithms. The run compares each algorithm with its reference definition on
small inputs; the proofs do so for all: paths, lists of packages, of directives
and of entries of any length, trees of any depth over any names, packages with
any finite number of types. What is a
small set by definition stays one: the kinds of a value, the versions and
replacements of `Replaces`, the use directives of `GoWork`, the directories of
`Sources`. A theorem about an algorithm (`AliasesAreFree`, `PathIsParsed`, ...)
is stated for its arguments; that about the specification says in addition what
a call returns (`...Called`, an invariant of its own where the property alone is
not inductive), and follows from it.

The algorithms are loops and recursions, and the induction theorems of the
library take an operator as a parameter, which the provers cannot instantiate.
`Induction` states them over sets: a set of numbers that has 0 and, with each
number, the next one (`Induct`); that a recursion over a list has a value
(`Recursion`); that `FoldLeft` of the community modules has the states of a loop
(`FoldRecursion`, `FoldStates`), and `FlattenSeq` too (`Flattened`); that a loop
that keeps only what it has not seen leaves each element once, in the order of
the list (`EachOnceAdds`); and that a recursion whose values depend on
those of smaller arguments only has a value (`Fixpoint`). A proof about a fold is
then the invariant of that loop:

- Aliases: after each package, the aliases so far are as many as the packages,
  differ from each other and from what is taken. `FreeNumber` is the pigeonhole:
  one of the numbers tried is free.
- Blocks: the walk down the tree ends at the lowest mapping on the path
  (`LowestNode`), the walk back up at the nearest one with a setting
  (`Returns`); no node below the target's path is a mapping the walk missed,
  because the entries of a tree lie in mappings (`WellFormed`, which every file
  has). `CheckTellsTheSame` needs trees that have a setting at the root or are
  no mapping: the check looks at the root of a tree only.
- Namespaces: a `Chain` leads from base to base, a trail is one that starts at
  a root, and a type has at most one (`OneTrail`). `BreadcrumbsLead` says what
  the recursion over one file tells, by induction over the types it has not
  seen. `AddTypeInv` is the inductive invariant of `addType`'s loop: what is
  complete is a trail, every type with a trail is complete, or its breadcrumbs
  wait for one that is still to be completed. When a pass completes nothing, a
  type that waits has no trail, because the shortest one would have been
  joined; so the result does not depend on the order of the map.
- Paths: a list of cuts that are followed by well-formed pieces determines what
  the scanner returns (`CutsAreRead`, by induction from the end of the path),
  and when the scanner succeeds there is such a list (`CutsFound`). The grammar
  chooses a set of dots and enumerates it by rank (`EndsInOrder`); there is one
  order (`OneOrder`), so sets of dots and lists of cuts are the same
  (`ParseIsRead`, `ReadIsParse`). That the path has one parse at most follows,
  since the scanner returns one result.
- Files: drops take away what is dropped, adds add, and no drop names what an add
  puts there (`DropsAll`, `AddsAll`); after each rewritten replace directive the
  table has the new ones for those written, the old ones for the others
  (`TableAfter`); what is merged after some entries is those entries once, in their order,
  or an error when two of them disagree (`MergedOf`), and the lists merged one
  after the other are merged like the one list they make; the same for configs
  and their keys (`AppliedOf`).

Assumed: the constants' assumptions and nothing else. `MaxSignals`, `MaxEdits`,
`MaxTags` and `MaxPath` are natural numbers; the types of a package are finitely
many, and neither of the two words that stand for "no base here" is one of them
(`TypeAssumption`); `Leaf` is a name (`InputsAssumption`). `Installer` has none.

Only model-checked: liveness (`RunEnds`, `ProcessEnds`, `CompiledRuns`,
`ResolutionEnds`, `AddTypeEnds`), which the prover cannot treat: it has no rules
for fairness or ENABLED. The runs that expect a violation show one state each,
and there is nothing to prove about them.

## What is not modelled

- Names, texts, flags and the wording of errors; the content of sources,
  beyond whether two contents are the same.
- In `Gomake`: signals inherited as ignored (`TargetRunner` has them) and a
  `RemoveAll` that fails.
- In `BinaryCache`: random temporary names that repeat among running
  processes, and edits that change one file of a group while another file of
  it is read.
- In `Installer`: a kill, which skips the restore of a build in place as the
  documentation says, and a second writer of the same source tree.
- In `ListCache`: the environment in the key, which is the same for all; the
  temporary file of a store and kills, which can only lose an entry; a go.work
  that is there but cannot be read; vendored packages.
- In `Settings`: options that change no setting, and the further conflicts of
  `--bin`. A `settings.timeout` counts as `--timeout` there: with it in a file
  `--bin` is refused.
- In `Replaces`, `Sources`: modules that differ in more than their versions
  (directives of two modules do not meet), directories that lie in one another
  beyond those named, replace blocks, which the go command sorts, and the
  contents of files. In `TargetNames`: two imports of one file that Go rejects.
- The values of configuration (`GetCfg` from the path on), the list of targets
  that `--check-config` prints below the problems, the require directives added to go.mod and the download of
  xflag.
- The signatures of targets and the reading of Go syntax trees; the decoding
  of YAML, and the limits of time and size of a fetched targets file: that a
  fetch fails is a step of `Installer`.
- The templates of generated code, completion, path and environment helpers,
  platform tables and the version string: text and tables without state.

## Plan

1. Done: `TargetRunner` with `RunPromise`, `BinaryCache`, `Installer`, `Gomake`
   with the progress messages, and `ListCache`, each with proofs; the pure
   algorithms of configuration, workspace, sources, names, namespaces and
   targets files, with proofs of all their invariants.
2. Left: the conversion of `GetCfg` values.
