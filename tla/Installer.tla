------------------------------ MODULE Installer ------------------------------
(***************************************************************************)
(* The installer (internal/install): one call of installTo, which builds   *)
(* the gomake binary with external targets compiled in.  It borrows the    *)
(* environment, the source tree and temporary directories, any of its      *)
(* steps may fail, and its deferred functions give everything back.  Go    *)
(* commands are external: they fail, or they work and may rewrite go.mod   *)
(* and go.sum where they run.                                              *)
(***************************************************************************)
EXTENDS Naturals

CONSTANT Import   \* import paths a targets file can list

VARIABLES
  devel,     \* "go run ./cmd/install" from a source tree, not a module version
  repo,      \* is that source tree in a repository?
  given,     \* were --targets files given?
  wanted,    \* the effective imports, resolved by EffectiveImports
  local,     \* those in Go modules that hold a local --targets file
  pc,        \* where installTo is
  err,       \* {}, or what its result reports: "err", "restore"
  gowork,    \* GOWORK for the go commands: caller's, off, or the workspace
  goflags,   \* does GOFLAGS hold -mod=mod?
  tree,      \* tree[d][f]: content of file f in the source and the copy
  saved,     \* the snapshot of the source's files
  dir,       \* the tree to build in
  temps,     \* temporary directories that exist
  got,       \* imports fetched with go get
  defers,    \* the deferred functions still to run
  out,       \* the installed binary
  asked      \* history: goflags and tree as the caller left them

mode == <<devel, repo, given>>
plan == <<wanted, local>>
env  == <<gowork, goflags>>
work == <<tree, saved, dir, temps>>
vars == <<mode, plan, pc, err, env, work, got, defers, out, asked>>

Generated == {"targets.go", "targets_main.go_"}
Sums  == {"go.mod", "go.sum"}
Files == {"targets.yaml"} \cup Generated \cup Sums
Trees == {"src", "tmp"}
Contents == {"absent", "orig", "new"}

(* What is installed: the old binary, or one built from a tree's generated *)
(* files, with or without the workspace.                                   *)
Binary == [gen : Contents \cup {"old", "mixed"}, ws : BOOLEAN]
Old == [gen |-> "old", ws |-> FALSE]

PcAt == {"start", "source", "imports", "snapshot", "version", "files", "copy",
         "replaces", "workspace", "yaml", "get", "temps", "targets", "main",
         "announce", "build", "unwind", "done"}

TypeOK ==
  /\ devel \in BOOLEAN /\ repo \in BOOLEAN /\ given \in BOOLEAN
  /\ wanted \in SUBSET Import /\ local \in SUBSET Import
  /\ pc \in PcAt /\ err \in SUBSET {"err", "restore"}
  /\ gowork \in {"caller", "off", "ws"} /\ goflags \in BOOLEAN
  /\ tree \in [Trees -> [Files -> Contents]]
  /\ saved \in [Files -> Contents]
  /\ dir \in Trees /\ temps \in SUBSET {"tmp", "ws"}
  /\ got \in SUBSET wanted
  /\ defers \in SUBSET {"gowork", "snapshot", "tmp", "ws"}
  /\ out \in Binary
  /\ asked \in [goflags : BOOLEAN, src : [Files -> Contents]]

Nothing == [f \in Files |-> "absent"]

(* A source tree has its generated files and go.mod.  Without --targets the *)
(* imports are those of its targets.yaml.                                  *)
Init ==
  /\ devel \in BOOLEAN /\ repo \in BOOLEAN /\ given \in BOOLEAN
  /\ wanted = {} /\ local = {}
  /\ pc = "start" /\ err = {}
  /\ gowork = "caller" /\ goflags \in BOOLEAN
  /\ \E yaml, sum \in {"absent", "orig"} :
       tree = [src |-> [f \in Files |-> CASE f = "targets.yaml" -> yaml
                                          [] f = "go.sum" -> sum
                                          [] OTHER -> "orig"],
               tmp |-> Nothing]
  /\ saved = Nothing /\ dir = "src" /\ temps = {}
  /\ got = {} /\ defers = {} /\ out = Old
  /\ asked = [goflags |-> goflags, src |-> tree.src]

Goto(from, to) == pc = from /\ pc' = to /\ err' = err

(* A step fails: installTo returns its error, through the defers.          *)
Fail(from) == pc = from /\ pc' = "unwind" /\ err' = {"err"}

Defer(name) == defers' = defers \cup {name}

(* A go command in tree d: -mod=mod does not go with a workspace.          *)
GoRuns == ~(gowork = "ws" /\ goflags)

GoRewrites(d) ==
  IF goflags /\ (d = "tmp" \/ devel)    \* the module cache is read-only
  THEN \E F \in SUBSET Sums :
         tree' = [tree EXCEPT ![d] = [f \in Files |-> IF f \in F THEN "new" ELSE @[f]]]
  ELSE tree' = tree

-----------------------------------------------------------------------------
(* Variants with one plausible bug each, for the mutant runs.              *)

SnapshotNotDeferred ==
  /\ Goto("snapshot", IF wanted = {} THEN "build" ELSE "version")
  /\ saved' = tree["src"] /\ UNCHANGED defers
  /\ UNCHANGED <<mode, plan, env, tree, dir, temps, got, out, asked>>

CopySkipped ==
  /\ Goto("copy", "workspace")
  /\ UNCHANGED <<mode, plan, env, work, got, defers, out, asked>>

CloseWorkspaceForgetsFlags ==
  /\ pc = "unwind" /\ "ws" \in defers
  /\ gowork' = "off" /\ goflags' = goflags
  /\ temps' = temps \ {"ws"}
  /\ defers' = defers \ {"ws"}
  /\ UNCHANGED <<mode, plan, pc, err, tree, saved, dir, got, out, asked>>

WorkspaceKeepsFlags ==
  /\ Goto("workspace", "yaml")
  /\ local' = local /\ temps' = temps \cup {"ws"}
  /\ gowork' = "ws" /\ UNCHANGED goflags
  /\ Defer("ws")
  /\ UNCHANGED <<mode, wanted, tree, saved, dir, got, out, asked>>

(* The imports read before the effective targets file was written.         *)
GoGetStaleTargets ==
  /\ pc = "get" /\ GoRuns
  /\ \E i \in Import \ (local \cup got) : Goto("get", "get") /\ got' = got \cup {i}
  /\ UNCHANGED <<mode, plan, env, work, defers, out, asked>>

RenameMainSkipped ==
  /\ Goto("main", "announce")
  /\ UNCHANGED <<mode, plan, env, work, got, defers, out, asked>>

-----------------------------------------------------------------------------
(* Which sources, which imports.                                           *)

(* GOBIN, the build information and the working directory come first; then *)
(* GOWORK is borrowed.                                                     *)
Start ==
  \/ /\ pc = "start" /\ pc' = "done" /\ err' = {"err"}
     /\ UNCHANGED <<mode, plan, env, work, got, defers, out, asked>>
  \/ /\ Goto("start", "source")
     /\ gowork' = "off" /\ Defer("gowork")
     /\ UNCHANGED <<mode, plan, goflags, work, got, out, asked>>

(* The module root of the working directory, or the download of the        *)
(* published version.                                                      *)
Source ==
  /\ Goto("source", "imports") \/ Fail("source")
  /\ UNCHANGED <<mode, plan, env, work, got, defers, out, asked>>

(* The --targets files, or the source's targets.yaml.                      *)
EffectiveImports ==
  /\ \/ /\ \E I \in SUBSET Import : wanted' = I
        /\ ~given /\ tree["src"]["targets.yaml"] = "absent" => wanted' = {}
        /\ Goto("imports", IF devel THEN "snapshot"
                           ELSE IF wanted' = {} THEN "build" ELSE "copy")
     \/ Fail("imports") /\ wanted' = wanted
  /\ UNCHANGED <<mode, local, env, work, got, defers, out, asked>>

(* snapshotGenerated remembers the files a build in place overwrites.      *)
SnapshotGenerated ==
  /\ \/ /\ Goto("snapshot", IF wanted = {} THEN "build" ELSE "version")
        /\ saved' = tree["src"] /\ Defer("snapshot")
     \/ Fail("snapshot") /\ UNCHANGED <<saved, defers>>
  /\ UNCHANGED <<mode, plan, env, tree, dir, temps, got, out, asked>>

(* repoVersion builds a probe in a repository; without a repository, or    *)
(* with -buildvcs=false, there is no version and the build is in place.    *)
RepoVersion ==
  /\ \/ ~repo /\ Goto("version", "workspace") /\ tree' = tree
     \/ /\ repo /\ GoRewrites("src")
        /\ \/ Goto("version", "files") \/ Goto("version", "workspace")
           \/ Fail("version")
  /\ UNCHANGED <<mode, plan, env, saved, dir, temps, got, defers, out, asked>>

(* buildFiles asks go list for the files to copy.                          *)
BuildFiles ==
  /\ GoRewrites("src")
  /\ Goto("files", "copy") \/ Fail("files")
  /\ UNCHANGED <<mode, plan, env, saved, dir, temps, got, defers, out,
                 asked>>

-----------------------------------------------------------------------------
(* The tree to build in.                                                   *)

(* copyToTemp removes what it created when it fails.                       *)
CopyToTemp ==
  /\ \/ /\ Goto("copy", IF devel THEN "replaces" ELSE "workspace")
        /\ tree' = [tree EXCEPT !["tmp"] = tree["src"]]
        /\ dir' = "tmp" /\ temps' = temps \cup {"tmp"}
        /\ Defer("tmp")
     \/ Fail("copy") /\ UNCHANGED <<tree, dir, temps, defers>>
  /\ UNCHANGED <<mode, plan, env, saved, got, out, asked>>

(* AbsolutizeGoModReplaces edits the copy's go.mod.                        *)
Replaces ==
  /\ Goto("replaces", "workspace") \/ Fail("replaces")
  /\ tree' \in {tree, [tree EXCEPT ![dir]["go.mod"] = "new"]}
  /\ UNCHANGED <<mode, plan, env, saved, dir, temps, got, defers, out,
                 asked>>

(* setupWorkspace: the modules that hold a local --targets file join a     *)
(* workspace, and GOFLAGS loses -mod=mod.  Its failure after it borrowed   *)
(* the environment gives it back at once.                                  *)
SetupWorkspace ==
  /\ \/ /\ Goto("workspace", "yaml")                       \* no such module
        /\ UNCHANGED <<local, env, temps, defers>>
     \/ Fail("workspace") /\ UNCHANGED <<local, env, temps, defers>>
     \/ /\ given /\ Goto("workspace", "yaml")
        /\ \E I \in SUBSET wanted : local' = I
        /\ temps' = temps \cup {"ws"} /\ Defer("ws")
        /\ gowork' = "ws" /\ goflags' = FALSE
  /\ UNCHANGED <<mode, wanted, tree, saved, dir, got, out, asked>>

-----------------------------------------------------------------------------
(* Preparing and building.                                                 *)

WriteTargetsFile ==
  /\ \/ ~given /\ Goto("yaml", "get") /\ tree' = tree
     \/ given /\ Goto("yaml", "get")
          /\ tree' = [tree EXCEPT ![dir]["targets.yaml"] = "new"]
     \/ given /\ Fail("yaml")
          /\ tree' \in {tree, [tree EXCEPT ![dir]["targets.yaml"] = "new"]}
  /\ UNCHANGED <<mode, plan, env, saved, dir, temps, got, defers, out,
                 asked>>

(* prepareExternalTargets fetches each import no workspace module holds;   *)
(* a failing go get is followed by go mod tidy and ends the install.       *)
GoGet ==
  /\ pc = "get" /\ GoRuns
  /\ \E i \in wanted \ (local \cup got) :
       \/ pc' = "get" /\ err' = err /\ got' = got \cup {i}
       \/ Fail("get") /\ got' = got
  /\ \E F \in SUBSET Sums :
       tree' = [tree EXCEPT ![dir] = [f \in Files |-> IF f \in F THEN "new" ELSE @[f]]]
  /\ UNCHANGED <<mode, plan, env, saved, dir, temps, defers, out, asked>>

(* regenBuiltins and GenImports generate both files before writing any,    *)
(* and writeFiles writes both to temporary files before renaming either.   *)
GenImports ==
  /\ wanted \subseteq local \cup got
  /\ GoRewrites(dir)
  /\ Goto("get", "temps") \/ Fail("get")
  /\ UNCHANGED <<mode, plan, env, saved, dir, temps, got, defers, out, asked>>

WriteTemps ==
  /\ Goto("temps", "targets") \/ Fail("temps")
  /\ UNCHANGED <<mode, plan, env, work, got, defers, out, asked>>

Renamed(from, to, f) ==
  /\ \/ Goto(from, to) /\ tree' = [tree EXCEPT ![dir][f] = "new"]
     \/ Fail(from) /\ tree' = tree
  /\ UNCHANGED <<mode, plan, env, saved, dir, temps, got, defers, out,
                 asked>>

RenameTargets == Renamed("targets", "main", "targets.go")
RenameMain    == Renamed("main", "announce", "targets_main.go_")

(* PrepareTargets reads the targets file again to announce the imports.    *)
Announce ==
  /\ Goto("announce", "build") \/ Fail("announce")
  /\ UNCHANGED <<mode, plan, env, work, got, defers, out, asked>>

Built ==
  [gen |-> IF tree[dir]["targets.go"] = tree[dir]["targets_main.go_"]
           THEN tree[dir]["targets.go"] ELSE "mixed",
   ws |-> gowork = "ws"]

(* build: go build replaces the installed binary when it succeeds.         *)
Build ==
  /\ GoRewrites(dir)
  /\ \/ Goto("build", "unwind") /\ GoRuns /\ out' = Built
     \/ Fail("build") /\ out' = out
  /\ UNCHANGED <<mode, plan, env, saved, dir, temps, got, defers, asked>>

-----------------------------------------------------------------------------
(* The deferred functions, last in first out: the workspace, the copy, the *)
(* snapshot, GOWORK, each of them if it was reached.                       *)

CloseWorkspace ==
  /\ pc = "unwind" /\ "ws" \in defers
  /\ gowork' = "off" /\ goflags' = asked.goflags
  /\ temps' = temps \ {"ws"}
  /\ defers' = defers \ {"ws"}
  /\ UNCHANGED <<mode, plan, pc, err, tree, saved, dir, got, out, asked>>

RemoveCopy ==
  /\ pc = "unwind" /\ "tmp" \in defers /\ "ws" \notin defers
  /\ temps' = temps \ {"tmp"}
  /\ defers' = defers \ {"tmp"}
  /\ UNCHANGED <<mode, plan, pc, err, env, tree, saved, dir, got, out, asked>>

(* joinRestore: a file that cannot be restored is reported beside what     *)
(* went wrong before.                                                      *)
RestoreSource ==
  /\ pc = "unwind" /\ "snapshot" \in defers /\ defers \cap {"tmp", "ws"} = {}
  /\ \E F \in SUBSET Files :
       /\ tree' = [tree EXCEPT !["src"] =
                     [f \in Files |-> IF f \in F THEN @[f] ELSE saved[f]]]
       /\ err' = IF F = {} THEN err ELSE err \cup {"restore"}
  /\ defers' = defers \ {"snapshot"}
  /\ UNCHANGED <<mode, plan, pc, env, saved, dir, temps, got, out, asked>>

RestoreGowork ==
  /\ pc = "unwind" /\ defers = {"gowork"}
  /\ gowork' = "caller"
  /\ defers' = {}
  /\ UNCHANGED <<mode, plan, pc, err, goflags, work, got, out, asked>>

Return ==
  /\ Goto("unwind", "done") /\ defers = {}
  /\ UNCHANGED <<mode, plan, env, work, got, defers, out, asked>>

Done == pc = "done" /\ UNCHANGED vars

Next ==
  \/ Start \/ Source \/ EffectiveImports \/ SnapshotGenerated
  \/ RepoVersion \/ BuildFiles \/ CopyToTemp \/ Replaces \/ SetupWorkspace
  \/ WriteTargetsFile \/ GoGet \/ GenImports \/ WriteTemps \/ RenameTargets
  \/ RenameMain \/ Announce \/ Build \/ CloseWorkspace \/ RemoveCopy
  \/ RestoreSource \/ RestoreGowork \/ Return
  \/ Done

Spec == Init /\ [][Next]_vars

-----------------------------------------------------------------------------
(* Properties.                                                             *)

(* Whatever step failed, the caller gets GOWORK and GOFLAGS back and no    *)
(* temporary directory is left ("the caller's value is restored on         *)
(* return"; installTo's defers, setupWorkspace).                           *)
BorrowedIsReturned ==
  pc = "done" => gowork = "caller" /\ goflags = asked.goflags /\ temps = {}

(* After a devel build, good or bad, the working tree is byte-identical to *)
(* what it was, or the error says that a restore failed: also when only    *)
(* one of the generated files had been replaced (snapshotGenerated,        *)
(* joinRestore, writeFiles).                                               *)
TreeRestored ==
  pc = "done" => tree["src"] = asked.src \/ "restore" \in err

(* A build that took a copy never writes the glue it regenerates, nor the  *)
(* targets.yaml, into the source, not even for a while: a kill there       *)
(* leaves nothing behind (copyToTemp, repoVersion).                        *)
CopyIsolatesSource ==
  dir = "tmp" \/ ~devel =>
    \A f \in Files \ Sums : tree["src"][f] = asked.src[f]

(* A success installs what was asked for: targets compiled in exactly when *)
(* imports are effective, from both generated files, from the workspace    *)
(* for modules on disk, with each other import fetched.  A failure before  *)
(* the end keeps the old binary (installTo, PrepareTargets, build).        *)
InstalledAsAsked ==
  pc = "done" =>
    /\ err = {} => /\ out.gen = (IF wanted = {} THEN "orig" ELSE "new")
                   /\ local # {} => out.ws
                   /\ wanted \subseteq local \cup got
    /\ "err" \in err => out = Old

(* A workspace never meets -mod=mod, with which every go command would     *)
(* fail (withoutModMod).                                                   *)
WorkspaceWithoutModMod == gowork = "ws" => ~goflags

(* "An install from a clone builds from a temporary copy of the files the  *)
(* build reads, so the targets.yaml and internal/builtin glue it           *)
(* regenerates never touches your working tree" (builtin-targets.md).      *)
CloneNeverTouched ==
  devel /\ repo => \A f \in Files \ Sums : tree["src"][f] = asked.src[f]
=============================================================================
