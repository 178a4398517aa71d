------------------------------ MODULE Sources ------------------------------
(***************************************************************************)
(* Which of a project's sources gomake lists targets from, copies into the *)
(* build directory and hashes into the key of the binary cache             *)
(* (selectMakefiles, prepare, stripBuildTag and findGoWork in              *)
(* internal/cli/helpers.go, binaryCacheKey in cache.go), and which ones    *)
(* the go command then builds.                                             *)
(*                                                                         *)
(* A makefile is its kind of name and its build constraint.  The           *)
(* directories with Go files are the makefile's module, two inside it, one *)
(* of which the walks of the cache skip by its name, and three outside.    *)
(***************************************************************************)

(* makefile.go, a variant for this platform, one for another platform, and *)
(* a name that no makefile has.                                            *)
MakefileName == {"makefile.go", "here", "elsewhere", "custom"}
Constraint   == {"none", "gomake", "gomake && here", "gomake && elsewhere",
                 "elsewhere", "!gomake"}
SourceFile   == [name : MakefileName, constraint : Constraint]

(* The go command's choice, with the tag gomake set or not.                *)
Satisfied(constraint, tag) ==
  \/ constraint = "none"
  \/ tag /\ constraint \in {"gomake", "gomake && here"}
  \/ ~tag /\ constraint = "!gomake"

GoBuilds(file, tag) == file.name # "elsewhere" /\ Satisfied(file.constraint, tag)

-----------------------------------------------------------------------------
(* The makefiles of the package, from which the targets are listed.        *)
ValidMakefileName(name) == name # "custom"

SelectMakefiles(files) ==
  {file \in files : GoBuilds(file, TRUE) /\ ValidMakefileName(file.name)}

(* makefile.go is copied, and is in the key, selected or not.              *)
CopiedMakefiles(files) ==
  SelectMakefiles(files) \cup {file \in files : file.name = "makefile.go"}

(* A constraint that mentions the tag is dropped, all of it.               *)
StripBuildTag(file) ==
  IF file.constraint \in {"none", "elsewhere"} THEN file
  ELSE [file EXCEPT !.constraint = "none"]

(* go build, without the tag, in the build directory.                      *)
CompiledMakefiles(files) ==
  {file \in CopiedMakefiles(files) : GoBuilds(StripBuildTag(file), FALSE)}

-----------------------------------------------------------------------------
Outside   == {"sibling", "shared", "other"}
SourceDir == {"module", "module/sub", "module/vendor"} \cup Outside

(* A project: the environment's GOWORK, whether go.work is at the module   *)
(* or above it, the directories its use and replace directives name, and   *)
(* those that the go.mod of the module and of a sibling do.                *)
Project(choices) ==
  [gowork : {"", "off", "missing", "set"}, above : BOOLEAN,
   use : choices, workReplaces : choices,
   replaces : [{"module", "sibling"} -> choices]]

(* findGoWork: prepare fails when GOWORK names no file.                    *)
WorkMissing(project) == project.gowork = "missing"
InWorkspace(project) ==
  project.gowork = "set" \/ (project.gowork = "" /\ project.above)

(* A variant with one plausible bug, for the mutant runs: the replace      *)
(* directives of go.work are forgotten.                                    *)
ExternalOnlyUse(project) ==
  (IF InWorkspace(project) THEN project.use ELSE {}) \cup project.replaces["module"]

(* The local directories of go.work and of the module's go.mod.            *)
ExternalModuleTrees(project) ==
  (IF InWorkspace(project) THEN project.use \cup project.workReplaces ELSE {})
  \cup project.replaces["module"]

(* The walk of the module skips vendor; of the rest, what is inside the    *)
(* module is taken to be in that walk.                                     *)
HashedDirs(project) ==
  {"module", "module/sub"} \cup (ExternalModuleTrees(project) \cap Outside)

(* What the build reads: a workspace takes the replacements of all of its  *)
(* modules, a build without one those of its module.                       *)
ReadDirs(project) ==
  LET main == IF InWorkspace(project) THEN project.use \cup {"module"} ELSE {"module"}
  IN {"module", "module/sub"}
     \cup (UNION {project.replaces[m] : m \in main \cap {"module", "sibling"}})
     \cup IF InWorkspace(project) THEN project.use \cup project.workReplaces ELSE {}

(* What the key does not follow: the go.mod of another module of the       *)
(* workspace, and a skipped directory of the module.                       *)
Unfollowed(project) ==
  {"module/vendor"}
  \cup IF InWorkspace(project) /\ "sibling" \in project.use
       THEN project.replaces["sibling"] ELSE {}
=============================================================================
