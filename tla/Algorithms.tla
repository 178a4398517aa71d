----------------------------- MODULE Algorithms -----------------------------
(***************************************************************************)
(* Calls the pure algorithms of gomake with all small inputs, one action   *)
(* for each algorithm; where the code ranges over a map, in any order.     *)
(***************************************************************************)
EXTENDS ConfigPath, TargetConfig, Settings, CheckConfig, GoWork, Replaces,
        Sources, Namespaces, TargetNames, TargetsFile

CONSTANTS
  MaxPath,  \* the length of a configuration path, bounds the inputs
  Leaf      \* the one name used at the third level of a tree, bounds the inputs

ASSUME InputsAssumption == MaxPath \in Nat /\ Leaf \in Name

VARIABLES
  call,    \* the algorithm called, with its arguments
  result   \* what it returned, or its state while it runs

vars == <<call, result>>

None == [fn |-> "none"]
Init == call = None /\ result = None

-----------------------------------------------------------------------------
(* Inputs.                                                                 *)

Node == UNION {[1..n -> Name] : n \in 1..2}
Below(node) == {Append(node, k) : k \in IF Len(node) < 2 THEN Name ELSE {Leaf}}

Mappings == {m \in SUBSET Node : \A node \in m : Len(node) = 2 => <<node[1]>> \in m}

Trees ==
  UNION {LET maps == m \cup {<<>>}
         IN {[maps |-> maps, leaves |-> l] :
               l \in SUBSET ((UNION {Below(node) : node \in maps}) \ maps)} :
         m \in Mappings}

(* A tree for the target's import path, or none.                           *)
FileOf(imp, trees) == {[i \in {} |-> {}]} \cup {[i \in {imp} |-> t] : t \in trees}

(* Files of replace directives, no two for the same version.               *)
ReplaceLists ==
  UNION {{[i \in DOMAIN olds |-> [old |-> olds[i], new |-> news[i]]] :
            news \in [DOMAIN olds -> Replacement]} :
         olds \in UNION {SetToSeqs(vs) : vs \in SUBSET (Versions \cup {AnyVersion})}}

RootSetting == [maps |-> {<<>>}, leaves |-> {<<Leaf>>}]

(* gomake.yaml files with a block or something else for two packages.      *)
YamlFiles ==
  YamlFile([state : {"fine"}, timeout : {"unset", "bad"}, tmp : Dir],
           UNION {[imps -> {RootSetting, NotMapping}] : imps \in SUBSET {"main", "ext"}})

(* makefile.go with one or two other files, and a project each of whose    *)
(* lists names at most one directory.                                      *)
SourceFiles ==
  {{main, f, g} : main \in {file \in SourceFile : file.name = "makefile.go"},
                  f, g \in {file \in SourceFile : file.name # "makefile.go"}}
Projects == Project({{}} \cup {{dir} : dir \in SourceDir})

(* The declared names of up to four packages, and imports of up to two.    *)
PackageNames == BoundedSeq(Ident, 4)
FileImportLists == BoundedSeq(Import({Plainly("git"), Plainly("run")}), 2)

(* Up to two targets files: one of any two entries, or any entry each.     *)
OneEntry   == NoEntries \cup {TargetsFile(<<ent>>) : ent \in Entry}
TwoEntries == {TargetsFile(ents) : ents \in Entry \X Entry}
FileLists  ==
  {<<file>> : file \in OneEntry \cup TwoEntries} \cup (OneEntry \X OneEntry)
  \cup (TwoEntries \X {TargetsFile(<<ent>>) : ent \in Entry})

-----------------------------------------------------------------------------
Idle == call = None

Calls(c, r) == call' = c /\ result' = r

CallSplitPath ==
  /\ Idle
  /\ \E path \in BoundedSeq(Char, MaxPath) :
       Calls([fn |-> "splitPath", path |-> path], SplitPath(path))

CallResolveDelivered ==
  /\ Idle
  /\ \E tgt \in [spec : {"", "sub", "ext"}, name : Node], other \in Node,
        inModule \in BOOLEAN :
       LET imp     == TargetImp(tgt, LocalImportPath(inModule))
           foreign == IF tgt.spec = "ext" THEN "sub" ELSE "ext"
           tgts    == {tgt, [spec |-> tgt.spec, name |-> other]}
                      \cup {[spec |-> foreign, name |-> <<k>>] : k \in Name}
       IN /\ tgt.spec = "sub" => inModule
          /\ \E project \in FileOf(imp, Trees), user \in FileOf(imp, {RootSetting}) :
               Calls([fn |-> "resolveDelivered", tgt |-> tgt, imp |-> imp,
                      inModule |-> inModule, user |-> user, project |-> project,
                      tgts |-> tgts],
                     ResolveDelivered(tgt, inModule, user, project, tgts))

CallParse ==
  /\ Idle
  /\ \E option \in Option, env \in Dir \ {"empty"}, user, project \in File :
       Calls([fn |-> "parse", option |-> option, env |-> env, user |-> user,
              project |-> project],
             Parse(option, env, user, project))

CallCheckConfig ==
  /\ Idle
  /\ \E tmp \in {"unset", "absolute"}, inModule \in BOOLEAN, user, project \in YamlFiles,
        specs \in SUBSET {"", "ext"} :
       LET option == [mode |-> "check", timeout |-> "unset", tmp |-> tmp]
           tgts == [spec : specs, name : {<<k>> : k \in Name \ {Leaf}}]
       IN /\ user.settings.timeout = "unset"
          /\ Calls([fn |-> "runCheckConfig", inModule |-> inModule, user |-> user,
                    project |-> project, tgts |-> tgts],
                   RunCheckConfig(option, "unset", inModule, user, project, tgts))

CallEditGoWork ==
  /\ Idle
  /\ \E uses \in SUBSET Use, modRoot \in {"module", "work"} :
       \E drops, adds \in Orders(uses, modRoot) :
         Calls([fn |-> "editGoWork", uses |-> uses, modRoot |-> modRoot],
               EditGoWork(uses, modRoot, drops, adds))

CallAbsolutizeReplaces ==
  /\ Idle
  /\ \E file \in {"go.mod", "go.work"}, rpls \in ReplaceLists :
       Calls([fn |-> "absolutizeReplaces", file |-> file, rpls |-> rpls],
             AbsolutizeReplaces(file, rpls))

CallSelectMakefiles ==
  /\ Idle
  /\ \E files \in SourceFiles :
       Calls([fn |-> "selectMakefiles", files |-> files], CompiledMakefiles(files))

CallBinaryCacheKey ==
  /\ Idle
  /\ \E project \in Projects :
       /\ ~WorkMissing(project)
       /\ Calls([fn |-> "binaryCacheKey", project |-> project], HashedDirs(project))

CallImportAliases ==
  /\ Idle
  /\ \E names \in PackageNames, reserved \in SUBSET {<<"git", 0>>, <<"git", 2>>} :
       Calls([fn |-> "importAliasMap", names |-> names, reserved |-> reserved],
             ImportAliases(names, reserved))

CallMarkDefault ==
  /\ Idle
  /\ \E imps \in FileImportLists, q \in {Plainly("git"), Plainly("run")} :
       /\ FileCompiles(imps, q)
       /\ Calls([fn |-> "markDefault", imps |-> imps, q |-> q], MarkDefault(imps, q))

CallEffectiveImports ==
  /\ Idle
  /\ \E files \in FileLists :
       Calls([fn |-> "effectiveImports", files |-> files], EffectiveImports(files))

CallApplyMeta ==
  /\ Idle
  /\ \E file \in OneEntry \cup TwoEntries :
       Calls([fn |-> "applyExternalTargetMeta", file |-> file],
             ApplyExternalTargetMeta(file))

CallAddType ==
  /\ Idle
  /\ \E pkg \in Package :
       Calls([fn |-> "addType", pkg |-> pkg], FirstPass(pkg))

Running == call.fn = "addType" /\ ~result.done

VisitOne ==
  /\ Running
  /\ \E rel \in result.todo : result' = Visit(call.pkg, result, rel)
  /\ UNCHANGED call

EndPass ==
  /\ Running /\ result.todo = {}
  /\ result' = NextPass(result)
  /\ UNCHANGED call

Return == ~Idle /\ ~Running /\ call' = None /\ result' = None

Next ==
  \/ CallSplitPath \/ CallResolveDelivered \/ CallParse \/ CallCheckConfig
  \/ CallEditGoWork
  \/ CallAbsolutizeReplaces \/ CallSelectMakefiles \/ CallBinaryCacheKey
  \/ CallImportAliases \/ CallMarkDefault \/ CallEffectiveImports \/ CallApplyMeta
  \/ CallAddType \/ VisitOne \/ EndPass \/ Return

(* A loop that can go on does.                                             *)
Spec == Init /\ [][Next]_vars /\ WF_vars(VisitOne \/ EndPass)

-----------------------------------------------------------------------------
(* Properties.                                                             *)

(* splitPath accepts what the grammar of Config.Has allows, and returns    *)
(* the one way to read it: quotes and dots never make a path ambiguous.    *)
SplitPathParses ==
  call.fn = "splitPath" =>
    IF result.ok THEN Parses(call.path) = {result.segs}
    ELSE call.path = <<>> \/ Parses(call.path) = {}

(* "GoMake delivers the nearest-level block ... A block never includes a   *)
(* nested target's keys" (configuration.md): it is the project's if there  *)
(* is any setting on the target's path, else the user's, but never for a   *)
(* package of the module gomake runs in; it is that of the deepest node of *)
(* the path with a setting, all of its settings, and none of a target or   *)
(* namespace of the package.  --check-config tells the same: of the trees  *)
(* with a setting at the root, it reports those that reach no target, but  *)
(* for a tree of the user's, which may be for another project.             *)
DeliversNearest ==
  /\ call.fn = "resolveDelivered" =>
       LET Has(file) == /\ call.imp \in DOMAIN file
                        /\ \E node \in file[call.imp].maps :
                             HasSetting(file[call.imp], call.tgts, call.tgt, node)
           outside == call.tgt.spec = "ext" \/ ~call.inModule
           level   == IF Has(call.project) THEN "project"
                      ELSE IF outside /\ Has(call.user) THEN "user" ELSE "none"
           Tree    == IF level = "project" THEN call.project ELSE call.user
       IN /\ result.level = level
          /\ level # "none" =>
               NearestBlock(result.block, Tree[call.imp], call.tgts, call.tgt)
  /\ call.fn = "runCheckConfig" /\ result.error = "none" =>
       LET Reached(level, imp) ==
             \E tgt \in call.tgts :
               /\ TargetImp(tgt, LocalImportPath(call.inModule)) = imp
               /\ ResolveDelivered(tgt, call.inModule, call.user.trees,
                                   call.project.trees, call.tgts).level = level
           Reported(level) == {p[3] : p \in {q \in result.problems :
                                 q[1] \in {"malformed", "unmatched"} /\ q[2] = level}}
       IN /\ \A imp \in DOMAIN call.project.trees :
               imp \in Reported("project") <=> ~Reached("project", imp)
          /\ \A imp \in Reported("user") : ~Reached("user", imp)

(* The value of the first source that gives one.                           *)
FirstGiven(values) ==
  LET given == {i \in DOMAIN values : Given(values[i])}
  IN IF given = {} THEN Unset
     ELSE values[CHOOSE i \in given : \A j \in given : i <= j]

(* "command-line option > environment variable > project file > user       *)
(* file": the settings are those of the first source that gives one, and a *)
(* value that a higher source hides never makes a run fail; a file that    *)
(* does not load fails every run that reads the files.  Where a check with *)
(* a --tmp of its own finds no problem, a run without one has its settings.*)
FirstSourceDecides ==
  /\ call.fn = "parse" =>
       LET option == call.option
           reads  == option.mode \in {"run", "bin", "check"}
           timeout == FirstGiven(
             IF reads THEN <<<<option.timeout, "option">>, <<call.project.timeout, "project">>,
                             <<call.user.timeout, "user">>>>
             ELSE <<<<option.timeout, "option">>>>)
           tmp     == FirstGiven(
             IF reads THEN <<<<option.tmp, "option">>, <<call.env, "env">>,
                             <<call.project.tmp, "project">>, <<call.user.tmp, "user">>>>
             ELSE <<<<option.tmp, "option">>, <<call.env, "env">>>>)
           valid   == /\ timeout[1] \notin {"bad", "negative"} /\ tmp[1] # "relative"
                      /\ reads => "broken" \notin {call.user.state, call.project.state}
                      /\ option.mode = "bin" => timeout[1] # "positive"
       IN option.mode # "complete" =>
            /\ result.error = "none" <=> valid
            /\ valid => /\ result.timeout = IF Given(timeout) THEN timeout ELSE NoDeadline
                        /\ result.tmp = IF tmp[1] \in {"unset", "empty"} THEN TempDir
                                        ELSE tmp
  /\ call.fn = "runCheckConfig" /\ result = NoProblems =>
       Parse([mode |-> "run", timeout |-> "unset", tmp |-> "unset"], "unset",
             call.user.settings, call.project.settings).error = "none"

(* The files copied into the build directory mean what they meant: in      *)
(* whatever order editGoWork sees its map, the workspace has its modules,  *)
(* with the build directory in the place of the makefile's, and every      *)
(* version of a module is replaced by what replaced it, unless a directive *)
(* for any version is written anew over one for a version.                 *)
CopyMeansTheSame ==
  /\ call.fn = "editGoWork" =>
       {MeantInCopy(use) : use \in result} =
       {Meant(use, call.modRoot) : use \in call.uses}
  /\ call.fn = "absolutizeReplaces" /\ ~Overrides(call.file, call.rpls) =>
       \A v \in Versions : SameReplacement(call.rpls, result, v)

(* In whatever order addType sees its map, every type whose bases lead to  *)
(* a root gets that trail, over any number of files and through types that *)
(* are not exported, and no other type gets one.                           *)
TrailsFound ==
  call.fn = "addType" /\ result.done =>
    LET trails == Trails(call.pkg)
    IN /\ result.complete = [t \in {Last(s) : s \in trails} |->
                               CHOOSE s \in trails : Last(s) = t]
       /\ result.added = DOMAIN result.complete \cap call.pkg.exported

(* Who lists the targets, who keys the binary and who builds it see the    *)
(* same sources: what is listed is compiled, unless makefile.go excludes   *)
(* itself, and every directory with local sources that the build reads is  *)
(* hashed, but for the ones the key is known not to follow.                *)
OneViewOfSources ==
  /\ call.fn = "selectMakefiles" =>
       LET listed == SelectMakefiles(call.files)
           main   == CHOOSE file \in call.files : file.name = "makefile.go"
       IN /\ listed \subseteq result
          /\ GoBuilds(main, TRUE) => listed = result
  /\ call.fn = "binaryCacheKey" =>
       ReadDirs(call.project) \ Unfollowed(call.project) \subseteq result

(* Generated code reaches every target package, and Default is the target  *)
(* that Go takes it for: no import gets the name of another, of a          *)
(* declaration of the makefile or of what the template uses, whatever the  *)
(* packages are called, and of packages with one name Default leads to the *)
(* imported one.                                                           *)
NamesResolve ==
  /\ call.fn = "importAliasMap" =>
       /\ Len(result) = Len(call.names) /\ IsInjective(result)
       /\ ToSet(result) \cap (Seeded \cup call.reserved) = {}
  /\ call.fn = "markDefault" /\ ~NameGuessed(call.imps, call.q) =>
       result = GoDefault(call.imps, call.q)

(* "The generated file shares the package block with the main package, so  *)
(* an import name must not repeat one of its top-level identifiers"        *)
(* (targets.go): those of the generated makefile among them.               *)
NamesAreFree ==
  call.fn = "importAliasMap" =>
    ToSet(result) \cap (call.reserved \cup GeneratedMain) = {}

(* The entries of the files, one file after the other.                     *)
AllEntries(files) == FlattenSeq([i \in DOMAIN files |-> files[i].entries])

(* "The files are read in the order given and their imports combined"      *)
(* (builtin-targets.md): each import is in the result once, in that order. *)
(* Of several files two entries that disagree about a package are an error,*)
(* also when both are in one of them; a file given alone is taken as it    *)
(* is, where only two equal paths with their versions are an error, so it  *)
(* may have a package in two versions.  And the configs of a project's     *)
(* file are all found under their own keys.                                *)
TargetsMerged ==
  /\ call.fn = "effectiveImports" =>
       LET all      == AllEntries(call.files)
           loaded   == \A file \in ToSet(call.files) :
                         file.state = "read" /\ ~DupPaths(file.entries)
           conflict == /\ Len(call.files) > 1
                       /\ \E e, f \in ToSet(all) : e.pkg = f.pkg /\ e # f
       IN /\ result.error = "none" <=> loaded /\ ~conflict
          /\ result.error = "conflict" <=> loaded /\ conflict
          /\ result.error = "none" => EachOnce(result.imports, all)
  /\ call.fn = "applyExternalTargetMeta" =>
       LET readable   == call.file.state # "invalid" /\ ~DupPaths(call.file.entries)
           configured == {ent \in ToSet(call.file.entries) : ent.config # ""}
           \* The packages are all called db, whatever their paths end in.
           Key(ent)   == IF ent.namespace # "" THEN ent.namespace ELSE "db"
       IN /\ result.error = "duplicate" <=>
               readable /\ \E e, f \in configured : e # f /\ Key(e) = Key(f)
          /\ readable /\ result.error = "none" =>
               result.meta = [k \in {Key(e) : e \in configured} |->
                                ImportPath(CHOOSE e \in configured : Key(e) = k)]

(* addType ends, also when types are based on each other across files or   *)
(* on a type that is no namespace.                                         *)
AddTypeEnds == Running ~> ~Running
=============================================================================
