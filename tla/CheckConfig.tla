----------------------------- MODULE CheckConfig -----------------------------
(***************************************************************************)
(* The report of --check-config (runCheckConfig in                         *)
(* internal/cli/config_file.go): the problems of the two gomake.yaml files *)
(* that a run tolerates.  It sees the targets and the files that a run     *)
(* sees, and decides by a walk of its own what is wrong with them.         *)
(*                                                                         *)
(* A gomake.yaml file is its settings and its trees by import path; a      *)
(* problem is its kind, the level of the file, and the import path.        *)
(***************************************************************************)
EXTENDS TargetConfig, Settings

(* A tree that is no mapping: its root is anything else.                   *)
NotMapping == [maps |-> {}, leaves |-> {<<>>}]

NoProblems == [error |-> "none", problems |-> {}]

YamlFile(settings, trees) == [settings : settings, trees : trees]

NotAbsolute(level, file) ==
  IF file.settings.tmp = "relative" THEN {<<"tmp", level>>} ELSE {}

Malformed(file) == {imp \in DOMAIN file.trees : <<>> \notin file.trees[imp].maps}

(* A key of the user's file may be for another project.                    *)
CheckConfigProblems(imps, user, project) ==
  NotAbsolute("user", user) \cup NotAbsolute("project", project)
  \cup {<<"malformed", "user", imp>> : imp \in Malformed(user)}
  \cup {<<"malformed", "project", imp>> : imp \in Malformed(project)}
  \cup {<<"unmatched", "project", imp>> :
          imp \in DOMAIN project.trees \ (Malformed(project) \cup imps)}

(* The options and the settings of the files are read as for a run, which  *)
(* may fail; then the report is of all targets gomake finds.               *)
RunCheckConfig(option, env, inModule, user, project, tgts) ==
  LET cfg  == Parse(option, env, user.settings, project.settings)
      imps == {TargetImp(tgt, LocalImportPath(inModule)) : tgt \in tgts}
  IN [error |-> cfg.error,
      problems |-> IF cfg.error # "none" THEN {}
                   ELSE CheckConfigProblems(imps, user, project)]
=============================================================================
