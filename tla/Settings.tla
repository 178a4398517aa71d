------------------------------ MODULE Settings ------------------------------
(***************************************************************************)
(* gomake's own settings: the options, the environment and the two         *)
(* gomake.yaml files (internal/cli/config.go, config_file.go).             *)
(*                                                                         *)
(* A value is a pair: what kind of duration or directory it is, and the    *)
(* source that gave it.                                                    *)
(***************************************************************************)
EXTENDS Naturals

Duration == {"unset", "bad", "negative", "zero", "positive"}
Dir      == {"unset", "empty", "relative", "absolute"}
Mode     == {"run", "bin", "check", "version", "complete"}

File == [state : {"missing", "broken"}, timeout : {"unset"}, tmp : {"unset"}]
        \cup [state : {"fine"}, timeout : Duration, tmp : Dir]

Unset == <<"unset", "none">>
Failure(kind) == [error |-> kind, timeout |-> Unset, tmp |-> Unset]
Success(timeout, tmp) == [error |-> "none", timeout |-> timeout, tmp |-> tmp]

(* The command line, where an empty --tmp is as good as none.              *)
Option == [mode : Mode, timeout : Duration, tmp : Dir \ {"empty"}]

FromOption(opt) == [timeout |-> <<opt.timeout, "option">>, tmp |-> <<opt.tmp, "option">>]
Given(value) == value[1] # "unset"
TempDir == <<"absolute", "default">>
NoDeadline == <<"zero", "default">>

-----------------------------------------------------------------------------
(* A variant with one plausible bug, for the mutant runs.                  *)
PickUser(user, project) == IF Given(user) THEN user ELSE project

-----------------------------------------------------------------------------
PickSetting(user, project) == IF Given(project) THEN project ELSE user

(* The settings sections of the two files, merged.                         *)
MergeConfigs(user, project) ==
  [timeout |-> PickSetting(<<user.timeout, "user">>, <<project.timeout, "project">>),
   tmp     |-> PickSetting(<<user.tmp, "user">>, <<project.tmp, "project">>)]

(* The temporary directory of an option, of the environment, of a file; an *)
(* empty one in the project file hides that of the user file.              *)
PickTmp(opt, env, merged) ==
  IF Given(opt) THEN opt
  ELSE IF env # "unset" THEN <<env, "env">>
  ELSE IF Given(merged) /\ merged[1] # "empty" THEN merged ELSE TempDir

ApplyFileConfig(opt, env, user, project) ==
  LET merged  == MergeConfigs(user, project)
      timeout == IF Given(opt.timeout) THEN opt.timeout ELSE merged.timeout
  IN IF "broken" \in {user.state, project.state} THEN Failure("file")
     ELSE IF timeout[1] = "bad" THEN Failure("file")
     ELSE IF timeout[1] = "negative" THEN Failure("timeout")
     ELSE Success(IF Given(timeout) THEN timeout ELSE NoDeadline,
                  PickTmp(opt.tmp, env, merged.tmp))

(* --version does without the files.                                       *)
ApplyEnvironment(opt, env) ==
  Success(IF Given(opt.timeout) THEN opt.timeout ELSE NoDeadline,
          PickTmp(opt.tmp, env, Unset))

(* --complete must be the only option, and reads nothing.                  *)
ParseComplete(opt) ==
  IF Given(opt.timeout) \/ Given(opt.tmp) THEN Failure("complete")
  ELSE Success(NoDeadline, Unset)

Parse(option, env, user, project) ==
  LET opt == FromOption(option)
      cfg == IF option.mode = "version" THEN ApplyEnvironment(opt, env)
             ELSE ApplyFileConfig(opt, env, user, project)
  IN IF option.timeout = "bad" THEN Failure("timeout")
     ELSE IF option.mode = "complete" THEN ParseComplete(opt)
     ELSE IF option.timeout = "negative" THEN Failure("timeout")
     ELSE IF cfg.error # "none" THEN cfg
     ELSE IF cfg.tmp[1] = "relative" THEN Failure("tmp")
     ELSE IF option.mode = "bin" /\ cfg.timeout[1] = "positive" THEN Failure("bin")
     ELSE cfg
=============================================================================
