------------------------------ MODULE Replaces ------------------------------
(***************************************************************************)
(* The replace directives of the go.work and go.mod files copied into the  *)
(* build directory, which are made absolute because a relative path means  *)
(* another directory there (editGoWork and AbsolutizeGoModReplaces in      *)
(* internal/cli/helpers.go).                                               *)
(*                                                                         *)
(* A directive is one of a single module: the version it replaces, or any  *)
(* version, and what replaces it - a directory, by a relative or an        *)
(* absolute path, or a module.  A file has its directives in the order it  *)
(* lists them (they may be on lines of their own: inside a block the go    *)
(* command sorts them).                                                    *)
(***************************************************************************)
EXTENDS Naturals, Sequences, SequencesExt

AnyVersion  == "any"
Versions    == {"v1", "v2"}
Replacement == {<<"relative", "a">>, <<"relative", "b">>, <<"absolute", "b">>,
                <<"module", "c">>}

IsLocal(new)  == new[1] # "module"
Absolute(new) == <<"absolute", new[2]>>

(* A list of directives as a function from versions to replacements.       *)
Table(rpls) ==
  [v \in {rpls[i].old : i \in DOMAIN rpls} |->
     rpls[CHOOSE i \in DOMAIN rpls : rpls[i].old = v].new]

(* go mod edit and go work edit: "-replace overrides any redundant         *)
(* replacements for old[@v], so omitting @v will drop existing             *)
(* replacements for specific versions" (go help mod edit).                 *)
DropReplace(table, old) == RestrictDomain(table, LAMBDA v : v # old)

AddReplace(table, old, new) ==
  LET kept == IF old = AnyVersion THEN {} ELSE DOMAIN table
  IN [v \in kept \cup {old} |-> IF v = old THEN new ELSE table[v]]

-----------------------------------------------------------------------------
(* The directives that are written anew: with any directory in go.work,    *)
(* with a relative one in go.mod.                                          *)
Rewritten(file, new) == IsLocal(new) /\ (file = "go.mod" => new # Absolute(new))

Rewrite(file, table, rpl) ==
  IF Rewritten(file, rpl.new)
  THEN AddReplace(DropReplace(table, rpl.old), rpl.old, Absolute(rpl.new))
  ELSE table

(* The loop over the directives the file had before the first edit.        *)
AbsolutizeReplaces(file, rpls) ==
  FoldLeft(LAMBDA table, rpl : Rewrite(file, table, rpl), Table(rpls), rpls)

-----------------------------------------------------------------------------
(* What replaces version v of the module: the directive of the version, or *)
(* else the one of any version.                                            *)
ReplacedBy(table, v) ==
  IF v \in DOMAIN table THEN table[v]
  ELSE IF AnyVersion \in DOMAIN table THEN table[AnyVersion]
  ELSE <<"module", "itself">>

(* The same in the copy, where a relative path leads elsewhere.            *)
SameReplacement(rpls, table, v) ==
  LET was == ReplacedBy(Table(rpls), v)
  IN ReplacedBy(table, v) = IF IsLocal(was) THEN Absolute(was) ELSE was

(* A directive for any version is written anew, and one for a version that *)
(* leads elsewhere is not written anew after it.                           *)
Overrides(file, rpls) ==
  \E i, j \in DOMAIN rpls :
    /\ rpls[j].old = AnyVersion /\ Rewritten(file, rpls[j].new)
    /\ i < j \/ ~Rewritten(file, rpls[i].new)
    /\ rpls[i].new[2] # rpls[j].new[2]
=============================================================================
