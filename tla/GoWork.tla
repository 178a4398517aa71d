------------------------------- MODULE GoWork -------------------------------
(***************************************************************************)
(* The use directives of the go.work file copied into the build directory  *)
(* (editGoWork in internal/cli/helpers.go), which ranges over a map and so *)
(* edits in any order.  Replaces has its replace directives.               *)
(*                                                                         *)
(* A use directive is its form and the directory it means where the file   *)
(* was: "module" holds the makefile (unless the workspace itself does),    *)
(* "work" holds go.work, "other" is another module's.                      *)
(***************************************************************************)
EXTENDS Naturals, SequencesExt

Use == {"relative", "absolute"} \X {"module", "work", "other"}
Here == <<"relative", "work">>  \* the directive "."

(* go work edit, on the set of directives.                                 *)
DropUse(uses, use) == uses \ {use}
AddUse(uses, use)  == uses \cup {use}

-----------------------------------------------------------------------------
(* A variant with one plausible bug, for the mutant runs: each directive   *)
(* is replaced on its own.                                                 *)
EditInterleaved(uses, replace, drops, adds) ==
  FoldLeft(LAMBDA us, u : AddUse(DropUse(us, u), replace[u]), uses, drops)

-----------------------------------------------------------------------------
(* What a directive becomes; a directive outside the domain stays.         *)
Replace(uses, modRoot) ==
  [u \in {v \in uses : IF v[2] = modRoot THEN v # Here ELSE v[1] = "relative"} |->
     IF u[2] = modRoot THEN Here ELSE <<"absolute", u[2]>>]

(* First every drop, then every add, in the order the map gives them.      *)
Edit(uses, replace, drops, adds) ==
  FoldLeft(AddUse, FoldLeft(DropUse, uses, drops),
           [i \in DOMAIN adds |-> replace[adds[i]]])

(* The orders in which the two loops can see the map.                      *)
Orders(uses, modRoot) == SetToSeqs(DOMAIN Replace(uses, modRoot))

EditGoWork(uses, modRoot, drops, adds) ==
  Edit(uses, Replace(uses, modRoot), drops, adds)

-----------------------------------------------------------------------------
(* The directory a directive means, where the file was and in the copy.    *)
Meant(use, modRoot) == IF use[2] = modRoot THEN "build" ELSE use[2]

MeantInCopy(use) ==
  IF use = Here THEN "build" ELSE IF use[1] = "absolute" THEN use[2] ELSE "lost"
=============================================================================
