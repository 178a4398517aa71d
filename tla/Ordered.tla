------------------------------ MODULE Ordered ------------------------------
(***************************************************************************)
(* What it means that a list is another one without its repetitions: the   *)
(* promise of the loops that skip what they have seen (gmImpPackages,      *)
(* MergeImports).                                                          *)
(***************************************************************************)
EXTENDS Naturals, Sequences, SequencesExt

(* s has each element of all once, in the order in which they come first.  *)
EachOnce(s, all) ==
  /\ ToSet(s) = ToSet(all)
  /\ \A i, j \in DOMAIN s : i < j =>
       \E k \in DOMAIN all : all[k] = s[i] /\ \A l \in 1..k : all[l] # s[j]
=============================================================================
