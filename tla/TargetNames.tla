---------------------------- MODULE TargetNames ----------------------------
(***************************************************************************)
(* The names by which a generated file refers to target packages, and the  *)
(* target that `var Default` refers to (importAliasMap, uniqueImportAlias  *)
(* and markDefault in internal/parser/targets.go, markDefault in           *)
(* makefile.go, importLocalNames in helpers.go).                           *)
(*                                                                         *)
(* An identifier is its stem and the number it ends in, 0 for none; a      *)
(* package is known by its import path.  Package names have no capitals:   *)
(* the variable of a namespace, "_v" with the name of the package and the  *)
(* type, is as unique as that name is.                                     *)
(***************************************************************************)
EXTENDS Naturals, Sequences, SequencesExt, FiniteSets

(* What packages are called: like one of the seeded names, like one of the *)
(* generated makefile, or neither.                                         *)
Stems     == {"git", "ring", "run"}
Ident     == Stems \X {0, 2, 3}
Plainly(stem) == <<stem, 0>>

(* The names importAliasMap always avoids.                                 *)
Seeded == {Plainly(s) : s \in {"context", "ring", "mkf", "targets", "tgt"}}

(* Two of the top-level names of makefile_gen.go, in the same package      *)
(* block.                                                                  *)
GeneratedMain == {Plainly(s) : s \in {"run", "targets"}}

-----------------------------------------------------------------------------
(* A variant with one plausible bug, for the mutant runs: the first suffix *)
(* is taken to be free.                                                    *)
UniqueAliasUnchecked(base, taken) ==
  IF base \notin taken THEN base ELSE <<base[1], 2>>

(* The declared name if it is free, else its stem with the first free      *)
(* number from 2 on.                                                       *)
UniqueAlias(base, taken) ==
  IF base \notin taken THEN base
  ELSE LET n == CHOOSE n \in 2 .. Cardinality(taken) + 2 :
                  /\ <<base[1], n>> \notin taken
                  /\ \A m \in 2 .. n - 1 : <<base[1], m>> \in taken
       IN <<base[1], n>>

(* The aliases of the packages with these declared names, in the order of  *)
(* their import paths, beside the reserved top-level names of a makefile.  *)
ImportAliases(names, reserved) ==
  FoldLeft(LAMBDA out, name :
             Append(out, UniqueAlias(name, Seeded \cup reserved \cup ToSet(out))),
           <<>>, names)

-----------------------------------------------------------------------------
(* An import of a makefile: the name it is given, whether it is in the     *)
(* file that declares Default, whether it is tagged, the name its package  *)
(* declares and the last segment of its path.                              *)
Blank   == Plainly("_")
Unnamed == Plainly("")

Import(names) ==
  [as : {Blank, Unnamed} \cup names, here : BOOLEAN, tagged : BOOLEAN,
   name : names, base : names]

Visible(imps) == {i \in DOMAIN imps : imps[i].here /\ imps[i].as # Blank}

(* importLocalNames: a later import with the same local name hides an      *)
(* earlier one.                                                            *)
LocalName(imp) == IF imp.as = Unnamed THEN imp.base ELSE imp.as

FileImport(imps, q) ==
  LET found == {i \in Visible(imps) : LocalName(imps[i]) = q}
  IN {i \in found : \A j \in found : j <= i}

(* The target of package q that Default names is that of the tagged import *)
(* q leads to; without one, of the first tagged import whose package is    *)
(* called q, in the order of the list; 0 for none.                         *)
MarkDefaultByName(imps, q) ==
  LET fits == {i \in DOMAIN imps : imps[i].tagged /\ imps[i].name = q}
  IN IF fits = {} THEN 0 ELSE CHOOSE i \in fits : \A j \in fits : i <= j

MarkDefault(imps, q) ==
  LET found == {i \in FileImport(imps, q) : imps[i].tagged}
  IN IF found = {} THEN MarkDefaultByName(imps, q) ELSE CHOOSE i \in found : TRUE

-----------------------------------------------------------------------------
(* What Go makes of the same imports: one without a name has the name its  *)
(* package declares, and no two of a file have the same.                   *)
GoName(imp) == IF imp.as = Unnamed THEN imp.name ELSE imp.as

FileCompiles(imps, q) ==
  /\ q \in {GoName(imps[i]) : i \in Visible(imps)}
  /\ \A i, j \in Visible(imps) : i # j => GoName(imps[i]) # GoName(imps[j])

GoDefault(imps, q) == CHOOSE i \in Visible(imps) : GoName(imps[i]) = q

(* An import without a name whose path ends otherwise than its package is  *)
(* called, or a Default of a package that is not tagged: the parser        *)
(* guesses by name.                                                        *)
NameGuessed(imps, q) ==
  \/ \E i \in Visible(imps) : imps[i].as = Unnamed /\ imps[i].base # imps[i].name
  \/ ~imps[GoDefault(imps, q)].tagged
=============================================================================
