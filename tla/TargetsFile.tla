---------------------------- MODULE TargetsFile ----------------------------
(***************************************************************************)
(* The targets files: what an install reads and merges (LoadExternalTargets*)
(* and MergeImports in internal/cli/imports_config.go, effectiveImports in *)
(* internal/install/main.go), and the metadata a run takes from the        *)
(* project's (applyExternalTargetMeta in internal/cli/main.go).            *)
(*                                                                         *)
(* A package is the segments of its path.  A file that is read has a       *)
(* sequence of entries; others are "empty", without a byte, "missing", or  *)
(* "invalid", when the YAML is not that of a targets file.                 *)
(***************************************************************************)
EXTENDS Naturals, Sequences, SequencesExt, Ordered

TargetPackage == {<<"a", "db">>, <<"b", "db">>, <<"a", "db", "v2">>}

Entry == [pkg : TargetPackage, version : {"", "v1"}, namespace : {"", "ns"},
          config : {"", "c"}]

ImportPath(ent) == <<ent.pkg, ent.version>>

TargetsFile(ents) == [state |-> "read", entries |-> ents]
NoEntries == [state : {"missing", "empty", "invalid"}, entries : {<<>>}]

Failed(why) == [error |-> why, imports |-> <<>>]
Loaded(ents) == [error |-> "none", imports |-> ents]

-----------------------------------------------------------------------------
(* "duplicate import path": the path with its version.                     *)
DupPaths(ents) ==
  \E i, j \in DOMAIN ents : i # j /\ ImportPath(ents[i]) = ImportPath(ents[j])

(* A local file that is missing has no entries.                            *)
LoadExternalTargets(file) ==
  IF file.state = "invalid" THEN Failed("invalid")
  ELSE IF DupPaths(file.entries) THEN Failed("duplicate")
  ELSE Loaded(file.entries)

(* Raw copies the bytes of the file: the copy of no bytes is nil too.      *)
RawIsNil(file) == file.state \in {"missing", "empty"}

-----------------------------------------------------------------------------
(* A variant with one plausible bug, for the mutant runs: what was seen is *)
(* kept by path, the version included.                                     *)
MergeEntryByPath(merged, ent) ==
  IF merged.error # "none" THEN merged
  ELSE IF \E i \in DOMAIN merged.imports :
            ImportPath(merged.imports[i]) = ImportPath(ent)
  THEN merged
  ELSE Loaded(Append(merged.imports, ent))

(* The first entry of a package stays; another must be equal to it.        *)
MergeEntry(merged, ent) ==
  LET seen == {i \in DOMAIN merged.imports : merged.imports[i].pkg = ent.pkg}
  IN IF merged.error # "none" THEN merged
     ELSE IF seen = {} THEN Loaded(Append(merged.imports, ent))
     ELSE IF \E i \in seen : merged.imports[i] # ent THEN Failed("conflict")
     ELSE merged

(* The entries of one list, after those of the lists before it.            *)
MergeList(merged, ents) == FoldLeft(MergeEntry, merged, ents)

(* A single list is returned as it is.                                     *)
MergeImports(lists) ==
  IF Len(lists) = 1 THEN Loaded(lists[1])
  ELSE FoldLeft(MergeList, Loaded(<<>>), lists)

(* The imports an install compiles in: of the --targets files in order,    *)
(* each of which must have bytes.  Without any the source's own file is    *)
(* loaded.                                                                 *)
LoadWithBytes(file) ==
  IF RawIsNil(file) THEN Failed("missing") ELSE LoadExternalTargets(file)

EffectiveImports(files) ==
  LET bad == {i \in DOMAIN files : LoadWithBytes(files[i]).error # "none"}
  IN IF bad # {} THEN LoadWithBytes(files[CHOOSE i \in bad : \A j \in bad : i <= j])
     ELSE MergeImports([i \in DOMAIN files |-> LoadWithBytes(files[i]).imports])

-----------------------------------------------------------------------------
IsMajorVersion(segment) == segment = "v2"

(* The namespace, or the last segment of the path that is no version.      *)
MetaKey(ent) ==
  IF ent.namespace # "" THEN ent.namespace
  ELSE IF IsMajorVersion(Last(ent.pkg)) THEN Last(Front(ent.pkg))
  ELSE Last(ent.pkg)

(* The configs by key, set one after the other until two share a key.      *)
SetMeta(applied, ent) ==
  IF applied.error # "none" \/ ent.config = "" THEN applied
  ELSE IF MetaKey(ent) \in DOMAIN applied.meta
  THEN [applied EXCEPT !.error = "duplicate"]
  ELSE [applied EXCEPT !.meta =
          [k \in DOMAIN @ \cup {MetaKey(ent)} |->
             IF k = MetaKey(ent) THEN ImportPath(ent) ELSE @[k]]]

(* A file that does not load is no error here.                             *)
ApplyExternalTargetMeta(file) ==
  FoldLeft(SetMeta, [error |-> "none", meta |-> [k \in {} |-> ""]],
           LoadExternalTargets(file).imports)
=============================================================================
