------------------------------ MODULE ListCache ------------------------------
(***************************************************************************)
(* The resolution of packages tagged gomake:import (internal/parser):      *)
(* gmImpPackages starts one goroutine for each tagged import, each runs    *)
(* NewPackage, and NewPackage keeps the output of "go list" in a cache     *)
(* that the goroutines of all gomake processes share.  Meanwhile the user  *)
(* edits the project, prunes the module cache and purges the list cache.   *)
(*                                                                         *)
(* A hash is modelled by what it hashes: go.mod with go.sum, go.work, and  *)
(* the import.  The environment the key covers is one for all processes.   *)
(***************************************************************************)
EXTENDS Naturals, FiniteSets, SequencesExt, Ordered

CONSTANTS
  Proc,       \* gomake processes in packages of one project, a call each
  Import,     \* import paths of packages outside the project's module
  Own,        \* import paths of packages in the project's module
  Namespace,  \* namespaces a tag can give
  MaxTags,    \* how many imports the makefiles tag, bounds the model
  MaxEdits    \* how many times the user edits, bounds the model

ASSUME BoundsAssumption == MaxTags \in Nat /\ MaxEdits \in Nat

VARIABLES
  tagged,    \* the imports each process finds tagged, in their order
  disk,      \* what go.mod says of the imports, and whether go.work is there
  local,     \* content of the packages that lie outside the module cache
  edits,     \* how many edits the user has made
  modcache,  \* the modules extracted in the module cache
  list,      \* list[k]: the cached go list output under key k
  main,      \* where gmImpPackages is, in each process
  looked,    \* how many tags gmImpPackages has looked at
  specs,     \* what it resolves
  at,        \* where each of its goroutines is
  key,       \* the goroutine's cache key, if it has one
  out,       \* what go list said, while the goroutine stores it
  pks,       \* the packages by index
  errs,      \* how many errors errc holds
  seen,      \* history: what go list would have said since NewPackage began
  raced      \* history: did an edit hit a window where reads can disagree?

project == <<tagged, disk, local, edits>>
caches  == <<modcache, list>>
history == <<seen, raced>>
call == <<main, looked, specs>>
vars == <<project, caches, call, at, key, out, pks, errs, history>>

Pinned  == {"v1", "v2"}
Disk    == [mod : Pinned \cup {"replaced"}, work : BOOLEAN]
Path    == Import \cup Own
Tag     == [ns : Namespace, imp : Path]
Slot    == 1..MaxTags
Nothing == [found |-> FALSE]
Key     == [disk : Disk, imp : Path]

(* What go list says of a package: its module's version, and the content   *)
(* of its directory, which only the module cache pins.                     *)
Package == [found : {TRUE}, imp : Path, ver : Pinned \cup {"replaced", "main"},
            content : 0..MaxEdits]

Truth(imp, d, content) ==
  LET ver == IF imp \in Own \/ d.work THEN "main" ELSE d.mod
  IN [found |-> TRUE, imp |-> imp, ver |-> ver,
      content |-> IF ver \in Pinned THEN 0 ELSE content]

MainAt == {"scanning", "resolving", "ok", "failed"}
RoutineAt == {"none", "key", "load", "golist", "store", "error", "end"}
Running == RoutineAt \ {"none", "end"}

TypeOK ==
  /\ tagged \in [Proc -> BoundedSeq(Tag, MaxTags)]
  /\ disk \in Disk /\ local \in 0..MaxEdits /\ edits \in 0..MaxEdits
  /\ modcache \subseteq Import \X Pinned
  /\ list \in [Key -> Package \cup {Nothing}]
  /\ main \in [Proc -> MainAt] /\ looked \in [Proc -> 0..MaxTags]
  /\ specs \in [Proc -> BoundedSeq(Tag, MaxTags)]
  /\ at \in [Proc -> [Slot -> RoutineAt]]
  /\ key \in [Proc -> [Slot -> Disk \cup {Nothing}]]
  /\ out \in [Proc -> [Slot -> Package \cup {Nothing}]]
  /\ pks \in [Proc -> [Slot -> [ns : Namespace, pkg : Package] \cup {Nothing}]]
  /\ errs \in [Proc -> 0..MaxTags] /\ \A p \in Proc : errs[p] <= Len(specs[p])
  /\ seen \in [Proc -> [Slot -> SUBSET Package]]
  /\ raced \in BOOLEAN

PerSlot(v) == [p \in Proc |-> [i \in Slot |-> v]]

Init ==
  /\ tagged \in [Proc -> BoundedSeq(Tag, MaxTags)]
  /\ FoldSet(LAMBDA p, n : n + Len(tagged[p]), 0, Proc) <= MaxTags
  /\ disk \in Disk /\ ~disk.work /\ local = 0 /\ edits = 0
  /\ modcache = {} /\ list = [k \in Key |-> Nothing]
  /\ main = [p \in Proc |-> "scanning"] /\ looked = [p \in Proc |-> 0]
  /\ specs = [p \in Proc |-> <<>>]
  /\ at = PerSlot("none") /\ key = PerSlot(Nothing)
  /\ out = PerSlot(Nothing) /\ pks = PerSlot(Nothing)
  /\ errs = [p \in Proc |-> 0]
  /\ seen = PerSlot({}) /\ raced = FALSE

Goto(p, i, from, to) == at[p][i] = from /\ at' = [at EXCEPT ![p][i] = to]

(* The goroutine keeps what NewPackage returns at its index, under its     *)
(* namespace.                                                              *)
Returns(p, i, from, pkg) ==
  /\ Goto(p, i, from, "end")
  /\ pks' = [pks EXCEPT ![p][i] = [ns |-> specs[p][i].ns, pkg |-> pkg]]

See(p, i) ==
  seen' = [seen EXCEPT ![p][i] = {Truth(specs[p][i].imp, disk, local)}]

Entry(p, i) == [disk |-> key[p][i], imp |-> specs[p][i].imp]

-----------------------------------------------------------------------------
(* Variants with one plausible bug each, for the mutant runs.              *)

CacheableAnyVersion(pkg) == pkg.ver # "main"

AddSpecByPath(s, tag) ==
  IF \E j \in DOMAIN s : s[j].imp = tag.imp THEN s ELSE Append(s, tag)

AddSpecBefore(s, tag) == IF Contains(s, tag) THEN s ELSE <<tag>> \o s

SendErrorTwice(p, i) ==
  /\ Goto(p, i, "error", "end")
  /\ errs[p] < Len(specs[p]) /\ errs' = [errs EXCEPT ![p] = @ + 2]
  /\ UNCHANGED <<project, caches, call, key, out, pks, history>>

SendErrorOneSlot(p, i) ==
  /\ Goto(p, i, "error", "end")
  /\ errs[p] < 1 /\ errs' = [errs EXCEPT ![p] = @ + 1]
  /\ UNCHANGED <<project, caches, call, key, out, pks, history>>

KeyWithoutWork(p, i) ==
  /\ Goto(p, i, "key", "load")
  /\ key' = [key EXCEPT ![p][i] = [disk EXCEPT !.work = FALSE]]
  /\ See(p, i)
  /\ UNCHANGED <<project, caches, call, out, pks, errs, raced>>

-----------------------------------------------------------------------------
(* module.cacheable                                                        *)
Cacheable(pkg) == pkg.ver \in Pinned

(* A package's directory: in the module cache, or on the user's disk.      *)
DirExists(pkg) == pkg.ver \in Pinned => <<pkg.imp, pkg.ver>> \in modcache

-----------------------------------------------------------------------------
(* gmImpPackages.                                                          *)

(* Each namespace and import path pair once, in the order of the tags.     *)
AddSpec(s, tag) == IF Contains(s, tag) THEN s ELSE Append(s, tag)

(* The loop over the tags; a malformed one ends it, and the call.          *)
Scan(p) ==
  /\ main[p] = "scanning" /\ looked[p] < Len(tagged[p])
  /\ \/ /\ looked' = [looked EXCEPT ![p] = @ + 1]
        /\ specs' = [specs EXCEPT ![p] = AddSpec(@, tagged[p][looked[p] + 1])]
        /\ main' = main
     \/ main' = [main EXCEPT ![p] = "failed"] /\ UNCHANGED <<looked, specs>>
  /\ UNCHANGED <<project, caches, at, key, out, pks, errs, history>>

(* A goroutine for each.                                                   *)
Spawn(p) ==
  /\ main[p] = "scanning" /\ looked[p] = Len(tagged[p])
  /\ main' = [main EXCEPT ![p] = "resolving"]
  /\ at' = [at EXCEPT ![p] =
       [i \in Slot |-> IF i <= Len(specs[p]) THEN "key" ELSE "none"]]
  /\ UNCHANGED <<project, caches, looked, specs, key, out, pks, errs, history>>

(* wg.Wait returns when every goroutine has ended; then the first error of *)
(* errc, if there is one, is the result.                                   *)
Wait(p) ==
  /\ main[p] = "resolving" /\ \A i \in Slot : at[p][i] \notin Running
  /\ main' = [main EXCEPT ![p] = IF errs[p] > 0 THEN "failed" ELSE "ok"]
  /\ UNCHANGED <<project, caches, looked, specs, at, key, out, pks, errs, history>>

(* errc has room for an error of each goroutine.                           *)
SendError(p, i) ==
  /\ Goto(p, i, "error", "end")
  /\ errs[p] < Len(specs[p]) /\ errs' = [errs EXCEPT ![p] = @ + 1]
  /\ UNCHANGED <<project, caches, call, key, out, pks, history>>

-----------------------------------------------------------------------------
(* NewPackage, for an import spec.                                         *)

(* listCacheKey hashes the project; without go.mod there is no key.        *)
ListCacheKey(p, i) ==
  /\ \/ Goto(p, i, "key", "load") /\ key' = [key EXCEPT ![p][i] = disk]
     \/ Goto(p, i, "key", "golist") /\ key' = key
  /\ See(p, i)
  /\ UNCHANGED <<project, caches, call, out, pks, errs, raced>>

(* An entry that is for another package, or whose directory is gone, is    *)
(* not used; nor is a cache that cannot be read.                           *)
Load(p, i) ==
  /\ at[p][i] = "load"
  /\ LET pkg == list[Entry(p, i)] IN
       \/ /\ pkg.found /\ pkg.imp = specs[p][i].imp /\ DirExists(pkg)
          /\ Returns(p, i, "load", pkg)
       \/ Goto(p, i, "load", "golist") /\ pks' = pks
  /\ UNCHANGED <<project, caches, call, key, out, errs, history>>

(* go list reads the project as it is now and extracts a module it needs;  *)
(* or it fails, or reports a fatal error.  What is pinned goes to the      *)
(* cache if there is a key and go list reports no error.                   *)
GoList(p, i) ==
  /\ at[p][i] = "golist"
  /\ \/ LET pkg == Truth(specs[p][i].imp, disk, local) IN
          /\ modcache' = modcache \cup
               (IF pkg.ver \in Pinned THEN {<<pkg.imp, pkg.ver>>} ELSE {})
          /\ \/ /\ key[p][i] # Nothing /\ Cacheable(pkg)
                /\ Goto(p, i, "golist", "store") /\ pks' = pks
                /\ out' = [out EXCEPT ![p][i] = pkg]
             \/ Returns(p, i, "golist", pkg) /\ out' = out
     \/ Goto(p, i, "golist", "error") /\ UNCHANGED <<out, pks, modcache>>
  /\ UNCHANGED <<project, list, call, key, errs, history>>

(* storeListCache renames a filled temporary file over the entry; its      *)
(* errors are ignored.                                                     *)
StoreListCache(p, i) ==
  /\ Returns(p, i, "store", out[p][i])
  /\ list' \in {list, [list EXCEPT ![Entry(p, i)] = out[p][i]]}
  /\ UNCHANGED <<project, modcache, call, key, out, errs, history>>

Routine(p, i) ==
  \/ ListCacheKey(p, i) \/ Load(p, i) \/ GoList(p, i) \/ StoreListCache(p, i)
  \/ SendError(p, i)

-----------------------------------------------------------------------------
(* The environment.                                                        *)

Edit ==
  /\ edits < MaxEdits /\ edits' = edits + 1
  /\ seen' = [p \in Proc |-> [i \in Slot |->
                IF at[p][i] \in {"load", "golist"}
                THEN seen[p][i] \cup {Truth(specs[p][i].imp, disk', local')}
                ELSE seen[p][i]]]

(* An edit of what the key hashes, maybe while a goroutine has its key and *)
(* has not yet asked go list.                                              *)
EditProject ==
  /\ disk' \in Disk \ {disk} /\ local' = local
  /\ Edit
  /\ raced' = (raced \/ \E p \in Proc, i \in Slot :
                 key[p][i] # Nothing /\ at[p][i] \in {"load", "golist"})
  /\ UNCHANGED <<tagged, caches, call, at, key, out, pks, errs>>

(* An edit of a package of the project, of a replaced or a workspace       *)
(* module: files come and go.                                              *)
EditLocal ==
  /\ local' = local + 1 /\ disk' = disk
  /\ Edit
  /\ UNCHANGED <<tagged, caches, call, at, key, out, pks, errs, raced>>

(* go clean -modcache, and a purge of the list cache.                      *)
Prune ==
  /\ \/ modcache # {} /\ modcache' = {} /\ list' = list
     \/ /\ \E k \in Key : list[k].found /\ list' = [list EXCEPT ![k] = Nothing]
        /\ modcache' = modcache
  /\ UNCHANGED <<project, call, at, key, out, pks, errs, history>>

AllEnded == (\A p \in Proc : main[p] \in {"ok", "failed"}) /\ UNCHANGED vars

Next ==
  \/ \E p \in Proc : Scan(p) \/ Spawn(p) \/ Wait(p) \/ \E i \in Slot : Routine(p, i)
  \/ EditProject \/ EditLocal \/ Prune \/ AllEnded

(* Every goroutine is scheduled, and go list ends.                         *)
Spec ==
  /\ Init /\ [][Next]_vars
  /\ \A p \in Proc : WF_vars(Wait(p)) /\ \A i \in Slot : WF_vars(Routine(p, i))

-----------------------------------------------------------------------------
(* Properties.                                                             *)

(* Only what its key pins is ever cached: no replaced, workspace or own    *)
(* package, whose directory changes under the entry.  Without an edit in a *)
(* window the entry is what go list says of the project its key hashes     *)
(* (cacheable, listCacheKey).                                              *)
EntriesMatchTheirKey ==
  \A k \in Key : list[k].found =>
    /\ list[k].imp = k.imp /\ list[k].ver \in Pinned
    /\ raced \/ list[k] = Truth(k.imp, k.disk, 0)

(* Without such an edit the package a goroutine returns is one that go     *)
(* list would have found at some moment of the call, in whatever order     *)
(* processes resolve, edit, store and prune: the cache cannot be told from *)
(* go list (NewPackage).                                                   *)
LikeGoList ==
  ~raced => \A p \in Proc, i \in Slot :
    pks[p][i] # Nothing => pks[p][i].pkg \in seen[p][i]

(* gmImpPackages succeeds after all its goroutines, with each pair once,   *)
(* in the order in which they are tagged first, whatever the order the     *)
(* goroutines end in, and each under the namespace its own tag gave, also  *)
(* when the entry was stored for another.                                  *)
ResolvedAsTagged ==
  \A p \in Proc : main[p] = "ok" =>
    /\ \A i \in 1..Len(specs[p]) :
         /\ pks[p][i] # Nothing
         /\ [ns |-> pks[p][i].ns, imp |-> pks[p][i].pkg.imp] = specs[p][i]
    /\ EachOnce(specs[p], tagged[p])

(* Every resolution ends: no error keeps a goroutine, and with it the      *)
(* wait, for ever ("Multiple imports are resolved concurrently. An error   *)
(* in any import aborts the build").                                       *)
ResolutionEnds ==
  \A p \in Proc : main[p] = "resolving" ~> main[p] \in {"ok", "failed"}
=============================================================================
