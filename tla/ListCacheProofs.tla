--------------------------- MODULE ListCacheProofs ---------------------------
(***************************************************************************)
(* The safety of the list cache and of the parallel resolution, proved for *)
(* any processes, imports and namespaces and any number of tags and edits. *)
(* The invariant follows a goroutine from its key to the package it        *)
(* returns: as long as no edit hits the window between the key and go      *)
(* list, what it holds is what go list said while it was there.            *)
(***************************************************************************)
EXTENDS ListCache, Induction, SequenceTheorems, TLAPS

(* What gmImpPackages has scanned, and what it starts and waits for.       *)
Scanned(p) ==
  /\ looked[p] <= Len(tagged[p]) /\ Len(specs[p]) <= looked[p]
  /\ EachOnce(specs[p], SubSeq(tagged[p], 1, looked[p]))
  /\ main[p] \in {"resolving", "ok"} => looked[p] = Len(tagged[p])
  /\ main[p] = "ok" => errs[p] = 0

(* A goroutine is there for each index of specs, and only while            *)
(* gmImpPackages waits.                                                    *)
Started(p, i) ==
  /\ main[p] = "scanning" => at[p][i] = "none"
  /\ main[p] = "ok" => at[p][i] \notin Running
  /\ main[p] \in {"resolving", "ok"} /\ i <= Len(specs[p]) => at[p][i] # "none"
  /\ at[p][i] # "none" => i <= Len(specs[p])
  /\ at[p][i] = "end" => pks[p][i] # Nothing \/ errs[p] > 0

(* The key is of the project as it is, until an edit hits the window.      *)
Keyed(p, i) ==
  /\ at[p][i] \in {"none", "key"} => key[p][i] = Nothing
  /\ at[p][i] \in {"load", "store"} => key[p][i] # Nothing
  /\ at[p][i] \in {"load", "golist"} /\ key[p][i] # Nothing =>
       raced \/ key[p][i] = disk

(* What go list says now has been seen; what is stored has been too, and   *)
(* is pinned by its key.                                                   *)
Listed(p, i) ==
  /\ at[p][i] \in {"load", "golist"} =>
       Truth(specs[p][i].imp, disk, local) \in seen[p][i]
  /\ at[p][i] = "store" =>
       /\ out[p][i] # Nothing
       /\ out[p][i].imp = specs[p][i].imp /\ out[p][i].ver \in Pinned
       /\ out[p][i] \in seen[p][i]
       /\ raced \/ out[p][i] = Truth(specs[p][i].imp, key[p][i], 0)

(* What has been returned is what was asked for, and has been seen.        *)
Returned(p, i) ==
  pks[p][i] # Nothing =>
    /\ at[p][i] = "end"
    /\ pks[p][i].ns = specs[p][i].ns /\ pks[p][i].pkg.imp = specs[p][i].imp
    /\ raced \/ pks[p][i].pkg \in seen[p][i]

Goroutine(p, i) ==
  Started(p, i) /\ Keyed(p, i) /\ Listed(p, i) /\ Returned(p, i)

Inv ==
  /\ TypeOK /\ local <= edits /\ EntriesMatchTheirKey
  /\ \A p \in Proc : Scanned(p) /\ \A i \in Slot : Goroutine(p, i)

-----------------------------------------------------------------------------
(* Facts about packages, keys and lists of tags.                           *)

(* What is pinned has the content of the module cache, whatever is edited. *)
LEMMA Truths ==
  ASSUME NEW imp \in Path, NEW d \in Disk, NEW c \in 0..MaxEdits
  PROVE  /\ Truth(imp, d, c) \in Package
         /\ Truth(imp, d, c).imp = imp
         /\ Truth(imp, d, c).ver = Truth(imp, d, 0).ver
         /\ Truth(imp, d, c).ver \in Pinned =>
              Truth(imp, d, c) = Truth(imp, d, 0)
<1> DEFINE ver == IF imp \in Own \/ d.work THEN "main" ELSE d.mod
           content == IF ver \in Pinned THEN 0 ELSE c
<1>1. Truth(imp, d, c) =
        [found |-> TRUE, imp |-> imp, ver |-> ver, content |-> content]
  BY DEF Truth
<1>2. Truth(imp, d, 0) =
        [found |-> TRUE, imp |-> imp, ver |-> ver,
         content |-> IF ver \in Pinned THEN 0 ELSE 0]
  BY DEF Truth
<1>3. ver \in Pinned \cup {"replaced", "main"}
  BY DEF Disk, Pinned
<1>4. content \in 0..MaxEdits
  BY BoundsAssumption
<1>5. Truth(imp, d, c) \in Package
  BY <1>1, <1>3, <1>4 DEF Package
<1>6. Truth(imp, d, c).imp = imp /\ Truth(imp, d, c).ver = ver
  BY <1>1
<1>7. ASSUME ver \in Pinned PROVE Truth(imp, d, c) = Truth(imp, d, 0)
  BY <1>1, <1>2, <1>7
<1>8. Truth(imp, d, 0).ver = ver
  BY <1>2
<1>9. QED
  BY <1>5, <1>6, <1>7, <1>8

(* A package, and a return, differ from nothing.                           *)
LEMMA Found ==
  /\ \A pkg \in Package : pkg.found /\ pkg # Nothing
  /\ ~Nothing.found
  /\ \A ns, pkg : [ns |-> ns, pkg |-> pkg] # Nothing
  /\ \A d \in Disk : d # Nothing
<1>1. \A pkg \in Package : pkg.found
  BY DEF Package
<1>2. ~Nothing.found
  BY DEF Nothing
<1>3. DOMAIN Nothing = {"found"}
  BY DEF Nothing
<1>4. \A ns, pkg : DOMAIN [ns |-> ns, pkg |-> pkg] = {"ns", "pkg"}
  OBVIOUS
<1>5. \A d \in Disk : DOMAIN d = {"mod", "work"}
  BY DEF Disk
<1>6. QED
  BY <1>1, <1>2, <1>3, <1>4, <1>5

(* The entry of a goroutine that has a key.                                *)
LEMMA Entries ==
  ASSUME NEW p \in Proc, NEW i \in Slot, key[p][i] \in Disk,
         specs[p][i].imp \in Path
  PROVE  /\ Entry(p, i) \in Key
         /\ Entry(p, i).disk = key[p][i] /\ Entry(p, i).imp = specs[p][i].imp
BY DEF Entry, Key

(* A bounded list, one of its elements, and the list with one more.        *)
LEMMA Lists ==
  ASSUME NEW S, NEW n \in Nat, NEW s \in BoundedSeq(S, n)
  PROVE  /\ s \in Seq(S) /\ Len(s) \in 0..n /\ DOMAIN s = 1..Len(s)
         /\ \A j \in 1..Len(s) : s[j] \in S
         /\ \A t \in S : Len(s) < n => Append(s, t) \in BoundedSeq(S, n)
<1>1. PICK m \in 0..n : s \in [1..m -> S]
  BY DEF BoundedSeq, SeqOf
<1>2. s \in Seq(S) /\ Len(s) = m /\ m \in Nat
  BY <1>1
<1>3. ASSUME NEW t \in S, Len(s) < n PROVE Append(s, t) \in BoundedSeq(S, n)
  <2>1. Append(s, t) \in Seq(S) /\ Len(Append(s, t)) = m + 1 /\ m + 1 \in 0..n
    BY <1>2, <1>3
  <2>2. Append(s, t) \in [1..m + 1 -> S]
    BY <2>1, LenProperties
  <2>3. QED
    BY <2>1, <2>2 DEF BoundedSeq, SeqOf
<1>4. QED
  BY <1>1, <1>2, <1>3

(* A tag that is scanned is kept unless it was seen.                       *)
LEMMA Added ==
  ASSUME NEW n \in Nat, NEW s \in BoundedSeq(Tag, n), NEW t \in Tag,
         NEW all \in Seq(Tag), EachOnce(s, all)
  PROVE  /\ Len(s) < n => AddSpec(s, t) \in BoundedSeq(Tag, n)
         /\ Len(AddSpec(s, t)) \in Len(s) .. Len(s) + 1
         /\ EachOnce(AddSpec(s, t), Append(all, t))
<1>1. s \in Seq(Tag) /\ DOMAIN s = 1..Len(s) /\ Len(s) \in Nat
  BY Lists
<1>2. Contains(s, t) <=> t \in ToSet(s)
  BY <1>1 DEF Contains, ToSet
<1>3. CASE Contains(s, t)
  <2>1. AddSpec(s, t) = s
    BY <1>3 DEF AddSpec
  <2>2. EachOnce(s, Append(all, t))
    BY <1>1, <1>2, <1>3, EachOnceAdds
  <2>3. QED
    BY <1>1, <2>1, <2>2
<1>4. CASE ~Contains(s, t)
  <2>1. AddSpec(s, t) = Append(s, t)
    BY <1>4 DEF AddSpec
  <2>2. Len(Append(s, t)) = Len(s) + 1
    BY <1>1
  <2>3. Len(s) < n => Append(s, t) \in BoundedSeq(Tag, n)
    BY Lists
  <2>4. EachOnce(Append(s, t), Append(all, t))
    BY <1>1, <1>2, <1>4, EachOnceAdds
  <2>5. QED
    BY <1>1, <2>1, <2>2, <2>3, <2>4
<1>5. QED
  BY <1>3, <1>4

-----------------------------------------------------------------------------
(* Type correctness.                                                       *)

(* Every variable starts in its type.                                      *)
LEMMA InitType == Init => TypeOK
<1> SUFFICES ASSUME Init PROVE TypeOK
  OBVIOUS
<1>1. <<>> \in BoundedSeq(Tag, MaxTags)
  <2>1. <<>> \in [1..0 -> Tag] /\ 0 \in 0..MaxTags
    BY BoundsAssumption
  <2>2. QED
    BY <2>1 DEF BoundedSeq, SeqOf
<1>2. /\ tagged \in [Proc -> BoundedSeq(Tag, MaxTags)]
      /\ disk \in Disk /\ local = 0 /\ edits = 0
      /\ modcache = {} /\ list = [k \in Key |-> Nothing]
      /\ main = [p \in Proc |-> "scanning"] /\ looked = [p \in Proc |-> 0]
      /\ specs = [p \in Proc |-> <<>>] /\ errs = [p \in Proc |-> 0]
      /\ at = PerSlot("none") /\ key = PerSlot(Nothing)
      /\ out = PerSlot(Nothing) /\ pks = PerSlot(Nothing)
      /\ seen = PerSlot({})
  BY Zenon DEF Init
<1>3. raced \in BOOLEAN
  BY Zenon DEF Init
<1>4. Len(<<>>) = 0 /\ 0 \in 0..MaxTags /\ 0 \in 0..MaxEdits
  BY BoundsAssumption
<1>5. specs \in [Proc -> BoundedSeq(Tag, MaxTags)]
  BY <1>1, <1>2
<1>6. errs \in [Proc -> 0..MaxTags] /\ \A p \in Proc : errs[p] <= Len(specs[p])
  BY <1>2, <1>4
<1>7. /\ list \in [Key -> Package \cup {Nothing}]
      /\ modcache \subseteq Import \X Pinned
  BY <1>2
<1>8. main \in [Proc -> MainAt] /\ looked \in [Proc -> 0..MaxTags]
  BY <1>2, <1>4 DEF MainAt
<1>9. /\ at \in [Proc -> [Slot -> RoutineAt]]
      /\ key \in [Proc -> [Slot -> Disk \cup {Nothing}]]
      /\ out \in [Proc -> [Slot -> Package \cup {Nothing}]]
      /\ pks \in [Proc -> [Slot -> [ns : Namespace, pkg : Package] \cup {Nothing}]]
      /\ seen \in [Proc -> [Slot -> SUBSET Package]]
  BY <1>2 DEF PerSlot, RoutineAt
<1>10. QED
  BY <1>2, <1>3, <1>4, <1>5, <1>6, <1>7, <1>8, <1>9 DEF TypeOK

(* The tag a running goroutine resolves.                                   *)
LEMMA Resolves ==
  ASSUME TypeOK, NEW p \in Proc, NEW i \in Slot, i <= Len(specs[p])
  PROVE  /\ specs[p][i].imp \in Path /\ specs[p][i].ns \in Namespace
         /\ specs[p][i] = [ns |-> specs[p][i].ns, imp |-> specs[p][i].imp]
<1>1. specs[p] \in BoundedSeq(Tag, MaxTags) /\ MaxTags \in Nat
  BY BoundsAssumption DEF TypeOK
<1>2. i \in 1..Len(specs[p])
  BY <1>1, Lists DEF Slot
<1>3. specs[p][i] \in Tag
  BY <1>1, <1>2, Lists
<1>4. QED
  BY <1>3 DEF Tag

(* What the actions of a goroutine take from the invariant.                *)
Bounded(p, i) == at[p][i] # "none" => i <= Len(specs[p])
Entered(p, i) ==
  /\ at[p][i] \in {"load", "store"} => key[p][i] # Nothing
  /\ at[p][i] = "store" => out[p][i] # Nothing

(* A change of one goroutine's part of a variable.                         *)
LEMMA Changed ==
  ASSUME NEW S, NEW f \in [Proc -> [Slot -> S]], NEW p \in Proc, NEW i \in Slot,
         NEW v \in S
  PROVE  /\ [f EXCEPT ![p][i] = v] \in [Proc -> [Slot -> S]]
         /\ [f EXCEPT ![p][i] = v][p][i] = v
         /\ \A q \in Proc, j \in Slot :
              q # p \/ j # i => [f EXCEPT ![p][i] = v][q][j] = f[q][j]
OBVIOUS

(* A goroutine keeps all types.                                            *)
LEMMA RoutineType ==
  ASSUME TypeOK, NEW p \in Proc, NEW i \in Slot, Bounded(p, i), Entered(p, i),
         Routine(p, i)
  PROVE  TypeOK'
<1> DEFINE Pkgs == Package \cup {Nothing}
           Rets == [ns : Namespace, pkg : Package] \cup {Nothing}
<1>1. at[p][i] # "none" /\ UNCHANGED <<tagged, disk, local, edits, main, looked,
                                      specs, raced>>
  BY DEF Routine, ListCacheKey, Load, GoList, StoreListCache, SendError,
         Returns, Goto, project, caches, call, history
<1>2. specs[p][i].imp \in Path /\ specs[p][i].ns \in Namespace
  BY <1>1, Resolves DEF Bounded
<1>3. Truth(specs[p][i].imp, disk, local) \in Package
  BY <1>2, Truths DEF TypeOK
<1>4. /\ at \in [Proc -> [Slot -> RoutineAt]]
      /\ key \in [Proc -> [Slot -> Disk \cup {Nothing}]]
      /\ out \in [Proc -> [Slot -> Pkgs]] /\ pks \in [Proc -> [Slot -> Rets]]
      /\ seen \in [Proc -> [Slot -> SUBSET Package]]
      /\ list \in [Key -> Pkgs] /\ modcache \subseteq Import \X Pinned
      /\ errs \in [Proc -> 0..MaxTags] /\ \A q \in Proc : errs[q] <= Len(specs[q])
  BY DEF TypeOK
<1>5. ASSUME NEW from, NEW to \in RoutineAt, Goto(p, i, from, to)
      PROVE  at' \in [Proc -> [Slot -> RoutineAt]]
  BY <1>4, <1>5, Changed DEF Goto
<1>6. ASSUME NEW from, NEW pkg \in Package, Returns(p, i, from, pkg)
      PROVE  /\ at' \in [Proc -> [Slot -> RoutineAt]]
             /\ pks' \in [Proc -> [Slot -> Rets]]
  <2>1. [ns |-> specs[p][i].ns, pkg |-> pkg] \in Rets
    BY <1>2
  <2>2. pks' \in [Proc -> [Slot -> Rets]]
    BY <1>4, <1>6, <2>1, Changed DEF Returns
  <2>3. QED
    BY <1>5, <1>6, <2>2 DEF Returns, RoutineAt
<1>7. CASE ListCacheKey(p, i)
  <2>1. at' \in [Proc -> [Slot -> RoutineAt]]
    BY <1>5, <1>7 DEF ListCacheKey, RoutineAt
  <2>2. key' \in [Proc -> [Slot -> Disk \cup {Nothing}]]
    <3>1. disk \in Disk
      BY DEF TypeOK
    <3>2. CASE key' = [key EXCEPT ![p][i] = disk]
      BY <1>4, <3>1, <3>2, Changed
    <3>3. CASE key' = key
      BY <1>4, <3>3
    <3>4. QED
      BY <1>7, <3>2, <3>3 DEF ListCacheKey
  <2>3. seen' \in [Proc -> [Slot -> SUBSET Package]]
    BY <1>3, <1>4, <1>7, Changed DEF ListCacheKey, See
  <2>4. QED
    BY <1>1, <1>7, <2>1, <2>2, <2>3 DEF TypeOK, ListCacheKey, caches
<1>8. CASE Load(p, i)
  <2>1. /\ at' \in [Proc -> [Slot -> RoutineAt]]
        /\ pks' \in [Proc -> [Slot -> Rets]]
    <3>1. CASE Goto(p, i, "load", "golist") /\ pks' = pks
      BY <1>4, <1>5, <3>1 DEF RoutineAt
    <3>2. CASE /\ list[Entry(p, i)].found
               /\ Returns(p, i, "load", list[Entry(p, i)])
      <4>1. key[p][i] \in Disk
        BY <1>4, <3>2 DEF Entered, Returns, Goto
      <4>2. list[Entry(p, i)] \in Pkgs
        BY <1>2, <1>4, <4>1, Entries
      <4>3. QED
        BY <1>6, <3>2, <4>2, Found
    <3>3. QED
      BY <1>8, <3>1, <3>2 DEF Load
  <2>2. QED
    BY <1>1, <1>8, <2>1 DEF TypeOK, Load, caches, history
<1>9. CASE GoList(p, i)
  <2> DEFINE pkg == Truth(specs[p][i].imp, disk, local)
  <2>1. /\ at' \in [Proc -> [Slot -> RoutineAt]]
        /\ pks' \in [Proc -> [Slot -> Rets]]
        /\ out' \in [Proc -> [Slot -> Pkgs]]
    <3>1. CASE /\ Goto(p, i, "golist", "store") /\ pks' = pks
               /\ out' = [out EXCEPT ![p][i] = pkg]
      BY <1>3, <1>4, <1>5, <3>1, Changed DEF RoutineAt
    <3>2. CASE Returns(p, i, "golist", pkg) /\ out' = out
      BY <1>3, <1>4, <1>6, <3>2
    <3>3. CASE Goto(p, i, "golist", "error") /\ UNCHANGED <<out, pks>>
      BY <1>4, <1>5, <3>3 DEF RoutineAt
    <3>4. QED
      BY <1>9, <3>1, <3>2, <3>3 DEF GoList
  <2>2. modcache' \subseteq Import \X Pinned
    <3>1. ASSUME pkg.ver \in Pinned
          PROVE  <<pkg.imp, pkg.ver>> \in Import \X Pinned
      <4>1. specs[p][i].imp \notin Own
        BY <3>1 DEF Truth, Pinned
      <4>2. QED
        BY <1>2, <3>1, <4>1 DEF Path, Truth
    <3>2. QED
      BY <1>4, <1>9, <3>1 DEF GoList
  <2>3. QED
    BY <1>1, <1>9, <2>1, <2>2 DEF TypeOK, GoList, history
<1>10. CASE StoreListCache(p, i)
  <2>1. at[p][i] = "store" /\ out[p][i] \in Package /\ key[p][i] \in Disk
    BY <1>4, <1>10 DEF StoreListCache, Returns, Goto, Entered
  <2>2. /\ at' \in [Proc -> [Slot -> RoutineAt]]
        /\ pks' \in [Proc -> [Slot -> Rets]]
    BY <1>6, <1>10, <2>1 DEF StoreListCache
  <2>3. list' \in [Key -> Pkgs]
    BY <1>2, <1>4, <1>10, <2>1, Entries DEF StoreListCache
  <2>4. QED
    BY <1>1, <1>10, <2>2, <2>3 DEF TypeOK, StoreListCache, history
<1>11. CASE SendError(p, i)
  <2>1. at' \in [Proc -> [Slot -> RoutineAt]]
    BY <1>5, <1>11 DEF SendError, RoutineAt
  <2>2. Len(specs[p]) \in 0..MaxTags
    BY Lists, BoundsAssumption DEF TypeOK
  <2>3. /\ errs' \in [Proc -> 0..MaxTags]
        /\ \A q \in Proc : errs'[q] <= Len(specs[q])
    BY <1>4, <1>11, <2>2, BoundsAssumption DEF SendError
  <2>4. QED
    BY <1>1, <1>11, <2>1, <2>3 DEF TypeOK, SendError, caches, history
<1>12. QED
  BY <1>7, <1>8, <1>9, <1>10, <1>11 DEF Routine

-----------------------------------------------------------------------------
(* A step of a goroutine.                                                  *)

(* It leaves the other goroutines alone.                                   *)
LEMMA RoutineFrame ==
  ASSUME TypeOK, NEW p \in Proc, NEW i \in Slot, Routine(p, i)
  PROVE  /\ UNCHANGED <<tagged, disk, local, edits, main, looked, specs, raced>>
         /\ at[p][i] \in Running
         /\ \A q \in Proc, j \in Slot : q # p \/ j # i =>
              /\ at'[q][j] = at[q][j] /\ key'[q][j] = key[q][j]
              /\ out'[q][j] = out[q][j] /\ pks'[q][j] = pks[q][j]
              /\ seen'[q][j] = seen[q][j]
         /\ \A q \in Proc : errs'[q] = errs[q] \/ errs'[q] = errs[q] + 1
<1>1. /\ UNCHANGED <<tagged, disk, local, edits, main, looked, specs, raced>>
      /\ at[p][i] \in Running
  BY DEF Routine, ListCacheKey, Load, GoList, StoreListCache, SendError,
         Returns, Goto, project, caches, call, history, Running, RoutineAt
<1>2. /\ at \in [Proc -> [Slot -> RoutineAt]]
      /\ key \in [Proc -> [Slot -> Disk \cup {Nothing}]]
      /\ out \in [Proc -> [Slot -> Package \cup {Nothing}]]
      /\ pks \in [Proc -> [Slot -> [ns : Namespace, pkg : Package] \cup {Nothing}]]
      /\ seen \in [Proc -> [Slot -> SUBSET Package]]
      /\ errs \in [Proc -> 0..MaxTags]
  BY DEF TypeOK
<1> DEFINE Others ==
             \A q \in Proc, j \in Slot : q # p \/ j # i =>
               /\ at'[q][j] = at[q][j] /\ key'[q][j] = key[q][j]
               /\ out'[q][j] = out[q][j] /\ pks'[q][j] = pks[q][j]
               /\ seen'[q][j] = seen[q][j]
           Errs == \A q \in Proc : errs'[q] = errs[q] \/ errs'[q] = errs[q] + 1
<1>3. CASE ListCacheKey(p, i)
  BY <1>1, <1>2, <1>3 DEF ListCacheKey, Goto, See
<1>4. CASE Load(p, i)
  BY <1>1, <1>2, <1>4 DEF Load, Returns, Goto, history
<1>5. CASE GoList(p, i)
  BY <1>1, <1>2, <1>5 DEF GoList, Returns, Goto, history
<1>6. CASE StoreListCache(p, i)
  BY <1>1, <1>2, <1>6 DEF StoreListCache, Returns, Goto, history
<1>7. CASE SendError(p, i)
  BY <1>1, <1>2, <1>7, BoundsAssumption DEF SendError, Goto, history
<1>8. QED
  BY <1>3, <1>4, <1>5, <1>6, <1>7 DEF Routine

(* What it stores is under its own key.                                    *)
LEMMA RoutineEntries ==
  ASSUME TypeOK, EntriesMatchTheirKey, NEW p \in Proc, NEW i \in Slot,
         Goroutine(p, i), Routine(p, i)
  PROVE  EntriesMatchTheirKey'
<1>1. raced' = raced
  BY RoutineFrame
<1>2. CASE UNCHANGED list
  BY <1>1, <1>2 DEF EntriesMatchTheirKey
<1>3. CASE /\ StoreListCache(p, i)
           /\ list' = [list EXCEPT ![Entry(p, i)] = out[p][i]]
  <2>1. at[p][i] = "store"
    BY <1>3 DEF StoreListCache, Returns, Goto
  <2>2. /\ out[p][i].imp = specs[p][i].imp /\ out[p][i].ver \in Pinned
        /\ raced \/ out[p][i] = Truth(specs[p][i].imp, key[p][i], 0)
    BY <2>1 DEF Goroutine, Listed
  <2>3. key[p][i] \in Disk /\ i <= Len(specs[p])
    BY <2>1 DEF Goroutine, Keyed, Started, TypeOK
  <2>4. /\ Entry(p, i) \in Key
        /\ Entry(p, i).disk = key[p][i] /\ Entry(p, i).imp = specs[p][i].imp
    BY <2>3, Resolves, Entries
  <2>5. list \in [Key -> Package \cup {Nothing}]
    BY DEF TypeOK
  <2>6. list'[Entry(p, i)] = out[p][i]
    BY <1>3, <2>4, <2>5
  <2>7. ASSUME NEW k \in Key, k # Entry(p, i) PROVE list'[k] = list[k]
    BY <1>3, <2>5, <2>7
  <2>8. ASSUME NEW k \in Key, list'[k].found
        PROVE  /\ list'[k].imp = k.imp /\ list'[k].ver \in Pinned
               /\ raced \/ list'[k] = Truth(k.imp, k.disk, 0)
    <3>1. CASE k = Entry(p, i)
      BY <2>2, <2>4, <2>6, <3>1
    <3>2. CASE k # Entry(p, i)
      BY <2>7, <2>8, <3>2 DEF EntriesMatchTheirKey
    <3>3. QED
      BY <3>1, <3>2
  <2>9. QED
    BY <1>1, <2>8 DEF EntriesMatchTheirKey
<1>4. QED
  BY <1>2, <1>3 DEF Routine, ListCacheKey, Load, GoList, StoreListCache,
     SendError, caches

(* What it leaves of its own part, action by action.                       *)
LEMMA RoutineHolds ==
  ASSUME TypeOK, EntriesMatchTheirKey, NEW p \in Proc, NEW i \in Slot,
         Goroutine(p, i), Routine(p, i)
  PROVE  Goroutine(p, i)'
<1> DEFINE Now == Truth(specs[p][i].imp, disk, local)
<1>1. /\ at \in [Proc -> [Slot -> RoutineAt]]
      /\ key \in [Proc -> [Slot -> Disk \cup {Nothing}]]
      /\ out \in [Proc -> [Slot -> Package \cup {Nothing}]]
      /\ pks \in [Proc -> [Slot -> [ns : Namespace, pkg : Package] \cup {Nothing}]]
      /\ seen \in [Proc -> [Slot -> SUBSET Package]]
      /\ errs \in [Proc -> 0..MaxTags] /\ disk \in Disk /\ local \in 0..MaxEdits
  BY DEF TypeOK
<1>2. UNCHANGED <<disk, local, main, specs, raced>> /\ at[p][i] \in Running
  BY RoutineFrame
<1>3. /\ at[p][i] # "none" /\ i <= Len(specs[p]) /\ pks[p][i] = Nothing
      /\ main[p] \notin {"scanning", "ok"}
  BY <1>2 DEF Goroutine, Started, Returned, Running
<1>4. specs[p][i].imp \in Path
  BY <1>3, Resolves
<1>5. /\ Now \in Package /\ Now.imp = specs[p][i].imp
      /\ Now.ver \in Pinned => Now = Truth(specs[p][i].imp, disk, 0)
      /\ Now.ver = Truth(specs[p][i].imp, disk, 0).ver
  BY <1>1, <1>4, Truths
<1>6. ASSUME NEW from \in RoutineAt, NEW pkg, Returns(p, i, from, pkg),
             UNCHANGED seen, pkg.imp = specs[p][i].imp,
             raced \/ pkg \in seen[p][i]
      PROVE  Goroutine(p, i)'
  <2>1. /\ at'[p][i] = "end"
        /\ pks'[p][i] = [ns |-> specs[p][i].ns, pkg |-> pkg]
    BY <1>1, <1>6 DEF Returns, Goto
  <2>2. pks'[p][i] # Nothing
    BY <2>1, Found
  <2>3. Started(p, i)'
    BY <1>2, <1>3, <2>1, <2>2 DEF Started, Running
  <2>4. Keyed(p, i)' /\ Listed(p, i)'
    BY <2>1 DEF Keyed, Listed
  <2>5. Returned(p, i)'
    BY <1>2, <1>6, <2>1 DEF Returned
  <2>6. QED
    BY <2>3, <2>4, <2>5 DEF Goroutine
<1>7. ASSUME NEW from, NEW to \in RoutineAt, to \notin {"none", "end"},
             Goto(p, i, from, to), UNCHANGED pks
      PROVE  at'[p][i] = to /\ Started(p, i)' /\ Returned(p, i)'
  <2>1. at'[p][i] = to
    BY <1>1, <1>7 DEF Goto
  <2>2. QED
    BY <1>2, <1>3, <1>7, <2>1 DEF Started, Returned
<1>8. CASE ListCacheKey(p, i)
  <2>1. seen'[p][i] = {Now}
    BY <1>1, <1>8 DEF ListCacheKey, See
  <2>2. key[p][i] = Nothing
    BY <1>8 DEF ListCacheKey, Goto, Goroutine, Keyed
  <2>3. CASE Goto(p, i, "key", "load") /\ key' = [key EXCEPT ![p][i] = disk]
    <3>1. at'[p][i] = "load" /\ Started(p, i)' /\ Returned(p, i)'
      BY <1>7, <1>8, <2>3 DEF ListCacheKey, RoutineAt
    <3>2. key'[p][i] = disk /\ disk # Nothing
      BY <1>1, <2>3, Found
    <3>3. QED
      BY <1>2, <2>1, <3>1, <3>2 DEF Goroutine, Keyed, Listed
  <2>4. CASE Goto(p, i, "key", "golist") /\ key' = key
    <3>1. at'[p][i] = "golist" /\ Started(p, i)' /\ Returned(p, i)'
      BY <1>7, <1>8, <2>4 DEF ListCacheKey, RoutineAt
    <3>2. QED
      BY <1>2, <2>1, <2>2, <2>4, <3>1 DEF Goroutine, Keyed, Listed
  <2>5. QED
    BY <1>8, <2>3, <2>4 DEF ListCacheKey
<1>9. CASE Load(p, i)
  <2>1. /\ at[p][i] = "load" /\ Now \in seen[p][i] /\ key[p][i] \in Disk
        /\ raced \/ key[p][i] = disk
    BY <1>1, <1>9 DEF Load, Goroutine, Keyed, Listed
  <2>2. /\ Entry(p, i) \in Key
        /\ Entry(p, i).disk = key[p][i] /\ Entry(p, i).imp = specs[p][i].imp
    BY <1>4, <2>1, Entries
  <2> DEFINE pkg == list[Entry(p, i)]
  <2>3. CASE /\ pkg.found /\ pkg.imp = specs[p][i].imp
             /\ Returns(p, i, "load", pkg)
    <3>1. pkg.ver \in Pinned /\ (raced \/ pkg = Truth(specs[p][i].imp, disk, 0))
      BY <2>1, <2>2, <2>3 DEF EntriesMatchTheirKey
    <3>2. raced \/ pkg \in seen[p][i]
      BY <1>5, <2>1, <3>1
    <3>3. QED
      BY <1>6, <1>9, <2>3, <3>2 DEF Load, history, RoutineAt
  <2>4. CASE Goto(p, i, "load", "golist") /\ pks' = pks
    <3>1. at'[p][i] = "golist" /\ Started(p, i)' /\ Returned(p, i)'
      BY <1>7, <2>4 DEF RoutineAt
    <3>2. QED
      BY <1>2, <1>9, <2>1, <3>1 DEF Load, history, Goroutine, Keyed, Listed
  <2>5. QED
    BY <1>9, <2>3, <2>4 DEF Load
<1>10. CASE GoList(p, i)
  <2>1. UNCHANGED <<key, seen>> /\ at[p][i] = "golist"
    BY <1>10 DEF GoList, history
  <2>2. Now \in seen[p][i] /\ (key[p][i] # Nothing => raced \/ key[p][i] = disk)
    BY <2>1 DEF Goroutine, Keyed, Listed
  <2>3. CASE /\ key[p][i] # Nothing /\ Cacheable(Now)
             /\ Goto(p, i, "golist", "store") /\ pks' = pks
             /\ out' = [out EXCEPT ![p][i] = Now]
    <3>1. at'[p][i] = "store" /\ Started(p, i)' /\ Returned(p, i)'
      BY <1>7, <2>3 DEF RoutineAt
    <3>2. out'[p][i] = Now /\ Now # Nothing
      BY <1>1, <1>5, <2>3, Found
    <3>3. Listed(p, i)'
      BY <1>2, <1>5, <2>1, <2>2, <2>3, <3>1, <3>2 DEF Listed, Cacheable
    <3>4. QED
      BY <2>1, <2>3, <3>1, <3>3 DEF Goroutine, Keyed
  <2>4. CASE Returns(p, i, "golist", Now)
    BY <1>5, <1>6, <2>1, <2>2, <2>4 DEF RoutineAt
  <2>5. CASE Goto(p, i, "golist", "error") /\ UNCHANGED pks
    <3>1. at'[p][i] = "error" /\ Started(p, i)' /\ Returned(p, i)'
      BY <1>7, <2>5 DEF RoutineAt
    <3>2. QED
      BY <3>1 DEF Goroutine, Keyed, Listed
  <2>6. QED
    BY <1>10, <2>3, <2>4, <2>5 DEF GoList
<1>11. CASE StoreListCache(p, i)
  <2>1. UNCHANGED seen /\ at[p][i] = "store" /\ Returns(p, i, "store", out[p][i])
    BY <1>11 DEF StoreListCache, Returns, Goto, history
  <2>2. out[p][i].imp = specs[p][i].imp /\ out[p][i] \in seen[p][i]
    BY <2>1 DEF Goroutine, Listed
  <2>3. QED
    BY <1>6, <2>1, <2>2 DEF RoutineAt
<1>12. CASE SendError(p, i)
  <2>1. at'[p][i] = "end" /\ errs'[p] > 0 /\ UNCHANGED pks
    BY <1>1, <1>12, BoundsAssumption DEF SendError, Goto
  <2>2. Started(p, i)'
    BY <1>2, <1>3, <2>1 DEF Started, Running
  <2>3. QED
    BY <1>3, <2>1, <2>2 DEF Goroutine, Keyed, Listed, Returned
<1>13. QED
  BY <1>8, <1>9, <1>10, <1>11, <1>12 DEF Routine

(* And nothing the invariant says of the others changes.                   *)
LEMMA StepRoutine ==
  ASSUME Inv, NEW p \in Proc, NEW i \in Slot, Routine(p, i)
  PROVE  Inv'
<1>1. /\ UNCHANGED <<tagged, disk, local, edits, main, looked, specs, raced>>
      /\ \A q \in Proc, j \in Slot : q # p \/ j # i =>
           /\ at'[q][j] = at[q][j] /\ key'[q][j] = key[q][j]
           /\ out'[q][j] = out[q][j] /\ pks'[q][j] = pks[q][j]
           /\ seen'[q][j] = seen[q][j]
      /\ \A q \in Proc : errs'[q] = errs[q] \/ errs'[q] = errs[q] + 1
  BY RoutineFrame DEF Inv
<1>2. at[p][i] \in Running /\ main[p] \notin {"scanning", "ok"}
  BY RoutineFrame DEF Inv, Goroutine, Started, Running
<1>3. TypeOK'
  BY RoutineType DEF Inv, Goroutine, Started, Keyed, Listed, Bounded, Entered
<1>4. EntriesMatchTheirKey'
  BY RoutineEntries DEF Inv
<1>5. ASSUME NEW q \in Proc PROVE Scanned(q)'
  <2>1. q # p => errs'[q] = errs[q]
    BY DEF Routine, ListCacheKey, Load, GoList, StoreListCache, SendError,
       Inv, TypeOK
  <2>2. /\ tagged'[q] = tagged[q] /\ looked'[q] = looked[q]
        /\ specs'[q] = specs[q] /\ main'[q] = main[q]
    BY <1>1
  <2>3. main[q] = "ok" => errs'[q] = 0
    <3>1. main[q] = "ok" => q # p /\ errs[q] = 0
      BY <1>2 DEF Inv, Scanned
    <3>2. QED
      BY <2>1, <3>1
  <2>4. Scanned(q)
    BY DEF Inv
  <2>5. QED
    BY <2>2, <2>3, <2>4 DEF Scanned
<1>6. ASSUME NEW q \in Proc, NEW j \in Slot PROVE Goroutine(q, j)'
  <2>1. CASE q = p /\ j = i
    BY <2>1, RoutineHolds DEF Inv
  <2>2. CASE q # p \/ j # i
    <3>1. Goroutine(q, j) /\ errs[q] \in Nat
      BY BoundsAssumption DEF Inv, TypeOK
    <3>2. Started(q, j)'
      BY <1>1, <2>2, <3>1 DEF Goroutine, Started
    <3>3. Keyed(q, j)' /\ Listed(q, j)' /\ Returned(q, j)'
      BY <1>1, <2>2, <3>1 DEF Goroutine, Keyed, Listed, Returned
    <3>4. QED
      BY <3>2, <3>3 DEF Goroutine
  <2>3. QED
    BY <2>1, <2>2
<1>7. QED
  BY <1>1, <1>3, <1>4, <1>5, <1>6 DEF Inv

-----------------------------------------------------------------------------
(* Steps of gmImpPackages.                                                 *)

(* While it scans, none of its goroutines has anything.                    *)
LEMMA Scanning ==
  ASSUME Inv, NEW p \in Proc, main[p] = "scanning", NEW i \in Slot
  PROVE  at[p][i] = "none" /\ key[p][i] = Nothing /\ pks[p][i] = Nothing
BY DEF Inv, Goroutine, Started, Keyed, Returned

(* The loop over the tags, with no goroutine started yet.                  *)
LEMMA StepScan ==
  ASSUME Inv, NEW p \in Proc, Scan(p)
  PROVE  Inv'
<1> DEFINE tag == tagged[p][looked[p] + 1]
<1>1. /\ UNCHANGED <<project, caches, at, key, out, pks, errs, history>>
      /\ main[p] = "scanning" /\ looked[p] < Len(tagged[p])
  BY DEF Scan
<1>2. /\ tagged[p] \in BoundedSeq(Tag, MaxTags)
      /\ specs \in [Proc -> BoundedSeq(Tag, MaxTags)]
      /\ looked \in [Proc -> 0..MaxTags] /\ main \in [Proc -> MainAt]
      /\ errs \in [Proc -> 0..MaxTags] /\ \A q \in Proc : errs[q] <= Len(specs[q])
      /\ MaxTags \in Nat
  BY BoundsAssumption DEF Inv, TypeOK
<1>3. /\ looked[p] \in Nat /\ looked[p] < MaxTags /\ Len(specs[p]) <= looked[p]
      /\ Len(specs[p]) \in 0..MaxTags /\ looked[p] + 1 \in 1..Len(tagged[p])
      /\ tag \in Tag
  <2>1. Len(tagged[p]) \in 0..MaxTags /\ Len(specs[p]) \in 0..MaxTags
    BY <1>2, Lists
  <2>2. looked[p] + 1 \in 1..Len(tagged[p])
    BY <1>1, <1>2, <2>1
  <2>3. tag \in Tag
    BY <1>2, <2>2, Lists
  <2>4. QED
    BY <1>1, <1>2, <2>1, <2>2, <2>3 DEF Inv, Scanned
<1>4. CASE /\ looked' = [looked EXCEPT ![p] = @ + 1]
           /\ specs' = [specs EXCEPT ![p] = AddSpec(@, tag)] /\ main' = main
  <2>1. /\ looked'[p] = looked[p] + 1 /\ specs'[p] = AddSpec(specs[p], tag)
        /\ \A q \in Proc : q # p => looked'[q] = looked[q] /\ specs'[q] = specs[q]
    BY <1>2, <1>4
  <2>2. /\ AddSpec(specs[p], tag) \in BoundedSeq(Tag, MaxTags)
        /\ Len(AddSpec(specs[p], tag)) \in Len(specs[p]) .. Len(specs[p]) + 1
        /\ EachOnce(AddSpec(specs[p], tag), SubSeq(tagged[p], 1, looked[p] + 1))
    <3>1. Len(specs[p]) < MaxTags
      BY <1>2, <1>3
    <3>2. tagged[p] \in Seq(Tag) /\ looked[p] \in 0..Len(tagged[p]) - 1
      BY <1>1, <1>2, <1>3, Lists
    <3>3. /\ SubSeq(tagged[p], 1, looked[p]) \in Seq(Tag)
          /\ SubSeq(tagged[p], 1, looked[p] + 1) =
               Append(SubSeq(tagged[p], 1, looked[p]), tag)
      BY <3>2, Parts
    <3>4. EachOnce(specs[p], SubSeq(tagged[p], 1, looked[p]))
      BY DEF Inv, Scanned
    <3>5. QED
      BY <1>2, <1>3, <3>1, <3>3, <3>4, Added
  <2>3. TypeOK'
    <3>1. specs' \in [Proc -> BoundedSeq(Tag, MaxTags)]
      BY <1>2, <1>4, <2>2
    <3>2. looked' \in [Proc -> 0..MaxTags]
      BY <1>2, <1>3, <1>4
    <3>3. \A q \in Proc : errs[q] <= Len(specs'[q])
      <4>1. Len(specs[p]) <= Len(specs'[p])
        BY <1>3, <2>1, <2>2
      <4>2. \A q \in Proc : q # p => specs'[q] = specs[q]
        BY <2>1
      <4>3. \A q \in Proc : errs[q] \in Nat /\ errs[q] <= Len(specs[q])
        BY <1>2
      <4>4. specs'[p] \in BoundedSeq(Tag, MaxTags)
        BY <2>1, <2>2
      <4>5. Len(specs'[p]) \in Nat
        BY <1>2, <4>4, Lists
      <4>6. errs[p] <= Len(specs'[p])
        BY <1>3, <4>1, <4>3, <4>5
      <4>7. QED
        BY <4>2, <4>3, <4>6
    <3>4. QED
      BY <1>1, <1>4, <3>1, <3>2, <3>3 DEF Inv, TypeOK, project, caches, history
  <2>4. Scanned(p)'
    <3>1. EachOnce(specs'[p], SubSeq(tagged'[p], 1, looked'[p]))
      BY <1>1, <2>1, <2>2 DEF project
    <3>2. looked'[p] <= Len(tagged[p]) /\ Len(specs'[p]) <= looked'[p]
      BY <1>3, <2>1, <2>2
    <3>3. QED
      BY <1>1, <1>4, <3>1, <3>2 DEF Scanned, project
  <2>5. ASSUME NEW q \in Proc, q # p PROVE Scanned(q)'
    <3>1. /\ looked'[q] = looked[q] /\ specs'[q] = specs[q]
          /\ UNCHANGED <<tagged, main, errs>>
      BY <1>1, <1>4, <2>1, <2>5 DEF project
    <3>2. /\ EachOnce(specs'[q], SubSeq(tagged'[q], 1, looked'[q]))
          /\ Len(specs'[q]) = Len(specs[q])
      BY <3>1 DEF Inv, Scanned
    <3>3. QED
      BY <3>1, <3>2 DEF Inv, Scanned
  <2>6. ASSUME NEW q \in Proc, NEW i \in Slot PROVE Goroutine(q, i)'
    <3>1. CASE q = p
      BY <1>1, <1>4, <3>1, Scanning
         DEF Goroutine, Started, Keyed, Listed, Returned
    <3>2. CASE q # p
      BY <1>1, <1>4, <2>1, <3>2
         DEF Inv, Goroutine, Started, Keyed, Listed, Returned, project, history
    <3>3. QED
      BY <3>1, <3>2
  <2>7. EntriesMatchTheirKey' /\ local' <= edits'
    BY <1>1 DEF Inv, EntriesMatchTheirKey, project, caches, history
  <2>8. QED
    BY <2>3, <2>4, <2>5, <2>6, <2>7 DEF Inv
<1>5. CASE main' = [main EXCEPT ![p] = "failed"] /\ UNCHANGED <<looked, specs>>
  <2>1. /\ main' \in [Proc -> MainAt] /\ main'[p] = "failed"
        /\ \A q \in Proc : q # p => main'[q] = main[q]
    BY <1>2, <1>5 DEF MainAt
  <2>2. TypeOK'
    BY <1>1, <1>5, <2>1 DEF Inv, TypeOK, project, caches, history
  <2>3. ASSUME NEW q \in Proc PROVE Scanned(q)'
    BY <1>1, <1>5, <2>1 DEF Inv, Scanned, project
  <2>4. ASSUME NEW q \in Proc, NEW i \in Slot PROVE Goroutine(q, i)'
    BY <1>1, <1>5, <2>1
       DEF Inv, Goroutine, Started, Keyed, Listed, Returned, project, history
  <2>5. EntriesMatchTheirKey' /\ local' <= edits'
    BY <1>1 DEF Inv, EntriesMatchTheirKey, project, caches, history
  <2>6. QED
    BY <2>2, <2>3, <2>4, <2>5 DEF Inv
<1>6. QED
  BY <1>4, <1>5 DEF Scan

(* The start of the goroutines, one for each entry of specs.               *)
LEMMA StepSpawn ==
  ASSUME Inv, NEW p \in Proc, Spawn(p)
  PROVE  Inv'
<1>1. /\ UNCHANGED <<project, caches, looked, specs, key, out, pks, errs, history>>
      /\ main[p] = "scanning" /\ looked[p] = Len(tagged[p])
  BY DEF Spawn
<1>2. main \in [Proc -> MainAt] /\ at \in [Proc -> [Slot -> RoutineAt]]
  BY DEF Inv, TypeOK
<1>3. /\ main' \in [Proc -> MainAt] /\ main'[p] = "resolving"
      /\ \A q \in Proc : q # p => main'[q] = main[q]
  BY <1>2 DEF Spawn, MainAt
<1>4. /\ at' \in [Proc -> [Slot -> RoutineAt]]
      /\ \A q \in Proc : q # p => at'[q] = at[q]
      /\ \A i \in Slot : at'[p][i] = IF i <= Len(specs[p]) THEN "key" ELSE "none"
  BY <1>2 DEF Spawn, RoutineAt
<1>5. TypeOK'
  BY <1>1, <1>3, <1>4 DEF Inv, TypeOK, project, caches, history
<1>6. ASSUME NEW q \in Proc PROVE Scanned(q)'
  BY <1>1, <1>3 DEF Inv, Scanned, project
<1>7. ASSUME NEW q \in Proc, NEW i \in Slot PROVE Goroutine(q, i)'
  <2>1. CASE q = p
    BY <1>1, <1>3, <1>4, <2>1, Scanning
       DEF Goroutine, Started, Keyed, Listed, Returned
  <2>2. CASE q # p
    BY <1>1, <1>3, <1>4, <2>2
       DEF Inv, Goroutine, Started, Keyed, Listed, Returned, project, history
  <2>3. QED
    BY <2>1, <2>2
<1>8. EntriesMatchTheirKey' /\ local' <= edits'
  BY <1>1 DEF Inv, EntriesMatchTheirKey, project, caches, history
<1>9. QED
  BY <1>5, <1>6, <1>7, <1>8 DEF Inv

(* The end of wg.Wait, where no goroutine runs any more.                   *)
LEMMA StepWait ==
  ASSUME Inv, NEW p \in Proc, Wait(p)
  PROVE  Inv'
<1>1. /\ UNCHANGED <<project, caches, looked, specs, at, key, out, pks, errs, history>>
      /\ main[p] = "resolving" /\ \A i \in Slot : at[p][i] \notin Running
  BY DEF Wait
<1>2. main \in [Proc -> MainAt] /\ errs[p] \in Nat
  BY BoundsAssumption DEF Inv, TypeOK
<1>3. /\ main' \in [Proc -> MainAt] /\ main'[p] \in {"ok", "failed"}
      /\ main'[p] = "ok" => errs[p] = 0
      /\ \A q \in Proc : q # p => main'[q] = main[q]
  BY <1>2 DEF Wait, MainAt
<1>4. TypeOK'
  BY <1>1, <1>3 DEF Inv, TypeOK, project, caches, history
<1>5. ASSUME NEW q \in Proc PROVE Scanned(q)'
  BY <1>1, <1>3 DEF Inv, Scanned, project
<1>6. ASSUME NEW q \in Proc, NEW i \in Slot PROVE Goroutine(q, i)'
  BY <1>1, <1>3
     DEF Inv, Goroutine, Started, Keyed, Listed, Returned, project, history
<1>7. EntriesMatchTheirKey' /\ local' <= edits'
  BY <1>1 DEF Inv, EntriesMatchTheirKey, project, caches, history
<1>8. QED
  BY <1>4, <1>5, <1>6, <1>7 DEF Inv

-----------------------------------------------------------------------------
(* Steps of the environment.                                               *)

(* An edit adds what go list would say now to what a goroutine has seen.   *)
LEMMA StepEdit ==
  ASSUME Inv, EditProject \/ EditLocal
  PROVE  Inv'
<1>1. /\ UNCHANGED <<tagged, caches, call, at, key, out, pks, errs>> /\ Edit
      /\ disk' \in Disk /\ local' \in {local, local + 1}
      /\ raced => raced'
      /\ raced' \in BOOLEAN
      /\ \A p \in Proc, i \in Slot :
           key[p][i] # Nothing /\ at[p][i] \in {"load", "golist"} =>
             raced' \/ disk' = disk
  BY Zenon DEF EditProject, EditLocal, Inv, TypeOK
<1>2. /\ edits \in 0..MaxEdits /\ local \in 0..MaxEdits /\ local <= edits
      /\ edits' = edits + 1 /\ edits < MaxEdits /\ MaxEdits \in Nat
  BY <1>1, BoundsAssumption DEF Inv, TypeOK, Edit
<1>3. edits' \in 0..MaxEdits /\ local' \in 0..MaxEdits /\ local' <= edits'
  BY <1>1, <1>2
<1>4. seen \in [Proc -> [Slot -> SUBSET Package]]
  BY DEF Inv, TypeOK
<1> DEFINE SeenNow(p, i) ==
             IF at[p][i] \in {"load", "golist"}
             THEN seen[p][i] \cup {Truth(specs[p][i].imp, disk', local')}
             ELSE seen[p][i]
<1>5. seen' = [p \in Proc |-> [i \in Slot |-> SeenNow(p, i)]]
  BY <1>1 DEF Edit
<1>6. ASSUME NEW p \in Proc, NEW i \in Slot PROVE SeenNow(p, i) \in SUBSET Package
  <2>1. CASE at[p][i] \in {"load", "golist"}
    <3>1. i <= Len(specs[p])
      BY <2>1 DEF Inv, Goroutine, Started
    <3>2. specs[p][i].imp \in Path
      BY <3>1, Resolves DEF Inv
    <3>3. Truth(specs[p][i].imp, disk', local') \in Package
      BY <1>1, <1>3, <3>2, Truths
    <3>4. QED
      BY <1>4, <2>1, <3>3
  <2>2. QED
    BY <1>4, <2>1
<1>7. seen' \in [Proc -> [Slot -> SUBSET Package]]
  <2> HIDE DEF SeenNow
  <2>1. QED
    BY <1>5, <1>6
<1>8. TypeOK'
  <2> HIDE DEF SeenNow
  <2>1. UNCHANGED <<tagged, modcache, list, main, looked, specs, at, key, out,
                    pks, errs>>
    BY <1>1 DEF caches, call
  <2>2. TypeOK
    BY DEF Inv
  <2>3. disk' \in Disk /\ raced' \in BOOLEAN
    BY Zenon, <1>1
  <2>4. QED
    BY <1>3, <1>7, <2>1, <2>2, <2>3 DEF TypeOK
<1>9. ASSUME NEW p \in Proc PROVE Scanned(p)'
  BY <1>1 DEF Inv, Scanned, call
<1>10. ASSUME NEW p \in Proc, NEW i \in Slot PROVE Goroutine(p, i)'
  <2>1. Started(p, i)'
    BY <1>1 DEF Inv, Goroutine, Started, call
  <2>2. Keyed(p, i)'
    BY <1>1 DEF Inv, Goroutine, Keyed
  <2>3. Listed(p, i)'
    BY <1>1, <1>5 DEF Inv, Goroutine, Listed, call
  <2>4. Returned(p, i)'
    BY <1>1, <1>5 DEF Inv, Goroutine, Returned, call
  <2>5. QED
    BY <2>1, <2>2, <2>3, <2>4 DEF Goroutine
<1>11. EntriesMatchTheirKey'
  BY <1>1 DEF Inv, EntriesMatchTheirKey, caches
<1>12. QED
  BY <1>3, <1>8, <1>9, <1>10, <1>11 DEF Inv

(* Purges lose entries, and what go list says stays as it is.              *)
LEMMA StepPrune ==
  ASSUME Inv, Prune
  PROVE  Inv'
<1>1. UNCHANGED <<project, call, at, key, out, pks, errs, history>>
  BY DEF Prune
<1>2. /\ modcache' \subseteq modcache
      /\ list' = list \/ \E k \in Key : list' = [list EXCEPT ![k] = Nothing]
  BY DEF Prune
<1>3. /\ list' \in [Key -> Package \cup {Nothing}]
      /\ \A k \in Key : list'[k] \in {list[k], Nothing}
  BY <1>2 DEF Inv, TypeOK
<1>4. TypeOK'
  BY <1>1, <1>2, <1>3 DEF Inv, TypeOK, project, call, history
<1>5. EntriesMatchTheirKey'
  BY <1>1, <1>3, Found DEF Inv, EntriesMatchTheirKey, history
<1>6. ASSUME NEW p \in Proc, NEW i \in Slot PROVE Scanned(p)' /\ Goroutine(p, i)'
  BY <1>1 DEF Inv, Scanned, Goroutine, Started, Keyed, Listed, Returned,
     project, call, history
<1>7. \A p \in Proc : Scanned(p)'
  BY <1>1 DEF Inv, Scanned, project, call
<1>8. local' <= edits'
  BY <1>1 DEF Inv, project
<1>9. QED
  BY <1>4, <1>5, <1>6, <1>7, <1>8 DEF Inv

-----------------------------------------------------------------------------
(* gomake starts with empty caches and nothing scanned.                    *)
LEMMA InitInv == Init => Inv
<1> SUFFICES ASSUME Init PROVE Inv
  OBVIOUS
<1>1. /\ tagged \in [Proc -> BoundedSeq(Tag, MaxTags)]
      /\ local = 0 /\ edits = 0 /\ list = [k \in Key |-> Nothing]
      /\ main = [p \in Proc |-> "scanning"] /\ looked = [p \in Proc |-> 0]
      /\ specs = [p \in Proc |-> <<>>] /\ errs = [p \in Proc |-> 0]
      /\ at = PerSlot("none") /\ key = PerSlot(Nothing)
      /\ pks = PerSlot(Nothing)
  BY Zenon DEF Init
<1>2. EntriesMatchTheirKey /\ local <= edits
  BY <1>1, Found DEF EntriesMatchTheirKey
<1>3. ASSUME NEW p \in Proc PROVE Scanned(p)
  <2>1. /\ looked[p] = 0 /\ specs[p] = <<>> /\ main[p] = "scanning"
        /\ Len(specs[p]) = 0
    BY <1>1
  <2>2. Len(tagged[p]) \in Nat /\ tagged[p] \in Seq(Tag)
    BY <1>1, Lists, BoundsAssumption
  <2>3. EachOnce(specs[p], SubSeq(tagged[p], 1, looked[p]))
    <3>1. SubSeq(tagged[p], 1, 0) = <<>>
      BY <2>2, Parts
    <3>2. <<>> \in Seq(Tag) /\ IsInjective(<<>>)
      BY DEF IsInjective
    <3>3. QED
      BY <2>1, <3>1, <3>2, EachOnceOfItself
  <2>4. QED
    BY <2>1, <2>2, <2>3 DEF Scanned
<1>4. ASSUME NEW p \in Proc, NEW i \in Slot PROVE Goroutine(p, i)
  BY <1>1 DEF PerSlot, Goroutine, Started, Keyed, Listed, Returned
<1>5. QED
  BY <1>2, <1>3, <1>4, InitType DEF Inv

(* Every step keeps the invariant.                                         *)
LEMMA StepInv == Inv /\ [Next]_vars => Inv'
<1> SUFFICES ASSUME Inv, [Next]_vars PROVE Inv'
  OBVIOUS
<1>1. ASSUME NEW p \in Proc, Scan(p) PROVE Inv'
  BY <1>1, StepScan
<1>2. ASSUME NEW p \in Proc, Spawn(p) PROVE Inv'
  BY <1>2, StepSpawn
<1>3. ASSUME NEW p \in Proc, Wait(p) PROVE Inv'
  BY <1>3, StepWait
<1>4. ASSUME NEW p \in Proc, NEW i \in Slot, Routine(p, i) PROVE Inv'
  BY <1>4, StepRoutine
<1>5. CASE EditProject \/ EditLocal
  BY <1>5, StepEdit
<1>6. CASE Prune
  BY <1>6, StepPrune
<1>7. CASE UNCHANGED vars
  BY <1>7 DEF vars, project, caches, call, history, Inv, TypeOK,
     EntriesMatchTheirKey, Scanned, Goroutine, Started, Keyed, Listed, Returned
<1>8. QED
  BY <1>1, <1>2, <1>3, <1>4, <1>5, <1>6, <1>7 DEF Next, AllEnded

(* The invariant holds in every state of every behaviour.                  *)
THEOREM Invariance == Spec => []Inv
BY InitInv, StepInv, PTL DEF Spec

(* Every variable keeps its type: no index of a list is out of its range,  *)
(* and errc never holds more errors than it has room for.                  *)
THEOREM TypeCorrect == Spec => []TypeOK
BY Invariance, PTL DEF Inv

(* The cache never tells of a package what its key does not pin.           *)
THEOREM CacheTrue == Spec => []EntriesMatchTheirKey
BY Invariance, PTL DEF Inv

(* The cache cannot be told from go list.                                  *)
THEOREM Transparent == Spec => []LikeGoList
<1>1. Inv => LikeGoList
  BY DEF Inv, Goroutine, Returned, LikeGoList
<1>2. QED
  BY <1>1, Invariance, PTL

(* Every tag is resolved once, under its namespace, and the packages come  *)
(* in the order in which the tags do.                                      *)
THEOREM Resolved == Spec => []ResolvedAsTagged
<1>1. ASSUME Inv, NEW p \in Proc, main[p] = "ok"
      PROVE  /\ \A i \in 1..Len(specs[p]) :
                  /\ pks[p][i] # Nothing
                  /\ [ns |-> pks[p][i].ns, imp |-> pks[p][i].pkg.imp] = specs[p][i]
             /\ EachOnce(specs[p], tagged[p])
  <2>1. TypeOK /\ Scanned(p) /\ tagged[p] \in BoundedSeq(Tag, MaxTags)
        /\ specs[p] \in BoundedSeq(Tag, MaxTags)
    BY <1>1 DEF Inv, TypeOK
  <2>2. Len(specs[p]) \in 0..MaxTags /\ MaxTags \in Nat
    BY <2>1, Lists, BoundsAssumption
  <2>3. ASSUME NEW i \in 1..Len(specs[p])
        PROVE  /\ pks[p][i] # Nothing
               /\ [ns |-> pks[p][i].ns, imp |-> pks[p][i].pkg.imp] = specs[p][i]
    <3>1. i \in Slot /\ i <= Len(specs[p])
      BY <2>2 DEF Slot
    <3>2. at[p][i] \in RoutineAt /\ Goroutine(p, i)
      BY <1>1, <3>1 DEF Inv, TypeOK
    <3>3. at[p][i] = "end" /\ errs[p] = 0
      BY <1>1, <2>1, <3>1, <3>2 DEF Goroutine, Started, Running, Scanned
    <3>4. pks[p][i] # Nothing
      BY <3>2, <3>3 DEF Goroutine, Started
    <3>5. pks[p][i].ns = specs[p][i].ns /\ pks[p][i].pkg.imp = specs[p][i].imp
      BY <3>2, <3>4 DEF Goroutine, Returned
    <3>6. specs[p][i] = [ns |-> specs[p][i].ns, imp |-> specs[p][i].imp]
      BY <2>1, <3>1, Resolves
    <3>7. QED
      BY <3>4, <3>5, <3>6
  <2>4. SubSeq(tagged[p], 1, looked[p]) = tagged[p]
    <3>1. looked[p] = Len(tagged[p])
      BY <1>1, <2>1 DEF Scanned
    <3>2. tagged[p] \in Seq(Tag)
      BY <2>1, <2>2, Lists
    <3>3. QED
      BY <3>1, <3>2, Parts
  <2>5. QED
    BY <2>1, <2>3, <2>4 DEF Scanned
<1>2. Inv => ResolvedAsTagged
  BY <1>1 DEF ResolvedAsTagged
<1>3. QED
  BY <1>2, Invariance, PTL

==============================================================================
