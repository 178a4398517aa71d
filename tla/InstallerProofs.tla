--------------------------- MODULE InstallerProofs ---------------------------
(***************************************************************************)
(* Proofs of the safety properties of Installer, for every set of imports. *)
(* The properties speak of the end of an install; the inductive invariant  *)
(* Inv says what holds at each step on the way: which deferred functions   *)
(* owe what (Owed), that the source can be restored as long as a build may *)
(* write into it (Restorable), which tree is built in (Isolated), and what *)
(* the binary will be made of (Prepared, Finished).                        *)
(***************************************************************************)
EXTENDS Installer, TLAPS

Ending == {"unwind", "done"}
Before == {"start", "source", "imports", "snapshot", "version", "files", "copy"}
Preparing == {"workspace", "yaml", "get", "temps", "targets", "main", "announce"}
Glue == {"targets.go", "targets_main.go_"}

(* What the environment looks like while deferred functions are to run.    *)
Owed ==
  /\ "ws" \in defers => gowork = "ws" /\ goflags = FALSE
  /\ "ws" \notin defers => goflags = asked.goflags
  /\ "ws" \notin defers /\ "gowork" \in defers => gowork = "off"
  /\ defers = {} => gowork = "caller"
  /\ temps = defers \cap {"tmp", "ws"}
  /\ "gowork" \notin defers => defers = {}
  /\ pc \in {"start", "done"} => defers = {}
  /\ pc \notin Ending \cup {"start"} => "gowork" \in defers

Unfailed == pc \notin Ending => err = {}

Restorable ==
  /\ "snapshot" \in defers => saved = asked.src
  /\ "snapshot" \notin defers => tree["src"] = asked.src \/ "restore" \in err
  /\ pc \in {"start", "source", "imports", "snapshot"} => "snapshot" \notin defers
  /\ devel /\ pc \in {"version", "files", "copy", "replaces", "build"} \cup Preparing =>
       "snapshot" \in defers

Isolated ==
  /\ CopyIsolatesSource
  /\ pc \in Before =>
       dir = "src" /\ \A f \in Files \ Sums : tree["src"][f] = asked.src[f]
  /\ pc \in {"snapshot", "version", "files"} => devel
  /\ pc = "replaces" => dir = "tmp"
  /\ ~devel /\ pc \in Preparing => dir = "tmp"
  /\ \A f \in Glue : asked.src[f] = "orig"

Prepared ==
  /\ pc \in {"version", "files", "copy", "replaces"} \cup Preparing => wanted # {}
  /\ pc \in Before \cup {"replaces", "workspace"} => local = {} /\ got = {}
  /\ pc \notin Ending /\ local # {} => "ws" \in defers
  /\ pc \in {"temps", "targets", "main", "announce", "build"} =>
       wanted \subseteq local \cup got
  /\ pc \in {"main", "announce"} => tree[dir]["targets.go"] = "new"
  /\ pc = "announce" => tree[dir]["targets_main.go_"] = "new"
  /\ pc = "build" =>
       \A f \in Glue : tree[dir][f] = IF wanted = {} THEN "orig" ELSE "new"

Finished ==
  /\ pc \notin Ending => out = Old
  /\ "err" \in err => out = Old
  /\ pc \in Ending /\ "err" \notin err =>
       /\ out.gen = IF wanted = {} THEN "orig" ELSE "new"
       /\ local # {} => out.ws
       /\ wanted \subseteq local \cup got

Inv ==
  /\ TypeOK /\ Owed /\ Unfailed /\ Restorable /\ Isolated /\ Prepared /\ Finished

-----------------------------------------------------------------------------
(* What the go commands and the installer's own writes do to the trees.    *)

(* At most the files F of tree d change.                                   *)
Edits(d, F) ==
  /\ tree' \in [Trees -> [Files -> Contents]]
  /\ \A t \in Trees : t # d => tree'[t] = tree[t]
  /\ \A f \in Files \ F : tree'[d][f] = tree[d][f]

(* A step that leaves the trees alone.                                     *)
LEMMA NoEdit ==
  ASSUME tree \in [Trees -> [Files -> Contents]], tree' = tree, NEW d, NEW F
  PROVE  Edits(d, F)
BY DEF Edits

(* A write of one file.                                                    *)
LEMMA WriteEdits ==
  ASSUME tree \in [Trees -> [Files -> Contents]], NEW d \in Trees, NEW f \in Files,
         tree' = [tree EXCEPT ![d][f] = "new"]
  PROVE  Edits(d, {f}) /\ tree'[d][f] = "new"
BY DEF Edits, Contents

(* A write of any of go.mod and go.sum.                                    *)
LEMMA SumsEdits ==
  ASSUME tree \in [Trees -> [Files -> Contents]], NEW d \in Trees, NEW F \in SUBSET Sums,
         tree' = [tree EXCEPT ![d] = [f \in Files |-> IF f \in F THEN "new" ELSE @[f]]]
  PROVE  Edits(d, Sums)
<1>1. [f \in Files |-> IF f \in F THEN "new" ELSE tree[d][f]] \in [Files -> Contents]
  BY DEF Contents
<1>2. QED
  BY <1>1 DEF Edits

(* A go command rewrites at most go.mod and go.sum, and nothing in the     *)
(* module cache.                                                           *)
LEMMA GoEdits ==
  ASSUME tree \in [Trees -> [Files -> Contents]], NEW d \in Trees, GoRewrites(d)
  PROVE  Edits(d, Sums) /\ (d = "src" /\ ~devel => tree' = tree)
<1>1. CASE goflags /\ (d = "tmp" \/ devel)
  BY <1>1, SumsEdits DEF GoRewrites
<1>2. CASE ~(goflags /\ (d = "tmp" \/ devel))
  BY <1>2, NoEdit DEF GoRewrites
<1>3. QED
  BY <1>1, <1>2

-----------------------------------------------------------------------------
(* The invariant holds at first.                                           *)
LEMMA InitInv == Init => Inv
<1> SUFFICES ASSUME Init PROVE Inv
  OBVIOUS
<1>1. PICK yaml, sum \in {"absent", "orig"} :
        tree = [src |-> [f \in Files |-> CASE f = "targets.yaml" -> yaml
                                           [] f = "go.sum" -> sum
                                           [] OTHER -> "orig"],
                tmp |-> Nothing]
  BY DEF Init
<1>2. tree \in [Trees -> [Files -> Contents]]
  BY <1>1 DEF Trees, Nothing, Contents
<1>3. TypeOK
  BY <1>2 DEF Init, TypeOK, PcAt, Nothing, Contents, Trees, Binary, Old
<1>4. Owed /\ Unfailed /\ Restorable
  BY DEF Init, Owed, Unfailed, Restorable, Ending, Preparing
<1>5. \A f \in Glue : asked.src[f] = "orig"
  BY <1>1 DEF Init, Glue, Files, Generated, Sums
<1>6. Isolated
  BY <1>5 DEF Init, Isolated, CopyIsolatesSource, Before, Preparing
<1>7. Prepared /\ Finished
  BY DEF Init, Prepared, Finished, Before, Preparing, Ending
<1>8. QED
  BY <1>3, <1>4, <1>6, <1>7 DEF Inv

-----------------------------------------------------------------------------
(* Each part of the invariant is kept by every action.                      *)

(* The trees stay trees.                                                   *)
LEMMA TreeStep ==
  ASSUME TypeOK, [Next]_vars
  PROVE  tree' \in [Trees -> [Files -> Contents]]
<1> USE DEF TypeOK, Edits, Trees
<1>1. CASE Start
  BY <1>1 DEF Start, Goto, Defer, mode, plan, env, work
<1>2. CASE Source
  BY <1>2 DEF Source, Goto, Fail, mode, plan, env, work
<1>3. CASE EffectiveImports
  BY <1>3 DEF EffectiveImports, Goto, Fail, mode, env, work
<1>4. CASE SnapshotGenerated
  BY <1>4 DEF SnapshotGenerated, Goto, Fail, Defer, mode, plan, env
<1>5. CASE RepoVersion
  BY <1>5, GoEdits DEF RepoVersion, Goto, Fail, mode, plan, env
<1>6. CASE BuildFiles
  BY <1>6, GoEdits DEF BuildFiles, Goto, Fail, mode, plan, env
<1>7. CASE CopyToTemp
  BY <1>7 DEF CopyToTemp, Goto, Fail, Defer, mode, plan, env
<1>8. CASE Replaces
  BY <1>8, WriteEdits DEF Replaces, Goto, Fail, mode, plan, env
<1>9. CASE SetupWorkspace
  BY <1>9 DEF SetupWorkspace, Goto, Fail, Defer, mode, env
<1>10. CASE WriteTargetsFile
  BY <1>10, WriteEdits DEF WriteTargetsFile, Goto, Fail, mode, plan, env
<1>11. CASE GoGet
  BY <1>11, SumsEdits DEF GoGet, Fail, mode, plan, env
<1>12. CASE GenImports
  BY <1>12, GoEdits DEF GenImports, Goto, Fail, mode, plan, env
<1>13. CASE WriteTemps
  BY <1>13 DEF WriteTemps, Goto, Fail, mode, plan, env, work
<1>14. CASE RenameTargets
  BY <1>14, WriteEdits DEF RenameTargets, Renamed, Goto, Fail, mode, plan, env
<1>15. CASE RenameMain
  BY <1>15, WriteEdits DEF RenameMain, Renamed, Goto, Fail, mode, plan, env
<1>16. CASE Announce
  BY <1>16 DEF Announce, Goto, Fail, mode, plan, env, work
<1>17. CASE Build
  BY <1>17, GoEdits DEF Build, Goto, Fail, mode, plan, env
<1>18. CASE CloseWorkspace
  BY <1>18 DEF CloseWorkspace, mode, plan
<1>19. CASE RemoveCopy
  BY <1>19 DEF RemoveCopy, mode, plan, env
<1>20. CASE RestoreSource
  BY <1>20 DEF RestoreSource, mode, plan, env
<1>21. CASE RestoreGowork
  BY <1>21 DEF RestoreGowork, mode, plan, work
<1>22. CASE Return
  BY <1>22 DEF Return, Goto, mode, plan, env, work
<1>23. CASE UNCHANGED vars
  BY <1>23 DEF vars, mode, plan, env, work
<1>24. QED
  BY <1>1, <1>2, <1>3, <1>4, <1>5, <1>6, <1>7, <1>8, <1>9, <1>10, <1>11,
    <1>12, <1>13, <1>14, <1>15, <1>16, <1>17, <1>18, <1>19, <1>20, <1>21,
    <1>22, <1>23 DEF Next, Done

(* The variables keep their types.                                         *)
LEMMA TypeStep ==
  ASSUME Inv, [Next]_vars
  PROVE  TypeOK'
<1> USE DEF Inv, TypeOK, PcAt
<1>1. CASE Start
  BY <1>1 DEF Start, Goto, Defer, mode, plan, env, work
<1>2. CASE Source
  BY <1>2 DEF Source, Goto, Fail, mode, plan, env, work
<1>3. CASE EffectiveImports
  BY <1>3 DEF EffectiveImports, Goto, Fail, mode, env, work, Prepared, Before
<1>4. CASE SnapshotGenerated
  BY <1>4 DEF SnapshotGenerated, Goto, Fail, Defer, mode, plan, env, Trees
<1>5. CASE RepoVersion
  BY <1>5, TreeStep DEF RepoVersion, Goto, Fail, mode, plan, env
<1>6. CASE BuildFiles
  BY <1>6, TreeStep DEF BuildFiles, Goto, Fail, mode, plan, env
<1>7. CASE CopyToTemp
  BY <1>7, TreeStep DEF CopyToTemp, Goto, Fail, Defer, mode, plan, env, Trees
<1>8. CASE Replaces
  BY <1>8, TreeStep DEF Replaces, Goto, Fail, mode, plan, env
<1>9. CASE SetupWorkspace
  BY <1>9 DEF SetupWorkspace, Goto, Fail, Defer, mode, env
<1>10. CASE WriteTargetsFile
  BY <1>10, TreeStep DEF WriteTargetsFile, Goto, Fail, mode, plan, env
<1>11. CASE GoGet
  BY <1>11, TreeStep DEF GoGet, Fail, mode, plan, env
<1>12. CASE GenImports
  BY <1>12, TreeStep DEF GenImports, Goto, Fail, mode, plan, env
<1>13. CASE WriteTemps
  BY <1>13 DEF WriteTemps, Goto, Fail, mode, plan, env, work
<1>14. CASE RenameTargets
  BY <1>14, TreeStep DEF RenameTargets, Renamed, Goto, Fail, mode, plan, env
<1>15. CASE RenameMain
  BY <1>15, TreeStep DEF RenameMain, Renamed, Goto, Fail, mode, plan, env
<1>16. CASE Announce
  BY <1>16 DEF Announce, Goto, Fail, mode, plan, env, work
<1>17. CASE Build
  <2>1. Built.gen \in Contents \cup {"mixed"}
    BY DEF Built, Files, Generated
  <2>2. Built \in Binary
    BY <2>1 DEF Built, Binary
  <2>3. QED
    BY <1>17, TreeStep, <2>2 DEF Build, Goto, Fail, mode, plan, env
<1>18. CASE CloseWorkspace
  BY <1>18 DEF CloseWorkspace, mode, plan
<1>19. CASE RemoveCopy
  BY <1>19 DEF RemoveCopy, mode, plan, env
<1>20. CASE RestoreSource
  BY <1>20, TreeStep DEF RestoreSource, mode, plan, env
<1>21. CASE RestoreGowork
  BY <1>21 DEF RestoreGowork, mode, plan, work
<1>22. CASE Return
  BY <1>22 DEF Return, Goto, mode, plan, env, work
<1>23. CASE UNCHANGED vars
  BY <1>23 DEF vars, mode, plan, env, work
<1>24. QED
  BY <1>1, <1>2, <1>3, <1>4, <1>5, <1>6, <1>7, <1>8, <1>9, <1>10, <1>11,
    <1>12, <1>13, <1>14, <1>15, <1>16, <1>17, <1>18, <1>19, <1>20, <1>21,
    <1>22, <1>23 DEF Next, Done

(* What is borrowed has a deferred function that gives it back.            *)
LEMMA OwedStep ==
  ASSUME Inv, [Next]_vars
  PROVE  Owed'
<1> USE DEF Inv, Owed, TypeOK, Ending
<1>1. CASE Start
  BY <1>1 DEF Start, Goto, Defer, mode, plan, env, work
<1>2. CASE Source
  BY <1>2 DEF Source, Goto, Fail, mode, plan, env, work
<1>3. CASE EffectiveImports
  BY <1>3 DEF EffectiveImports, Goto, Fail, mode, env, work
<1>4. CASE SnapshotGenerated
  <2>1. temps' = defers' \cap {"tmp", "ws"}
    BY <1>4 DEF SnapshotGenerated, Goto, Fail, Defer, mode, plan, env
  <2>2. "ws" \in defers' => gowork' = "ws" /\ goflags' = FALSE
    BY <1>4 DEF SnapshotGenerated, Goto, Fail, Defer, mode, plan, env
  <2>3. "ws" \notin defers' => goflags' = asked'.goflags
    BY <1>4 DEF SnapshotGenerated, Goto, Fail, Defer, mode, plan, env
  <2>4. "ws" \notin defers' /\ "gowork" \in defers' => gowork' = "off"
    BY <1>4 DEF SnapshotGenerated, Goto, Fail, Defer, mode, plan, env
  <2>5. "gowork" \in defers'
    BY <1>4 DEF SnapshotGenerated, Goto, Fail, Defer, mode, plan, env
  <2>6. pc' \notin {"start", "done"}
    BY <1>4 DEF SnapshotGenerated, Goto, Fail, Defer, mode, plan, env
  <2>7. QED
    BY <2>1, <2>2, <2>3, <2>4, <2>5, <2>6
<1>5. CASE RepoVersion
  BY <1>5 DEF RepoVersion, Goto, Fail, mode, plan, env
<1>6. CASE BuildFiles
  BY <1>6 DEF BuildFiles, Goto, Fail, mode, plan, env
<1>7. CASE CopyToTemp
  <2>1. temps' = defers' \cap {"tmp", "ws"}
    BY <1>7 DEF CopyToTemp, Goto, Fail, Defer, mode, plan, env
  <2>2. "ws" \in defers' => gowork' = "ws" /\ goflags' = FALSE
    BY <1>7 DEF CopyToTemp, Goto, Fail, Defer, mode, plan, env
  <2>3. "ws" \notin defers' => goflags' = asked'.goflags
    BY <1>7 DEF CopyToTemp, Goto, Fail, Defer, mode, plan, env
  <2>4. "ws" \notin defers' /\ "gowork" \in defers' => gowork' = "off"
    BY <1>7 DEF CopyToTemp, Goto, Fail, Defer, mode, plan, env
  <2>5. "gowork" \in defers'
    BY <1>7 DEF CopyToTemp, Goto, Fail, Defer, mode, plan, env
  <2>6. pc' \notin {"start", "done"}
    BY <1>7 DEF CopyToTemp, Goto, Fail, Defer, mode, plan, env
  <2>7. QED
    BY <2>1, <2>2, <2>3, <2>4, <2>5, <2>6
<1>8. CASE Replaces
  BY <1>8 DEF Replaces, Goto, Fail, mode, plan, env
<1>9. CASE SetupWorkspace
  <2>1. temps' = defers' \cap {"tmp", "ws"}
    BY <1>9 DEF SetupWorkspace, Goto, Fail, Defer, mode, env
  <2>2. "ws" \in defers' => gowork' = "ws" /\ goflags' = FALSE
    BY <1>9 DEF SetupWorkspace, Goto, Fail, Defer, mode, env
  <2>3. "ws" \notin defers' => goflags' = asked'.goflags
    BY <1>9 DEF SetupWorkspace, Goto, Fail, Defer, mode, env
  <2>4. "ws" \notin defers' /\ "gowork" \in defers' => gowork' = "off"
    BY <1>9 DEF SetupWorkspace, Goto, Fail, Defer, mode, env
  <2>5. "gowork" \in defers'
    BY <1>9 DEF SetupWorkspace, Goto, Fail, Defer, mode, env
  <2>6. pc' \notin {"start", "done"}
    BY <1>9 DEF SetupWorkspace, Goto, Fail, Defer, mode, env
  <2>7. QED
    BY <2>1, <2>2, <2>3, <2>4, <2>5, <2>6
<1>10. CASE WriteTargetsFile
  BY <1>10 DEF WriteTargetsFile, Goto, Fail, mode, plan, env
<1>11. CASE GoGet
  BY <1>11 DEF GoGet, Fail, mode, plan, env
<1>12. CASE GenImports
  BY <1>12 DEF GenImports, Goto, Fail, mode, plan, env
<1>13. CASE WriteTemps
  BY <1>13 DEF WriteTemps, Goto, Fail, mode, plan, env, work
<1>14. CASE RenameTargets
  BY <1>14 DEF RenameTargets, Renamed, Goto, Fail, mode, plan, env
<1>15. CASE RenameMain
  BY <1>15 DEF RenameMain, Renamed, Goto, Fail, mode, plan, env
<1>16. CASE Announce
  BY <1>16 DEF Announce, Goto, Fail, mode, plan, env, work
<1>17. CASE Build
  BY <1>17 DEF Build, Goto, Fail, mode, plan, env
<1>18. CASE CloseWorkspace
  BY <1>18 DEF CloseWorkspace, mode, plan
<1>19. CASE RemoveCopy
  BY <1>19 DEF RemoveCopy, mode, plan, env
<1>20. CASE RestoreSource
  BY <1>20 DEF RestoreSource, mode, plan, env
<1>21. CASE RestoreGowork
  BY <1>21 DEF RestoreGowork, mode, plan, work
<1>22. CASE Return
  BY <1>22 DEF Return, Goto, mode, plan, env, work
<1>23. CASE UNCHANGED vars
  BY <1>23 DEF vars, mode, plan, env, work
<1>24. QED
  BY <1>1, <1>2, <1>3, <1>4, <1>5, <1>6, <1>7, <1>8, <1>9, <1>10, <1>11,
    <1>12, <1>13, <1>14, <1>15, <1>16, <1>17, <1>18, <1>19, <1>20, <1>21,
    <1>22, <1>23 DEF Next, Done

(* An error ends the way forward.                                          *)
LEMMA UnfailedStep ==
  ASSUME Inv, [Next]_vars
  PROVE  Unfailed'
<1> USE DEF Inv, Unfailed, TypeOK, Ending
<1>1. CASE Start
  BY <1>1 DEF Start, Goto, Defer, mode, plan, env, work
<1>2. CASE Source
  BY <1>2 DEF Source, Goto, Fail, mode, plan, env, work
<1>3. CASE EffectiveImports
  BY <1>3 DEF EffectiveImports, Goto, Fail, mode, env, work
<1>4. CASE SnapshotGenerated
  BY <1>4 DEF SnapshotGenerated, Goto, Fail, Defer, mode, plan, env
<1>5. CASE RepoVersion
  BY <1>5 DEF RepoVersion, Goto, Fail, mode, plan, env
<1>6. CASE BuildFiles
  BY <1>6 DEF BuildFiles, Goto, Fail, mode, plan, env
<1>7. CASE CopyToTemp
  BY <1>7 DEF CopyToTemp, Goto, Fail, Defer, mode, plan, env
<1>8. CASE Replaces
  BY <1>8 DEF Replaces, Goto, Fail, mode, plan, env
<1>9. CASE SetupWorkspace
  BY <1>9 DEF SetupWorkspace, Goto, Fail, Defer, mode, env
<1>10. CASE WriteTargetsFile
  BY <1>10 DEF WriteTargetsFile, Goto, Fail, mode, plan, env
<1>11. CASE GoGet
  BY <1>11 DEF GoGet, Fail, mode, plan, env
<1>12. CASE GenImports
  BY <1>12 DEF GenImports, Goto, Fail, mode, plan, env
<1>13. CASE WriteTemps
  BY <1>13 DEF WriteTemps, Goto, Fail, mode, plan, env, work
<1>14. CASE RenameTargets
  BY <1>14 DEF RenameTargets, Renamed, Goto, Fail, mode, plan, env
<1>15. CASE RenameMain
  BY <1>15 DEF RenameMain, Renamed, Goto, Fail, mode, plan, env
<1>16. CASE Announce
  BY <1>16 DEF Announce, Goto, Fail, mode, plan, env, work
<1>17. CASE Build
  BY <1>17 DEF Build, Goto, Fail, mode, plan, env
<1>18. CASE CloseWorkspace
  BY <1>18 DEF CloseWorkspace, mode, plan
<1>19. CASE RemoveCopy
  BY <1>19 DEF RemoveCopy, mode, plan, env
<1>20. CASE RestoreSource
  BY <1>20 DEF RestoreSource, mode, plan, env
<1>21. CASE RestoreGowork
  BY <1>21 DEF RestoreGowork, mode, plan, work
<1>22. CASE Return
  BY <1>22 DEF Return, Goto, mode, plan, env, work
<1>23. CASE UNCHANGED vars
  BY <1>23 DEF vars, mode, plan, env, work
<1>24. QED
  BY <1>1, <1>2, <1>3, <1>4, <1>5, <1>6, <1>7, <1>8, <1>9, <1>10, <1>11,
    <1>12, <1>13, <1>14, <1>15, <1>16, <1>17, <1>18, <1>19, <1>20, <1>21,
    <1>22, <1>23 DEF Next, Done

(* The source changes only while its snapshot is still to be restored.     *)
LEMMA SourceStep ==
  ASSUME Inv, [Next]_vars
  PROVE  tree'["src"] = tree["src"] \/ "snapshot" \in defers
<1> USE DEF Inv, Restorable, Isolated, TypeOK, Ending, Preparing, Trees,
      Before, Edits
<1>1. CASE Start
  BY <1>1 DEF Start, Goto, Defer, mode, plan, env, work
<1>2. CASE Source
  BY <1>2 DEF Source, Goto, Fail, mode, plan, env, work
<1>3. CASE EffectiveImports
  BY <1>3 DEF EffectiveImports, Goto, Fail, mode, env, work
<1>4. CASE SnapshotGenerated
  BY <1>4 DEF SnapshotGenerated, Goto, Fail, Defer, mode, plan, env
<1>5. CASE RepoVersion
  BY <1>5, TreeStep, GoEdits DEF RepoVersion, Goto, Fail, mode, plan, env
<1>6. CASE BuildFiles
  BY <1>6, TreeStep, GoEdits DEF BuildFiles, Goto, Fail, mode, plan, env
<1>7. CASE CopyToTemp
  BY <1>7, TreeStep DEF CopyToTemp, Goto, Fail, Defer, mode, plan, env
<1>8. CASE Replaces
  BY <1>8, TreeStep, WriteEdits DEF Replaces, Goto, Fail, mode, plan, env
<1>9. CASE SetupWorkspace
  BY <1>9 DEF SetupWorkspace, Goto, Fail, Defer, mode, env
<1>10. CASE WriteTargetsFile
  BY <1>10, TreeStep, WriteEdits DEF WriteTargetsFile, Goto, Fail, mode,
    plan, env
<1>11. CASE GoGet
  BY <1>11, TreeStep, SumsEdits DEF GoGet, Fail, mode, plan, env
<1>12. CASE GenImports
  BY <1>12, TreeStep, GoEdits DEF GenImports, Goto, Fail, mode, plan, env
<1>13. CASE WriteTemps
  BY <1>13 DEF WriteTemps, Goto, Fail, mode, plan, env, work
<1>14. CASE RenameTargets
  BY <1>14, TreeStep, WriteEdits DEF RenameTargets, Renamed, Goto, Fail,
    mode, plan, env
<1>15. CASE RenameMain
  BY <1>15, TreeStep, WriteEdits DEF RenameMain, Renamed, Goto, Fail, mode,
    plan, env
<1>16. CASE Announce
  BY <1>16 DEF Announce, Goto, Fail, mode, plan, env, work
<1>17. CASE Build
  BY <1>17, TreeStep, GoEdits DEF Build, Goto, Fail, mode, plan, env
<1>18. CASE CloseWorkspace
  BY <1>18 DEF CloseWorkspace, mode, plan
<1>19. CASE RemoveCopy
  BY <1>19 DEF RemoveCopy, mode, plan, env
<1>20. CASE RestoreSource
  BY <1>20, TreeStep DEF RestoreSource, mode, plan, env
<1>21. CASE RestoreGowork
  BY <1>21 DEF RestoreGowork, mode, plan, work
<1>22. CASE Return
  BY <1>22 DEF Return, Goto, mode, plan, env, work
<1>23. CASE UNCHANGED vars
  BY <1>23 DEF vars, mode, plan, env, work
<1>24. QED
  BY <1>1, <1>2, <1>3, <1>4, <1>5, <1>6, <1>7, <1>8, <1>9, <1>10, <1>11,
    <1>12, <1>13, <1>14, <1>15, <1>16, <1>17, <1>18, <1>19, <1>20, <1>21,
    <1>22, <1>23 DEF Next, Done

(* The snapshot is the source the caller left, and is restored.            *)
LEMMA RestorableStep ==
  ASSUME Inv, [Next]_vars
  PROVE  Restorable'
<1> USE DEF Inv, Restorable, Unfailed, Owed, TypeOK, Ending, Preparing, Trees
<1>1. CASE Start
  BY <1>1 DEF Start, Goto, Defer, mode, plan, env, work
<1>2. CASE Source
  BY <1>2 DEF Source, Goto, Fail, mode, plan, env, work
<1>3. CASE EffectiveImports
  BY <1>3 DEF EffectiveImports, Goto, Fail, mode, env, work
<1>4. CASE SnapshotGenerated
  BY <1>4 DEF SnapshotGenerated, Goto, Fail, Defer, mode, plan, env
<1>5. CASE RepoVersion
  BY <1>5, SourceStep DEF RepoVersion, Goto, Fail, mode, plan, env
<1>6. CASE BuildFiles
  BY <1>6, SourceStep DEF BuildFiles, Goto, Fail, mode, plan, env
<1>7. CASE CopyToTemp
  BY <1>7, SourceStep DEF CopyToTemp, Goto, Fail, Defer, mode, plan, env
<1>8. CASE Replaces
  BY <1>8, SourceStep DEF Replaces, Goto, Fail, mode, plan, env
<1>9. CASE SetupWorkspace
  BY <1>9 DEF SetupWorkspace, Goto, Fail, Defer, mode, env
<1>10. CASE WriteTargetsFile
  BY <1>10, SourceStep DEF WriteTargetsFile, Goto, Fail, mode, plan, env
<1>11. CASE GoGet
  BY <1>11, SourceStep DEF GoGet, Fail, mode, plan, env
<1>12. CASE GenImports
  BY <1>12, SourceStep DEF GenImports, Goto, Fail, mode, plan, env
<1>13. CASE WriteTemps
  BY <1>13 DEF WriteTemps, Goto, Fail, mode, plan, env, work
<1>14. CASE RenameTargets
  BY <1>14, SourceStep DEF RenameTargets, Renamed, Goto, Fail, mode, plan, env
<1>15. CASE RenameMain
  BY <1>15, SourceStep DEF RenameMain, Renamed, Goto, Fail, mode, plan, env
<1>16. CASE Announce
  BY <1>16 DEF Announce, Goto, Fail, mode, plan, env, work
<1>17. CASE Build
  BY <1>17, SourceStep DEF Build, Goto, Fail, mode, plan, env
<1>18. CASE CloseWorkspace
  BY <1>18 DEF CloseWorkspace, mode, plan
<1>19. CASE RemoveCopy
  BY <1>19 DEF RemoveCopy, mode, plan, env
<1>20. CASE RestoreSource
  BY <1>20, SourceStep DEF RestoreSource, mode, plan, env
<1>21. CASE RestoreGowork
  BY <1>21 DEF RestoreGowork, mode, plan, work
<1>22. CASE Return
  BY <1>22 DEF Return, Goto, mode, plan, env, work
<1>23. CASE UNCHANGED vars
  BY <1>23 DEF vars, mode, plan, env, work
<1>24. QED
  BY <1>1, <1>2, <1>3, <1>4, <1>5, <1>6, <1>7, <1>8, <1>9, <1>10, <1>11,
    <1>12, <1>13, <1>14, <1>15, <1>16, <1>17, <1>18, <1>19, <1>20, <1>21,
    <1>22, <1>23 DEF Next, Done

(* A build from a copy leaves all but go.mod and go.sum alone.             *)
LEMMA IsolatedStep ==
  ASSUME Inv, [Next]_vars
  PROVE  Isolated'
<1> USE DEF Inv, Isolated, Restorable, CopyIsolatesSource, TypeOK, Ending,
      Preparing, Before, Trees, Edits, Glue, Files, Generated, Sums
<1>1. CASE Start
  BY <1>1 DEF Start, Goto, Defer, mode, plan, env, work
<1>2. CASE Source
  BY <1>2 DEF Source, Goto, Fail, mode, plan, env, work
<1>3. CASE EffectiveImports
  BY <1>3 DEF EffectiveImports, Goto, Fail, mode, env, work
<1>4. CASE SnapshotGenerated
  BY <1>4 DEF SnapshotGenerated, Goto, Fail, Defer, mode, plan, env
<1>5. CASE RepoVersion
  BY <1>5, TreeStep, GoEdits DEF RepoVersion, Goto, Fail, mode, plan, env
<1>6. CASE BuildFiles
  BY <1>6, TreeStep, GoEdits DEF BuildFiles, Goto, Fail, mode, plan, env
<1>7. CASE CopyToTemp
  BY <1>7, TreeStep DEF CopyToTemp, Goto, Fail, Defer, mode, plan, env
<1>8. CASE Replaces
  BY <1>8, TreeStep, WriteEdits DEF Replaces, Goto, Fail, mode, plan, env
<1>9. CASE SetupWorkspace
  BY <1>9 DEF SetupWorkspace, Goto, Fail, Defer, mode, env
<1>10. CASE WriteTargetsFile
  BY <1>10, TreeStep, WriteEdits DEF WriteTargetsFile, Goto, Fail, mode,
    plan, env
<1>11. CASE GoGet
  BY <1>11, TreeStep, SumsEdits DEF GoGet, Fail, mode, plan, env
<1>12. CASE GenImports
  BY <1>12, TreeStep, GoEdits DEF GenImports, Goto, Fail, mode, plan, env
<1>13. CASE WriteTemps
  BY <1>13 DEF WriteTemps, Goto, Fail, mode, plan, env, work
<1>14. CASE RenameTargets
  BY <1>14, TreeStep, WriteEdits DEF RenameTargets, Renamed, Goto, Fail,
    mode, plan, env
<1>15. CASE RenameMain
  BY <1>15, TreeStep, WriteEdits DEF RenameMain, Renamed, Goto, Fail, mode,
    plan, env
<1>16. CASE Announce
  BY <1>16 DEF Announce, Goto, Fail, mode, plan, env, work
<1>17. CASE Build
  BY <1>17, TreeStep, GoEdits DEF Build, Goto, Fail, mode, plan, env
<1>18. CASE CloseWorkspace
  BY <1>18 DEF CloseWorkspace, mode, plan
<1>19. CASE RemoveCopy
  BY <1>19 DEF RemoveCopy, mode, plan, env
<1>20. CASE RestoreSource
  BY <1>20, TreeStep DEF RestoreSource, mode, plan, env
<1>21. CASE RestoreGowork
  BY <1>21 DEF RestoreGowork, mode, plan, work
<1>22. CASE Return
  BY <1>22 DEF Return, Goto, mode, plan, env, work
<1>23. CASE UNCHANGED vars
  BY <1>23 DEF vars, mode, plan, env, work
<1>24. QED
  BY <1>1, <1>2, <1>3, <1>4, <1>5, <1>6, <1>7, <1>8, <1>9, <1>10, <1>11,
    <1>12, <1>13, <1>14, <1>15, <1>16, <1>17, <1>18, <1>19, <1>20, <1>21,
    <1>22, <1>23 DEF Next, Done

(* The tree to build in holds what the effective imports call for.         *)
LEMMA PreparedStep ==
  ASSUME Inv, [Next]_vars
  PROVE  Prepared'
<1> USE DEF Inv, Isolated, Prepared, Owed, TypeOK, Ending, Preparing, Before,
      Trees, Edits, Glue, Files, Generated, Sums
<1>1. CASE Start
  BY <1>1 DEF Start, Goto, Defer, mode, plan, env, work
<1>2. CASE Source
  BY <1>2 DEF Source, Goto, Fail, mode, plan, env, work
<1>3. CASE EffectiveImports
  BY <1>3 DEF EffectiveImports, Goto, Fail, mode, env, work
<1>4. CASE SnapshotGenerated
  BY <1>4 DEF SnapshotGenerated, Goto, Fail, Defer, mode, plan, env
<1>5. CASE RepoVersion
  BY <1>5, TreeStep, GoEdits DEF RepoVersion, Goto, Fail, mode, plan, env
<1>6. CASE BuildFiles
  BY <1>6, TreeStep, GoEdits DEF BuildFiles, Goto, Fail, mode, plan, env
<1>7. CASE CopyToTemp
  BY <1>7, TreeStep DEF CopyToTemp, Goto, Fail, Defer, mode, plan, env
<1>8. CASE Replaces
  BY <1>8, TreeStep, WriteEdits DEF Replaces, Goto, Fail, mode, plan, env
<1>9. CASE SetupWorkspace
  BY <1>9 DEF SetupWorkspace, Goto, Fail, Defer, mode, env
<1>10. CASE WriteTargetsFile
  BY <1>10, TreeStep, WriteEdits DEF WriteTargetsFile, Goto, Fail, mode,
    plan, env
<1>11. CASE GoGet
  BY <1>11, TreeStep, SumsEdits DEF GoGet, Fail, mode, plan, env
<1>12. CASE GenImports
  BY <1>12, TreeStep, GoEdits DEF GenImports, Goto, Fail, mode, plan, env
<1>13. CASE WriteTemps
  BY <1>13 DEF WriteTemps, Goto, Fail, mode, plan, env, work
<1>14. CASE RenameTargets
  BY <1>14, TreeStep, WriteEdits DEF RenameTargets, Renamed, Goto, Fail,
    mode, plan, env
<1>15. CASE RenameMain
  BY <1>15, TreeStep, WriteEdits DEF RenameMain, Renamed, Goto, Fail, mode,
    plan, env
<1>16. CASE Announce
  BY <1>16 DEF Announce, Goto, Fail, mode, plan, env, work
<1>17. CASE Build
  BY <1>17, TreeStep, GoEdits DEF Build, Goto, Fail, mode, plan, env
<1>18. CASE CloseWorkspace
  BY <1>18 DEF CloseWorkspace, mode, plan
<1>19. CASE RemoveCopy
  BY <1>19 DEF RemoveCopy, mode, plan, env
<1>20. CASE RestoreSource
  BY <1>20, TreeStep DEF RestoreSource, mode, plan, env
<1>21. CASE RestoreGowork
  BY <1>21 DEF RestoreGowork, mode, plan, work
<1>22. CASE Return
  BY <1>22 DEF Return, Goto, mode, plan, env, work
<1>23. CASE UNCHANGED vars
  BY <1>23 DEF vars, mode, plan, env, work
<1>24. QED
  BY <1>1, <1>2, <1>3, <1>4, <1>5, <1>6, <1>7, <1>8, <1>9, <1>10, <1>11,
    <1>12, <1>13, <1>14, <1>15, <1>16, <1>17, <1>18, <1>19, <1>20, <1>21,
    <1>22, <1>23 DEF Next, Done

(* A binary is replaced only by one built from a prepared tree.            *)
LEMMA FinishedStep ==
  ASSUME Inv, [Next]_vars
  PROVE  Finished'
<1> USE DEF Inv, Unfailed, Prepared, Finished, Owed, TypeOK, Ending,
      Preparing, Before, Trees, Glue
<1>1. CASE Start
  BY <1>1 DEF Start, Goto, Defer, mode, plan, env, work
<1>2. CASE Source
  BY <1>2 DEF Source, Goto, Fail, mode, plan, env, work
<1>3. CASE EffectiveImports
  BY <1>3 DEF EffectiveImports, Goto, Fail, mode, env, work
<1>4. CASE SnapshotGenerated
  BY <1>4 DEF SnapshotGenerated, Goto, Fail, Defer, mode, plan, env
<1>5. CASE RepoVersion
  BY <1>5 DEF RepoVersion, Goto, Fail, mode, plan, env
<1>6. CASE BuildFiles
  BY <1>6 DEF BuildFiles, Goto, Fail, mode, plan, env
<1>7. CASE CopyToTemp
  BY <1>7 DEF CopyToTemp, Goto, Fail, Defer, mode, plan, env
<1>8. CASE Replaces
  BY <1>8 DEF Replaces, Goto, Fail, mode, plan, env
<1>9. CASE SetupWorkspace
  BY <1>9 DEF SetupWorkspace, Goto, Fail, Defer, mode, env
<1>10. CASE WriteTargetsFile
  BY <1>10 DEF WriteTargetsFile, Goto, Fail, mode, plan, env
<1>11. CASE GoGet
  BY <1>11 DEF GoGet, Fail, mode, plan, env
<1>12. CASE GenImports
  BY <1>12 DEF GenImports, Goto, Fail, mode, plan, env
<1>13. CASE WriteTemps
  BY <1>13 DEF WriteTemps, Goto, Fail, mode, plan, env, work
<1>14. CASE RenameTargets
  BY <1>14 DEF RenameTargets, Renamed, Goto, Fail, mode, plan, env
<1>15. CASE RenameMain
  BY <1>15 DEF RenameMain, Renamed, Goto, Fail, mode, plan, env
<1>16. CASE Announce
  BY <1>16 DEF Announce, Goto, Fail, mode, plan, env, work
<1>17. CASE Build
  <2>1. \A f \in Glue : tree[dir][f] = IF wanted = {} THEN "orig" ELSE "new"
    BY <1>17 DEF Build, Goto, Fail, mode, plan, env
  <2>2. Built.gen = IF wanted = {} THEN "orig" ELSE "new"
    BY <2>1 DEF Built
  <2>3. local # {} => Built.ws
    BY <1>17 DEF Built, Build, Goto, Fail, mode, plan, env
  <2>4. CASE Goto("build", "unwind") /\ out' = Built
    BY <1>17, <2>2, <2>3, <2>4 DEF Build, Goto, Fail, mode, plan, env
  <2>5. CASE Fail("build") /\ out' = out
    BY <1>17, <2>5 DEF Build, Goto, Fail, mode, plan, env
  <2>6. QED
    BY <1>17, <2>4, <2>5 DEF Build, Goto, Fail, mode, plan, env
<1>18. CASE CloseWorkspace
  BY <1>18 DEF CloseWorkspace, mode, plan
<1>19. CASE RemoveCopy
  BY <1>19 DEF RemoveCopy, mode, plan, env
<1>20. CASE RestoreSource
  BY <1>20 DEF RestoreSource, mode, plan, env
<1>21. CASE RestoreGowork
  BY <1>21 DEF RestoreGowork, mode, plan, work
<1>22. CASE Return
  BY <1>22 DEF Return, Goto, mode, plan, env, work
<1>23. CASE UNCHANGED vars
  BY <1>23 DEF vars, mode, plan, env, work
<1>24. QED
  BY <1>1, <1>2, <1>3, <1>4, <1>5, <1>6, <1>7, <1>8, <1>9, <1>10, <1>11,
    <1>12, <1>13, <1>14, <1>15, <1>16, <1>17, <1>18, <1>19, <1>20, <1>21,
    <1>22, <1>23 DEF Next, Done

(* Every step keeps Inv.                                                   *)
LEMMA StepInv == Inv /\ [Next]_vars => Inv'
<1> SUFFICES ASSUME Inv, [Next]_vars PROVE Inv'
  OBVIOUS
<1>1. QED
  BY TypeStep, OwedStep, UnfailedStep, RestorableStep, IsolatedStep, PreparedStep,
     FinishedStep DEF Inv

-----------------------------------------------------------------------------
(* The theorems.                                                           *)

(* Inv holds throughout every install, whichever of its steps fail.        *)
THEOREM Invariance == Spec => []Inv
BY InitInv, StepInv, PTL DEF Spec

(* The installer's variables keep their types.                             *)
THEOREM TypeCorrect == Spec => []TypeOK
<1>1. Inv => TypeOK
  BY DEF Inv
<1>2. QED
  BY Invariance, <1>1, PTL

(* An install that returns, from whichever step, has given back GOWORK and *)
(* GOFLAGS and has removed its temporary directories.                      *)
THEOREM Returned == Spec => []BorrowedIsReturned
<1>1. Inv => BorrowedIsReturned
  BY DEF Inv, Owed, BorrowedIsReturned
<1>2. QED
  BY Invariance, <1>1, PTL

(* An install that returns has left the source as it was, or reports that a*)
(* file could not be restored.                                             *)
THEOREM Restored == Spec => []TreeRestored
<1>1. Inv => TreeRestored
  BY DEF Inv, Owed, Restorable, TreeRestored
<1>2. QED
  BY Invariance, <1>1, PTL

(* A build from a copy, or from the module cache, never writes the glue or *)
(* the targets.yaml into the source.                                       *)
THEOREM Isolation == Spec => []CopyIsolatesSource
<1>1. Inv => CopyIsolatesSource
  BY DEF Inv, Isolated
<1>2. QED
  BY Invariance, <1>1, PTL

(* A success has installed the targets asked for, from both generated files;*)
(* a failure has kept the old binary.                                      *)
THEOREM Installed == Spec => []InstalledAsAsked
<1>1. Inv => InstalledAsAsked
  BY DEF Inv, Finished, Ending, TypeOK, InstalledAsAsked
<1>2. QED
  BY Invariance, <1>1, PTL

(* No go command meets a workspace together with -mod=mod.                 *)
THEOREM NoModMod == Spec => []WorkspaceWithoutModMod
<1>1. Inv => WorkspaceWithoutModMod
  BY DEF Inv, Owed, WorkspaceWithoutModMod, TypeOK
<1>2. QED
  BY Invariance, <1>1, PTL
=============================================================================
