-------------------------- MODULE AlgorithmsProofs --------------------------
(***************************************************************************)
(* Theorems about the pure algorithms, for every input, and about the      *)
(* specification that calls them.  A theorem about an algorithm is stated  *)
(* for all arguments, by induction over them where the algorithm is a loop *)
(* or a recursion; that about the specification then follows from it.      *)
(***************************************************************************)
EXTENDS Algorithms, Induction, SequenceTheorems, TLAPS

(* A stem has a free number among one more than are taken.                 *)
LEMMA FreeNumber ==
  ASSUME NEW taken, IsFiniteSet(taken), NEW stem
  PROVE  \E n \in 2 .. Cardinality(taken) + 2 :
           /\ <<stem, n>> \notin taken
           /\ \A m \in 2 .. n - 1 : <<stem, m>> \in taken
<1> DEFINE c == Cardinality(taken)
           Numbers == 2 .. c + 2
           Free == {n \in Numbers : <<stem, n>> \notin taken}
<1>1. c \in Nat
  BY FS_CardinalityType
<1>2. IsFiniteSet(Numbers) /\ Cardinality(Numbers) = c + 1
  <2> HIDE DEF c
  <2>1. QED
    BY <1>1, FS_Interval
<1>3. Free # {}
  <2>1. SUFFICES ASSUME Free = {} PROVE FALSE
    OBVIOUS
  <2> DEFINE name == [n \in Numbers |-> <<stem, n>>]
  <2>2. name \in [Numbers -> taken]
    BY <2>1
  <2>3. \A m, n \in Numbers : name[m] = name[n] => m = n
    OBVIOUS
  <2>4. PICK m, n \in Numbers : m # n /\ name[m] = name[n]
    <3> HIDE DEF name, Numbers
    <3>1. c < Cardinality(Numbers)
      BY <1>1, <1>2
    <3>2. QED
      BY <1>2, <2>2, <3>1, FS_PigeonHole
  <2>5. QED
    BY <2>3, <2>4
<1>4. PICK n \in Free : \A m \in Free : n <= m
  <2>1. Free \in SUBSET Nat
    BY <1>1
  <2> HIDE DEF Free
  <2>2. QED
    BY <1>3, <2>1, Least
<1>5. ASSUME NEW m \in 2 .. n - 1 PROVE <<stem, m>> \in taken
  <2> HIDE DEF c
  <2>1. m \in Numbers /\ ~(n <= m)
    BY <1>1
  <2>2. m \notin Free
    BY <1>4, <2>1
  <2>3. QED
    BY <2>1, <2>2
<1>6. QED
  BY <1>5

(* An alias is none of those taken.                                        *)
LEMMA AliasIsFree ==
  ASSUME NEW Stem, NEW base \in Stem \X Nat, NEW taken, IsFiniteSet(taken)
  PROVE  UniqueAlias(base, taken) \in (Stem \X Nat) \ taken
<1>1. CASE base \notin taken
  BY <1>1 DEF UniqueAlias
<1>2. CASE base \in taken
  <2> DEFINE n == CHOOSE n \in 2 .. Cardinality(taken) + 2 :
                    /\ <<base[1], n>> \notin taken
                    /\ \A m \in 2 .. n - 1 : <<base[1], m>> \in taken
  <2>1. n \in 2 .. Cardinality(taken) + 2 /\ <<base[1], n>> \notin taken
    BY FreeNumber
  <2>2. n \in Nat
    BY <2>1, FS_CardinalityType
  <2> HIDE DEF n
  <2>3. UniqueAlias(base, taken) = <<base[1], n>>
    BY <1>2 DEF UniqueAlias, n
  <2>4. QED
    BY <2>1, <2>2, <2>3
<1>3. QED
  BY <1>1, <1>2

(* The names taken at any turn of importAliasMap's loop are finitely many. *)
LEMMA TakenIsFinite ==
  ASSUME NEW Pair, NEW out \in Seq(Pair), NEW reserved, IsFiniteSet(reserved)
  PROVE  IsFiniteSet(Seeded \cup reserved \cup ToSet(out))
<1>1. IsFiniteSet(Seeded)
  <2>1. Seeded = {Plainly("context")} \cup {Plainly("ring")} \cup {Plainly("mkf")}
                 \cup {Plainly("targets")} \cup {Plainly("tgt")}
    BY DEF Seeded
  <2>2. \A x : IsFiniteSet({x})
    BY FS_Singleton
  <2>3. QED
    BY <2>1, <2>2, FS_Union
<1>2. IsFiniteSet(ToSet(out))
  <2>1. out \in Surjection(1..Len(out), ToSet(out))
    BY DEF Surjection, ToSet
  <2>2. IsFiniteSet(1..Len(out))
    BY FS_Interval
  <2>3. QED
    BY <2>1, <2>2, FS_Surjection
<1>3. QED
  BY <1>1, <1>2, FS_Union

(* The loop of importAliasMap, state by state.                             *)
AliasLoop(f, names, reserved) ==
  /\ f[0] = <<>> /\ ImportAliases(names, reserved) = f[Len(names)]
  /\ \A i \in 1..Len(names) :
       f[i] = Append(f[i - 1], UniqueAlias(names[i],
                       Seeded \cup reserved \cup ToSet(f[i - 1])))

(* The states of importAliasMap's loop, one per package.                   *)
LEMMA AliasStates ==
  ASSUME NEW Stem, NEW names \in Seq(Stem \X Nat), NEW reserved, IsFiniteSet(reserved)
  PROVE  \E f \in [0..Len(names) -> Seq(Stem \X Nat)] : AliasLoop(f, names, reserved)
<1> DEFINE N == Len(names)
           Pair == Stem \X Nat
           Out == Seq(Pair)
           start == <<>>
           Add(out, name) ==
             Append(out, UniqueAlias(name, Seeded \cup reserved \cup ToSet(out)))
           step == [e \in (1..N) \X Out |-> Add(e[2], names[e[1]])]
           iter == CHOOSE g : g = [s \in SUBSET (1..N) |->
                     IF s = {} THEN start ELSE Add(g[s \ {Max(s)}], names[Max(s)])]
<1>1. /\ N \in Nat /\ DOMAIN names = 1..N /\ start \in Out
      /\ \A i \in 1..N : names[i] \in Pair
  OBVIOUS
<1>2. \A out \in Out, name \in Pair : Add(out, name) \in Out
  <2> DEFINE alias(out, name) == UniqueAlias(name, Seeded \cup reserved \cup ToSet(out))
  <2>1. \A out \in Out, name \in Pair : alias(out, name) \in Pair
    BY TakenIsFinite, AliasIsFree
  <2> HIDE DEF Pair, alias
  <2>2. \A out \in Out, name \in Pair : Append(out, alias(out, name)) \in Out
    BY <2>1
  <2>3. QED
    BY <2>2 DEF alias
<1>3. ImportAliases(names, reserved) = iter[1..N]
  BY <1>1 DEF ImportAliases, FoldLeft, MapThenFoldSet
<1> HIDE DEF N, Pair, Out, start, Add
<1>4. step \in [(1..N) \X Out -> Out]
  BY <1>1, <1>2
<1>5. \A i \in 1..N, out \in Out : step[<<i, out>>] = Add(out, names[i])
  OBVIOUS
<1> HIDE DEF step, iter
<1>6. PICK g : IsFold(g, N, Out, start, step)
  BY <1>1, <1>4, FoldRecursion
<1>7. g = [s \in SUBSET (1..N) |->
             IF s = {} THEN start ELSE Add(g[s \ {Max(s)}], names[Max(s)])]
  <2>1. ASSUME NEW s \in SUBSET (1..N), s # {}
        PROVE  step[<<Max(s), g[s \ {Max(s)}]>>] = Add(g[s \ {Max(s)}], names[Max(s)])
    BY <1>1, <1>5, <1>6, <2>1, GreatestIndex DEF IsFold
  <2>2. QED
    BY <1>6, <2>1 DEF IsFold
<1>8. iter = [s \in SUBSET (1..N) |->
                IF s = {} THEN start ELSE Add(iter[s \ {Max(s)}], names[Max(s)])]
  BY <1>7 DEF iter
<1>9. iter[{}] = start
  BY <1>8
<1>10. ASSUME NEW i \in 1..N, iter[1..(i - 1)] \in Out
       PROVE  iter[1..i] = step[<<i, iter[1..(i - 1)]>>]
  <2>1. /\ Max(1..i) = i /\ 1..i \in SUBSET (1..N) /\ 1..i # {}
        /\ (1..i) \ {i} = 1..(i - 1)
    BY <1>1, GreatestIndex
  <2>2. iter[1..i] = Add(iter[1..(i - 1)], names[i])
    BY <1>8, <2>1
  <2>3. QED
    BY <1>5, <1>10, <2>2
<1> DEFINE f == [i \in 0..N |-> iter[1..i]]
<1>11. IsRecursive(f, N, Out, start, step)
  BY <1>1, <1>4, <1>9, <1>10, FoldStates
<1>12. f[N] = iter[1..N]
  BY <1>1
<1> HIDE DEF f
<1>13. \A i \in 1..N : f[i - 1] \in Out /\ f[i] = Add(f[i - 1], names[i])
  <2> SUFFICES ASSUME NEW i \in 1..N
               PROVE  f[i - 1] \in Out /\ f[i] = Add(f[i - 1], names[i])
    OBVIOUS
  <2>1. i - 1 \in 0..N
    BY <1>1
  <2>2. f[i - 1] \in Out /\ f[i] = step[<<i, f[i - 1]>>]
    BY <1>11, <2>1 DEF IsRecursive
  <2>3. QED
    BY <1>5, <2>2
<1>14. QED
  BY <1>3, <1>11, <1>12, <1>13 DEF IsRecursive, N, Pair, Out, start, Add, AliasLoop

(* importAliasMap gives every package a name of its own, whatever the      *)
(* packages are called, and none that is taken beside them.                *)
THEOREM AliasesAreFree ==
  ASSUME NEW Stem, NEW names \in Seq(Stem \X Nat), NEW reserved, IsFiniteSet(reserved)
  PROVE  LET aliases == ImportAliases(names, reserved)
         IN /\ Len(aliases) = Len(names) /\ IsInjective(aliases)
            /\ ToSet(aliases) \cap (Seeded \cup reserved) = {}
<1>1. PICK f \in [0..Len(names) -> Seq(Stem \X Nat)] : AliasLoop(f, names, reserved)
  BY AliasStates
<1> DEFINE Pair == Stem \X Nat
           taken == Seeded \cup reserved
           alias(out, name) == UniqueAlias(name, taken \cup ToSet(out))
<1>2. \A out \in Seq(Pair), name \in Pair :
        alias(out, name) \in Pair \ (taken \cup ToSet(out))
  BY TakenIsFinite, AliasIsFree
<1>3. /\ f \in [0..Len(names) -> Seq(Pair)] /\ f[0] = <<>>
      /\ ImportAliases(names, reserved) = f[Len(names)]
      /\ \A i \in 1..Len(names) : f[i] = Append(f[i - 1], alias(f[i - 1], names[i]))
  BY <1>1 DEF AliasLoop
<1>4. Len(names) \in Nat /\ \A i \in 1..Len(names) : names[i] \in Pair
  OBVIOUS
<1> HIDE DEF Pair, taken, alias
<1> DEFINE Free(out) == IsInjective(out) /\ ToSet(out) \cap taken = {}
           P == {i \in 0..Len(names) : Len(f[i]) = i /\ Free(f[i])}
<1>5. 0 \in P
  BY <1>3, <1>4 DEF IsInjective, ToSet
<1>6. ASSUME NEW i \in 1..Len(names), i - 1 \in P PROVE i \in P
  <2> DEFINE out == f[i - 1]
             new == alias(out, names[i])
  <2>1. out \in Seq(Pair) /\ Len(out) = i - 1 /\ Free(out) /\ f[i] = Append(out, new)
    BY <1>3, <1>4, <1>6
  <2>2. new \in Pair /\ new \notin taken /\ new \notin ToSet(out)
    BY <1>2, <1>4, <2>1
  <2> HIDE DEF out, new
  <2>3. /\ Len(Append(out, new)) = i /\ DOMAIN Append(out, new) = 1..i
        /\ Append(out, new)[i] = new
        /\ \A j \in 1..i - 1 : Append(out, new)[j] = out[j] /\ out[j] \in ToSet(out)
    BY <2>1, <2>2 DEF ToSet
  <2>4. IsInjective(Append(out, new))
    BY <2>1, <2>2, <2>3 DEF IsInjective
  <2>5. ToSet(Append(out, new)) \cap taken = {}
    BY <2>1, <2>2, <2>3 DEF ToSet
  <2>6. i \in 0..Len(names) /\ Len(f[i]) = i /\ Free(f[i])
    BY <1>4, <2>1, <2>3, <2>4, <2>5
  <2> HIDE DEF Free
  <2>7. QED
    BY <2>6
<1>7. 0..Len(names) \subseteq P
  <2> HIDE DEF P
  <2>1. QED
    BY <1>4, <1>5, <1>6, Induct
<1>8. Len(names) \in P
  BY <1>4, <1>7
<1>9. QED
  BY <1>3, <1>8 DEF taken

(* markDefault leads where Go does: the import that Default goes through   *)
(* is the one that the file refers to by that name.                        *)
THEOREM DefaultAsInGo ==
  ASSUME NEW S, NEW imps \in Seq(S), NEW q, FileCompiles(imps, q), ~NameGuessed(imps, q)
  PROVE  MarkDefault(imps, q) = GoDefault(imps, q)
<1>1. PICK i \in Visible(imps) : GoName(imps[i]) = q
  BY DEF FileCompiles
<1>2. \A j \in Visible(imps) : GoName(imps[j]) = q => j = i
  BY <1>1 DEF FileCompiles
<1>3. GoDefault(imps, q) = i /\ imps[i].tagged
  BY <1>1, <1>2 DEF GoDefault, NameGuessed
<1>4. \A j \in Visible(imps) : LocalName(imps[j]) = GoName(imps[j])
  BY DEF NameGuessed, LocalName, GoName
<1>5. {j \in Visible(imps) : LocalName(imps[j]) = q} = {i}
  BY <1>1, <1>2, <1>4
<1>6. FileImport(imps, q) = {i}
  BY <1>1, <1>5 DEF FileImport, Visible
<1>7. QED
  BY <1>3, <1>6 DEF MarkDefault

-----------------------------------------------------------------------------
(* The inputs of the specification are among those of the theorems.        *)
LEMMA BoundedIsSeq ==
  ASSUME NEW S, NEW n \in Nat, NEW s \in BoundedSeq(S, n)
  PROVE  s \in Seq(S)
<1>1. PICK m \in 0..n : s \in [1..m -> S]
  BY DEF BoundedSeq, SeqOf
<1>2. m \in Nat
  OBVIOUS
<1>3. QED
  BY <1>1, <1>2, SeqDef

(* A step to a state in which an algorithm has been called is its call, or *)
(* a turn of its loop.                                                     *)
LEMMA Steps ==
  ASSUME Next
  PROVE  /\ call'.fn = "splitPath" => CallSplitPath
         /\ call'.fn = "resolveDelivered" => CallResolveDelivered
         /\ call'.fn = "parse" => CallParse
         /\ call'.fn = "runCheckConfig" => CallCheckConfig
         /\ call'.fn = "editGoWork" => CallEditGoWork
         /\ call'.fn = "absolutizeReplaces" => CallAbsolutizeReplaces
         /\ call'.fn = "selectMakefiles" => CallSelectMakefiles
         /\ call'.fn = "binaryCacheKey" => CallBinaryCacheKey
         /\ call'.fn = "importAliasMap" => CallImportAliases
         /\ call'.fn = "markDefault" => CallMarkDefault
         /\ call'.fn = "effectiveImports" => CallEffectiveImports
         /\ call'.fn = "applyExternalTargetMeta" => CallApplyMeta
         /\ call'.fn = "addType" => CallAddType \/ VisitOne \/ EndPass
<1>1. CASE CallSplitPath
  BY <1>1 DEF CallSplitPath, Calls
<1>2. CASE CallResolveDelivered
  <2>1. \E tgt, imp, inModule, user, project, tgts, r :
          Calls([fn |-> "resolveDelivered", tgt |-> tgt, imp |-> imp,
                 inModule |-> inModule, user |-> user, project |-> project,
                 tgts |-> tgts], r)
    BY <1>2, ZenonT(40) DEF CallResolveDelivered
  <2>2. call'.fn = "resolveDelivered"
    BY <2>1 DEF Calls
  <2>3. QED
    BY <1>2, <2>2
<1>3. CASE CallParse
  BY <1>3 DEF CallParse, Calls
<1>4. CASE CallCheckConfig
  <2>1. \E inModule, user, project, tgts, r :
          Calls([fn |-> "runCheckConfig", inModule |-> inModule, user |-> user,
                 project |-> project, tgts |-> tgts], r)
    BY <1>4, ZenonT(40) DEF CallCheckConfig
  <2>2. call'.fn = "runCheckConfig"
    BY <2>1 DEF Calls
  <2>3. QED
    BY <1>4, <2>2
<1>5. CASE CallEditGoWork
  BY <1>5 DEF CallEditGoWork, Calls
<1>6. CASE CallAbsolutizeReplaces
  BY <1>6 DEF CallAbsolutizeReplaces, Calls
<1>7. CASE CallSelectMakefiles
  BY <1>7 DEF CallSelectMakefiles, Calls
<1>8. CASE CallBinaryCacheKey
  BY <1>8 DEF CallBinaryCacheKey, Calls
<1>9. CASE CallImportAliases
  BY <1>9 DEF CallImportAliases, Calls
<1>10. CASE CallMarkDefault
  BY <1>10 DEF CallMarkDefault, Calls
<1>11. CASE CallEffectiveImports
  BY <1>11 DEF CallEffectiveImports, Calls
<1>12. CASE CallApplyMeta
  BY <1>12 DEF CallApplyMeta, Calls
<1>13. CASE CallAddType
  BY <1>13 DEF CallAddType, Calls
<1>14. CASE VisitOne
  BY <1>14 DEF VisitOne, Running
<1>15. CASE EndPass
  BY <1>15 DEF EndPass, Running
<1>16. CASE Return
  BY <1>16 DEF Return, None
<1>17. QED
  BY <1>1, <1>2, <1>3, <1>4, <1>5, <1>6, <1>7, <1>8, <1>9, <1>10, <1>11, <1>12, <1>13,
     <1>14, <1>15, <1>16 DEF Next

-----------------------------------------------------------------------------
(* Generated code reaches every target package, and Default is the target  *)
(* that Go takes it for.                                                   *)
LEMMA StepNames ==
  ASSUME Next
  PROVE  NamesResolve'
<1>1. ASSUME call'.fn = "importAliasMap"
      PROVE  /\ Len(result') = Len(call'.names) /\ IsInjective(result')
             /\ ToSet(result') \cap (Seeded \cup call'.reserved) = {}
  <2>1. PICK names \in PackageNames, reserved \in SUBSET {<<"git", 0>>, <<"git", 2>>} :
          /\ call' = [fn |-> "importAliasMap", names |-> names, reserved |-> reserved]
          /\ result' = ImportAliases(names, reserved)
    BY <1>1, Steps DEF CallImportAliases, Calls
  <2>2. names \in Seq(Stems \X Nat)
    <3>1. names \in Seq(Ident)
      BY BoundedIsSeq DEF PackageNames
    <3>2. Ident \subseteq Stems \X Nat
      BY DEF Ident
    <3>3. QED
      BY <3>1, <3>2, SeqMonotonic
  <2>3. IsFiniteSet(reserved)
    <3> DEFINE both == {<<"git", 0>>} \cup {<<"git", 2>>}
    <3>1. IsFiniteSet(both)
      BY FS_Singleton, FS_Union
    <3>2. reserved \in SUBSET both
      OBVIOUS
    <3> HIDE DEF both
    <3>3. QED
      BY <3>1, <3>2, FS_Subset
  <2>4. QED
    BY <2>1, <2>2, <2>3, AliasesAreFree
<1>2. ASSUME call'.fn = "markDefault", ~NameGuessed(call'.imps, call'.q)
      PROVE  result' = GoDefault(call'.imps, call'.q)
  <2>1. PICK imps \in FileImportLists, q \in {Plainly("git"), Plainly("run")} :
          /\ FileCompiles(imps, q)
          /\ call' = [fn |-> "markDefault", imps |-> imps, q |-> q]
          /\ result' = MarkDefault(imps, q)
    BY <1>2, Steps DEF CallMarkDefault, Calls
  <2>2. imps \in Seq(Import({Plainly("git"), Plainly("run")}))
    BY BoundedIsSeq DEF FileImportLists
  <2>3. QED
    BY <1>2, <2>1, <2>2, DefaultAsInGo
<1>3. QED
  BY <1>1, <1>2 DEF NamesResolve

(* What NamesResolve says of aliases and of Default holds in every state.  *)
THEOREM Names == Spec => []NamesResolve
<1>1. Init => NamesResolve
  BY DEF Init, None, NamesResolve
<1>2. NamesResolve /\ [Next]_vars => NamesResolve'
  <2>1. CASE Next
    BY <2>1, StepNames
  <2>2. CASE NamesResolve /\ UNCHANGED vars
    BY <2>2 DEF vars, NamesResolve
  <2>3. QED
    BY <2>1, <2>2
<1>3. QED
  BY <1>1, <1>2, PTL DEF Spec

-----------------------------------------------------------------------------
(* What is listed is compiled, whatever the makefiles of a package are     *)
(* called and constrained by, and nothing else is unless makefile.go       *)
(* excludes itself.                                                        *)
THEOREM ListedIsCompiled ==
  ASSUME NEW files \in SUBSET SourceFile, NEW main \in files, main.name = "makefile.go",
         \A file \in files : file.name = "makefile.go" => file = main
  PROVE  /\ SelectMakefiles(files) \subseteq CompiledMakefiles(files)
         /\ GoBuilds(main, TRUE) => SelectMakefiles(files) = CompiledMakefiles(files)
<1>1. ASSUME NEW file \in SelectMakefiles(files)
      PROVE  file \in CompiledMakefiles(files)
  <2>1. /\ file \in SourceFile /\ file.name # "elsewhere"
        /\ file.constraint \in {"none", "gomake", "gomake && here"}
    BY DEF SelectMakefiles, GoBuilds, Satisfied
  <2>2. StripBuildTag(file).name = file.name /\ StripBuildTag(file).constraint = "none"
    BY <2>1 DEF StripBuildTag, SourceFile
  <2>3. GoBuilds(StripBuildTag(file), FALSE)
    BY <2>1, <2>2 DEF GoBuilds, Satisfied
  <2>4. QED
    BY <2>3 DEF CompiledMakefiles, CopiedMakefiles
<1>2. ASSUME GoBuilds(main, TRUE), NEW file \in CompiledMakefiles(files)
      PROVE  file \in SelectMakefiles(files)
  BY <1>2 DEF CompiledMakefiles, CopiedMakefiles, SelectMakefiles, ValidMakefileName
<1>3. QED
  BY <1>1, <1>2

(* Every directory the build reads is hashed, but for those the key is     *)
(* known not to follow.                                                    *)
THEOREM ReadIsHashed ==
  ASSUME NEW project \in Project(SUBSET SourceDir)
  PROVE  ReadDirs(project) \ Unfollowed(project) \subseteq HashedDirs(project)
<1>1. /\ project.use \subseteq SourceDir /\ project.workReplaces \subseteq SourceDir
      /\ \A m \in {"module", "sibling"} : project.replaces[m] \subseteq SourceDir
  BY DEF Project
<1>2. ASSUME NEW dir \in ReadDirs(project), dir \notin Unfollowed(project)
      PROVE  dir \in {"module", "module/sub"} \cup ExternalModuleTrees(project)
  <2>1. CASE \E m \in {"module", "sibling"} :
               /\ m = "sibling" => InWorkspace(project) /\ m \in project.use
               /\ dir \in project.replaces[m]
    BY <1>2, <2>1 DEF Unfollowed, ExternalModuleTrees
  <2>2. CASE /\ InWorkspace(project)
             /\ dir \in project.use \cup project.workReplaces
    BY <2>2 DEF ExternalModuleTrees
  <2>3. QED
    BY <2>1, <2>2 DEF ReadDirs
<1>3. ExternalModuleTrees(project) \subseteq SourceDir
  BY <1>1 DEF ExternalModuleTrees
<1>4. "module/vendor" \in Unfollowed(project)
  BY DEF Unfollowed
<1>5. QED
  BY <1>2, <1>3, <1>4 DEF HashedDirs, SourceDir, Outside

(* Who lists the targets, who keys the binary and who builds it see the    *)
(* same sources.                                                           *)
LEMMA StepSources ==
  ASSUME Next
  PROVE  OneViewOfSources'
<1>1. ASSUME call'.fn = "selectMakefiles"
      PROVE  LET listed == SelectMakefiles(call'.files)
                 main   == CHOOSE file \in call'.files : file.name = "makefile.go"
             IN /\ listed \subseteq result'
                /\ GoBuilds(main, TRUE) => listed = result'
  <2>1. PICK files \in SourceFiles :
          /\ call' = [fn |-> "selectMakefiles", files |-> files]
          /\ result' = CompiledMakefiles(files)
    BY <1>1, Steps DEF CallSelectMakefiles, Calls
  <2>2. PICK main, f, g \in SourceFile :
          /\ main.name = "makefile.go" /\ files = {main, f, g}
          /\ f.name # "makefile.go" /\ g.name # "makefile.go"
    BY DEF SourceFiles
  <2>3. (CHOOSE file \in files : file.name = "makefile.go") = main
    BY <2>2
  <2>4. /\ SelectMakefiles(files) \subseteq CompiledMakefiles(files)
        /\ GoBuilds(main, TRUE) => SelectMakefiles(files) = CompiledMakefiles(files)
    BY <2>2, ListedIsCompiled
  <2>5. QED
    BY <2>1, <2>3, <2>4
<1>2. ASSUME call'.fn = "binaryCacheKey"
      PROVE  ReadDirs(call'.project) \ Unfollowed(call'.project) \subseteq result'
  <2>1. PICK project \in Projects :
          /\ call' = [fn |-> "binaryCacheKey", project |-> project]
          /\ result' = HashedDirs(project)
    BY <1>2, Steps DEF CallBinaryCacheKey, Calls
  <2> DEFINE choices == {{}} \cup {{dir} : dir \in SourceDir}
  <2>2. choices \subseteq SUBSET SourceDir
    OBVIOUS
  <2>3. project \in Project(choices)
    BY DEF Projects
  <2>4. project \in Project(SUBSET SourceDir)
    <3> HIDE DEF choices
    <3>1. QED
      BY <2>2, <2>3 DEF Project
  <2>5. QED
    BY <2>1, <2>4, ReadIsHashed
<1>3. QED
  BY <1>1, <1>2 DEF OneViewOfSources

(* What OneViewOfSources says of makefiles and directories holds in every  *)
(* state.                                                                  *)
THEOREM SourcesAgree == Spec => []OneViewOfSources
<1>1. Init => OneViewOfSources
  BY DEF Init, None, OneViewOfSources
<1>2. OneViewOfSources /\ [Next]_vars => OneViewOfSources'
  BY StepSources DEF vars, OneViewOfSources
<1>3. QED
  BY <1>1, <1>2, PTL DEF Spec

-----------------------------------------------------------------------------
(* The first value given, of one and of the sources that follow it.        *)
LEMMA FirstGivenOfOne ==
  ASSUME NEW v
  PROVE  FirstGiven(<<v>>) = IF Given(v) THEN v ELSE Unset
BY DEF FirstGiven

(* FirstGiven of two sources, of three and of four.                        *)
LEMMA FirstGivenOfTwo ==
  ASSUME NEW v, NEW w
  PROVE  FirstGiven(<<v, w>>) = IF Given(v) THEN v ELSE IF Given(w) THEN w ELSE Unset
BY DEF FirstGiven

LEMMA FirstGivenOfThree ==
  ASSUME NEW v, NEW w, NEW x
  PROVE  FirstGiven(<<v, w, x>>) =
           IF Given(v) THEN v ELSE IF Given(w) THEN w ELSE IF Given(x) THEN x ELSE Unset
<1> DEFINE s == <<v, w, x>>
<1>1. DOMAIN s = {1, 2, 3} /\ s[1] = v /\ s[2] = w /\ s[3] = x
  OBVIOUS
<1> HIDE DEF s
<1>2. CASE Given(v)
  BY <1>1, <1>2 DEF FirstGiven
<1>3. CASE ~Given(v) /\ Given(w)
  BY <1>1, <1>3 DEF FirstGiven
<1>4. CASE ~Given(v) /\ ~Given(w) /\ Given(x)
  BY <1>1, <1>4 DEF FirstGiven
<1>5. CASE ~Given(v) /\ ~Given(w) /\ ~Given(x)
  BY <1>1, <1>5 DEF FirstGiven
<1>6. QED
  BY <1>2, <1>3, <1>4, <1>5 DEF s

LEMMA FirstGivenOfFour ==
  ASSUME NEW v, NEW w, NEW x, NEW y
  PROVE  FirstGiven(<<v, w, x, y>>) =
           IF Given(v) THEN v ELSE IF Given(w) THEN w ELSE IF Given(x) THEN x
           ELSE IF Given(y) THEN y ELSE Unset
<1> DEFINE s == <<v, w, x, y>>
<1>1. DOMAIN s = {1, 2, 3, 4} /\ s[1] = v /\ s[2] = w /\ s[3] = x /\ s[4] = y
  OBVIOUS
<1> HIDE DEF s
<1>2. CASE Given(v)
  BY <1>1, <1>2 DEF FirstGiven
<1>3. CASE ~Given(v) /\ Given(w)
  BY <1>1, <1>3 DEF FirstGiven
<1>4. CASE ~Given(v) /\ ~Given(w) /\ Given(x)
  BY <1>1, <1>4 DEF FirstGiven
<1>5. CASE ~Given(v) /\ ~Given(w) /\ ~Given(x) /\ Given(y)
  BY <1>1, <1>5 DEF FirstGiven
<1>6. CASE ~Given(v) /\ ~Given(w) /\ ~Given(x) /\ ~Given(y)
  BY <1>1, <1>6 DEF FirstGiven
<1>7. QED
  BY <1>2, <1>3, <1>4, <1>5, <1>6 DEF s

(* The settings of a run are those of the first source that gives one, and *)
(* it fails for no value that a higher source hides.                       *)
LEMMA StepParse ==
  ASSUME Next, call'.fn = "parse", call'.option.mode # "complete"
  PROVE  LET option == call'.option
             reads  == option.mode \in {"run", "bin", "check"}
             timeout == FirstGiven(
               IF reads THEN <<<<option.timeout, "option">>, <<call'.project.timeout, "project">>,
                               <<call'.user.timeout, "user">>>>
               ELSE <<<<option.timeout, "option">>>>)
             tmp     == FirstGiven(
               IF reads THEN <<<<option.tmp, "option">>, <<call'.env, "env">>,
                               <<call'.project.tmp, "project">>, <<call'.user.tmp, "user">>>>
               ELSE <<<<option.tmp, "option">>, <<call'.env, "env">>>>)
             valid   == /\ timeout[1] \notin {"bad", "negative"} /\ tmp[1] # "relative"
                        /\ reads => "broken" \notin {call'.user.state, call'.project.state}
                        /\ option.mode = "bin" => timeout[1] # "positive"
         IN /\ result'.error = "none" <=> valid
            /\ valid => /\ result'.timeout = IF Given(timeout) THEN timeout ELSE NoDeadline
                        /\ result'.tmp = IF tmp[1] \in {"unset", "empty"} THEN TempDir
                                         ELSE tmp
<1>1. PICK option \in Option, env \in Dir \ {"empty"}, user \in File, project \in File :
        /\ call' = [fn |-> "parse", option |-> option, env |-> env, user |-> user,
                    project |-> project]
        /\ result' = Parse(option, env, user, project)
  BY Steps DEF CallParse, Calls
<1> DEFINE reads  == option.mode \in {"run", "bin", "check"}
           timeout == FirstGiven(
             IF reads THEN <<<<option.timeout, "option">>, <<project.timeout, "project">>,
                             <<user.timeout, "user">>>>
             ELSE <<<<option.timeout, "option">>>>)
           tmp     == FirstGiven(
             IF reads THEN <<<<option.tmp, "option">>, <<env, "env">>,
                             <<project.tmp, "project">>, <<user.tmp, "user">>>>
             ELSE <<<<option.tmp, "option">>, <<env, "env">>>>)
           valid   == /\ timeout[1] \notin {"bad", "negative"} /\ tmp[1] # "relative"
                      /\ reads => "broken" \notin {user.state, project.state}
                      /\ option.mode = "bin" => timeout[1] # "positive"
           parsed  == Parse(option, env, user, project)
<1>2. SUFFICES /\ parsed.error = "none" <=> valid
               /\ valid => /\ parsed.timeout = IF Given(timeout) THEN timeout ELSE NoDeadline
                           /\ parsed.tmp = IF tmp[1] \in {"unset", "empty"} THEN TempDir
                                           ELSE tmp
  BY <1>1
<1>3. /\ option.mode \in Mode \ {"complete"} /\ option.timeout \in Duration
      /\ option.tmp \in Dir \ {"empty"} /\ env \in Dir \ {"empty"}
      /\ user.timeout \in Duration /\ user.tmp \in Dir
      /\ project.timeout \in Duration /\ project.tmp \in Dir
      /\ user.state \in {"missing", "broken", "fine"}
      /\ project.state \in {"missing", "broken", "fine"}
  BY <1>1 DEF Option, File, Duration, Dir
<1>4. CASE ~reads
  <2>1. timeout = FirstGiven(<<<<option.timeout, "option">>>>)
    BY <1>4
  <2>2. tmp = FirstGiven(<<<<option.tmp, "option">>, <<env, "env">>>>)
    BY <1>4
  <2> HIDE DEF timeout, tmp
  <2>3. /\ timeout = IF Given(<<option.timeout, "option">>) THEN <<option.timeout, "option">>
                     ELSE Unset
        /\ tmp = IF Given(<<option.tmp, "option">>) THEN <<option.tmp, "option">>
                 ELSE IF Given(<<env, "env">>) THEN <<env, "env">> ELSE Unset
    BY <2>1, <2>2, FirstGivenOfOne, FirstGivenOfTwo
  <2>4. option.mode = "version"
    BY <1>3, <1>4 DEF Mode
  <2>5. QED
    BY <1>3, <2>3, <2>4 DEF Parse, FromOption, ApplyEnvironment, Given, PickTmp, Unset,
       Failure, Success, NoDeadline, TempDir, Duration, Dir
<1>5. CASE reads
  <2>1. timeout = FirstGiven(<<<<option.timeout, "option">>, <<project.timeout, "project">>,
                               <<user.timeout, "user">>>>)
    BY <1>5
  <2>2. tmp = FirstGiven(<<<<option.tmp, "option">>, <<env, "env">>, <<project.tmp, "project">>,
                           <<user.tmp, "user">>>>)
    BY <1>5
  <2> HIDE DEF timeout, tmp
  <2>3. /\ timeout = IF Given(<<option.timeout, "option">>) THEN <<option.timeout, "option">>
                     ELSE IF Given(<<project.timeout, "project">>)
                     THEN <<project.timeout, "project">>
                     ELSE IF Given(<<user.timeout, "user">>) THEN <<user.timeout, "user">>
                     ELSE Unset
        /\ tmp = IF Given(<<option.tmp, "option">>) THEN <<option.tmp, "option">>
                 ELSE IF Given(<<env, "env">>) THEN <<env, "env">>
                 ELSE IF Given(<<project.tmp, "project">>) THEN <<project.tmp, "project">>
                 ELSE IF Given(<<user.tmp, "user">>) THEN <<user.tmp, "user">> ELSE Unset
    BY <2>1, <2>2, FirstGivenOfThree, FirstGivenOfFour
  <2> DEFINE opt     == FromOption(option)
             merged  == MergeConfigs(user, project)
             given   == IF Given(opt.timeout) THEN opt.timeout ELSE merged.timeout
             cfg     == ApplyFileConfig(opt, env, user, project)
             dir     == IF tmp[1] \in {"unset", "empty"} THEN TempDir ELSE tmp
  <2>4. given[1] = timeout[1] /\ (Given(given) <=> Given(timeout))
        /\ (Given(timeout) => given = timeout)
    BY <2>3 DEF FromOption, MergeConfigs, PickSetting, Given, Unset
  <2>5. PickTmp(opt.tmp, env, merged.tmp) = dir
    BY <1>3, <2>3 DEF FromOption, MergeConfigs, PickSetting, PickTmp, Given, Unset, TempDir
  <2>6. cfg = IF "broken" \in {user.state, project.state} THEN Failure("file")
              ELSE IF timeout[1] = "bad" THEN Failure("file")
              ELSE IF timeout[1] = "negative" THEN Failure("timeout")
              ELSE Success(IF Given(timeout) THEN timeout ELSE NoDeadline, dir)
    <3>1. cfg = IF "broken" \in {user.state, project.state} THEN Failure("file")
                ELSE IF given[1] = "bad" THEN Failure("file")
                ELSE IF given[1] = "negative" THEN Failure("timeout")
                ELSE Success(IF Given(given) THEN given ELSE NoDeadline,
                             PickTmp(opt.tmp, env, merged.tmp))
      BY DEF ApplyFileConfig
    <3> HIDE DEF given, cfg, dir, opt, merged
    <3>2. QED
      BY <2>4, <2>5, <3>1
  <2>7. parsed = IF option.timeout = "bad" THEN Failure("timeout")
                 ELSE IF option.timeout = "negative" THEN Failure("timeout")
                 ELSE IF cfg.error # "none" THEN cfg
                 ELSE IF cfg.tmp[1] = "relative" THEN Failure("tmp")
                 ELSE IF option.mode = "bin" /\ cfg.timeout[1] = "positive" THEN Failure("bin")
                 ELSE cfg
    BY <1>3, <1>5 DEF Parse
  <2>8. /\ option.timeout \in {"bad", "negative"} => timeout[1] = option.timeout
        /\ dir[1] = "relative" <=> tmp[1] = "relative"
        /\ (IF Given(timeout) THEN timeout ELSE NoDeadline)[1] = "positive"
              <=> timeout[1] = "positive"
    BY <2>3 DEF Given, TempDir, NoDeadline
  <2> HIDE DEF cfg, opt, merged, given, dir, parsed
  <2>9. parsed.error = "none" <=> valid
    BY <1>5, <2>6, <2>7, <2>8 DEF Failure, Success
  <2>10. valid => /\ parsed.timeout = IF Given(timeout) THEN timeout ELSE NoDeadline
                  /\ parsed.tmp = dir
    BY <1>5, <2>6, <2>7, <2>8 DEF Failure, Success
  <2>11. QED
    BY <2>9, <2>10 DEF dir
<1>6. QED
  BY <1>4, <1>5

(* A check that finds no problem vouches for the settings of a run.        *)
LEMMA StepChecked ==
  ASSUME Next, call'.fn = "runCheckConfig", result' = NoProblems
  PROVE  Parse([mode |-> "run", timeout |-> "unset", tmp |-> "unset"], "unset",
               call'.user.settings, call'.project.settings).error = "none"
<1>1. PICK tmp \in {"unset", "absolute"}, inModule \in BOOLEAN,
           user \in YamlFiles, project \in YamlFiles, specs \in SUBSET {"", "ext"} :
        LET option == [mode |-> "check", timeout |-> "unset", tmp |-> tmp]
            tgts == [spec : specs, name : {<<k>> : k \in Name \ {Leaf}}]
        IN /\ user.settings.timeout = "unset"
           /\ Calls([fn |-> "runCheckConfig", inModule |-> inModule, user |-> user,
                     project |-> project, tgts |-> tgts],
                    RunCheckConfig(option, "unset", inModule, user, project, tgts))
  <2>1. CallCheckConfig
    BY Steps
  <2>2. QED
    BY <2>1, ZenonT(40) DEF CallCheckConfig
<1> DEFINE option == [mode |-> "check", timeout |-> "unset", tmp |-> tmp]
           tgts == [spec : specs, name : {<<k>> : k \in Name \ {Leaf}}]
<1> HIDE DEF tgts
<1>2. /\ call'.user = user /\ call'.project = project
      /\ NoProblems = RunCheckConfig(option, "unset", inModule, user, project, tgts)
  BY <1>1 DEF Calls, tgts
<1>3. /\ Parse(option, "unset", user.settings, project.settings).error = "none"
      /\ CheckConfigProblems({TargetImp(tgt, LocalImportPath(inModule)) : tgt \in tgts},
                             user, project) = {}
  BY <1>2 DEF RunCheckConfig, NoProblems
<1>4. user.settings.tmp # "relative" /\ project.settings.tmp # "relative"
  BY <1>3 DEF CheckConfigProblems, NotAbsolute
<1>5. \A file \in YamlFiles : /\ file.settings.state = "fine" /\ file.settings.tmp \in Dir
                             /\ file.settings.timeout \in {"unset", "bad"}
  BY DEF YamlFiles, YamlFile
<1>6. QED
  BY <1>1, <1>2, <1>3, <1>4, <1>5, ZenonT(40) DEF Parse, FromOption, ApplyFileConfig, MergeConfigs,
     PickSetting, Given, PickTmp, Unset, Failure, Success, NoDeadline, TempDir, Dir

(* A setting comes from the first source that gives it, a value that a     *)
(* higher source hides never fails a run, and a check without problems     *)
(* vouches for the settings of a plain run.                                *)
THEOREM FirstSource == Spec => []FirstSourceDecides
<1>1. Init => FirstSourceDecides
  BY DEF Init, None, FirstSourceDecides
<1>2. ASSUME FirstSourceDecides, [Next]_vars PROVE FirstSourceDecides'
  <2>1. CASE Next
    BY <2>1, StepParse, StepChecked DEF FirstSourceDecides
  <2>2. CASE UNCHANGED vars
    BY <1>2, <2>2 DEF vars, FirstSourceDecides
  <2>3. QED
    BY <1>2, <2>1, <2>2
<1>3. QED
  BY <1>1, <1>2, PTL DEF Spec

-----------------------------------------------------------------------------
(* The nodes on a path.                                                    *)
LEMMA PathNodes ==
  ASSUME NEW S, NEW path \in Seq(S)
  PROVE  /\ \A i \in 0..Len(path) : SubSeq(path, 1, i) \in Seq(S)
                                    /\ Len(SubSeq(path, 1, i)) = i
         /\ \A i \in 1..Len(path) :
              SubSeq(path, 1, i) = Append(SubSeq(path, 1, i - 1), path[i])
         /\ \A i, j \in 0..Len(path) :
              i <= j <=> IsPrefix(SubSeq(path, 1, i), SubSeq(path, 1, j))
         /\ \A node \in Seq(S) :
              IsPrefix(node, path) <=>
                Len(node) \in 0..Len(path) /\ node = SubSeq(path, 1, Len(node))
<1>1. \A i \in 0..Len(path) : /\ SubSeq(path, 1, i) \in Seq(S)
                              /\ Len(SubSeq(path, 1, i)) = i
                              /\ \A k \in 1..i : SubSeq(path, 1, i)[k] = path[k]
  OBVIOUS
<1>2. \A i \in 1..Len(path) :
        SubSeq(path, 1, i) = Append(SubSeq(path, 1, i - 1), path[i])
  <2>1. SUFFICES ASSUME NEW i \in 1..Len(path)
                 PROVE  SubSeq(path, 1, i) = Append(SubSeq(path, 1, i - 1), path[i])
    OBVIOUS
  <2>2. path[i] \in S /\ i - 1 \in 0..Len(path) /\ i \in 0..Len(path)
    OBVIOUS
  <2> DEFINE a == SubSeq(path, 1, i)
             b == SubSeq(path, 1, i - 1)
             c == Append(b, path[i])
  <2>3. a \in Seq(S) /\ Len(a) = i /\ \A k \in 1..i : a[k] = path[k]
    BY <1>1, <2>2
  <2>4. b \in Seq(S) /\ Len(b) = i - 1 /\ \A k \in 1..(i - 1) : b[k] = path[k]
    BY <1>1, <2>2
  <2> HIDE DEF a, b
  <2>5. c \in Seq(S) /\ Len(c) = i /\ \A k \in 1..i : c[k] = path[k]
    BY <2>2, <2>4
  <2> HIDE DEF c
  <2>6. a = c
    BY <2>3, <2>5, SeqEqual
  <2>7. QED
    BY <2>6 DEF a, b, c
<1>3. \A i, j \in 0..Len(path) :
        i <= j => SubSeq(SubSeq(path, 1, j), 1, i) = SubSeq(path, 1, i)
  OBVIOUS
<1>4. \A i, j \in 0..Len(path) :
        i <= j <=> IsPrefix(SubSeq(path, 1, i), SubSeq(path, 1, j))
  <2>1. SUFFICES ASSUME NEW i \in 0..Len(path), NEW j \in 0..Len(path)
                 PROVE  i <= j <=> IsPrefix(SubSeq(path, 1, i), SubSeq(path, 1, j))
    OBVIOUS
  <2>2. SubSeq(SubSeq(path, 1, i), 1, i) = SubSeq(path, 1, i)
    BY <1>3
  <2>3. Len(SubSeq(path, 1, i)) = i /\ Len(SubSeq(path, 1, j)) = j
    BY <1>1
  <2>4. QED
    BY <1>3, <2>2, <2>3 DEF IsPrefix
<1>5. \A node \in Seq(S) : SubSeq(node, 1, Len(node)) = node
  OBVIOUS
<1>6. \A node \in Seq(S) :
        IsPrefix(node, path) <=>
          Len(node) \in 0..Len(path) /\ node = SubSeq(path, 1, Len(node))
  BY <1>5 DEF IsPrefix
<1>7. QED
  BY <1>1, <1>2, <1>4, <1>6

-----------------------------------------------------------------------------
(* The walk of ResolveTargetBlock: down the path as far as there are       *)
(* mappings, to level d, and back up to the first node with a setting.     *)
KeysAt(tree, path, known, i) == SettingKeys(SubSeq(path, 1, i), tree, known)

Lowest(tree, path, d) ==
  /\ \A j \in 1..d : SubSeq(path, 1, j) \in tree.maps
  /\ d < Len(path) => SubSeq(path, 1, d + 1) \notin tree.maps

NearestFrom(block, tree, path, known, d) ==
  \/ /\ block = NoBlock
     /\ \A j \in 0..d : KeysAt(tree, path, known, j) = {}
  \/ \E j \in 0..d :
       /\ KeysAt(tree, path, known, j) # {}
       /\ \A k \in (j + 1)..d : KeysAt(tree, path, known, k) = {}
       /\ block = Block(SubSeq(path, 1, j), KeysAt(tree, path, known, j))

IsDescent(f, tree, path) ==
  f = [i \in 0..Len(path) |->
         IF i < Len(path) /\ SubSeq(path, 1, i + 1) \in tree.maps THEN f[i + 1] ELSE i]

IsReturn(f, tree, path, known) ==
  f = [i \in 0..Len(path) |->
         IF KeysAt(tree, path, known, i) # {}
         THEN Block(SubSeq(path, 1, i), KeysAt(tree, path, known, i))
         ELSE IF i = 0 THEN NoBlock ELSE f[i - 1]]

(* The walk down a tree as far as it matches the path has a value.         *)
LEMMA Descends ==
  ASSUME NEW tree, NEW S, NEW path \in Seq(S)
  PROVE  \E f : IsDescent(f, tree, path)
<1> DEFINE N == Len(path)
           Goes(i) == i < N /\ SubSeq(path, 1, i + 1) \in tree.maps
           Stops(i) == {j \in i..N : ~Goes(j)}
           First(i) == CHOOSE j \in Stops(i) : \A k \in Stops(i) : j <= k
           f == [i \in 0..N |-> First(i)]
<1>1. N \in Nat
  OBVIOUS
<1>2. ASSUME NEW i \in 0..N
      PROVE  First(i) \in Stops(i) /\ \A k \in Stops(i) : First(i) <= k
  <2>1. N \in Stops(i) /\ Stops(i) \in SUBSET Nat
    BY <1>1
  <2> HIDE DEF Stops
  <2>2. \E j \in Stops(i) : \A k \in Stops(i) : j <= k
    BY <2>1, Least
  <2>3. QED
    BY <2>2
<1> HIDE DEF N, Goes, First
<1>3. ASSUME NEW i \in 0..N, Goes(i) PROVE First(i) = First(i + 1)
  <2>1. i + 1 \in 0..N
    BY <1>1, <1>3 DEF Goes
  <2>2. Stops(i) = Stops(i + 1)
    BY <1>1, <1>3, <2>1
  <2> HIDE DEF Stops
  <2>3. QED
    BY <2>2 DEF First
<1>4. ASSUME NEW i \in 0..N, ~Goes(i) PROVE First(i) = i
  <2>1. i \in Stops(i)
    BY <1>1, <1>4
  <2>2. First(i) <= i /\ First(i) \in i..N
    BY <1>2, <2>1
  <2>3. QED
    BY <1>1, <2>2
<1>5. \A i \in 0..N : Goes(i) => i + 1 \in 0..N
  BY <1>1 DEF Goes
<1>6. f = [i \in 0..N |-> IF Goes(i) THEN f[i + 1] ELSE i]
  BY <1>3, <1>4, <1>5
<1> HIDE DEF f
<1>7. IsDescent(f, tree, path)
  BY <1>6 DEF IsDescent, Goes, N
<1>8. QED
  BY <1>7

(* It ends at the last node of the path that is in the tree.               *)
LEMMA LowestNode ==
  ASSUME NEW tree, NEW S, NEW path \in Seq(S), NEW f, IsDescent(f, tree, path)
  PROVE  f[0] \in 0..Len(path) /\ Lowest(tree, path, f[0])
<1> DEFINE N == Len(path)
           Goes(i) == i < N /\ SubSeq(path, 1, i + 1) \in tree.maps
           Q(i) == f[i] \in i..N /\ ~Goes(f[i]) /\ \A j \in i..(f[i] - 1) : Goes(j)
           P == {k \in 0..N : Q(N - k)}
<1>1. N \in Nat
  OBVIOUS
<1>2. \A i \in 0..N : f[i] = IF Goes(i) THEN f[i + 1] ELSE i
  BY DEF IsDescent
<1> HIDE DEF N, Goes
<1>3. ~Goes(N)
  BY <1>1 DEF Goes
<1>4. 0 \in P
  BY <1>1, <1>2, <1>3
<1>5. ASSUME NEW k \in 1..N, k - 1 \in P PROVE k \in P
  <2> DEFINE i == N - k
  <2>1. i \in 0..N /\ i + 1 \in 0..N /\ i + 1 = N - (k - 1)
    BY <1>1
  <2>2. Q(i + 1)
    BY <1>5, <2>1
  <2> HIDE DEF i
  <2>3. ASSUME Goes(i) PROVE Q(i)
    BY <1>1, <1>2, <2>1, <2>2, <2>3
  <2>4. ASSUME ~Goes(i) PROVE Q(i)
    BY <1>1, <1>2, <2>1, <2>4
  <2>5. Q(i)
    BY <2>3, <2>4
  <2> HIDE DEF Q
  <2>6. QED
    BY <2>5 DEF i
<1>6. 0..N \subseteq P
  <2> HIDE DEF P
  <2>1. QED
    BY <1>1, <1>4, <1>5, Induct
<1>7. Q(0)
  <2> HIDE DEF Q
  <2>1. N \in P /\ N - N = 0
    BY <1>1, <1>6
  <2>2. QED
    BY <2>1
<1>8. \A j \in 1..f[0] : Goes(j - 1)
  BY <1>1, <1>7
<1>9. f[0] \in 0..N
  BY <1>7
<1>10. \A j \in 1..f[0] : SubSeq(path, 1, j) \in tree.maps
  BY <1>1, <1>8, <1>9 DEF Goes
<1>11. QED
  BY <1>7, <1>9, <1>10 DEF Lowest, Goes, N

(* The walk back up has a value, and it is the nearest node with a         *)
(* setting.                                                                *)
LEMMA Returns ==
  ASSUME NEW tree, NEW S, NEW path \in Seq(S), NEW known
  PROVE  /\ \E f : IsReturn(f, tree, path, known)
         /\ \A f : IsReturn(f, tree, path, known) =>
              \A d \in 0..Len(path) : NearestFrom(f[d], tree, path, known, d)
<1> DEFINE N == Len(path)
           keys(i) == KeysAt(tree, path, known, i)
           block(i) == Block(SubSeq(path, 1, i), keys(i))
<1>1. N \in Nat
  OBVIOUS
<1>2. \E f : IsReturn(f, tree, path, known)
  <2> DEFINE Out == {block(i) : i \in 0..N} \cup {NoBlock}
             base == IF keys(0) # {} THEN block(0) ELSE NoBlock
             step == [e \in (1..N) \X Out |-> IF keys(e[1]) # {} THEN block(e[1]) ELSE e[2]]
  <2>1. base \in Out
    BY <1>1
  <2>2. step \in [(1..N) \X Out -> Out]
    <3>1. \A i \in 1..N : block(i) \in Out
      BY <1>1
    <3> HIDE DEF Out, block, keys, N
    <3>2. QED
      BY <3>1
  <2>3. \A i \in 1..N, out \in Out : step[<<i, out>>] = IF keys(i) # {} THEN block(i) ELSE out
    OBVIOUS
  <2> HIDE DEF Out, base, step, N
  <2>4. PICK f : IsRecursive(f, N, Out, base, step)
    BY <1>1, <2>1, <2>2, Recursion
  <2>5. \A i \in 1..N : f[i] = IF keys(i) # {} THEN block(i) ELSE f[i - 1]
    <3>1. \A i \in 1..N : f[i - 1] \in Out
      BY <1>1, <2>4 DEF IsRecursive
    <3> HIDE DEF keys, block
    <3>2. QED
      BY <2>3, <2>4, <3>1 DEF IsRecursive
  <2>6. f = [i \in 0..N |-> IF keys(i) # {} THEN block(i)
                             ELSE IF i = 0 THEN NoBlock ELSE f[i - 1]]
    <3>1. f = [i \in 0..N |-> f[i]] /\ f[0] = base
      BY <2>4 DEF IsRecursive
    <3> HIDE DEF keys, block
    <3>2. \A i \in 0..N : f[i] = IF keys(i) # {} THEN block(i)
                                 ELSE IF i = 0 THEN NoBlock ELSE f[i - 1]
      BY <1>1, <2>5, <3>1 DEF base
    <3>3. QED
      BY <3>1, <3>2
  <2>7. IsReturn(f, tree, path, known)
    BY <2>6 DEF IsReturn, N
  <2>8. QED
    BY <2>7
<1>3. ASSUME NEW f, IsReturn(f, tree, path, known)
      PROVE  \A d \in 0..Len(path) : NearestFrom(f[d], tree, path, known, d)
  <2> DEFINE P == {d \in 0..N : NearestFrom(f[d], tree, path, known, d)}
  <2>1. \A i \in 0..N : f[i] = IF keys(i) # {} THEN block(i)
                               ELSE IF i = 0 THEN NoBlock ELSE f[i - 1]
    BY <1>3 DEF IsReturn
  <2> HIDE DEF N
  <2>2. 0 \in P
    BY <1>1, <2>1 DEF NearestFrom
  <2>3. ASSUME NEW d \in 1..N, d - 1 \in P PROVE d \in P
    <3>1. NearestFrom(f[d - 1], tree, path, known, d - 1)
      BY <2>3
    <3>2. CASE keys(d) # {}
      <4>1. f[d] = block(d) /\ d \in 0..d /\ \A k \in (d + 1)..d : FALSE
        BY <1>1, <2>1, <3>2
      <4>2. NearestFrom(f[d], tree, path, known, d)
        BY <3>2, <4>1 DEF NearestFrom
      <4>3. QED
        BY <1>1, <4>2
    <3>3. CASE keys(d) = {}
      <4>1. f[d] = f[d - 1]
        BY <1>1, <2>1, <3>3
      <4>2. CASE f[d - 1] = NoBlock /\ \A j \in 0..(d - 1) : keys(j) = {}
        <5>1. \A j \in 0..d : keys(j) = {}
          BY <1>1, <3>3, <4>2
        <5>2. NearestFrom(f[d], tree, path, known, d)
          BY <4>1, <4>2, <5>1 DEF NearestFrom
        <5>3. QED
          BY <1>1, <5>2
      <4>3. CASE \E j \in 0..(d - 1) : /\ keys(j) # {}
                                       /\ \A k \in (j + 1)..(d - 1) : keys(k) = {}
                                       /\ f[d - 1] = block(j)
        <5>1. PICK j \in 0..(d - 1) : /\ keys(j) # {}
                                      /\ \A k \in (j + 1)..(d - 1) : keys(k) = {}
                                      /\ f[d - 1] = block(j)
          BY <4>3
        <5>2. j \in 0..d /\ \A k \in (j + 1)..d : keys(k) = {}
          BY <1>1, <3>3, <5>1
        <5>3. NearestFrom(f[d], tree, path, known, d)
          BY <4>1, <5>1, <5>2 DEF NearestFrom
        <5>4. QED
          BY <1>1, <5>3
      <4>4. QED
        BY <3>1, <4>2, <4>3 DEF NearestFrom
    <3>4. QED
      BY <3>2, <3>3
  <2> HIDE DEF P
  <2>4. 0..N \subseteq P
    BY <1>1, <2>2, <2>3, Induct
  <2>5. QED
    BY <2>4 DEF P, N
<1>4. QED
  BY <1>2, <1>3

(* Both walks together: down to the last node, then back up to a setting.  *)
LEMMA ResolvedBlock ==
  ASSUME NEW tree, NEW S, NEW path \in Seq(S), NEW known
  PROVE  \E d \in 0..Len(path) :
           /\ Lowest(tree, path, d)
           /\ NearestFrom(ResolveTargetBlock(tree, path, known), tree, path, known, d)
<1> DEFINE down == CHOOSE f : IsDescent(f, tree, path)
           back == CHOOSE f : IsReturn(f, tree, path, known)
<1>1. ResolveTargetBlock(tree, path, known) = back[down[0]]
  BY DEF ResolveTargetBlock, IsDescent, IsReturn, KeysAt
<1>2. IsDescent(down, tree, path) /\ IsReturn(back, tree, path, known)
  BY Descends, Returns
<1> HIDE DEF down, back
<1>3. down[0] \in 0..Len(path) /\ Lowest(tree, path, down[0])
  BY <1>2, LowestNode
<1>4. QED
  BY <1>1, <1>2, <1>3, Returns

-----------------------------------------------------------------------------
(* A tree whose every entry is in a mapping.                               *)
WellFormed(tree) ==
  /\ tree.maps \subseteq Seq(Name)
  /\ \A node \in Seq(Name), k \in Name :
       Append(node, k) \in tree.maps \cup tree.leaves => node \in tree.maps
TargetOf == [spec : {"", "sub", "ext"}, name : Seq(Name)]

(* The nodes on a target's path that are mappings are those down to the    *)
(* level where the walk stops.                                             *)
LEMMA MappingsOnPath ==
  ASSUME NEW tree, WellFormed(tree), NEW path \in Seq(Name), NEW d \in 0..Len(path),
         Lowest(tree, path, d), NEW j \in 1..Len(path)
  PROVE  SubSeq(path, 1, j) \in tree.maps <=> j <= d
<1> DEFINE N == Len(path)
           P == {i \in 0..N : i > d => SubSeq(path, 1, i) \notin tree.maps}
<1>1. N \in Nat
  OBVIOUS
<1>2. 0 \in P
  BY <1>1
<1>3. ASSUME NEW i \in 1..N, i - 1 \in P PROVE i \in P
  <2>1. CASE i = d + 1
    BY <1>1, <2>1 DEF Lowest
  <2>2. CASE i > d + 1
    <3>1. SubSeq(path, 1, i - 1) \notin tree.maps
      BY <1>1, <1>3, <2>2
    <3>2. SubSeq(path, 1, i) = Append(SubSeq(path, 1, i - 1), path[i])
      BY PathNodes
    <3>3. SubSeq(path, 1, i - 1) \in Seq(Name) /\ path[i] \in Name
      BY <1>1, PathNodes
    <3> DEFINE above == SubSeq(path, 1, i - 1)
    <3> HIDE DEF above, P
    <3>4. Append(above, path[i]) \notin tree.maps
      BY <3>1, <3>3 DEF WellFormed, above
    <3>5. SubSeq(path, 1, i) \notin tree.maps
      BY <3>2, <3>4 DEF above
    <3>6. QED
      BY <1>1, <3>5 DEF P
  <2>3. QED
    BY <1>1, <2>1, <2>2
<1>4. 0..N \subseteq P
  <2> HIDE DEF P
  <2>1. QED
    BY <1>1, <1>2, <1>3, Induct
<1>5. j > d => SubSeq(path, 1, j) \notin tree.maps
  BY <1>1, <1>4
<1>6. j <= d => SubSeq(path, 1, j) \in tree.maps
  BY DEF Lowest
<1>7. QED
  BY <1>5, <1>6

(* What the walk takes for a target or namespace is that of a target of    *)
(* the package.                                                            *)
LEMMA KnownIsNested ==
  ASSUME NEW tgts \in SUBSET TargetOf, NEW tgt \in TargetOf, NEW inModule \in BOOLEAN,
         NEW node \in Seq(Name), node # <<>>
  PROVE  node \in KnownNodes(tgts, LocalImportPath(inModule),
                             TargetImp(tgt, LocalImportPath(inModule)))
         <=> Nested(tgts, tgt, node)
<1> DEFINE localImp == LocalImportPath(inModule)
<1>1. \A t \in TargetOf : TargetImp(t, localImp) = TargetImp(tgt, localImp) <=> t.spec = tgt.spec
  BY DEF TargetImp, LocalImportPath, TargetOf
<1>2. \A t \in TargetOf : node \in Prefixes(t.name) \ {<<>>} <=> IsPrefix(node, t.name)
  <2>1. ASSUME NEW t \in TargetOf
        PROVE  node \in Prefixes(t.name) <=> IsPrefix(node, t.name)
    <3>1. t.name \in Seq(Name)
      BY DEF TargetOf
    <3> DEFINE path == t.name
    <3> HIDE DEF path
    <3>2. path \in Seq(Name)
      BY <3>1 DEF path
    <3>3. node \in Prefixes(path) <=> \E i \in 0..Len(path) : node = SubSeq(path, 1, i)
      BY DEF Prefixes
    <3>4. \A i \in 0..Len(path) : Len(SubSeq(path, 1, i)) = i
      BY <3>2, PathNodes
    <3>5. IsPrefix(node, path) <=>
            Len(node) \in 0..Len(path) /\ node = SubSeq(path, 1, Len(node))
      BY <3>2, PathNodes
    <3>6. node \in Prefixes(path) <=> IsPrefix(node, path)
      BY <3>3, <3>4, <3>5
    <3>7. QED
      BY <3>6 DEF path
  <2>2. QED
    BY <2>1
<1> HIDE DEF localImp
<1>3. QED
  BY <1>1, <1>2 DEF KnownNodes, Nested, localImp

(* The nearest block of one tree.                                          *)
LEMMA ResolvedInTree ==
  ASSUME NEW tree, WellFormed(tree), NEW tgts \in SUBSET TargetOf, NEW tgt \in TargetOf,
         NEW inModule \in BOOLEAN
  PROVE  LET imp   == TargetImp(tgt, LocalImportPath(inModule))
             known == KnownNodes(tgts, LocalImportPath(inModule), imp)
             block == ResolveTargetBlock(tree, tgt.name, known)
         IN /\ block.found \in BOOLEAN
            /\ block.found <=> \E node \in tree.maps : HasSetting(tree, tgts, tgt, node)
            /\ block.found => NearestBlock(block, tree, tgts, tgt)
<1> DEFINE path == tgt.name
           known == KnownNodes(tgts, LocalImportPath(inModule),
                               TargetImp(tgt, LocalImportPath(inModule)))
           block == ResolveTargetBlock(tree, path, known)
           node(i) == SubSeq(path, 1, i)
           keys(i) == KeysAt(tree, path, known, i)
           Settings(n) == {k \in Name : /\ Append(n, k) \in tree.maps \cup tree.leaves
                                        /\ ~Nested(tgts, tgt, Append(n, k))}
           N == Len(path)
<1> HIDE DEF known, block, node, keys, Settings
<1>0. path \in Seq(Name)
  BY DEF TargetOf
<1> HIDE DEF path
<1>1. path \in Seq(Name) /\ N \in Nat
  BY <1>0
<1> USE DEF node, keys, Settings
<1>2. \A i \in 0..N : keys(i) = Settings(node(i))
  <2>1. SUFFICES ASSUME NEW i \in 0..N PROVE keys(i) = Settings(node(i))
    OBVIOUS
  <2>2. node(i) \in Seq(Name)
    BY <1>1, PathNodes
  <2> DEFINE n == node(i)
  <2> HIDE DEF n, known
  <2>3. \A k \in Name : Append(n, k) \in Seq(Name) /\ Append(n, k) # <<>>
    BY <2>2 DEF n
  <2>4. \A k \in Name : Append(n, k) \in known <=> Nested(tgts, tgt, Append(n, k))
    BY <2>3, KnownIsNested DEF known
  <2>5. {k \in Name : Append(n, k) \in (tree.maps \cup tree.leaves) \ known} = Settings(n)
    BY <2>4
  <2>6. QED
    BY <2>5 DEF KeysAt, SettingKeys, n
<1>3. PICK d \in 0..N : Lowest(tree, path, d) /\ NearestFrom(block, tree, path, known, d)
  BY <1>1, ResolvedBlock DEF block
<1>4. \A i \in 1..N : node(i) \in tree.maps <=> i <= d
  BY <1>1, <1>3, MappingsOnPath
<1>5. ASSUME NEW n \in tree.maps, HasSetting(tree, tgts, tgt, n)
      PROVE  Len(n) \in 0..d /\ n = node(Len(n)) /\ keys(Len(n)) # {}
  <2>1. n \in Seq(Name) /\ IsPrefix(n, path) /\ Settings(n) # {}
    BY <1>5 DEF HasSetting, WellFormed, path
  <2> HIDE DEF Settings, keys
  <2>2. Len(n) \in 0..N /\ n = node(Len(n))
    BY <1>1, <2>1, PathNodes
  <2>3. Len(n) <= d
    <3> DEFINE l == Len(n)
    <3>1. l \in 0..N /\ node(l) \in tree.maps
      BY <2>2
    <3> HIDE DEF l, node
    <3>2. l <= d
      BY <1>1, <1>4, <3>1
    <3>3. QED
      BY <3>2 DEF l
  <2>4. keys(Len(n)) # {}
    BY <1>2, <2>1, <2>2
  <2>5. QED
    BY <1>1, <2>2, <2>3, <2>4
<1>6. ASSUME NEW i \in 0..d, keys(i) # {}
      PROVE  node(i) \in tree.maps /\ HasSetting(tree, tgts, tgt, node(i))
  <2>1. i \in 0..N /\ node(i) \in Seq(Name)
    BY <1>1, PathNodes
  <2>2. Settings(node(i)) # {}
    BY <1>2, <1>6, <2>1
  <2>3. node(i) \in tree.maps
    <3> DEFINE n == node(i)
    <3> HIDE DEF n
    <3>1. PICK k \in Name : Append(n, k) \in tree.maps \cup tree.leaves
      BY <2>2 DEF n
    <3>2. n \in tree.maps
      BY <2>1, <3>1 DEF WellFormed, n
    <3>3. QED
      BY <3>2 DEF n
  <2>4. IsPrefix(node(i), path)
    <3>1. Len(node(i)) = i
      BY <1>1, <2>1, PathNodes
    <3>2. QED
      BY <1>1, <2>1, <3>1, PathNodes
  <2>5. QED
    BY <2>2, <2>3, <2>4 DEF HasSetting, path
<1>7. CASE block = NoBlock /\ \A j \in 0..d : keys(j) = {}
  <2>1. ~block.found /\ block.found \in BOOLEAN
    BY <1>7 DEF NoBlock
  <2>2. \A n \in tree.maps : ~HasSetting(tree, tgts, tgt, n)
    BY <1>5, <1>7
  <2>3. QED
    BY <2>1, <2>2 DEF block, known, path
<1>8. CASE \E j \in 0..d : /\ keys(j) # {}
                           /\ \A k \in (j + 1)..d : keys(k) = {}
                           /\ block = Block(node(j), keys(j))
  <2>1. PICK j \in 0..d : /\ keys(j) # {}
                          /\ \A k \in (j + 1)..d : keys(k) = {}
                          /\ block = Block(node(j), keys(j))
    BY <1>8
  <2>2. block.found = TRUE /\ block.node = node(j) /\ block.keys = keys(j)
    BY <2>1 DEF Block
  <2>3. node(j) \in tree.maps /\ HasSetting(tree, tgts, tgt, node(j))
    BY <1>6, <2>1
  <2>4. ASSUME NEW n \in tree.maps, HasSetting(tree, tgts, tgt, n)
        PROVE  IsPrefix(n, node(j))
    <3>1. Len(n) \in 0..d /\ n = node(Len(n)) /\ keys(Len(n)) # {}
      BY <1>5, <2>4
    <3>2. Len(n) <= j
      BY <1>1, <2>1, <3>1
    <3>3. Len(n) \in 0..N /\ j \in 0..N
      BY <1>1, <3>1
    <3>4. IsPrefix(node(Len(n)), node(j))
      BY <1>1, <3>2, <3>3, PathNodes
    <3>5. QED
      BY <3>1, <3>4
  <2>5. keys(j) = Settings(node(j))
    BY <1>1, <1>2
  <2> HIDE DEF keys
  <2>6. NearestBlock(block, tree, tgts, tgt)
    BY <2>2, <2>3, <2>4, <2>5 DEF NearestBlock
  <2>7. QED
    BY <2>2, <2>3, <2>6 DEF block, known, path
<1>9. QED
  BY <1>3, <1>7, <1>8 DEF NearestFrom

WellFormedFile(file) == \A imp \in DOMAIN file : WellFormed(file[imp])
HasBlock(file, imp, tgts, tgt) ==
  imp \in DOMAIN file /\ \E node \in file[imp].maps : HasSetting(file[imp], tgts, tgt, node)

(* In a file's tree of the target's package, what the walks find is the    *)
(* nearest block, and they find one if there is any setting on the path.   *)
LEMMA ResolvedInFile ==
  ASSUME NEW file, WellFormedFile(file), NEW tgts \in SUBSET TargetOf, NEW tgt \in TargetOf,
         NEW inModule \in BOOLEAN
  PROVE  LET imp   == TargetImp(tgt, LocalImportPath(inModule))
             known == KnownNodes(tgts, LocalImportPath(inModule), imp)
             block == BlockOf(file, imp, tgt.name, known)
         IN /\ block.found \in BOOLEAN
            /\ block.found <=> HasBlock(file, imp, tgts, tgt)
            /\ block.found => NearestBlock(block, file[imp], tgts, tgt)
<1> DEFINE imp == TargetImp(tgt, LocalImportPath(inModule))
           known == KnownNodes(tgts, LocalImportPath(inModule), imp)
           block == BlockOf(file, imp, tgt.name, known)
           resolved == ResolveTargetBlock(file[imp], tgt.name, known)
<1>1. CASE imp \in DOMAIN file
  <2>1. WellFormed(file[imp])
    BY <1>1 DEF WellFormedFile
  <2>2. /\ resolved.found \in BOOLEAN
        /\ resolved.found <=> \E node \in file[imp].maps : HasSetting(file[imp], tgts, tgt, node)
        /\ resolved.found => NearestBlock(resolved, file[imp], tgts, tgt)
    <3> DEFINE tree == file[imp]
    <3> HIDE DEF tree
    <3>1. WellFormed(tree)
      BY <2>1 DEF tree
    <3>2. /\ ResolveTargetBlock(tree, tgt.name, known).found \in BOOLEAN
          /\ ResolveTargetBlock(tree, tgt.name, known).found <=>
               \E node \in tree.maps : HasSetting(tree, tgts, tgt, node)
          /\ ResolveTargetBlock(tree, tgt.name, known).found =>
               NearestBlock(ResolveTargetBlock(tree, tgt.name, known), tree, tgts, tgt)
      BY <3>1, ResolvedInTree
    <3>3. QED
      BY <3>2 DEF tree
  <2>3. block = resolved
    BY <1>1 DEF BlockOf
  <2> HIDE DEF imp, known, block, resolved
  <2>4. /\ block.found \in BOOLEAN
        /\ block.found <=> HasBlock(file, imp, tgts, tgt)
        /\ block.found => NearestBlock(block, file[imp], tgts, tgt)
    BY <1>1, <2>2, <2>3 DEF HasBlock
  <2>5. QED
    BY <2>4 DEF imp, known, block
<1>2. CASE imp \notin DOMAIN file
  BY <1>2 DEF BlockOf, HasBlock, NoBlock
<1>3. QED
  BY <1>1, <1>2

(* The block of a target is that of the project's file if it has one, else *)
(* the user's, but never for a package of the module; it is the nearest.   *)
DeliveredIs(delivered, tgt, inModule, user, project, tgts) ==
  LET imp     == TargetImp(tgt, LocalImportPath(inModule))
      outside == tgt.spec = "ext" \/ ~inModule
      level   == IF HasBlock(project, imp, tgts, tgt) THEN "project"
                 ELSE IF outside /\ HasBlock(user, imp, tgts, tgt) THEN "user" ELSE "none"
      file    == IF level = "project" THEN project ELSE user
  IN /\ delivered.level = level
     /\ level # "none" => NearestBlock(delivered.block, file[imp], tgts, tgt)

(* resolveDelivered gives a target the nearest block of the project's      *)
(* file, else of the user's, over any two well-formed files of trees and   *)
(* any targets.                                                            *)
THEOREM NearestIsDelivered ==
  ASSUME NEW tgt \in TargetOf, NEW inModule \in BOOLEAN, NEW tgts \in SUBSET TargetOf,
         NEW user, WellFormedFile(user), NEW project, WellFormedFile(project)
  PROVE  DeliveredIs(ResolveDelivered(tgt, inModule, user, project, tgts),
                     tgt, inModule, user, project, tgts)
<1> DEFINE imp == TargetImp(tgt, LocalImportPath(inModule))
           known == KnownNodes(tgts, LocalImportPath(inModule), imp)
           ours == BlockOf(project, imp, tgt.name, known)
           theirs == BlockOf(user, imp, tgt.name, known)
           res == ResolveDelivered(tgt, inModule, user, project, tgts)
           outside == tgt.spec = "ext" \/ ~inModule
<1>1. /\ ours.found \in BOOLEAN
      /\ ours.found <=> HasBlock(project, imp, tgts, tgt)
      /\ ours.found => NearestBlock(ours, project[imp], tgts, tgt)
  BY ResolvedInFile
<1>2. /\ theirs.found \in BOOLEAN
      /\ theirs.found <=> HasBlock(user, imp, tgts, tgt)
      /\ theirs.found => NearestBlock(theirs, user[imp], tgts, tgt)
  BY ResolvedInFile
<1>3. inModule /\ ImpInModule(imp) <=> ~outside
  BY DEF TargetImp, LocalImportPath, ImpInModule, TargetOf
<1>4. res = IF ours.found THEN Delivered("project", ours)
            ELSE IF inModule /\ ImpInModule(imp) THEN Nothing
            ELSE IF theirs.found THEN Delivered("user", theirs)
            ELSE Nothing
  BY DEF ResolveDelivered
<1> HIDE DEF imp, known, ours, theirs, res, outside
<1>5. /\ \A level, block : Delivered(level, block).level = level
      /\ \A level, block : Delivered(level, block).block = block
      /\ Nothing.level = "none"
  BY DEF Delivered, Nothing
<1>6. CASE HasBlock(project, imp, tgts, tgt)
  <2>1. res.level = "project" /\ res.block = ours
    BY <1>1, <1>4, <1>5, <1>6
  <2>2. QED
    BY <1>1, <1>6, <2>1 DEF DeliveredIs, res, imp
<1>7. CASE ~HasBlock(project, imp, tgts, tgt) /\ outside /\ HasBlock(user, imp, tgts, tgt)
  <2>1. res.level = "user" /\ res.block = theirs
    BY <1>1, <1>2, <1>3, <1>4, <1>5, <1>7
  <2>2. QED
    BY <1>2, <1>7, <2>1 DEF DeliveredIs, res, imp, outside
<1>8. CASE ~HasBlock(project, imp, tgts, tgt) /\ ~(outside /\ HasBlock(user, imp, tgts, tgt))
  <2>1. res.level = "none"
    BY <1>1, <1>2, <1>3, <1>4, <1>5, <1>8
  <2>2. QED
    BY <1>8, <2>1 DEF DeliveredIs, res, imp, outside
<1>9. QED
  BY <1>6, <1>7, <1>8

-----------------------------------------------------------------------------
(* The trees of the calls are well-formed.                                 *)
LEMMA TreesAreWellFormed ==
  ASSUME NEW tree \in Trees
  PROVE  WellFormed(tree)
<1> DEFINE With(m) == m \cup {<<>>}
           LeavesOf(maps) == SUBSET ((UNION {Below(node) : node \in maps}) \ maps)
<1>1. PICK m \in Mappings : tree \in {[maps |-> With(m), leaves |-> l] : l \in LeavesOf(With(m))}
  BY DEF Trees
<1>2. PICK l \in LeavesOf(With(m)) : tree = [maps |-> With(m), leaves |-> l]
  BY <1>1
<1>3. tree.maps = m \cup {<<>>} /\ tree.leaves \subseteq UNION {Below(node) : node \in m \cup {<<>>}}
  BY <1>2
<1> HIDE DEF With, LeavesOf
<1>4. \A node \in Node : node \in Seq(Name) /\ Len(node) \in 1..2
  <2>1. ASSUME NEW node \in Node PROVE node \in Seq(Name) /\ Len(node) \in 1..2
    <3>1. PICK n \in 1..2 : node \in [1..n -> Name]
      BY DEF Node
    <3>2. n \in Nat
      OBVIOUS
    <3>3. node \in Seq(Name)
      BY <3>1, <3>2, SeqDef
    <3>4. QED
      BY <3>1, <3>2, <3>3
  <2>2. QED
    BY <2>1
<1>5. m \subseteq Node /\ \A node \in m : Len(node) = 2 => <<node[1]>> \in m
  BY DEF Mappings
<1>0. <<>> \in Seq(Name)
  OBVIOUS
<1>6. tree.maps \subseteq Seq(Name) /\ m \cup {<<>>} \subseteq Seq(Name)
  BY <1>0, <1>3, <1>4, <1>5
<1>7. ASSUME NEW node \in Seq(Name), NEW k \in Name,
             Append(node, k) \in tree.maps \cup tree.leaves
      PROVE  node \in tree.maps
  <2>1. /\ Append(node, k) # <<>> /\ Len(Append(node, k)) = Len(node) + 1
        /\ \A i \in 1..Len(node) : Append(node, k)[i] = node[i]
    OBVIOUS
  <2>2. CASE Append(node, k) \in m
    <3>1. Len(node) + 1 \in 1..2
      BY <1>4, <1>5, <2>1, <2>2
    <3>2. CASE Len(node) = 0
      <4>1. node = <<>>
        BY <3>2
      <4>2. QED
        BY <1>3, <4>1
    <3>3. CASE Len(node) = 1
      <4>1. node = <<node[1]>>
        BY <3>3
      <4> DEFINE all == Append(node, k)
      <4>5. all \in m /\ Len(all) = 2
        BY <2>1, <2>2, <3>3
      <4> HIDE DEF all
      <4>6. <<all[1]>> \in m
        BY <1>5, <4>5
      <4>2. <<Append(node, k)[1]>> \in m
        BY <4>6 DEF all
      <4>3. Append(node, k)[1] = node[1]
        BY <2>1, <3>3
      <4>4. QED
        BY <1>3, <4>1, <4>2, <4>3
    <3>4. Len(node) \in Nat
      OBVIOUS
    <3>5. \A n \in Nat : n + 1 \in 1..2 => n = 0 \/ n = 1
      OBVIOUS
    <3>6. Len(node) = 0 \/ Len(node) = 1
      BY <3>1, <3>4, <3>5, Zenon
    <3>7. QED
      BY <3>2, <3>3, <3>6
  <2>3. CASE Append(node, k) \notin m
    <3>1. Append(node, k) \in tree.leaves
      BY <1>3, <1>7, <2>1, <2>3
    <3>2. PICK above \in m \cup {<<>>} : Append(node, k) \in Below(above)
      BY <1>3, <3>1
    <3>3. PICK j \in Name : Append(node, k) = Append(above, j)
      BY <3>2, InputsAssumption DEF Below
    <3>4. above \in Seq(Name)
      BY <1>6
    <3>5. node = above
      BY <3>3, <3>4, AppendInjective
    <3>6. QED
      BY <1>3, <3>5
  <2>4. QED
    BY <2>2, <2>3
<1>8. QED
  BY <1>6, <1>7 DEF WellFormed

(* A tree whose root is no mapping is well formed, too.                    *)
LEMMA OtherTreesAreWellFormed ==
  WellFormed(RootSetting) /\ WellFormed(NotMapping)
<1>1. <<>> \in Seq(Name)
  OBVIOUS
<1>2. ASSUME NEW node \in Seq(Name), NEW k \in Name PROVE Append(node, k) # <<>>
  BY SMTT(30)
<1>3. ASSUME NEW node \in Seq(Name), NEW k \in Name, Append(node, k) = <<Leaf>>
      PROVE  node = <<>>
  <2>1. Len(Append(node, k)) = Len(node) + 1
    OBVIOUS
  <2>2. Len(<<Leaf>>) = 1
    OBVIOUS
  <2>3. Len(node) = 0
    BY <1>3, <2>1, <2>2
  <2>4. QED
    BY <2>3
<1>4. WellFormed(RootSetting)
  BY <1>1, <1>2, <1>3 DEF WellFormed, RootSetting
<1>5. WellFormed(NotMapping)
  BY <1>2 DEF WellFormed, NotMapping
<1>6. QED
  BY <1>4, <1>5

(* A node is a sequence of names, and so is a name by itself.              *)
LEMMA NodesAreSequences ==
  Node \subseteq Seq(Name) /\ \A k \in Name : <<k>> \in Seq(Name)
<1>1. ASSUME NEW node \in Node PROVE node \in Seq(Name)
  <2>1. PICK n \in 1..2 : node \in [1..n -> Name]
    BY DEF Node
  <2>2. n \in Nat
    OBVIOUS
  <2>3. QED
    BY <2>1, <2>2, SeqDef
<1>2. \A k \in Name : <<k>> \in Seq(Name)
  OBVIOUS
<1>3. QED
  BY <1>1, <1>2

(* A file of well-formed trees is well formed.                             *)
LEMMA FilesAreWellFormed ==
  ASSUME NEW imp, NEW trees, \A tree \in trees : WellFormed(tree),
         NEW file \in FileOf(imp, trees)
  PROVE  WellFormedFile(file)
<1>1. CASE file = [i \in {} |-> {}]
  BY <1>1 DEF WellFormedFile
<1>2. CASE \E tree \in trees : file = [i \in {imp} |-> tree]
  <2>1. PICK tree \in trees : file = [i \in {imp} |-> tree]
    BY <1>2
  <2>2. DOMAIN file = {imp} /\ file[imp] = tree
    BY <2>1
  <2>3. QED
    BY <2>2 DEF WellFormedFile
<1>3. QED
  BY <1>1, <1>2 DEF FileOf

(* A call that has returned has what the algorithm makes of its arguments. *)
DeliveredCalled ==
  call.fn = "resolveDelivered" =>
    /\ call.tgt \in TargetOf /\ call.tgts \in SUBSET TargetOf /\ call.inModule \in BOOLEAN
    /\ call.imp = TargetImp(call.tgt, LocalImportPath(call.inModule))
    /\ WellFormedFile(call.user) /\ WellFormedFile(call.project)
    /\ result = ResolveDelivered(call.tgt, call.inModule, call.user, call.project,
                                 call.tgts)

(* A call of resolveDelivered has well-formed files, and their result.     *)
LEMMA StepDelivers ==
  ASSUME Next
  PROVE  DeliveredCalled'
<1> SUFFICES ASSUME call'.fn = "resolveDelivered"
             PROVE  /\ call'.tgt \in TargetOf /\ call'.tgts \in SUBSET TargetOf
                    /\ call'.inModule \in BOOLEAN
                    /\ call'.imp = TargetImp(call'.tgt, LocalImportPath(call'.inModule))
                    /\ WellFormedFile(call'.user) /\ WellFormedFile(call'.project)
                    /\ result' = ResolveDelivered(call'.tgt, call'.inModule, call'.user,
                                                  call'.project, call'.tgts)
  BY DEF DeliveredCalled
<1> DEFINE Imp(tgt, inModule) == TargetImp(tgt, LocalImportPath(inModule))
           Tgts(tgt, other) ==
             {tgt, [spec |-> tgt.spec, name |-> other]}
             \cup {[spec |-> IF tgt.spec = "ext" THEN "sub" ELSE "ext", name |-> <<k>>] :
                     k \in Name}
           CallOf(tgt, other, inModule, user, project) ==
             [fn |-> "resolveDelivered", tgt |-> tgt, imp |-> Imp(tgt, inModule),
              inModule |-> inModule, user |-> user, project |-> project,
              tgts |-> Tgts(tgt, other)]
           Has(tgt, other, inModule, user, project) ==
             Calls(CallOf(tgt, other, inModule, user, project),
                   ResolveDelivered(tgt, inModule, user, project, Tgts(tgt, other)))
<1>1. \E tgt \in [spec : {"", "sub", "ext"}, name : Node], other \in Node,
         inModule \in BOOLEAN :
        /\ tgt.spec = "sub" => inModule
        /\ \E project \in FileOf(Imp(tgt, inModule), Trees),
              user \in FileOf(Imp(tgt, inModule), {RootSetting}) :
             Has(tgt, other, inModule, user, project)
  <2>1. CallResolveDelivered
    BY Steps
  <2>2. QED
    BY <2>1, ZenonT(40) DEF CallResolveDelivered
<1> HIDE DEF Has
<1>2. PICK tgt \in [spec : {"", "sub", "ext"}, name : Node], other \in Node,
           inModule \in BOOLEAN :
        \E project \in FileOf(Imp(tgt, inModule), Trees),
           user \in FileOf(Imp(tgt, inModule), {RootSetting}) :
          Has(tgt, other, inModule, user, project)
  <2> HIDE DEF Imp
  <2>1. QED
    BY <1>1
<1>3. PICK project \in FileOf(Imp(tgt, inModule), Trees),
           user \in FileOf(Imp(tgt, inModule), {RootSetting}) :
        Has(tgt, other, inModule, user, project)
  <2> HIDE DEF Imp
  <2>1. QED
    BY <1>2
<1>4. tgt \in TargetOf /\ Tgts(tgt, other) \in SUBSET TargetOf
  <2>1. tgt \in TargetOf /\ [spec |-> tgt.spec, name |-> other] \in TargetOf
    BY NodesAreSequences DEF TargetOf
  <2>2. ASSUME NEW k \in Name
        PROVE  [spec |-> IF tgt.spec = "ext" THEN "sub" ELSE "ext", name |-> <<k>>] \in TargetOf
    BY NodesAreSequences DEF TargetOf
  <2>3. QED
    BY <2>1, <2>2
<1>5. WellFormedFile(project) /\ WellFormedFile(user)
  <2>1. \A tree \in Trees : WellFormed(tree)
    BY TreesAreWellFormed
  <2>2. \A tree \in {RootSetting} : WellFormed(tree)
    BY OtherTreesAreWellFormed
  <2> HIDE DEF Imp
  <2>3. WellFormedFile(project)
    BY <2>1, FilesAreWellFormed
  <2>4. WellFormedFile(user)
    BY <2>2, FilesAreWellFormed
  <2>5. QED
    BY <2>3, <2>4
<1> HIDE DEF Tgts
<1>6. /\ call'.tgt = tgt /\ call'.tgts = Tgts(tgt, other) /\ call'.inModule = inModule
      /\ call'.imp = Imp(tgt, inModule) /\ call'.user = user /\ call'.project = project
      /\ result' = ResolveDelivered(tgt, inModule, user, project, Tgts(tgt, other))
  <2> HIDE DEF Imp
  <2>1. QED
    BY <1>3 DEF Has, Calls
<1>7. QED
  BY <1>4, <1>5, <1>6

(* The part of DeliversNearest about a target's block.                     *)
LEMMA DeliveredNearest ==
  ASSUME DeliveredCalled, call.fn = "resolveDelivered"
  PROVE  LET Has(file) == /\ call.imp \in DOMAIN file
                          /\ \E node \in file[call.imp].maps :
                               HasSetting(file[call.imp], call.tgts, call.tgt, node)
             outside == call.tgt.spec = "ext" \/ ~call.inModule
             level   == IF Has(call.project) THEN "project"
                        ELSE IF outside /\ Has(call.user) THEN "user" ELSE "none"
             Tree    == IF level = "project" THEN call.project ELSE call.user
         IN /\ result.level = level
            /\ level # "none" =>
                 NearestBlock(result.block, Tree[call.imp], call.tgts, call.tgt)
<1>1. /\ call.tgt \in TargetOf /\ call.tgts \in SUBSET TargetOf /\ call.inModule \in BOOLEAN
      /\ call.imp = TargetImp(call.tgt, LocalImportPath(call.inModule))
      /\ WellFormedFile(call.user) /\ WellFormedFile(call.project)
      /\ result = ResolveDelivered(call.tgt, call.inModule, call.user, call.project,
                                   call.tgts)
  BY DEF DeliveredCalled
<1>2. DeliveredIs(result, call.tgt, call.inModule, call.user, call.project, call.tgts)
  BY <1>1, NearestIsDelivered
<1>3. QED
  BY <1>1, <1>2 DEF DeliveredIs, HasBlock

-----------------------------------------------------------------------------
(* Of the trees that are no mapping or have a setting at the root, a check *)
(* reports in the project's file those that no target receives, and in the *)
(* user's none that a target receives.                                     *)
AtRoot(trees, tgts, localImp) ==
  \A imp \in DOMAIN trees :
    /\ WellFormed(trees[imp])
    /\ IF <<>> \in trees[imp].maps
       THEN \A tgt \in tgts : TargetImp(tgt, localImp) = imp =>
                                HasSetting(trees[imp], tgts, tgt, <<>>)
       ELSE trees[imp].maps = {}

ReachedAt(level, imp, inModule, user, project, tgts) ==
  \E tgt \in tgts :
    /\ TargetImp(tgt, LocalImportPath(inModule)) = imp
    /\ ResolveDelivered(tgt, inModule, user, project, tgts).level = level

ReportedAt(level, problems) ==
  {p[3] : p \in {q \in problems : q[1] \in {"malformed", "unmatched"} /\ q[2] = level}}

(* The packages reported: malformed trees, and the project's without a     *)
(* target.                                                                 *)
LEMMA Reports ==
  ASSUME NEW imps, NEW user, NEW project
  PROVE  LET problems == CheckConfigProblems(imps, user, project)
         IN /\ ReportedAt("user", problems) = Malformed(user)
            /\ ReportedAt("project", problems) =
                 Malformed(project) \cup (DOMAIN project.trees \ imps)
<1> DEFINE problems == CheckConfigProblems(imps, user, project)
           unmatched == DOMAIN project.trees \ (Malformed(project) \cup imps)
<1>1. \A q : q \in problems <=>
        \/ user.settings.tmp = "relative" /\ q = <<"tmp", "user">>
        \/ project.settings.tmp = "relative" /\ q = <<"tmp", "project">>
        \/ \E imp \in Malformed(user) : q = <<"malformed", "user", imp>>
        \/ \E imp \in Malformed(project) : q = <<"malformed", "project", imp>>
        \/ \E imp \in unmatched : q = <<"unmatched", "project", imp>>
  BY DEF CheckConfigProblems, NotAbsolute
<1>2. Malformed(project) \subseteq DOMAIN project.trees
  BY DEF Malformed
<1> HIDE DEF problems, unmatched
<1>3. ReportedAt("user", problems) = Malformed(user)
  <2>1. ASSUME NEW imp \in Malformed(user) PROVE imp \in ReportedAt("user", problems)
    <3>1. <<"malformed", "user", imp>> \in problems
      BY <1>1
    <3>2. QED
      BY <3>1 DEF ReportedAt
  <2>2. ASSUME NEW imp \in ReportedAt("user", problems) PROVE imp \in Malformed(user)
    <3>1. PICK q \in problems : /\ q[1] \in {"malformed", "unmatched"}
                                /\ q[2] = "user" /\ imp = q[3]
      BY DEF ReportedAt
    <3>2. QED
      BY <1>1, <3>1
  <2>3. QED
    BY <2>1, <2>2
<1>4. ReportedAt("project", problems) = Malformed(project) \cup unmatched
  <2>1. ASSUME NEW imp \in Malformed(project) PROVE imp \in ReportedAt("project", problems)
    <3>1. <<"malformed", "project", imp>> \in problems
      BY <1>1
    <3>2. QED
      BY <3>1 DEF ReportedAt
  <2>2. ASSUME NEW imp \in unmatched PROVE imp \in ReportedAt("project", problems)
    <3>1. <<"unmatched", "project", imp>> \in problems
      BY <1>1
    <3>2. QED
      BY <3>1 DEF ReportedAt
  <2>3. ASSUME NEW imp \in ReportedAt("project", problems)
        PROVE  imp \in Malformed(project) \cup unmatched
    <3>1. PICK q \in problems : /\ q[1] \in {"malformed", "unmatched"}
                                /\ q[2] = "project" /\ imp = q[3]
      BY DEF ReportedAt
    <3>2. QED
      BY <1>1, <3>1
  <2>4. QED
    BY <2>1, <2>2, <2>3
<1>5. QED
  BY <1>2, <1>3, <1>4 DEF problems, unmatched

(* What --check-config reports agrees with what is delivered, as long as   *)
(* every tree is no mapping or has a setting at its root: it reports the   *)
(* trees of the project's file that reach no target, and no tree that      *)
(* reaches one.                                                            *)
THEOREM CheckTellsTheSame ==
  ASSUME NEW inModule \in BOOLEAN, NEW tgts \in SUBSET TargetOf, NEW user, NEW project,
         AtRoot(user.trees, tgts, LocalImportPath(inModule)),
         AtRoot(project.trees, tgts, LocalImportPath(inModule)),
         NEW option, NEW env,
         RunCheckConfig(option, env, inModule, user, project, tgts).error = "none"
  PROVE  LET problems == RunCheckConfig(option, env, inModule, user, project, tgts).problems
         IN /\ \A imp \in DOMAIN project.trees :
                 imp \in ReportedAt("project", problems) <=>
                 ~ReachedAt("project", imp, inModule, user.trees, project.trees, tgts)
            /\ \A imp \in ReportedAt("user", problems) :
                 ~ReachedAt("user", imp, inModule, user.trees, project.trees, tgts)
<1> DEFINE localImp == LocalImportPath(inModule)
           imps == {TargetImp(tgt, localImp) : tgt \in tgts}
           res == RunCheckConfig(option, env, inModule, user, project, tgts)
           level(tgt) == ResolveDelivered(tgt, inModule, user.trees, project.trees,
                                          tgts).level
<1>1. res.problems = CheckConfigProblems(imps, user, project)
  BY DEF RunCheckConfig
<1>2. /\ ReportedAt("user", res.problems) = Malformed(user)
      /\ ReportedAt("project", res.problems) =
           Malformed(project) \cup (DOMAIN project.trees \ imps)
  BY <1>1, Reports
<1>3. WellFormedFile(user.trees) /\ WellFormedFile(project.trees)
  BY DEF AtRoot, WellFormedFile
<1>4. ASSUME NEW tgt \in tgts
      PROVE  /\ level(tgt) = "project" <=>
                  HasBlock(project.trees, TargetImp(tgt, localImp), tgts, tgt)
             /\ level(tgt) = "user" =>
                  HasBlock(user.trees, TargetImp(tgt, localImp), tgts, tgt)
  <2>1. DeliveredIs(ResolveDelivered(tgt, inModule, user.trees, project.trees, tgts),
                    tgt, inModule, user.trees, project.trees, tgts)
    BY <1>3, NearestIsDelivered
  <2>2. QED
    BY <2>1 DEF DeliveredIs
<1> HIDE DEF level, localImp
<1>5. ASSUME NEW imp \in DOMAIN project.trees
      PROVE  imp \in ReportedAt("project", res.problems) <=>
             ~ReachedAt("project", imp, inModule, user.trees, project.trees, tgts)
  <2>1. ReachedAt("project", imp, inModule, user.trees, project.trees, tgts) <=>
          \E tgt \in tgts : TargetImp(tgt, localImp) = imp /\ level(tgt) = "project"
    BY DEF ReachedAt, level, localImp
  <2>2. CASE <<>> \in project.trees[imp].maps
    <3>1. imp \notin Malformed(project)
      BY <2>2 DEF Malformed
    <3>2. \A tgt \in tgts : TargetImp(tgt, localImp) = imp =>
                              HasBlock(project.trees, imp, tgts, tgt)
      BY <2>2 DEF AtRoot, HasBlock, localImp
    <3>3. QED
      BY <1>2, <1>4, <2>1, <3>1, <3>2
  <2>3. CASE <<>> \notin project.trees[imp].maps
    <3>1. imp \in Malformed(project)
      BY <2>3 DEF Malformed
    <3>2. \A tgt \in tgts : ~HasBlock(project.trees, imp, tgts, tgt)
      BY <2>3 DEF AtRoot, HasBlock, localImp
    <3>3. QED
      BY <1>2, <1>4, <2>1, <3>1, <3>2
  <2>4. QED
    BY <2>2, <2>3
<1>6. ASSUME NEW imp \in ReportedAt("user", res.problems)
      PROVE  ~ReachedAt("user", imp, inModule, user.trees, project.trees, tgts)
  <2>1. imp \in DOMAIN user.trees /\ <<>> \notin user.trees[imp].maps
    BY <1>2 DEF Malformed
  <2>2. \A tgt \in tgts : ~HasBlock(user.trees, imp, tgts, tgt)
    BY <2>1 DEF AtRoot, HasBlock, localImp
  <2>3. ReachedAt("user", imp, inModule, user.trees, project.trees, tgts) <=>
          \E tgt \in tgts : TargetImp(tgt, localImp) = imp /\ level(tgt) = "user"
    BY DEF ReachedAt, level, localImp
  <2>4. QED
    BY <1>4, <2>2, <2>3
<1> HIDE DEF res
<1>7. QED
  BY <1>5, <1>6 DEF res

(* A call that has returned has what the check makes of two such files.    *)
CheckedCalled ==
  call.fn = "runCheckConfig" =>
    /\ call.inModule \in BOOLEAN /\ call.tgts \in SUBSET TargetOf
    /\ AtRoot(call.user.trees, call.tgts, LocalImportPath(call.inModule))
    /\ AtRoot(call.project.trees, call.tgts, LocalImportPath(call.inModule))
    /\ \E option : result = RunCheckConfig(option, "unset", call.inModule, call.user,
                                           call.project, call.tgts)

(* The trees of the inputs are no mapping, or have a setting at the root.  *)
LEMMA TreesAtRoot ==
  ASSUME NEW tgts \in SUBSET TargetOf,
         \A tgt \in tgts : \E k \in Name \ {Leaf} : tgt.name = <<k>>,
         NEW file \in YamlFiles, NEW localImp
  PROVE  AtRoot(file.trees, tgts, localImp)
<1>1. \A imp \in DOMAIN file.trees : file.trees[imp] \in {RootSetting, NotMapping}
  <2>1. file.trees \in UNION {[imps -> {RootSetting, NotMapping}] :
                                imps \in SUBSET {"main", "ext"}}
    BY DEF YamlFiles, YamlFile
  <2>2. QED
    BY <2>1
<1>2. ASSUME NEW tgt \in tgts PROVE HasSetting(RootSetting, tgts, tgt, <<>>)
  <2>1. RootSetting.maps = {<<>>} /\ RootSetting.leaves = {<<Leaf>>}
    BY DEF RootSetting
  <2>2. IsPrefix(<<>>, tgt.name)
    <3>1. tgt.name \in Seq(Name)
      BY DEF TargetOf
    <3>2. <<>> \in Seq(Name) /\ Len(<<>>) = 0
      OBVIOUS
    <3>3. SubSeq(<<>>, 1, 0) = <<>> /\ SubSeq(tgt.name, 1, 0) = <<>>
      BY SubSeqEmpty
    <3>4. QED
      BY <3>1, <3>2, <3>3 DEF IsPrefix
  <2>3. Append(<<>>, Leaf) = <<Leaf>>
    OBVIOUS
  <2>4. ASSUME NEW t \in tgts PROVE ~IsPrefix(<<Leaf>>, t.name)
    <3>1. PICK k \in Name \ {Leaf} : t.name = <<k>>
      OBVIOUS
    <3>2. <<Leaf>> \in Seq(Name) /\ <<k>> \in Seq(Name) /\ Len(<<Leaf>>) = 1
      BY InputsAssumption
    <3>3. Len(<<k>>) = 1 /\ SubSeq(<<k>>, 1, 1) = <<k>> /\ SubSeq(<<Leaf>>, 1, 1) = <<Leaf>>
      <4>1. Len(<<k>>) = 1 /\ Len(<<Leaf>>) = 1
        OBVIOUS
      <4>2. /\ SubSeq(<<k>>, 1, Len(<<k>>)) = <<k>>
            /\ SubSeq(<<Leaf>>, 1, Len(<<Leaf>>)) = <<Leaf>>
        BY <3>2, SubSeqFull
      <4>3. QED
        BY <4>1, <4>2
    <3>4. <<k>> # <<Leaf>>
      OBVIOUS
    <3>5. ~IsPrefix(<<Leaf>>, <<k>>)
      BY <3>2, <3>3, <3>4 DEF IsPrefix
    <3>6. QED
      BY <3>1, <3>5
  <2>5. ~Nested(tgts, tgt, <<Leaf>>)
    BY <2>4 DEF Nested
  <2>6. QED
    BY <2>1, <2>2, <2>3, <2>5, InputsAssumption DEF HasSetting
<1>3. <<>> \in RootSetting.maps /\ NotMapping.maps = {}
  BY DEF RootSetting, NotMapping
<1>4. QED
  BY <1>1, <1>2, <1>3, OtherTreesAreWellFormed DEF AtRoot

(* A call of runCheckConfig has such trees, and their result.              *)
LEMMA StepChecks ==
  ASSUME Next
  PROVE  CheckedCalled'
<1> SUFFICES ASSUME call'.fn = "runCheckConfig"
             PROVE  /\ call'.inModule \in BOOLEAN /\ call'.tgts \in SUBSET TargetOf
                    /\ AtRoot(call'.user.trees, call'.tgts, LocalImportPath(call'.inModule))
                    /\ AtRoot(call'.project.trees, call'.tgts,
                              LocalImportPath(call'.inModule))
                    /\ \E option : result' =
                         RunCheckConfig(option, "unset", call'.inModule, call'.user,
                                        call'.project, call'.tgts)
  BY DEF CheckedCalled
<1>1. PICK tmp \in {"unset", "absolute"}, inModule \in BOOLEAN,
           user \in YamlFiles, project \in YamlFiles, specs \in SUBSET {"", "ext"} :
        LET option == [mode |-> "check", timeout |-> "unset", tmp |-> tmp]
            tgts == [spec : specs, name : {<<k>> : k \in Name \ {Leaf}}]
        IN /\ user.settings.timeout = "unset"
           /\ Calls([fn |-> "runCheckConfig", inModule |-> inModule, user |-> user,
                     project |-> project, tgts |-> tgts],
                    RunCheckConfig(option, "unset", inModule, user, project, tgts))
  <2>1. CallCheckConfig
    BY Steps
  <2>2. QED
    BY <2>1, ZenonT(40) DEF CallCheckConfig
<1> DEFINE option == [mode |-> "check", timeout |-> "unset", tmp |-> tmp]
           tgts == [spec : specs, name : {<<k>> : k \in Name \ {Leaf}}]
<1>2. /\ tgts \in SUBSET TargetOf
      /\ \A tgt \in tgts : \E k \in Name \ {Leaf} : tgt.name = <<k>>
  <2>1. ASSUME NEW tgt \in tgts
        PROVE  tgt \in TargetOf /\ \E k \in Name \ {Leaf} : tgt.name = <<k>>
    <3>1. /\ tgt = [spec |-> tgt.spec, name |-> tgt.name]
          /\ tgt.spec \in specs /\ tgt.name \in {<<k>> : k \in Name \ {Leaf}}
      OBVIOUS
    <3>2. PICK k \in Name \ {Leaf} : tgt.name = <<k>>
      BY <3>1
    <3>3. tgt.name \in Seq(Name)
      BY <3>2, NodesAreSequences
    <3>4. tgt \in TargetOf
      BY <3>1, <3>3 DEF TargetOf
    <3>5. QED
      BY <3>2, <3>4
  <2>2. QED
    BY <2>1
<1> HIDE DEF tgts, option
<1>3. /\ call'.user = user /\ call'.project = project /\ call'.tgts = tgts
      /\ call'.inModule = inModule
      /\ result' = RunCheckConfig(option, "unset", inModule, user, project, tgts)
  BY <1>1 DEF Calls, tgts, option
<1>4. /\ AtRoot(user.trees, tgts, LocalImportPath(inModule))
      /\ AtRoot(project.trees, tgts, LocalImportPath(inModule))
  BY <1>2, TreesAtRoot
<1>5. QED
  BY <1>2, <1>3, <1>4

(* Every target receives the nearest block of the first file that has one, *)
(* and a check reports what no target receives.                            *)
THEOREM Nearest == Spec => []DeliversNearest
<1>1. Init => DeliveredCalled /\ CheckedCalled
  BY DEF Init, None, DeliveredCalled, CheckedCalled
<1>2. DeliveredCalled /\ CheckedCalled /\ [Next]_vars => (DeliveredCalled /\ CheckedCalled)'
  <2>1. CASE Next
    BY <2>1, StepDelivers, StepChecks
  <2>2. CASE DeliveredCalled /\ CheckedCalled /\ UNCHANGED vars
    BY <2>2 DEF vars, DeliveredCalled, CheckedCalled
  <2>3. QED
    BY <2>1, <2>2
<1>3. DeliveredCalled /\ CheckedCalled => DeliversNearest
  <2> SUFFICES ASSUME DeliveredCalled, CheckedCalled PROVE DeliversNearest
    OBVIOUS
  <2>1. CASE call.fn = "resolveDelivered"
    <3>1. call.fn # "runCheckConfig"
      BY <2>1
    <3>2. QED
      BY <2>1, <3>1, DeliveredNearest DEF DeliversNearest
  <2>2. ASSUME call.fn = "runCheckConfig", result.error = "none"
        PROVE  LET Reached(level, imp) ==
                     \E tgt \in call.tgts :
                       /\ TargetImp(tgt, LocalImportPath(call.inModule)) = imp
                       /\ ResolveDelivered(tgt, call.inModule, call.user.trees,
                                           call.project.trees, call.tgts).level = level
                   Reported(level) == {p[3] : p \in {q \in result.problems :
                                         q[1] \in {"malformed", "unmatched"}
                                         /\ q[2] = level}}
               IN /\ \A imp \in DOMAIN call.project.trees :
                       imp \in Reported("project") <=> ~Reached("project", imp)
                  /\ \A imp \in Reported("user") : ~Reached("user", imp)
    <3>1. PICK option : result = RunCheckConfig(option, "unset", call.inModule, call.user,
                                                call.project, call.tgts)
      BY <2>2 DEF CheckedCalled
    <3>2. /\ call.inModule \in BOOLEAN /\ call.tgts \in SUBSET TargetOf
          /\ AtRoot(call.user.trees, call.tgts, LocalImportPath(call.inModule))
          /\ AtRoot(call.project.trees, call.tgts, LocalImportPath(call.inModule))
      BY <2>2 DEF CheckedCalled
    <3>3. /\ \A imp \in DOMAIN call.project.trees :
               imp \in ReportedAt("project", result.problems) <=>
               ~ReachedAt("project", imp, call.inModule, call.user.trees,
                          call.project.trees, call.tgts)
          /\ \A imp \in ReportedAt("user", result.problems) :
               ~ReachedAt("user", imp, call.inModule, call.user.trees,
                          call.project.trees, call.tgts)
      BY <2>2, <3>1, <3>2, CheckTellsTheSame
    <3>4. QED
      BY <3>3 DEF ReachedAt, ReportedAt
  <2>3. QED
    BY <2>1, <2>2 DEF DeliversNearest
<1>4. QED
  BY <1>1, <1>2, <1>3, PTL DEF Spec

-----------------------------------------------------------------------------
(* Types each based on the one before, and the trail to a type: such types *)
(* from a root on.                                                         *)
Chain(pkg, s) ==
  s \in Seq(Type) /\ Len(s) > 0 /\ \A i \in 2..Len(s) : pkg.base[s[i]] = s[i - 1]
TrailTo(pkg, t, s) == Chain(pkg, s) /\ pkg.base[s[1]] = "root" /\ s[Len(s)] = t

(* Chains with one end are the same from the end on.                       *)
LEMMA SameTail ==
  ASSUME NEW pkg, NEW s, Chain(pkg, s), NEW c, Chain(pkg, c), s[Len(s)] = c[Len(c)],
         NEW k \in Nat, k < Len(s), k < Len(c)
  PROVE  s[Len(s) - k] = c[Len(c) - k]
<1> DEFINE n == Len(s)
           m == Len(c)
           P == {i \in 0..k : s[n - i] = c[m - i]}
<1>1. n \in Nat /\ m \in Nat
  BY DEF Chain
<1>2. /\ \A i \in 2..n : pkg.base[s[i]] = s[i - 1]
      /\ \A i \in 2..m : pkg.base[c[i]] = c[i - 1]
  BY DEF Chain
<1>3. k < n /\ k < m /\ s[n] = c[m]
  OBVIOUS
<1> HIDE DEF n, m
<1>4. 0 \in P
  BY <1>1, <1>3
<1>5. ASSUME NEW i \in 1..k, i - 1 \in P PROVE i \in P
  <2>1. s[n - (i - 1)] = c[m - (i - 1)]
    BY <1>5
  <2>2. n - (i - 1) \in 2..n /\ m - (i - 1) \in 2..m
    BY <1>1, <1>3
  <2>3. /\ n - (i - 1) - 1 = n - i /\ m - (i - 1) - 1 = m - i
    BY <1>1
  <2>4. s[n - i] = c[m - i]
    BY <1>2, <2>1, <2>2, <2>3
  <2>5. QED
    BY <2>4
<1>6. 0..k \subseteq P
  <2> HIDE DEF P
  <2>1. QED
    BY <1>4, <1>5, Induct
<1>7. QED
  BY <1>6 DEF n, m

(* A chain to a type that has a trail, based on something that is no root, *)
(* is the end of the trail; so a type has one trail.                       *)
LEMMA RootStartsTrail ==
  ASSUME NEW pkg, NEW s, NEW t, TrailTo(pkg, t, s), NEW c, Chain(pkg, c), c[Len(c)] = t
  PROVE  /\ Len(c) <= Len(s)
         /\ pkg.base[c[1]] # "root" => Len(c) < Len(s)
<1> DEFINE n == Len(s)
           m == Len(c)
<1>1. /\ n \in Nat /\ m \in Nat /\ n > 0 /\ m > 0
      /\ \A i \in 2..m : pkg.base[c[i]] = c[i - 1] /\ c[i - 1] \in Type
  BY DEF TrailTo, Chain
<1>2. ASSUME NEW k \in Nat, k < n, k < m PROVE s[n - k] = c[m - k]
  BY <1>2, SameTail DEF TrailTo
<1>3. pkg.base[s[1]] = "root"
  BY DEF TrailTo
<1> HIDE DEF n, m
<1>4. ASSUME m > n PROVE FALSE
  <2>1. s[1] = c[m - (n - 1)]
    <3>1. n - 1 \in Nat /\ n - 1 < n /\ n - 1 < m /\ n - (n - 1) = 1
      BY <1>1, <1>4
    <3>2. s[n - (n - 1)] = c[m - (n - 1)]
      BY <1>2, <3>1
    <3>3. QED
      BY <3>1, <3>2
  <2>2. m - (n - 1) \in 2..m
    BY <1>1, <1>4
  <2>3. pkg.base[s[1]] \in Type
    BY <1>1, <2>1, <2>2
  <2>4. QED
    BY <1>3, <2>3, TypeAssumption
<1>5. ASSUME m = n PROVE s[1] = c[1]
  <2>1. n - 1 \in Nat /\ n - 1 < n /\ n - 1 < m /\ n - (n - 1) = 1
    BY <1>1, <1>5
  <2>2. s[n - (n - 1)] = c[m - (n - 1)]
    BY <1>2, <2>1
  <2>3. QED
    BY <1>5, <2>1, <2>2
<1>6. QED
  BY <1>1, <1>3, <1>4, <1>5 DEF n, m

(* A type has at most one trail.                                           *)
LEMMA OneTrail ==
  ASSUME NEW pkg, NEW t, NEW s, TrailTo(pkg, t, s), NEW c, TrailTo(pkg, t, c)
  PROVE  s = c
<1> DEFINE n == Len(s)
<1>1. Len(s) = Len(c)
  <2>1. Len(s) \in Nat /\ Len(c) \in Nat
    BY DEF TrailTo, Chain
  <2>2. Len(s) <= Len(c) /\ Len(c) <= Len(s)
    BY RootStartsTrail DEF TrailTo
  <2>3. QED
    BY <2>1, <2>2
<1>2. s \in Seq(Type) /\ c \in Seq(Type) /\ n \in Nat
  BY DEF TrailTo, Chain
<1>3. ASSUME NEW k \in Nat, k < n PROVE s[n - k] = c[n - k]
  BY <1>1, <1>3, SameTail DEF TrailTo
<1>4. ASSUME NEW i \in 1..n PROVE s[i] = c[i]
  <2>1. n - i \in Nat /\ n - i < n /\ n - (n - i) = i
    BY <1>2
  <2> HIDE DEF n
  <2>2. QED
    BY <1>3, <2>1
<1>5. QED
  BY <1>1, <1>2, <1>4, SeqEqual

(* The beginning of a trail is the trail of the type it ends with.         *)
LEMMA TrailOfPrefix ==
  ASSUME NEW pkg, NEW t, NEW s, TrailTo(pkg, t, s), NEW i \in 1..Len(s)
  PROVE  TrailTo(pkg, s[i], SubSeq(s, 1, i)) /\ Len(SubSeq(s, 1, i)) = i
<1>1. s \in Seq(Type) /\ Len(s) \in Nat /\ pkg.base[s[1]] = "root"
      /\ \A j \in 2..Len(s) : pkg.base[s[j]] = s[j - 1]
  BY DEF TrailTo, Chain
<1> DEFINE p == SubSeq(s, 1, i)
<1>2. p \in Seq(Type) /\ Len(p) = i /\ \A j \in 1..i : p[j] = s[j]
  BY <1>1
<1> HIDE DEF p
<1>3. QED
  BY <1>1, <1>2 DEF TrailTo, Chain, p

(* No type is twice on a trail.                                            *)
LEMMA TrailHasNoCycle ==
  ASSUME NEW pkg, NEW t, NEW s, TrailTo(pkg, t, s), NEW i \in 1..Len(s),
         NEW j \in 1..Len(s), s[i] = s[j]
  PROVE  i = j
<1>1. /\ TrailTo(pkg, s[i], SubSeq(s, 1, i)) /\ Len(SubSeq(s, 1, i)) = i
      /\ TrailTo(pkg, s[j], SubSeq(s, 1, j)) /\ Len(SubSeq(s, 1, j)) = j
  BY TrailOfPrefix
<1>2. SubSeq(s, 1, i) = SubSeq(s, 1, j)
  BY <1>1, OneTrail
<1>3. QED
  BY <1>1, <1>2

(* A trail and a chain that starts on its last type make a trail.          *)
LEMMA JoinedTrail ==
  ASSUME NEW pkg, NEW r, NEW s, TrailTo(pkg, r, s), NEW c, Chain(pkg, c),
         pkg.base[c[1]] = r
  PROVE  TrailTo(pkg, c[Len(c)], s \o c)
<1>1. /\ s \in Seq(Type) /\ Len(s) \in Nat /\ Len(s) > 0 /\ pkg.base[s[1]] = "root"
      /\ s[Len(s)] = r /\ \A j \in 2..Len(s) : pkg.base[s[j]] = s[j - 1]
  BY DEF TrailTo, Chain
<1>2. /\ c \in Seq(Type) /\ Len(c) \in Nat /\ Len(c) > 0
      /\ \A j \in 2..Len(c) : pkg.base[c[j]] = c[j - 1]
  BY DEF Chain
<1> DEFINE p == s \o c
           n == Len(s)
           m == Len(c)
<1>3. /\ p \in Seq(Type) /\ Len(p) = n + m
      /\ \A j \in 1..n : p[j] = s[j]
      /\ \A j \in 1..m : p[n + j] = c[j]
  BY <1>1, <1>2
<1> HIDE DEF p
<1>4. ASSUME NEW j \in 2..(n + m) PROVE pkg.base[p[j]] = p[j - 1]
  <2>1. CASE j <= n
    BY <1>1, <1>3, <2>1
  <2>2. CASE j = n + 1
    <3>1. p[j] = c[1] /\ p[j - 1] = s[n]
      BY <1>1, <1>2, <1>3, <2>2
    <3>2. QED
      BY <1>1, <3>1
  <2>3. CASE j > n + 1
    <3> DEFINE l == j - n
    <3>1. l \in 2..m /\ j = n + l /\ j - 1 = n + (l - 1) /\ l - 1 \in 1..m /\ l \in 1..m
      BY <1>1, <1>2, <2>3
    <3> HIDE DEF l
    <3>2. p[j] = c[l] /\ p[j - 1] = c[l - 1]
      BY <1>3, <3>1
    <3>3. QED
      BY <1>2, <3>1, <3>2
  <2>4. QED
    BY <1>1, <1>2, <2>1, <2>2, <2>3
<1>5. p[1] = s[1] /\ p[n + m] = c[m]
  BY <1>1, <1>2, <1>3
<1>6. QED
  BY <1>1, <1>2, <1>3, <1>4, <1>5 DEF TrailTo, Chain, p

(* The declared trails are those of types, each one of its last type.      *)
LEMMA DeclaredTrails ==
  ASSUME NEW pkg
  PROVE  /\ \A s \in Trails(pkg) : TrailTo(pkg, Last(s), s)
         /\ \A t, s : TrailTo(pkg, t, s) => s \in Trails(pkg) /\ Last(s) = t
<1> DEFINE N == Cardinality(Type)
<1>1. N \in Nat
  BY TypeAssumption, FS_CardinalityType
<1>2. ASSUME NEW s \in Trails(pkg) PROVE TrailTo(pkg, Last(s), s)
  <2>1. PICK n \in 1..N : s \in [1..n -> Type]
    BY DEF Trails
  <2>2. n \in Nat /\ n > 0
    BY <1>1
  <2>3. s \in Seq(Type) /\ Len(s) = n
    BY <2>1, <2>2, SeqDef
  <2>4. pkg.base[s[1]] = "root" /\ \A i \in 2..Len(s) : pkg.base[s[i]] = s[i - 1]
    BY DEF Trails
  <2>5. QED
    BY <2>2, <2>3, <2>4 DEF TrailTo, Chain, Last
<1>3. ASSUME NEW t, NEW s, TrailTo(pkg, t, s) PROVE s \in Trails(pkg) /\ Last(s) = t
  <2> DEFINE n == Len(s)
  <2>1. /\ s \in Seq(Type) /\ n \in Nat /\ n > 0 /\ pkg.base[s[1]] = "root"
        /\ s[n] = t /\ \A j \in 2..n : pkg.base[s[j]] = s[j - 1]
    BY <1>3 DEF TrailTo, Chain
  <2>2. s \in [1..n -> Type]
    BY <2>1
  <2>3. \A i, j \in 1..n : s[i] = s[j] => i = j
    BY <1>3, TrailHasNoCycle
  <2>4. IsFiniteSet(1..n) /\ Cardinality(1..n) = n
    BY <2>1, FS_Interval
  <2> HIDE DEF n, N
  <2>5. ~(N < n)
    <3>1. SUFFICES ASSUME N < n PROVE FALSE
      OBVIOUS
    <3>2. Cardinality(Type) < Cardinality(1..n) /\ IsFiniteSet(Type)
      BY <2>4, <3>1, TypeAssumption DEF N
    <3> DEFINE I == 1..n
    <3>3. s \in [I -> Type] /\ IsFiniteSet(I) /\ Cardinality(Type) < Cardinality(I)
      BY <2>2, <2>4, <3>2
    <3> HIDE DEF I
    <3>4. \E i, j \in I : i # j /\ s[i] = s[j]
      BY <3>2, <3>3, FS_PigeonHole
    <3>5. QED
      BY <2>3, <3>4 DEF I
  <2>6. n \in 1..N
    BY <1>1, <2>1, <2>5
  <2>7. QED
    BY <2>1, <2>2, <2>6 DEF Trails, Last, n, N
<1>4. QED
  BY <1>2, <1>3

-----------------------------------------------------------------------------
(* What isNS makes of a type, given what it makes of the types before it.  *)
Crumbs == {NotNamespace} \cup {Complete(s) : s \in Seq(Type)}
          \cup {Incomplete(e[1], e[2]) : e \in Type \X Seq(Type)}
CrumbsFrom(f, pkg, prev, t) ==
  IF pkg.base[t] = "root" THEN Complete(<<t>>)
  ELSE IF pkg.base[t] = "none" THEN NotNamespace
  ELSE IF pkg.file[pkg.base[t]] # pkg.file[t] THEN Incomplete(pkg.base[t], <<t>>)
  ELSE IF pkg.base[t] \in prev THEN NotNamespace
  ELSE Extend(f[prev \cup {pkg.base[t]}][pkg.base[t]], t)
IsTable(f, pkg) ==
  f = [prev \in SUBSET Type |-> [t \in Type |-> CrumbsFrom(f, pkg, prev, t)]]

(* One type more is seen, one less is left to see.                         *)
LEMMA LeftToSee ==
  ASSUME NEW prev \in SUBSET Type
  PROVE  /\ Cardinality(Type \ prev) \in Nat
         /\ Cardinality(Type \ prev) <= Cardinality(Type) /\ Cardinality(Type) \in Nat
         /\ \A b \in Type \ prev :
              Cardinality(Type \ (prev \cup {b})) = Cardinality(Type \ prev) - 1
<1>1. IsFiniteSet(Type) /\ Cardinality(Type) \in Nat
  BY TypeAssumption, FS_CardinalityType
<1>2. IsFiniteSet(Type \ prev) /\ Cardinality(Type \ prev) <= Cardinality(Type)
  BY <1>1, FS_Subset
<1>3. Cardinality(Type \ prev) \in Nat
  BY <1>2, FS_CardinalityType
<1>4. ASSUME NEW b \in Type \ prev
      PROVE  Cardinality(Type \ (prev \cup {b})) = Cardinality(Type \ prev) - 1
  <2>1. Type \ (prev \cup {b}) = (Type \ prev) \ {b}
    OBVIOUS
  <2>2. QED
    BY <1>2, <2>1, FS_RemoveElement, SMTT(30)
<1>5. QED
  BY <1>1, <1>2, <1>3, <1>4

(* Breadcrumbs extended by a type are breadcrumbs.                         *)
LEMMA CrumbsExtended ==
  ASSUME NEW c \in Crumbs, NEW t \in Type
  PROVE  Extend(c, t) \in Crumbs
<1>1. CASE c = NotNamespace
  BY <1>1 DEF Extend, NotNamespace
<1>2. ASSUME NEW s \in Seq(Type), c = Complete(s) PROVE Extend(c, t) \in Crumbs
  <2>1. Extend(c, t) = Complete(Append(s, t)) /\ Append(s, t) \in Seq(Type)
    BY <1>2 DEF Extend, Complete
  <2>2. QED
    BY <2>1 DEF Crumbs
<1>3. ASSUME NEW r \in Type, NEW s \in Seq(Type), c = Incomplete(r, s)
      PROVE  Extend(c, t) \in Crumbs
  <2>1. Append(s, t) \in Seq(Type)
    OBVIOUS
  <2>2. \A x : [Incomplete(r, s) EXCEPT !.trail = x] = Incomplete(r, x)
    BY DEF Incomplete
  <2>3. c.kind # "none" /\ c.trail = s
    BY <1>3 DEF Incomplete
  <2>4. Extend(c, t) = [Incomplete(r, s) EXCEPT !.trail = Append(c.trail, t)]
    BY <1>3, <2>3, Zenon DEF Extend
  <2>5. Extend(c, t) = Incomplete(r, Append(s, t))
    BY <2>2, <2>3, <2>4
  <2> DEFINE e == <<r, Append(s, t)>>
  <2>6. e \in Type \X Seq(Type) /\ e[1] = r /\ e[2] = Append(s, t)
    BY <2>1
  <2> HIDE DEF e
  <2>7. QED
    BY <2>5, <2>6 DEF Crumbs
<1>4. QED
  BY <1>1, <1>2, <1>3 DEF Crumbs

(* One turn of the recursion gives breadcrumbs if the next one does.       *)
LEMMA CrumbsTyped ==
  ASSUME NEW pkg \in Package, NEW f, NEW prev \in SUBSET Type, NEW t \in Type,
         pkg.base[t] \in Type \ prev => f[prev \cup {pkg.base[t]}][pkg.base[t]] \in Crumbs
  PROVE  CrumbsFrom(f, pkg, prev, t) \in Crumbs
<1> DEFINE b == pkg.base[t]
           c == f[prev \cup {b}][b]
<1>1. b \in Type \cup {"root", "none"}
  BY DEF Package
<1>2. <<t>> \in Seq(Type)
  OBVIOUS
<1>3. NotNamespace \in Crumbs /\ Complete(<<t>>) \in Crumbs
  BY <1>2 DEF Crumbs
<1>4. ASSUME b \in Type PROVE Incomplete(b, <<t>>) \in Crumbs
  <2> DEFINE e == <<b, <<t>>>>
  <2>1. e \in Type \X Seq(Type) /\ e[1] = b /\ e[2] = <<t>>
    BY <1>2, <1>4
  <2> HIDE DEF e, b
  <2>2. QED
    BY <2>1 DEF Crumbs
<1>5. b \in Type \ prev => Extend(c, t) \in Crumbs
  BY CrumbsExtended
<1>6. CrumbsFrom(f, pkg, prev, t) =
        IF b = "root" THEN Complete(<<t>>)
        ELSE IF b = "none" THEN NotNamespace
        ELSE IF pkg.file[b] # pkg.file[t] THEN Incomplete(b, <<t>>)
        ELSE IF b \in prev THEN NotNamespace
        ELSE Extend(c, t)
  BY DEF CrumbsFrom
<1> HIDE DEF b, c
<1>7. QED
  BY <1>1, <1>3, <1>4, <1>5, <1>6

(* isNS is defined: it ends, because a type is never seen twice.           *)
LEMMA Tables ==
  ASSUME NEW pkg \in Package
  PROVE  \E f : IsTable(f, pkg)
<1> DEFINE N == Cardinality(Type) + 1
           S == [SUBSET Type -> [Type -> Crumbs]]
           start == [prev \in SUBSET Type |-> [t \in Type |-> NotNamespace]]
           Next1(f) == [prev \in SUBSET Type |->
                          [t \in Type |-> CrumbsFrom(f, pkg, prev, t)]]
           step == [e \in (1..(N + 1)) \X S |-> Next1(e[2])]
<1>1. N \in Nat /\ \A prev \in SUBSET Type : Cardinality(Type \ prev) < N
  <2>1. Cardinality(Type) \in Nat
    BY TypeAssumption, FS_CardinalityType
  <2>2. ASSUME NEW prev \in SUBSET Type PROVE Cardinality(Type \ prev) < N
    BY LeftToSee
  <2>3. QED
    BY <2>1, <2>2
<1>2. start \in S
  BY DEF Crumbs
<1>3. ASSUME NEW f \in S PROVE Next1(f) \in S
  <2>1. ASSUME NEW prev \in SUBSET Type, NEW t \in Type
        PROVE  CrumbsFrom(f, pkg, prev, t) \in Crumbs
    <3>1. pkg.base[t] \in Type \ prev =>
            f[prev \cup {pkg.base[t]}][pkg.base[t]] \in Crumbs
      OBVIOUS
    <3>2. QED
      BY <3>1, CrumbsTyped
  <2>2. QED
    BY <2>1
<1> HIDE DEF S, start, Next1
<1>4. step \in [(1..(N + 1)) \X S -> S]
  BY <1>3
<1>5. \A i \in 1..(N + 1), f \in S : step[<<i, f>>] = Next1(f)
  OBVIOUS
<1> HIDE DEF step, N
<1>6. PICK h : IsRecursive(h, N + 1, S, start, step)
  <2>1. N + 1 \in Nat
    BY <1>1
  <2>2. QED
    BY <1>2, <1>4, <2>1, Recursion
<1>7. \A i \in 1..(N + 1) : h[i] = Next1(h[i - 1])
  <2>1. \A i \in 1..(N + 1) : i - 1 \in 0..(N + 1)
    BY <1>1
  <2>2. QED
    BY <1>5, <1>6, <2>1 DEF IsRecursive
<1> DEFINE Agree(k) == \A prev \in SUBSET Type, t \in Type :
                         Cardinality(Type \ prev) < k => h[k][prev][t] = h[k + 1][prev][t]
           P == {k \in 0..N : Agree(k)}
<1>8. 0 \in P
  <2>1. \A prev \in SUBSET Type : ~(Cardinality(Type \ prev) < 0)
    BY LeftToSee
  <2>2. QED
    BY <1>1, <2>1
<1>9. ASSUME NEW k \in 1..N, k - 1 \in P PROVE k \in P
  <2>1. k \in 1..(N + 1) /\ k + 1 \in 1..(N + 1) /\ k + 1 - 1 = k /\ k - 1 + 1 = k
    BY <1>1
  <2>2. h[k] = Next1(h[k - 1]) /\ h[k + 1] = Next1(h[k])
    BY <1>7, <2>1
  <2>3. ASSUME NEW prev \in SUBSET Type, NEW t \in Type, Cardinality(Type \ prev) < k
        PROVE  h[k][prev][t] = h[k + 1][prev][t]
    <3>1. /\ h[k][prev][t] = CrumbsFrom(h[k - 1], pkg, prev, t)
          /\ h[k + 1][prev][t] = CrumbsFrom(h[k], pkg, prev, t)
      BY <2>2 DEF Next1
    <3> DEFINE b == pkg.base[t]
               more == prev \cup {b}
    <3>2. ASSUME b \in Type \ prev PROVE h[k - 1][more][b] = h[k][more][b]
      <4>1. Cardinality(Type \ more) < k - 1
        <5>1. /\ Cardinality(Type \ prev) \in Nat
              /\ Cardinality(Type \ more) = Cardinality(Type \ prev) - 1
          BY <3>2, LeftToSee
        <5>2. QED
          BY <2>3, <5>1
      <4>2. Agree(k - 1) /\ more \in SUBSET Type /\ b \in Type
        BY <1>9, <3>2
      <4> HIDE DEF more, b
      <4>3. QED
        BY <2>1, <4>1, <4>2
    <3>3. b \in Type \cup {"root", "none"}
      BY DEF Package
    <3>4. CrumbsFrom(h[k - 1], pkg, prev, t) = CrumbsFrom(h[k], pkg, prev, t)
      <4>1. \A f : CrumbsFrom(f, pkg, prev, t) =
              IF b = "root" THEN Complete(<<t>>)
              ELSE IF b = "none" THEN NotNamespace
              ELSE IF pkg.file[b] # pkg.file[t] THEN Incomplete(b, <<t>>)
              ELSE IF b \in prev THEN NotNamespace
              ELSE Extend(f[more][b], t)
        BY DEF CrumbsFrom
      <4> HIDE DEF b, more
      <4>2. QED
        BY <3>2, <3>3, <4>1
    <3>5. QED
      BY <3>1, <3>4
  <2>4. QED
    BY <2>3
<1>10. N \in P
  <2> HIDE DEF P
  <2>1. 0..N \subseteq P
    BY <1>1, <1>8, <1>9, Induct
  <2>2. QED
    BY <1>1, <2>1
<1>11. h[N + 1] = Next1(h[N]) /\ h[N] \in S
  <2>1. N + 1 \in 1..(N + 1) /\ N + 1 - 1 = N /\ N \in 0..(N + 1)
    BY <1>1
  <2>2. QED
    BY <1>6, <1>7, <2>1 DEF IsRecursive
<1>12. \A prev \in SUBSET Type, t \in Type : h[N][prev][t] = h[N + 1][prev][t]
  BY <1>1, <1>10
<1> HIDE DEF P
<1> DEFINE f == h[N]
<1>13. f \in S /\ \A prev \in SUBSET Type, t \in Type :
                    f[prev][t] = CrumbsFrom(f, pkg, prev, t)
  <2>1. \A prev \in SUBSET Type, t \in Type :
          h[N + 1][prev][t] = CrumbsFrom(h[N], pkg, prev, t)
    BY <1>11 DEF Next1
  <2> HIDE DEF Next1
  <2>2. QED
    BY <1>11, <1>12, <2>1
<1> HIDE DEF f
<1>14. f = [prev \in SUBSET Type |-> [t \in Type |-> CrumbsFrom(f, pkg, prev, t)]]
  <2>1. f = [prev \in SUBSET Type |-> f[prev]]
    BY <1>13 DEF S
  <2>2. \A prev \in SUBSET Type : f[prev] = [t \in Type |-> f[prev][t]]
    BY <1>13 DEF S
  <2>3. \A prev \in SUBSET Type : f[prev] = [t \in Type |-> CrumbsFrom(f, pkg, prev, t)]
    BY <1>13, <2>2
  <2>4. QED
    BY <2>1, <2>3
<1>15. QED
  BY <1>14 DEF IsTable

(* A chain of one type, one type more, and one type less.                  *)
LEMMA ChainOfOne ==
  ASSUME NEW pkg, NEW t \in Type
  PROVE  /\ Chain(pkg, <<t>>) /\ Len(<<t>>) = 1 /\ <<t>>[1] = t
         /\ pkg.base[t] = "root" => TrailTo(pkg, t, <<t>>)
<1>1. <<t>> \in Seq(Type) /\ Len(<<t>>) = 1 /\ <<t>>[1] = t
  OBVIOUS
<1>2. \A i : i \notin 2..1
  OBVIOUS
<1>3. QED
  BY <1>1, <1>2 DEF Chain, TrailTo

(* A chain goes on to a type based on its last one, and a trail does.      *)
LEMMA ChainExtended ==
  ASSUME NEW pkg, NEW t \in Type, NEW c, Chain(pkg, c), pkg.base[t] = c[Len(c)]
  PROVE  LET d == Append(c, t)
         IN /\ Chain(pkg, d) /\ d[Len(d)] = t /\ d[1] = c[1]
            /\ TrailTo(pkg, c[Len(c)], c) => TrailTo(pkg, t, d)
<1> DEFINE d == Append(c, t)
           n == Len(c)
<1>1. /\ c \in Seq(Type) /\ n \in Nat /\ n > 0
      /\ \A i \in 2..n : pkg.base[c[i]] = c[i - 1]
  BY DEF Chain
<1>2. /\ d \in Seq(Type) /\ Len(d) = n + 1 /\ d[n + 1] = t
      /\ \A i \in 1..n : d[i] = c[i]
  BY <1>1
<1> HIDE DEF d
<1>3. ASSUME NEW i \in 2..(n + 1) PROVE pkg.base[d[i]] = d[i - 1]
  <2>1. CASE i = n + 1
    BY <1>1, <1>2, <2>1
  <2>2. CASE i # n + 1
    <3>1. i \in 2..n /\ i \in 1..n /\ i - 1 \in 1..n
      BY <1>1, <2>2
    <3>2. QED
      BY <1>1, <1>2, <3>1
  <2>3. QED
    BY <2>1, <2>2
<1>4. d[1] = c[1]
  BY <1>1, <1>2
<1>5. Chain(pkg, d) /\ d[Len(d)] = t /\ d[1] = c[1]
  BY <1>1, <1>2, <1>3, <1>4 DEF Chain
<1>6. TrailTo(pkg, c[Len(c)], c) => TrailTo(pkg, t, d)
  BY <1>5 DEF TrailTo
<1>7. QED
  BY <1>5, <1>6 DEF d

(* The trail of a type whose base is no root goes through that base.       *)
LEMMA TrailBefore ==
  ASSUME NEW pkg, NEW t, NEW s, TrailTo(pkg, t, s), pkg.base[t] # "root"
  PROVE  /\ t \in Type /\ pkg.base[t] \in Type
         /\ Len(s) - 1 \in 1..Len(s) /\ s[Len(s) - 1] = pkg.base[t]
         /\ TrailTo(pkg, pkg.base[t], SubSeq(s, 1, Len(s) - 1))
<1> DEFINE n == Len(s)
<1>1. /\ s \in Seq(Type) /\ n \in Nat /\ n > 0 /\ pkg.base[s[1]] = "root"
      /\ s[n] = t /\ \A j \in 2..n : pkg.base[s[j]] = s[j - 1]
  BY DEF TrailTo, Chain
<1>2. n # 1
  BY <1>1
<1>3. n \in 2..n /\ n - 1 \in 1..n /\ n \in 1..n
  BY <1>1, <1>2
<1>4. s[n - 1] = pkg.base[t]
  BY <1>1, <1>3
<1>5. s[n - 1] \in Type /\ t \in Type
  BY <1>1, <1>3
<1>6. TrailTo(pkg, s[n - 1], SubSeq(s, 1, n - 1))
  BY <1>3, TrailOfPrefix
<1>7. QED
  BY <1>3, <1>4, <1>5, <1>6

(* What isNS tells of a type: its trail, the chain from a type of another  *)
(* file, or that no trail leads to it but through a type seen before.      *)
Told(pkg, prev, t, c) ==
  \/ /\ c = NotNamespace
     /\ \A s : TrailTo(pkg, t, s) => \E i \in 1..(Len(s) - 1) : s[i] \in prev
  \/ \E s : c = Complete(s) /\ TrailTo(pkg, t, s)
  \/ \E s : /\ Chain(pkg, s) /\ s[Len(s)] = t /\ pkg.base[s[1]] \in Type
            /\ c = Incomplete(pkg.base[s[1]], s)

(* One turn of the recursion tells the truth if the next one does.         *)
LEMMA ToldOfOne ==
  ASSUME NEW pkg \in Package, NEW f, NEW prev \in SUBSET Type, NEW t \in Type,
         pkg.base[t] \in Type \ prev =>
           Told(pkg, prev \cup {pkg.base[t]}, pkg.base[t],
                f[prev \cup {pkg.base[t]}][pkg.base[t]])
  PROVE  Told(pkg, prev, t, CrumbsFrom(f, pkg, prev, t))
<1> DEFINE b == pkg.base[t]
           more == prev \cup {b}
           c == f[more][b]
<1>1. b \in Type \cup {"root", "none"}
  BY DEF Package
<1>2. CASE b = "root"
  <2>1. CrumbsFrom(f, pkg, prev, t) = Complete(<<t>>) /\ TrailTo(pkg, t, <<t>>)
    BY <1>2, ChainOfOne DEF CrumbsFrom
  <2>2. QED
    BY <2>1 DEF Told
<1>3. CASE b = "none"
  <2>1. CrumbsFrom(f, pkg, prev, t) = NotNamespace
    BY <1>3 DEF CrumbsFrom
  <2>2. \A s : ~TrailTo(pkg, t, s)
    BY <1>3, TrailBefore, TypeAssumption
  <2>3. QED
    BY <2>1, <2>2 DEF Told
<1>4. CASE b \in Type /\ pkg.file[b] # pkg.file[t]
  <2>1. CrumbsFrom(f, pkg, prev, t) = Incomplete(b, <<t>>)
    BY <1>4, TypeAssumption DEF CrumbsFrom
  <2> DEFINE s == <<t>>
  <2>2. Chain(pkg, s) /\ s[1] = t /\ Len(s) = 1
    BY ChainOfOne
  <2> HIDE DEF s
  <2>3. CrumbsFrom(f, pkg, prev, t) = Incomplete(pkg.base[s[1]], s)
    BY <2>1, <2>2 DEF s
  <2>4. QED
    BY <1>4, <2>2, <2>3 DEF Told
<1>5. CASE b \in prev /\ pkg.file[b] = pkg.file[t]
  <2>1. CrumbsFrom(f, pkg, prev, t) = NotNamespace /\ b # "root"
    BY <1>5, TypeAssumption DEF CrumbsFrom
  <2>2. ASSUME NEW s, TrailTo(pkg, t, s) PROVE \E i \in 1..(Len(s) - 1) : s[i] \in prev
    <3>1. Len(s) - 1 \in 1..Len(s) /\ s[Len(s) - 1] = b
      BY <2>1, <2>2, TrailBefore
    <3>2. Len(s) - 1 \in 1..(Len(s) - 1)
      BY <3>1
    <3>3. QED
      BY <1>5, <3>1, <3>2
  <2>3. QED
    BY <2>1, <2>2 DEF Told
<1>6. CASE b \in Type \ prev /\ pkg.file[b] = pkg.file[t]
  <2>1. CrumbsFrom(f, pkg, prev, t) = Extend(c, t) /\ b # "root"
    BY <1>6, TypeAssumption DEF CrumbsFrom
  <2>2. Told(pkg, more, b, c)
    BY <1>6
  <2> HIDE DEF c
  <2>3. CASE /\ c = NotNamespace
             /\ \A s : TrailTo(pkg, b, s) => \E i \in 1..(Len(s) - 1) : s[i] \in more
    <3>1. Extend(c, t) = NotNamespace
      BY <2>3 DEF Extend, NotNamespace
    <3>2. ASSUME NEW s, TrailTo(pkg, t, s) PROVE \E i \in 1..(Len(s) - 1) : s[i] \in prev
      <4> DEFINE n == Len(s)
                 p == SubSeq(s, 1, n - 1)
      <4>1. /\ n - 1 \in 1..n /\ s[n - 1] = b /\ TrailTo(pkg, b, p)
        BY <2>1, <3>2, TrailBefore
      <4>2. Len(p) = n - 1 /\ n \in Nat
        BY <3>2, <4>1, TrailOfPrefix DEF TrailTo, Chain
      <4>3. \A i \in 1..(n - 1) : p[i] = s[i]
        BY <3>2, <4>1, <4>2 DEF TrailTo, Chain
      <4>4. PICK i \in 1..(Len(p) - 1) : p[i] \in more
        BY <2>3, <4>1
      <4> HIDE DEF n, p
      <4>5. i \in 1..(n - 1) /\ i # n - 1 /\ i \in 1..n
        BY <4>2, <4>4
      <4>6. s[i] \in more
        BY <4>3, <4>4, <4>5
      <4>7. s[i] # b
        BY <3>2, <4>1, <4>5, TrailHasNoCycle DEF n
      <4>8. QED
        BY <4>5, <4>6, <4>7 DEF n
    <3>3. QED
      BY <2>1, <3>1, <3>2 DEF Told
  <2>4. ASSUME NEW s, c = Complete(s), TrailTo(pkg, b, s)
        PROVE  Told(pkg, prev, t, CrumbsFrom(f, pkg, prev, t))
    <3>1. Extend(c, t) = Complete(Append(s, t))
      BY <2>4 DEF Extend, Complete
    <3>2. Chain(pkg, s) /\ s[Len(s)] = b
      BY <2>4 DEF TrailTo
    <3>3. TrailTo(pkg, t, Append(s, t))
      BY <2>4, <3>2, ChainExtended
    <3>4. QED
      BY <2>1, <3>1, <3>3 DEF Told
  <2>5. ASSUME NEW s, Chain(pkg, s), s[Len(s)] = b, pkg.base[s[1]] \in Type,
               c = Incomplete(pkg.base[s[1]], s)
        PROVE  Told(pkg, prev, t, CrumbsFrom(f, pkg, prev, t))
    <3> DEFINE r == pkg.base[s[1]]
               d == Append(s, t)
    <3>1. Extend(c, t) = Incomplete(r, d)
      <4> HIDE DEF r
      <4>1. \A x : [Incomplete(r, s) EXCEPT !.trail = x] = Incomplete(r, x)
        BY DEF Incomplete
      <4>2. c.kind # "none" /\ c.trail = s
        BY <2>5 DEF Incomplete, r
      <4>3. Extend(c, t) = [Incomplete(r, s) EXCEPT !.trail = Append(c.trail, t)]
        BY <2>5, <4>2, Zenon DEF Extend, r
      <4>4. QED
        BY <4>1, <4>2, <4>3
    <3>2. Chain(pkg, d) /\ d[Len(d)] = t /\ d[1] = s[1]
      BY <2>5, ChainExtended
    <3> HIDE DEF d
    <3>3. Extend(c, t) = Incomplete(pkg.base[d[1]], d) /\ pkg.base[d[1]] \in Type
      BY <2>5, <3>1, <3>2
    <3>4. QED
      BY <2>1, <3>2, <3>3 DEF Told
  <2>6. QED
    BY <2>2, <2>3, <2>4, <2>5 DEF Told
<1>7. QED
  BY <1>1, <1>2, <1>3, <1>4, <1>5, <1>6

(* breadcrumbs tells a type's trail, or the chain from a type of another   *)
(* file, or that there is no trail.                                        *)
BreadcrumbsTell(pkg, t, c) ==
  \/ c = NotNamespace /\ \A s : ~TrailTo(pkg, t, s)
  \/ \E s : c = Complete(s) /\ TrailTo(pkg, t, s)
  \/ \E s : /\ Chain(pkg, s) /\ s[Len(s)] = t /\ pkg.base[s[1]] \in Type
            /\ c = Incomplete(pkg.base[s[1]], s)

(* Breadcrumbs tells of every type, whatever the bases and files of a      *)
(* package: the trail from a root, the part of it that one file shows, or  *)
(* that there is none.                                                     *)
THEOREM BreadcrumbsLead ==
  ASSUME NEW pkg \in Package, NEW type \in Type
  PROVE  BreadcrumbsTell(pkg, type, Breadcrumbs(pkg, type))
<1> DEFINE isNS == CHOOSE f : IsTable(f, pkg)
           N == Cardinality(Type) + 1
<1>1. IsTable(isNS, pkg)
  BY Tables
<1>2. Breadcrumbs(pkg, type) = isNS[{type}][type]
  BY DEF Breadcrumbs, IsTable, CrumbsFrom
<1> HIDE DEF isNS
<1>3. \A prev \in SUBSET Type, t \in Type : isNS[prev][t] = CrumbsFrom(isNS, pkg, prev, t)
  BY <1>1 DEF IsTable
<1> DEFINE Tells(k) == \A prev \in SUBSET Type, t \in Type :
                         Cardinality(Type \ prev) < k => Told(pkg, prev, t, isNS[prev][t])
           P == {k \in 0..N : Tells(k)}
<1>4. N \in Nat
  <2>1. Cardinality(Type) \in Nat
    BY TypeAssumption, FS_CardinalityType
  <2>2. QED
    BY <2>1
<1> HIDE DEF N
<1>5. 0 \in P
  <2>1. \A prev \in SUBSET Type : ~(Cardinality(Type \ prev) < 0)
    BY LeftToSee
  <2>2. QED
    BY <1>4, <2>1
<1>6. ASSUME NEW k \in 1..N, k - 1 \in P PROVE k \in P
  <2>1. ASSUME NEW prev \in SUBSET Type, NEW t \in Type, Cardinality(Type \ prev) < k
        PROVE  Told(pkg, prev, t, isNS[prev][t])
    <3> DEFINE b == pkg.base[t]
               more == prev \cup {b}
    <3>1. ASSUME b \in Type \ prev PROVE Told(pkg, more, b, isNS[more][b])
      <4>1. Cardinality(Type \ more) < k - 1
        <5>1. /\ Cardinality(Type \ prev) \in Nat
              /\ Cardinality(Type \ more) = Cardinality(Type \ prev) - 1
          BY <3>1, LeftToSee
        <5>2. QED
          BY <2>1, <5>1
      <4>2. Tells(k - 1) /\ more \in SUBSET Type /\ b \in Type
        BY <1>6, <3>1
      <4> HIDE DEF more, b
      <4>3. QED
        BY <4>1, <4>2
    <3>2. QED
      BY <1>3, <3>1, ToldOfOne, ZenonT(40)
  <2>2. Tells(k)
    BY <2>1
  <2> HIDE DEF Tells
  <2>3. QED
    BY <1>4, <2>2
<1>7. N \in P
  <2> HIDE DEF P
  <2>1. 0..N \subseteq P
    BY <1>4, <1>5, <1>6, Induct
  <2>2. QED
    BY <1>4, <2>1
<1>8. Told(pkg, {type}, type, isNS[{type}][type])
  <2>1. {type} \in SUBSET Type /\ Cardinality(Type \ {type}) < N
    <3>1. {type} \in SUBSET Type
      OBVIOUS
    <3>2. /\ Cardinality(Type \ {type}) \in Nat /\ Cardinality(Type) \in Nat
          /\ Cardinality(Type \ {type}) <= Cardinality(Type)
      BY <3>1, LeftToSee
    <3>3. QED
      BY <3>1, <3>2 DEF N
  <2>2. QED
    BY <1>7, <2>1
<1>9. \A s : ~(TrailTo(pkg, type, s) /\ \E i \in 1..(Len(s) - 1) : s[i] \in {type})
  <2> SUFFICES ASSUME NEW s, TrailTo(pkg, type, s),
                      NEW i \in 1..(Len(s) - 1), s[i] = type
               PROVE  FALSE
    OBVIOUS
  <2>1. Len(s) \in Nat /\ s[Len(s)] = type
    BY DEF TrailTo, Chain
  <2>2. i \in 1..Len(s) /\ Len(s) \in 1..Len(s) /\ i # Len(s)
    BY <2>1
  <2>3. QED
    BY <2>1, <2>2, TrailHasNoCycle
<1>10. QED
  BY <1>2, <1>8, <1>9 DEF Told, BreadcrumbsTell

-----------------------------------------------------------------------------
(* The types that wait for one of another file, and what addType holds of  *)
(* them: their trails from there on.                                       *)
WaitsFor(pkg, rel) ==
  {t \in Type : Breadcrumbs(pkg, t).kind = "incomplete" /\ Breadcrumbs(pkg, t).rel = rel}
Waiting(pkg, rel) == {<<t, Breadcrumbs(pkg, t).trail>> : t \in WaitsFor(pkg, rel)}
Found(pkg) == {t \in Type : Breadcrumbs(pkg, t).kind = "complete"}
Awaited(pkg) == {rel \in Type : WaitsFor(pkg, rel) # {}}

(* What breadcrumbs say of a type, in the terms of addType's loop.         *)
LEMMA BreadcrumbsOf ==
  ASSUME NEW pkg \in Package, NEW t \in Type
  PROVE  /\ t \in Found(pkg) => TrailTo(pkg, t, Breadcrumbs(pkg, t).trail)
         /\ \A rel : t \in WaitsFor(pkg, rel) =>
              LET c == Breadcrumbs(pkg, t).trail
              IN /\ Chain(pkg, c) /\ c[Len(c)] = t /\ pkg.base[c[1]] = rel
                 /\ rel \in Type
         /\ \/ t \in Found(pkg)
            \/ \E rel \in Type : t \in WaitsFor(pkg, rel)
            \/ \A s : ~TrailTo(pkg, t, s)
<1> DEFINE c == Breadcrumbs(pkg, t)
<1>1. BreadcrumbsTell(pkg, t, c)
  BY BreadcrumbsLead
<1> HIDE DEF c
<1>2. CASE c = NotNamespace /\ \A s : ~TrailTo(pkg, t, s)
  BY <1>2 DEF NotNamespace, Found, WaitsFor, c
<1>3. CASE \E s : c = Complete(s) /\ TrailTo(pkg, t, s)
  <2>1. PICK s : c = Complete(s) /\ TrailTo(pkg, t, s)
    BY <1>3
  <2>2. c.kind = "complete" /\ c.trail = s
    BY <2>1 DEF Complete
  <2>3. QED
    BY <2>1, <2>2 DEF Found, WaitsFor, c
<1>4. ASSUME NEW s, Chain(pkg, s), s[Len(s)] = t, pkg.base[s[1]] \in Type,
             c = Incomplete(pkg.base[s[1]], s)
      PROVE  /\ t \notin Found(pkg) /\ t \in WaitsFor(pkg, pkg.base[s[1]])
             /\ \A rel : t \in WaitsFor(pkg, rel) => rel = pkg.base[s[1]]
             /\ c.trail = s
  <2>1. c.kind = "incomplete" /\ c.rel = pkg.base[s[1]] /\ c.trail = s
    BY <1>4 DEF Incomplete
  <2>2. QED
    BY <2>1 DEF Found, WaitsFor, c
<1>5. CASE \E s : /\ Chain(pkg, s) /\ s[Len(s)] = t /\ pkg.base[s[1]] \in Type
                  /\ c = Incomplete(pkg.base[s[1]], s)
  <2>1. PICK s : /\ Chain(pkg, s) /\ s[Len(s)] = t /\ pkg.base[s[1]] \in Type
                 /\ c = Incomplete(pkg.base[s[1]], s)
    BY <1>5
  <2>2. /\ t \notin Found(pkg) /\ t \in WaitsFor(pkg, pkg.base[s[1]])
        /\ \A rel : t \in WaitsFor(pkg, rel) => rel = pkg.base[s[1]]
        /\ c.trail = s
    BY <1>4, <2>1
  <2>3. QED
    BY <2>1, <2>2 DEF c
<1>6. QED
  BY <1>1, <1>2, <1>3, <1>5 DEF BreadcrumbsTell

(* addType's loop: the trails it has are trails, it has those of the types *)
(* that wait for no other, and a type it has no trail for still waits.  A  *)
(* pass that leaves as many keys as there were has seen each in vain.      *)
AddTypeState(st) ==
  st = [complete |-> st.complete, inc |-> st.inc, todo |-> st.todo, prev |-> st.prev,
        added |-> st.added, done |-> st.done]
HasTrails(pkg, complete) ==
  /\ DOMAIN complete \subseteq Type
  /\ complete = [t \in DOMAIN complete |-> complete[t]]
  /\ \A t \in DOMAIN complete : TrailTo(pkg, t, complete[t])
  /\ Found(pkg) \subseteq DOMAIN complete
StillWait(pkg, complete, inc) ==
  /\ DOMAIN inc \subseteq Type
  /\ inc = [rel \in DOMAIN inc |-> Waiting(pkg, rel)]
  /\ \A rel \in Type : \A t \in WaitsFor(pkg, rel) :
       t \in DOMAIN complete \/ rel \in DOMAIN inc
Seen(complete, inc, todo, prev) ==
  /\ todo \subseteq DOMAIN inc
  /\ Cardinality(DOMAIN inc) <= prev
  /\ Cardinality(DOMAIN inc) = prev =>
       \A rel \in DOMAIN inc : rel \in DOMAIN complete => rel \in todo
AddTypeInv(pkg, st) ==
  /\ AddTypeState(st)
  /\ HasTrails(pkg, st.complete)
  /\ StillWait(pkg, st.complete, st.inc)
  /\ st.prev \in Nat
  /\ Seen(st.complete, st.inc, st.todo, st.prev)
  /\ st.added = DOMAIN st.complete \cap pkg.exported
  /\ st.done => \A rel \in DOMAIN st.inc : rel \notin DOMAIN st.complete

(* The invariant of addType's loop holds when the loop starts.             *)
LEMMA AddTypeStarts ==
  ASSUME NEW pkg \in Package
  PROVE  AddTypeInv(pkg, FirstPass(pkg))
<1> DEFINE crumbs == [t \in Type |-> Breadcrumbs(pkg, t)]
           waiting == {t \in Type : crumbs[t].kind = "incomplete"}
           rels == {crumbs[t].rel : t \in waiting}
           complete == [t \in Found(pkg) |-> crumbs[t].trail]
           inc == [r \in rels |-> {<<t, crumbs[t].trail>> :
                                     t \in {w \in waiting : crumbs[w].rel = r}}]
           st == FirstPass(pkg)
<1>1. {t \in Type : crumbs[t].kind = "complete"} = Found(pkg)
  BY DEF Found
<1>2. /\ st.complete = complete /\ st.inc = inc /\ st.todo = rels
      /\ st.prev = Cardinality(rels) /\ st.added = Found(pkg) \cap pkg.exported
      /\ st.done = (rels = {}) /\ AddTypeState(st)
  <2>1. st = [complete |-> complete, inc |-> inc, todo |-> rels,
              prev |-> Cardinality(rels), added |-> Found(pkg) \cap pkg.exported,
              done |-> rels = {}]
    BY <1>1 DEF FirstPass
  <2> HIDE DEF st, complete, inc, rels
  <2>2. QED
    BY <2>1 DEF AddTypeState
<1>3. rels = Awaited(pkg)
  <2>1. ASSUME NEW t \in waiting
        PROVE  crumbs[t].rel \in Type /\ t \in WaitsFor(pkg, crumbs[t].rel)
    <3>1. t \in WaitsFor(pkg, crumbs[t].rel) /\ t \in Type
      BY DEF WaitsFor
    <3>2. QED
      BY <3>1, BreadcrumbsOf
  <2>2. ASSUME NEW rel \in Awaited(pkg) PROVE rel \in rels
    BY DEF Awaited, WaitsFor
  <2>3. QED
    BY <2>1, <2>2 DEF Awaited
<1>4. \A rel : {w \in waiting : crumbs[w].rel = rel} = WaitsFor(pkg, rel)
  BY DEF WaitsFor
<1>5. DOMAIN inc = Awaited(pkg) /\ inc = [rel \in Awaited(pkg) |-> Waiting(pkg, rel)]
  <2>1. ASSUME NEW rel
        PROVE  {<<t, crumbs[t].trail>> : t \in {w \in waiting : crumbs[w].rel = rel}}
               = Waiting(pkg, rel)
    <3>1. \A t \in WaitsFor(pkg, rel) : crumbs[t].trail = Breadcrumbs(pkg, t).trail
      BY DEF WaitsFor
    <3>2. {<<t, crumbs[t].trail>> : t \in WaitsFor(pkg, rel)} = Waiting(pkg, rel)
      BY <3>1 DEF Waiting
    <3>3. QED
      BY <1>4, <3>2
  <2>2. QED
    BY <1>3, <2>1
<1>6. DOMAIN complete = Found(pkg) /\ HasTrails(pkg, complete)
  <2>1. \A t \in Found(pkg) : t \in Type /\ complete[t] = Breadcrumbs(pkg, t).trail
    BY DEF Found
  <2>2. DOMAIN complete = Found(pkg) /\ complete = [t \in DOMAIN complete |-> complete[t]]
    OBVIOUS
  <2> HIDE DEF complete
  <2>3. \A t \in Found(pkg) : TrailTo(pkg, t, complete[t])
    BY <2>1, BreadcrumbsOf
  <2>4. QED
    BY <2>1, <2>2, <2>3 DEF HasTrails
<1>7. Cardinality(Awaited(pkg)) \in Nat
  <2>1. IsFiniteSet(Awaited(pkg))
    BY TypeAssumption, FS_Subset DEF Awaited
  <2>2. QED
    BY <2>1, FS_CardinalityType
<1> HIDE DEF st, inc, complete, rels
<1>8. StillWait(pkg, complete, inc)
  <2>1. \A rel \in Type : \A t \in WaitsFor(pkg, rel) : rel \in Awaited(pkg)
    BY DEF Awaited
  <2>2. Awaited(pkg) \subseteq Type
    BY DEF Awaited
  <2>3. QED
    BY <1>5, <2>1, <2>2 DEF StillWait
<1>9. Seen(complete, inc, rels, Cardinality(rels))
  BY <1>3, <1>5, <1>7 DEF Seen
<1>10. (rels = {}) => \A rel \in DOMAIN inc : rel \notin DOMAIN complete
  BY <1>3, <1>5
<1>11. QED
  BY <1>2, <1>3, <1>6, <1>7, <1>8, <1>9, <1>10 DEF AddTypeInv, st

(* Visiting a key of the map, in any order.                                *)
LEMMA VisitKeeps ==
  ASSUME NEW pkg \in Package, NEW st, NEW rel,
         AddTypeInv(pkg, st), ~st.done, rel \in st.todo
  PROVE  AddTypeInv(pkg, Visit(pkg, st, rel))
<1> DEFINE new == Visit(pkg, st, rel)
           complete == st.complete
           inc == st.inc
<1>1. /\ AddTypeState(st) /\ HasTrails(pkg, complete) /\ StillWait(pkg, complete, inc)
      /\ st.prev \in Nat /\ Seen(complete, inc, st.todo, st.prev)
      /\ st.added = DOMAIN complete \cap pkg.exported
  BY DEF AddTypeInv
<1>2. rel \in DOMAIN inc /\ rel \in Type
  BY <1>1 DEF Seen, StillWait
<1>3. CASE rel \notin DOMAIN complete
  <2>1. new = [st EXCEPT !.todo = @ \ {rel}]
    BY <1>3 DEF Visit
  <2>2. /\ new.complete = complete /\ new.inc = inc /\ new.todo = st.todo \ {rel}
        /\ new.prev = st.prev /\ new.added = st.added /\ new.done = st.done
        /\ AddTypeState(new)
    BY <1>1, <2>1 DEF AddTypeState
  <2> HIDE DEF new
  <2>3. Seen(complete, inc, new.todo, st.prev)
    BY <1>1, <1>3, <2>2 DEF Seen
  <2>4. QED
    BY <1>1, <2>2, <2>3 DEF AddTypeInv, new
<1>4. CASE rel \in DOMAIN complete
  <2> DEFINE types == {e[1] : e \in inc[rel]}
             trail(t) == (CHOOSE e \in inc[rel] : e[1] = t)[2]
             more == [t \in DOMAIN complete \cup types |->
                        IF t \in types THEN complete[rel] \o trail(t) ELSE complete[t]]
             less == [r \in DOMAIN inc \ {rel} |-> inc[r]]
  <2>1. /\ new.complete = more /\ new.inc = less /\ new.todo = st.todo \ {rel}
        /\ new.prev = st.prev /\ new.added = st.added \cup (types \cap pkg.exported)
        /\ new.done = st.done /\ AddTypeState(new)
    <3>1. new = [st EXCEPT !.complete = more, !.inc = less, !.todo = @ \ {rel},
                           !.added = @ \cup (types \cap pkg.exported)]
      BY <1>4 DEF Visit
    <3> HIDE DEF new, types, more, less
    <3>2. QED
      BY <1>1, <3>1 DEF AddTypeState
  <2> HIDE DEF new
  <2>2. inc[rel] = Waiting(pkg, rel)
    BY <1>1, <1>2 DEF StillWait
  <2>3. types = WaitsFor(pkg, rel)
    <3>1. ASSUME NEW t \in WaitsFor(pkg, rel) PROVE \E e \in inc[rel] : e[1] = t
      <4>1. <<t, Breadcrumbs(pkg, t).trail>> \in inc[rel]
        BY <2>2 DEF Waiting
      <4>2. QED
        BY <4>1
    <3>2. \A e \in inc[rel] : e[1] \in WaitsFor(pkg, rel)
      BY <2>2 DEF Waiting
    <3>3. QED
      BY <3>1, <3>2
  <2>4. ASSUME NEW t \in WaitsFor(pkg, rel) PROVE trail(t) = Breadcrumbs(pkg, t).trail
    <3> DEFINE own == <<t, Breadcrumbs(pkg, t).trail>>
    <3>1. own \in inc[rel] /\ own[1] = t /\ own[2] = Breadcrumbs(pkg, t).trail
      BY <2>2 DEF Waiting
    <3>2. \A e \in inc[rel] : e[1] = t => e = own
      BY <2>2 DEF Waiting
    <3> HIDE DEF own
    <3>3. (CHOOSE e \in inc[rel] : e[1] = t) = own
      BY <3>1, <3>2
    <3>4. QED
      BY <3>1, <3>3
  <2>5. ASSUME NEW t \in WaitsFor(pkg, rel) PROVE t \in Type /\ TrailTo(pkg, t, more[t])
    <3> DEFINE c == Breadcrumbs(pkg, t).trail
    <3>1. t \in Type
      BY DEF WaitsFor
    <3>2. Chain(pkg, c) /\ c[Len(c)] = t /\ pkg.base[c[1]] = rel
      BY <3>1, BreadcrumbsOf
    <3>3. TrailTo(pkg, rel, complete[rel])
      BY <1>1, <1>4 DEF HasTrails
    <3>4. more[t] = complete[rel] \o c
      BY <2>3, <2>4
    <3> HIDE DEF c
    <3>5. TrailTo(pkg, t, complete[rel] \o c)
      BY <3>2, <3>3, JoinedTrail
    <3>6. QED
      BY <3>1, <3>4, <3>5
  <2>6. ASSUME NEW t \in DOMAIN complete, t \notin WaitsFor(pkg, rel)
        PROVE  TrailTo(pkg, t, more[t])
    BY <1>1, <2>3, <2>6 DEF HasTrails
  <2>7. DOMAIN more = DOMAIN complete \cup WaitsFor(pkg, rel)
        /\ more = [t \in DOMAIN more |-> more[t]]
    <3>1. DOMAIN more = DOMAIN complete \cup types
      OBVIOUS
    <3>2. more = [t \in DOMAIN more |-> more[t]]
      <4> HIDE DEF types, complete, trail
      <4>1. QED
        OBVIOUS
    <3> HIDE DEF types, more, complete
    <3>3. QED
      BY <2>3, <3>1, <3>2
  <2>8. DOMAIN less = DOMAIN inc \ {rel} /\ \A r \in DOMAIN less : less[r] = inc[r]
    OBVIOUS
  <2>9. less = [r \in DOMAIN less |-> less[r]]
    OBVIOUS
  <2> HIDE DEF types, more, less, complete, inc
  <2>10. HasTrails(pkg, more)
    BY <1>1, <2>5, <2>6, <2>7 DEF HasTrails
  <2>11. StillWait(pkg, more, less)
    <3>1. \A r \in DOMAIN less : less[r] = Waiting(pkg, r)
      BY <1>1, <2>8 DEF StillWait
    <3>2. less = [r \in DOMAIN less |-> Waiting(pkg, r)]
      <4>1. less = [r \in DOMAIN less |-> less[r]]
        BY ONLY <2>9
      <4>2. [r \in DOMAIN less |-> less[r]] = [r \in DOMAIN less |-> Waiting(pkg, r)]
        BY <3>1
      <4>3. QED
        BY <4>1, <4>2, Zenon
    <3>3. \A r \in Type : \A t \in WaitsFor(pkg, r) : t \in DOMAIN more \/ r \in DOMAIN less
      BY <1>1, <2>7, <2>8 DEF StillWait
    <3>4. QED
      BY <1>1, <2>8, <3>2, <3>3 DEF StillWait
  <2>12. Seen(more, less, st.todo \ {rel}, st.prev)
    <3>1. IsFiniteSet(DOMAIN inc)
      BY <1>1, TypeAssumption, FS_Subset DEF StillWait
    <3>2. /\ Cardinality(DOMAIN inc) \in Nat
          /\ Cardinality(DOMAIN less) = Cardinality(DOMAIN inc) - 1
      BY <1>2, <2>8, <3>1, FS_CardinalityType, FS_RemoveElement DEF inc
    <3>3. Cardinality(DOMAIN less) < st.prev
      BY <1>1, <3>2 DEF Seen
    <3>4. Cardinality(DOMAIN less) <= st.prev /\ Cardinality(DOMAIN less) # st.prev
      BY <1>1, <3>2, <3>3
    <3>5. st.todo \ {rel} \subseteq DOMAIN less
      BY <1>1, <2>8 DEF Seen
    <3>6. QED
      BY <3>4, <3>5 DEF Seen
  <2>13. new.added = DOMAIN more \cap pkg.exported
    BY <1>1, <2>1, <2>3, <2>7
  <2>14. QED
    BY <1>1, <2>1, <2>10, <2>11, <2>12, <2>13 DEF AddTypeInv, new
<1>5. QED
  BY <1>3, <1>4

(* The invariant holds at the start of the next pass over the map.         *)
LEMMA NextPassKeeps ==
  ASSUME NEW pkg \in Package, NEW st, AddTypeInv(pkg, st), ~st.done, st.todo = {}
  PROVE  AddTypeInv(pkg, NextPass(st))
<1> DEFINE new == NextPass(st)
           cur == Cardinality(DOMAIN st.inc)
<1>1. /\ AddTypeState(st) /\ HasTrails(pkg, st.complete)
      /\ StillWait(pkg, st.complete, st.inc)
      /\ st.prev \in Nat /\ Seen(st.complete, st.inc, st.todo, st.prev)
      /\ st.added = DOMAIN st.complete \cap pkg.exported
  BY DEF AddTypeInv
<1>2. IsFiniteSet(DOMAIN st.inc) /\ cur \in Nat
  <2>1. IsFiniteSet(DOMAIN st.inc)
    BY <1>1, TypeAssumption, FS_Subset DEF StillWait
  <2>2. QED
    BY <2>1, FS_CardinalityType
<1>3. CASE cur = 0 \/ cur = st.prev
  <2>1. new = [st EXCEPT !.done = TRUE]
    BY <1>3 DEF NextPass
  <2>2. /\ new.complete = st.complete /\ new.inc = st.inc /\ new.todo = st.todo
        /\ new.prev = st.prev /\ new.added = st.added /\ AddTypeState(new)
    BY <1>1, <2>1 DEF AddTypeState
  <2>3. \A rel \in DOMAIN st.inc : rel \notin DOMAIN st.complete
    <3>1. CASE cur = 0
      <4>1. DOMAIN st.inc = {}
        BY <1>2, <3>1, FS_EmptySet
      <4>2. QED
        BY <4>1
    <3>2. CASE cur = st.prev
      BY <1>1, <3>2 DEF Seen
    <3>3. QED
      BY <1>3, <3>1, <3>2
  <2> HIDE DEF new
  <2>4. QED
    BY <1>1, <2>2, <2>3 DEF AddTypeInv, new
<1>4. CASE ~(cur = 0 \/ cur = st.prev)
  <2>1. new = [st EXCEPT !.todo = DOMAIN st.inc, !.prev = cur]
    BY <1>4 DEF NextPass
  <2> HIDE DEF cur
  <2>2. /\ new.complete = st.complete /\ new.inc = st.inc /\ new.todo = DOMAIN st.inc
        /\ new.prev = cur /\ new.added = st.added /\ new.done = st.done
        /\ AddTypeState(new)
    BY <1>1, <2>1 DEF AddTypeState
  <2>3. Seen(st.complete, st.inc, DOMAIN st.inc, cur)
    BY <1>2 DEF Seen, cur
  <2> HIDE DEF new
  <2>4. QED
    BY <1>1, <1>2, <2>2, <2>3 DEF AddTypeInv, new
<1>5. QED
  BY <1>3, <1>4

(* When the loop ends, it has the trail of every type that has one: one    *)
(* with the shortest trail among those it has none for would not wait.     *)
LEMMA AllFound ==
  ASSUME NEW pkg \in Package, NEW st, AddTypeInv(pkg, st), st.done,
         NEW t, NEW s, TrailTo(pkg, t, s)
  PROVE  t \in DOMAIN st.complete
<1> DEFINE Missed(n) == \E u, c : TrailTo(pkg, u, c) /\ Len(c) = n /\ u \notin DOMAIN st.complete
           Lengths == {n \in Nat : Missed(n)}
<1>1. /\ HasTrails(pkg, st.complete) /\ StillWait(pkg, st.complete, st.inc)
      /\ \A rel \in DOMAIN st.inc : rel \notin DOMAIN st.complete
  BY DEF AddTypeInv
<1>2. \A u, c : TrailTo(pkg, u, c) => Len(c) \in Nat /\ u \in Type /\ c[Len(c)] = u
  <2> SUFFICES ASSUME NEW u, NEW c, TrailTo(pkg, u, c)
               PROVE  Len(c) \in Nat /\ u \in Type /\ c[Len(c)] = u
    OBVIOUS
  <2>1. c \in Seq(Type) /\ Len(c) > 0 /\ c[Len(c)] = u
    BY DEF TrailTo, Chain
  <2>2. Len(c) \in Nat /\ Len(c) \in 1..Len(c)
    BY <2>1
  <2>3. QED
    BY <2>1, <2>2
<1>3. SUFFICES ASSUME Lengths # {} PROVE FALSE
  BY <1>2
<1>4. PICK n \in Lengths : \A m \in Lengths : n <= m
  <2>1. Lengths \in SUBSET Nat
    OBVIOUS
  <2> HIDE DEF Lengths
  <2>2. QED
    BY <1>3, <2>1, Least
<1>5. PICK u, c : TrailTo(pkg, u, c) /\ Len(c) = n /\ u \notin DOMAIN st.complete
  BY <1>4
<1>6. u \in Type /\ c[n] = u /\ n \in Nat
  BY <1>2, <1>5
<1>7. PICK rel \in Type : u \in WaitsFor(pkg, rel)
  <2>1. u \notin Found(pkg)
    BY <1>1, <1>5 DEF HasTrails
  <2>2. QED
    BY <1>5, <1>6, <2>1, BreadcrumbsOf
<1>8. rel \notin DOMAIN st.complete
  BY <1>1, <1>5, <1>7 DEF StillWait
<1> DEFINE d == Breadcrumbs(pkg, u).trail
           m == Len(d)
<1>9. Chain(pkg, d) /\ d[m] = u /\ pkg.base[d[1]] = rel
  BY <1>6, <1>7, BreadcrumbsOf
<1> HIDE DEF d, Lengths
<1>10. m \in Nat /\ m > 0 /\ m < n
  <2>1. rel # "root"
    BY TypeAssumption
  <2>2. m \in Nat /\ m > 0
    BY <1>9 DEF Chain
  <2>3. QED
    BY <1>5, <1>9, <2>1, <2>2, RootStartsTrail
<1>11. c[n - (m - 1)] = d[1]
  <2>1. m - 1 \in Nat /\ m - 1 < n /\ m - 1 < m /\ m - (m - 1) = 1
    BY <1>6, <1>10
  <2>2. Chain(pkg, c) /\ c[Len(c)] = d[Len(d)] /\ Len(c) = n /\ Len(d) = m
    BY <1>5, <1>6, <1>9 DEF TrailTo
  <2> HIDE DEF m
  <2>3. c[n - (m - 1)] = d[m - (m - 1)]
    BY <1>9, <2>1, <2>2, SameTail, SMTT(30)
  <2>4. QED
    BY <2>1, <2>3
<1>12. c[n - m] = rel /\ n - m \in 1..n
  <2>1. n - (m - 1) \in 2..n /\ n - (m - 1) - 1 = n - m /\ n - m \in 1..n
    BY <1>6, <1>10
  <2>2. \A i \in 2..n : pkg.base[c[i]] = c[i - 1]
    BY <1>5 DEF TrailTo, Chain
  <2>3. QED
    BY <1>9, <1>11, <2>1, <2>2
<1> DEFINE p == SubSeq(c, 1, n - m)
<1>13. TrailTo(pkg, rel, p) /\ Len(p) = n - m
  BY <1>5, <1>12, TrailOfPrefix
<1>14. n - m \in Lengths
  <2> HIDE DEF p, m
  <2>1. n - m \in Nat
    BY <1>12
  <2>2. Missed(n - m)
    BY <1>8, <1>13
  <2>3. QED
    BY <2>1, <2>2 DEF Lengths
<1>15. n <= n - m
  BY <1>4, <1>14
<1>16. QED
  BY <1>6, <1>10, <1>15

(* The trails a package declares, by the type each leads to.               *)
TrailsAre(pkg, complete) ==
  complete = [t \in {Last(s) : s \in Trails(pkg)} |->
                CHOOSE s \in Trails(pkg) : Last(s) = t]

(* addType ends with the trails the package declares, each type's the one  *)
(* it has, and adds the methods of the exported types among them.          *)
THEOREM NamespacesAreFound ==
  ASSUME NEW pkg \in Package, NEW st, AddTypeInv(pkg, st), st.done
  PROVE  /\ TrailsAre(pkg, st.complete)
         /\ st.added = DOMAIN st.complete \cap pkg.exported
<1> DEFINE complete == st.complete
           T == {Last(s) : s \in Trails(pkg)}
           trail(t) == CHOOSE s \in Trails(pkg) : Last(s) = t
<1>1. HasTrails(pkg, complete) /\ st.added = DOMAIN complete \cap pkg.exported
  BY DEF AddTypeInv
<1>2. \A s \in Trails(pkg) : TrailTo(pkg, Last(s), s)
  BY DeclaredTrails
<1>3. \A t, s : TrailTo(pkg, t, s) => s \in Trails(pkg) /\ Last(s) = t
  BY DeclaredTrails
<1>4. DOMAIN complete = T
  <2>1. ASSUME NEW t \in DOMAIN complete PROVE t \in T
    <3>1. complete[t] \in Trails(pkg) /\ Last(complete[t]) = t
      BY <1>1, <1>3 DEF HasTrails
    <3>2. QED
      BY <3>1
  <2>2. ASSUME NEW s \in Trails(pkg) PROVE Last(s) \in DOMAIN complete
    BY <1>2, AllFound
  <2>3. QED
    BY <2>1, <2>2
<1>5. ASSUME NEW t \in T PROVE complete[t] = trail(t)
  <2>1. TrailTo(pkg, t, complete[t])
    BY <1>1, <1>4 DEF HasTrails
  <2>2. complete[t] \in Trails(pkg) /\ Last(complete[t]) = t
    BY <1>3, <2>1
  <2>3. trail(t) \in Trails(pkg) /\ Last(trail(t)) = t
    BY <2>2
  <2>4. TrailTo(pkg, t, trail(t))
    BY <1>2, <2>3
  <2> HIDE DEF trail, complete
  <2>5. QED
    BY <2>1, <2>4, OneTrail
<1>6. complete = [t \in DOMAIN complete |-> complete[t]]
  BY <1>1 DEF HasTrails
<1>7. complete = [t \in T |-> trail(t)]
  <2> HIDE DEF trail, complete, T
  <2>1. complete = [t \in T |-> complete[t]]
    BY <1>4, <1>6
  <2>2. [t \in T |-> complete[t]] = [t \in T |-> trail(t)]
    BY <1>5
  <2>3. QED
    BY <2>1, <2>2
<1>8. QED
  BY <1>1, <1>7 DEF TrailsAre

AddTypeCalled ==
  call.fn = "addType" => call.pkg \in Package /\ AddTypeInv(call.pkg, result)

(* In whatever order addType sees its map, every type whose bases lead to  *)
(* a root gets that trail, over any number of types, and no other does.    *)
THEOREM Trailed == Spec => []TrailsFound
<1>1. Init => AddTypeCalled
  BY DEF Init, None, AddTypeCalled
<1>2. AddTypeCalled /\ [Next]_vars => AddTypeCalled'
  <2> SUFFICES ASSUME AddTypeCalled, [Next]_vars, call'.fn = "addType"
               PROVE  call'.pkg \in Package /\ AddTypeInv(call'.pkg, result')
    BY DEF AddTypeCalled
  <2>1. CASE VisitOne
    <3>1. call' = call /\ call.fn = "addType" /\ ~result.done
      BY <2>1 DEF VisitOne, Running
    <3>2. PICK rel \in result.todo : result' = Visit(call.pkg, result, rel)
      BY <2>1 DEF VisitOne
    <3>3. call.pkg \in Package /\ AddTypeInv(call.pkg, result)
      BY <3>1 DEF AddTypeCalled
    <3>4. AddTypeInv(call.pkg, Visit(call.pkg, result, rel))
      BY <3>1, <3>2, <3>3, VisitKeeps
    <3>5. QED
      BY <3>1, <3>2, <3>3, <3>4
  <2>2. CASE EndPass
    <3>1. /\ call' = call /\ call.fn = "addType" /\ ~result.done /\ result.todo = {}
          /\ result' = NextPass(result)
      BY <2>2 DEF EndPass, Running
    <3>2. call.pkg \in Package /\ AddTypeInv(call.pkg, result)
      BY <3>1 DEF AddTypeCalled
    <3>3. AddTypeInv(call.pkg, NextPass(result))
      BY <3>1, <3>2, NextPassKeeps
    <3>4. QED
      BY <3>1, <3>2, <3>3
  <2>3. CASE CallAddType
    <3>1. PICK pkg \in Package : Calls([fn |-> "addType", pkg |-> pkg], FirstPass(pkg))
      BY <2>3 DEF CallAddType
    <3>2. call'.pkg = pkg /\ result' = FirstPass(pkg)
      BY <3>1 DEF Calls
    <3>3. QED
      BY <3>2, AddTypeStarts
  <2>4. CASE UNCHANGED vars
    BY <2>4 DEF vars, AddTypeCalled
  <2>5. QED
    BY <2>1, <2>2, <2>3, <2>4, Steps
<1>3. AddTypeCalled => TrailsFound
  <2> SUFFICES ASSUME AddTypeCalled, call.fn = "addType", result.done PROVE TrailsFound
    BY DEF TrailsFound
  <2>1. /\ TrailsAre(call.pkg, result.complete)
        /\ result.added = DOMAIN result.complete \cap call.pkg.exported
    BY NamespacesAreFound DEF AddTypeCalled
  <2>2. QED
    BY <2>1 DEF TrailsAre, TrailsFound
<1>4. QED
  BY <1>1, <1>2, <1>3, PTL DEF Spec

-----------------------------------------------------------------------------
(* The index of the first of a character, from an index on.                *)
LEMMA FirstIndex ==
  ASSUME NEW path \in Seq(Char), NEW i \in Nat, i > 0, NEW c
  PROVE  LET x == IndexFrom(path, i, c)
         IN \/ x = 0 /\ \A j \in i..Len(path) : path[j] # c
            \/ /\ x \in i..Len(path) /\ path[x] = c
               /\ \A j \in i..Len(path) : path[j] = c => x <= j
<1> DEFINE I == {j \in i..Len(path) : path[j] = c}
<1>1. IndexFrom(path, i, c) = IF I # {} THEN Min(I) ELSE 0
  BY DEF IndexFrom, SelectInSubSeq
<1>2. CASE I = {}
  BY <1>1, <1>2
<1>3. CASE I # {}
  <2>1. I \in SUBSET Nat
    OBVIOUS
  <2> HIDE DEF I
  <2>2. \E x \in I : \A y \in I : x <= y
    BY <1>3, <2>1, Least
  <2>3. Min(I) \in I /\ \A y \in I : Min(I) <= y
    BY <2>2 DEF Min
  <2>4. QED
    BY <1>1, <1>3, <2>3 DEF I
<1>4. QED
  BY <1>2, <1>3

(* A piece of a path, from an index to one before an end.                  *)
Piece(path, i, e) == SubSeq(path, i, e - 1)
IsQuoted(path, i, e) ==
  /\ i + 2 <= e /\ path[i] = "'" /\ path[e - 1] = "'"
  /\ \A j \in (i + 1)..(e - 2) : path[j] # "'"
IsPlain(path, i, e) ==
  (\A j \in i..(e - 1) : path[j] # ".") /\ (i < e => path[i] # "'")
IsPiece(path, i, e) ==
  /\ e \in i..(Len(path) + 1) /\ (e = Len(path) + 1 \/ path[e] = ".")
  /\ IsQuoted(path, i, e) \/ IsPlain(path, i, e)

(* What the grammar says of a piece, by the places of its characters.      *)
LEMMA PieceAt ==
  ASSUME NEW path \in Seq(Char), NEW i \in 1..(Len(path) + 1), NEW e \in i..(Len(path) + 1)
  PROVE  LET piece == Piece(path, i, e)
         IN /\ Quoted(piece) <=> IsQuoted(path, i, e)
            /\ Plain(piece) <=> IsPlain(path, i, e)
            /\ Meaning(piece) = IF IsQuoted(path, i, e) THEN SubSeq(path, i + 1, e - 2)
                                ELSE SubSeq(path, i, e - 1)
            /\ Meaning(piece) \in Seq(Char)
<1> DEFINE p == Piece(path, i, e)
           n == Len(path)
           l == e - i
<1>1. n \in Nat /\ l \in Nat /\ \A j \in i..(e - 1) : path[j] \in Char
  OBVIOUS
<1>2. /\ p \in Seq(Char) /\ Len(p) = l /\ \A j \in 1..l : p[j] = path[i + j - 1]
  <2>1. /\ SubSeq(path, i, e - 1) \in Seq(Char)
        /\ Len(SubSeq(path, i, e - 1)) = IF i <= e - 1 THEN (e - 1) - i + 1 ELSE 0
        /\ \A j \in 1..((e - 1) - i + 1) : SubSeq(path, i, e - 1)[j] = path[i + j - 1]
    <3>1. i \in Int /\ e - 1 \in Int
      OBVIOUS
    <3>2. QED
      BY <1>1, <3>1, SubSeqProperties
  <2>2. (e - 1) - i + 1 = l /\ (IF i <= e - 1 THEN (e - 1) - i + 1 ELSE 0) = l
    OBVIOUS
  <2>3. QED
    BY <2>1, <2>2 DEF Piece
<1> HIDE DEF p
<1>3. SubSeq(path, i, e - 1) = p
  BY DEF p, Piece
<1>4. Plain(p) <=> IsPlain(path, i, e)
  <2>1. DOMAIN p = 1..l /\ ToSet(p) = {p[j] : j \in DOMAIN p}
    BY <1>2 DEF ToSet
  <2>2. "." \notin ToSet(p) <=> \A j \in i..(e - 1) : path[j] # "."
    <3>1. ASSUME NEW j \in i..(e - 1) PROVE j - i + 1 \in 1..l /\ path[j] = p[j - i + 1]
      BY <1>1, <1>2
    <3>2. \A j \in 1..l : i + j - 1 \in i..(e - 1)
      BY <1>1
    <3>3. ASSUME \A j \in i..(e - 1) : path[j] # ".", NEW j \in 1..l PROVE p[j] # "."
      BY <1>2, <3>2, <3>3
    <3>4. ASSUME \A j \in 1..l : p[j] # ".", NEW j \in i..(e - 1) PROVE path[j] # "."
      BY <3>1, <3>4
    <3>5. QED
      BY <2>1, <3>3, <3>4
  <2>3. p # <<>> <=> i < e
    BY <1>1, <1>2
  <2>4. i < e => Head(p) = path[i]
    BY <1>1, <1>2
  <2>5. QED
    BY <2>2, <2>3, <2>4 DEF Plain, IsPlain
<1>5. ASSUME i + 2 <= e
      PROVE  /\ SubSeq(p, 2, l - 1) = SubSeq(path, i + 1, e - 2)
             /\ SubSeq(path, i + 1, e - 2) \in Seq(Char)
             /\ "'" \notin ToSet(SubSeq(path, i + 1, e - 2)) <=>
                  \A j \in (i + 1)..(e - 2) : path[j] # "'"
  <2> DEFINE a == SubSeq(p, 2, l - 1)
             b == SubSeq(path, i + 1, e - 2)
             k == l - 2
  <2>1. k \in Nat /\ \A j \in (i + 1)..(e - 2) : path[j] \in Char
    BY <1>1, <1>5
  <2>2. a \in Seq(Char) /\ Len(a) = k /\ \A j \in 1..k : a[j] = p[2 + j - 1]
    <3>1. \A j \in 2..(l - 1) : p[j] \in Char
      BY <1>1, <1>2
    <3>2. 2 \in Int /\ l - 1 \in Int
      BY <1>1
    <3>3. (IF 2 <= l - 1 THEN (l - 1) - 2 + 1 ELSE 0) = k /\ (l - 1) - 2 + 1 = k
      BY <1>1, <2>1
    <3> HIDE DEF l, k
    <3>4. QED
      BY <3>1, <3>2, <3>3, SubSeqProperties
  <2>3. b \in Seq(Char) /\ Len(b) = k /\ \A j \in 1..k : b[j] = path[(i + 1) + j - 1]
    <3>1. i + 1 \in Int /\ e - 2 \in Int
      OBVIOUS
    <3>2. /\ (IF i + 1 <= e - 2 THEN (e - 2) - (i + 1) + 1 ELSE 0) = k
          /\ (e - 2) - (i + 1) + 1 = k
      BY <1>1, <2>1
    <3> HIDE DEF l, k
    <3>3. QED
      BY <2>1, <3>1, <3>2, SubSeqProperties
  <2>4. ASSUME NEW j \in 1..k PROVE a[j] = b[j]
    <3>1. 2 + j - 1 \in 1..l /\ i + (2 + j - 1) - 1 = (i + 1) + j - 1
      BY <1>1, <2>1
    <3>2. p[2 + j - 1] = path[(i + 1) + j - 1]
      BY <1>2, <3>1
    <3>3. QED
      BY <2>2, <2>3, <3>2
  <2> HIDE DEF a, b, k, l
  <2>5. a = b
    BY <2>2, <2>3, <2>4, SeqEqual
  <2>6. "'" \notin ToSet(b) <=> \A j \in (i + 1)..(e - 2) : path[j] # "'"
    <3>1. DOMAIN b = 1..k /\ ToSet(b) = {b[j] : j \in DOMAIN b}
      BY <2>3 DEF ToSet
    <3>2. ASSUME NEW j \in (i + 1)..(e - 2) PROVE j - i \in 1..k /\ path[j] = b[j - i]
      <4>1. j - i \in 1..k /\ (i + 1) + (j - i) - 1 = j
        BY <2>1 DEF k, l
      <4>2. QED
        BY <2>3, <4>1
    <3>3. \A j \in 1..k : (i + 1) + j - 1 \in (i + 1)..(e - 2)
      BY <2>1 DEF k, l
    <3>4. ASSUME \A j \in (i + 1)..(e - 2) : path[j] # "'", NEW j \in 1..k
          PROVE  b[j] # "'"
      BY <2>3, <3>3, <3>4
    <3>5. ASSUME \A j \in 1..k : b[j] # "'", NEW j \in (i + 1)..(e - 2)
          PROVE  path[j] # "'"
      BY <3>2, <3>5
    <3>6. QED
      BY <3>1, <3>4, <3>5
  <2>7. QED
    BY <2>3, <2>5, <2>6 DEF a, b
<1>6. Quoted(p) <=> IsQuoted(path, i, e)
  <2>1. CASE i + 2 <= e
    <3>1. Len(p) >= 2 /\ Head(p) = path[i] /\ Last(p) = path[e - 1] /\ Len(p) = l
      <4>1. l >= 2 /\ 1 \in 1..l /\ l \in 1..l /\ i + 1 - 1 = i /\ i + l - 1 = e - 1
        BY <1>1, <2>1
      <4>2. Head(p) = p[1] /\ Last(p) = p[l]
        BY <1>2, <4>1 DEF Last
      <4> HIDE DEF l
      <4>3. QED
        BY <1>2, <4>1, <4>2
    <3> HIDE DEF l
    <3>2. QED
      BY <1>5, <2>1, <3>1 DEF Quoted, IsQuoted
  <2>2. CASE ~(i + 2 <= e)
    BY <1>1, <1>2, <2>2 DEF Quoted, IsQuoted
  <2>3. QED
    BY <2>1, <2>2
<1>7. Meaning(p) = IF IsQuoted(path, i, e) THEN SubSeq(path, i + 1, e - 2)
                   ELSE SubSeq(path, i, e - 1)
  <2>1. IsQuoted(path, i, e) => SubSeq(p, 2, Len(p) - 1) = SubSeq(path, i + 1, e - 2)
    <3> HIDE DEF l
    <3>1. QED
      BY <1>2, <1>5 DEF IsQuoted
  <2>2. QED
    BY <1>3, <1>6, <2>1 DEF Meaning
<1>8. Meaning(p) \in Seq(Char)
  BY <1>2, <1>3, <1>5, <1>7 DEF IsQuoted
<1>9. QED
  BY <1>4, <1>6, <1>7, <1>8 DEF p

(* The recursion of splitPath, and what it gives.                          *)
IsScan(f, path) == f = [i \in 1..Len(path) + 2 |-> Scan(path, i, f)]
Splits == {ErrPath} \cup {Segments(s) : s \in Seq(Seq(Char))}

(* What prepending a segment gives.                                        *)
LEMMA SegmentsOf ==
  ASSUME NEW seg, NEW segs
  PROVE  /\ Segments(segs).ok /\ Segments(segs).segs = segs /\ ~ErrPath.ok
         /\ Prepend(seg, Segments(segs)) = Segments(<<seg>> \o segs)
         /\ Prepend(seg, ErrPath) = ErrPath
  BY DEF Segments, ErrPath, Prepend

(* A segment before a split is a split.                                    *)
LEMMA PrependTyped ==
  ASSUME NEW seg \in Seq(Char), NEW rest \in Splits
  PROVE  Prepend(seg, rest) \in Splits
<1>1. CASE rest = ErrPath
  BY <1>1, SegmentsOf DEF Splits
<1>2. ASSUME NEW s \in Seq(Seq(Char)), rest = Segments(s)
      PROVE  Prepend(seg, rest) \in Splits
  <2>1. <<seg>> \o s \in Seq(Seq(Char))
    <3> DEFINE T == Seq(Char)
    <3>1. seg \in T /\ s \in Seq(T)
      OBVIOUS
    <3> HIDE DEF T
    <3>2. <<seg>> \o s \in Seq(T)
      BY <3>1
    <3>3. QED
      BY <3>2 DEF T
  <2>2. Segments(<<seg>> \o s) \in Splits
    BY <2>1, Zenon DEF Splits
  <2>3. Prepend(seg, rest) = Segments(<<seg>> \o s)
    BY <1>2, SegmentsOf
  <2>4. QED
    BY <2>2, <2>3
<1>3. QED
  BY <1>1, <1>2 DEF Splits

(* What a turn does, by the quote or the dot it finds.                     *)
QuoteEnds(path, i, x) ==
  /\ x \in (i + 1)..Len(path) /\ path[x] = "'"
  /\ \A j \in (i + 1)..Len(path) : path[j] = "'" => x <= j
DotEnds(path, i, x) ==
  /\ x \in i..Len(path) /\ path[x] = "."
  /\ \A j \in i..Len(path) : path[j] = "." => x <= j

(* A turn reads to the quote or dot that ends its segment, or to the end,  *)
(* or fails.                                                               *)
LEMMA Turn ==
  ASSUME NEW path \in Seq(Char), NEW i \in 1..(Len(path) + 1), NEW f
  PROVE  /\ i <= Len(path) /\ path[i] = "'" =>
              \/ \E x : /\ QuoteEnds(path, i, x) /\ (x < Len(path) => path[x + 1] = ".")
                        /\ Scan(path, i, f) = Prepend(SubSeq(path, i + 1, x - 1), f[x + 2])
              \/ /\ Scan(path, i, f) = ErrPath
                 /\ \A x : QuoteEnds(path, i, x) => x < Len(path) /\ path[x + 1] # "."
         /\ ~(i <= Len(path) /\ path[i] = "'") =>
              \/ \E x : /\ DotEnds(path, i, x)
                        /\ Scan(path, i, f) = Prepend(SubSeq(path, i, x - 1), f[x + 1])
              \/ /\ Scan(path, i, f) = Segments(<<SubSeq(path, i, Len(path))>>)
                 /\ \A j \in i..Len(path) : path[j] # "."
<1> DEFINE n == Len(path)
           quote == IndexFrom(path, i + 1, "'")
           dot == IndexFrom(path, i, ".")
<1>1. n \in Nat /\ ~(i > n + 1)
  OBVIOUS
<1>2. \/ quote = 0 /\ \A j \in (i + 1)..n : path[j] # "'"
      \/ quote # 0 /\ QuoteEnds(path, i, quote)
  <2>1. i + 1 \in Nat /\ i + 1 > 0
    OBVIOUS
  <2>2. \/ quote = 0 /\ \A j \in (i + 1)..n : path[j] # "'"
        \/ /\ quote \in (i + 1)..n /\ path[quote] = "'"
           /\ \A j \in (i + 1)..n : path[j] = "'" => quote <= j
    BY <2>1, FirstIndex
  <2> HIDE DEF quote
  <2>3. QED
    BY <2>2 DEF QuoteEnds
<1>3. \/ dot = 0 /\ \A j \in i..n : path[j] # "."
      \/ dot # 0 /\ DotEnds(path, i, dot)
  <2>1. i \in Nat /\ i > 0
    OBVIOUS
  <2>2. \/ dot = 0 /\ \A j \in i..n : path[j] # "."
        \/ /\ dot \in i..n /\ path[dot] = "."
           /\ \A j \in i..n : path[j] = "." => dot <= j
    BY <2>1, FirstIndex
  <2> HIDE DEF dot
  <2>3. QED
    BY <2>2 DEF DotEnds
<1>4. Scan(path, i, f) =
        IF i <= n /\ path[i] = "'"
        THEN IF quote = 0 \/ (quote < n /\ path[quote + 1] # ".") THEN ErrPath
             ELSE Prepend(SubSeq(path, i + 1, quote - 1), f[quote + 2])
        ELSE IF dot = 0 THEN Segments(<<SubSeq(path, i, n)>>)
        ELSE Prepend(SubSeq(path, i, dot - 1), f[dot + 1])
  BY <1>1 DEF Scan
<1> HIDE DEF quote, dot
<1>5. ASSUME i <= n, path[i] = "'"
      PROVE  \/ \E x : /\ QuoteEnds(path, i, x) /\ (x < n => path[x + 1] = ".")
                       /\ Scan(path, i, f) = Prepend(SubSeq(path, i + 1, x - 1), f[x + 2])
             \/ /\ Scan(path, i, f) = ErrPath
                /\ \A x : QuoteEnds(path, i, x) => x < n /\ path[x + 1] # "."
  <2>1. CASE quote = 0
    <3>1. \A x : ~QuoteEnds(path, i, x)
      BY <1>2, <2>1 DEF QuoteEnds
    <3>2. QED
      BY <1>4, <1>5, <2>1, <3>1
  <2>2. CASE quote # 0
    <3>1. \A x : QuoteEnds(path, i, x) => x = quote
      BY <1>2, <2>2 DEF QuoteEnds
    <3>2. QED
      BY <1>2, <1>4, <1>5, <2>2, <3>1
  <2>3. QED
    BY <2>1, <2>2
<1>6. ASSUME ~(i <= n /\ path[i] = "'")
      PROVE  \/ \E x : /\ DotEnds(path, i, x)
                       /\ Scan(path, i, f) = Prepend(SubSeq(path, i, x - 1), f[x + 1])
             \/ /\ Scan(path, i, f) = Segments(<<SubSeq(path, i, n)>>)
                /\ \A j \in i..n : path[j] # "."
  BY <1>3, <1>4, <1>6
<1>7. QED
  BY <1>5, <1>6

(* A slice of a path is a path.                                            *)
LEMMA SliceTyped ==
  ASSUME NEW path \in Seq(Char), NEW i \in 1..(Len(path) + 1), NEW e \in Int, e <= Len(path)
  PROVE  SubSeq(path, i, e) \in Seq(Char)
<1>1. \A j \in i..e : path[j] \in Char
  OBVIOUS
<1>2. i \in Int
  OBVIOUS
<1>3. QED
  BY <1>1, <1>2, SubSeqProperties

(* The recursion has a value, since each turn goes on further right.       *)
LEMMA Scans ==
  ASSUME NEW path \in Seq(Char)
  PROVE  \E f : IsScan(f, path)
<1> DEFINE n == Len(path)
           D == 1..n + 2
           mu == [i \in D |-> n + 2 - i]
           start == [i \in D |-> ErrPath]
           F == [f \in [D -> Splits] |-> [i \in D |-> Scan(path, i, f)]]
<1>1. n \in Nat /\ n + 1 \in Nat
  OBVIOUS
<1>2. mu \in [D -> 0..(n + 1)] /\ \A i \in D : mu[i] = n + 2 - i
  BY <1>1
<1>3. start \in [D -> Splits]
  BY DEF Splits
<1>4. ASSUME NEW f PROVE Scan(path, n + 2, f) = Segments(<<>>)
  BY <1>1 DEF Scan
<1>5. <<>> \in Seq(Seq(Char)) /\ \A s \in Seq(Char) : <<s>> \in Seq(Seq(Char))
  OBVIOUS
<1>6. ASSUME NEW f \in [D -> Splits], NEW i \in D PROVE Scan(path, i, f) \in Splits
  <2>1. CASE i = n + 2
    BY <1>4, <1>5, <2>1 DEF Splits
  <2>2. CASE i # n + 2
    <3>1. i \in 1..(n + 1)
      BY <1>1, <2>2
    <3>2. ASSUME NEW x, QuoteEnds(path, i, x),
                 Scan(path, i, f) = Prepend(SubSeq(path, i + 1, x - 1), f[x + 2])
          PROVE  Scan(path, i, f) \in Splits
      <4>1. x + 2 \in D /\ i + 1 \in 1..(n + 1) /\ x - 1 \in Int /\ x - 1 <= n
        BY <1>1, <3>1, <3>2 DEF QuoteEnds
      <4>2. f[x + 2] \in Splits /\ SubSeq(path, i + 1, x - 1) \in Seq(Char)
        BY <4>1, SliceTyped
      <4>3. QED
        BY <3>2, <4>2, PrependTyped
    <3>3. ASSUME NEW x, DotEnds(path, i, x),
                 Scan(path, i, f) = Prepend(SubSeq(path, i, x - 1), f[x + 1])
          PROVE  Scan(path, i, f) \in Splits
      <4>1. x + 1 \in D /\ x - 1 \in Int /\ x - 1 <= n
        BY <1>1, <3>1, <3>3 DEF DotEnds
      <4>2. f[x + 1] \in Splits /\ SubSeq(path, i, x - 1) \in Seq(Char)
        BY <3>1, <4>1, SliceTyped
      <4>3. QED
        BY <3>3, <4>2, PrependTyped
    <3>4. Segments(<<SubSeq(path, i, n)>>) \in Splits
      <4>1. SubSeq(path, i, n) \in Seq(Char)
        BY <1>1, <3>1, SliceTyped
      <4>2. QED
        BY <1>5, <4>1 DEF Splits
    <3>5. ErrPath \in Splits
      BY DEF Splits
    <3> HIDE DEF D, n
    <3>6. QED
      BY <3>1, <3>2, <3>3, <3>4, <3>5, Turn DEF n
  <2>3. QED
    BY <2>1, <2>2
<1>7. F \in [[D -> Splits] -> [D -> Splits]]
  <2> HIDE DEF D
  <2>1. QED
    BY <1>6
<1>8. ASSUME NEW f \in [D -> Splits], NEW g \in [D -> Splits], NEW i \in D,
             \A e \in D : mu[e] < mu[i] => f[e] = g[e]
      PROVE  F[f][i] = F[g][i]
  <2>1. \A e \in D : i < e => f[e] = g[e]
    BY <1>1, <1>2, <1>8
  <2>2. Scan(path, i, f) = Scan(path, i, g)
    <3>1. CASE i = n + 2
      BY <1>4, <3>1
    <3>2. CASE i # n + 2
      <4>1. i \in 1..(n + 1)
        BY <1>1, <3>2
      <4>2. \A x : QuoteEnds(path, i, x) => f[x + 2] = g[x + 2]
        <5>1. \A x : QuoteEnds(path, i, x) => x + 2 \in D /\ i < x + 2
          BY <1>1, <4>1 DEF QuoteEnds
        <5>2. QED
          BY <2>1, <5>1
      <4>3. \A x : DotEnds(path, i, x) => f[x + 1] = g[x + 1]
        <5>1. \A x : DotEnds(path, i, x) => x + 1 \in D /\ i < x + 1
          BY <1>1, <4>1 DEF DotEnds
        <5>2. QED
          BY <2>1, <5>1
      <4>4. /\ \A x, y : QuoteEnds(path, i, x) /\ QuoteEnds(path, i, y) => x = y
            /\ \A x, y : DotEnds(path, i, x) /\ DotEnds(path, i, y) => x = y
        BY <1>1, <4>1 DEF QuoteEnds, DotEnds
      <4>5. ASSUME i <= n, path[i] = "'" PROVE Scan(path, i, f) = Scan(path, i, g)
        <5>1. \A h : \/ \E x : /\ QuoteEnds(path, i, x) /\ (x < n => path[x + 1] = ".")
                               /\ Scan(path, i, h) = Prepend(SubSeq(path, i + 1, x - 1), h[x + 2])
                     \/ /\ Scan(path, i, h) = ErrPath
                        /\ \A x : QuoteEnds(path, i, x) => x < n /\ path[x + 1] # "."
          BY <4>1, <4>5, Turn
        <5> HIDE DEF n
        <5>2. CASE \E x : QuoteEnds(path, i, x) /\ (x < n => path[x + 1] = ".")
          <6>1. PICK x : QuoteEnds(path, i, x) /\ (x < n => path[x + 1] = ".")
            BY <5>2
          <6>2. \A h : Scan(path, i, h) = Prepend(SubSeq(path, i + 1, x - 1), h[x + 2])
            BY <4>4, <5>1, <6>1
          <6>3. QED
            BY <4>2, <6>1, <6>2
        <5>3. CASE ~\E x : QuoteEnds(path, i, x) /\ (x < n => path[x + 1] = ".")
          BY <5>1, <5>3
        <5>4. QED
          BY <5>2, <5>3
      <4>6. ASSUME ~(i <= n /\ path[i] = "'") PROVE Scan(path, i, f) = Scan(path, i, g)
        <5>1. \A h : \/ \E x : /\ DotEnds(path, i, x)
                               /\ Scan(path, i, h) = Prepend(SubSeq(path, i, x - 1), h[x + 1])
                     \/ /\ Scan(path, i, h) = Segments(<<SubSeq(path, i, n)>>)
                        /\ \A j \in i..n : path[j] # "."
          BY <4>1, <4>6, Turn
        <5>2. CASE \E x : DotEnds(path, i, x)
          <6>1. PICK x : DotEnds(path, i, x)
            BY <5>2
          <6>2. ~\A j \in i..n : path[j] # "."
            BY <6>1 DEF DotEnds
          <6> HIDE DEF n
          <6>3. \A h : Scan(path, i, h) = Prepend(SubSeq(path, i, x - 1), h[x + 1])
            BY <4>4, <5>1, <6>1, <6>2
          <6>4. QED
            BY <4>3, <6>1, <6>3
        <5>3. CASE ~\E x : DotEnds(path, i, x)
          BY <5>1, <5>3
        <5>4. QED
          BY <5>2, <5>3
      <4>7. QED
        BY <4>5, <4>6
    <3>3. QED
      BY <3>1, <3>2
  <2> HIDE DEF D
  <2>3. QED
    BY <2>2
<1> HIDE DEF D, F, mu, start
<1>9. PICK f \in [D -> Splits] : f = F[f]
  <2> DEFINE N == n + 1
  <2>1. N \in Nat /\ mu \in [D -> 0..N]
    BY <1>1, <1>2
  <2>2. ReadsSmaller(F, D, Splits, mu)
    BY <1>8 DEF ReadsSmaller
  <2>3. IsDescending(F, D, Splits, mu, N, start)
    BY <1>3, <1>7, <2>1, <2>2 DEF IsDescending
  <2> HIDE DEF N
  <2>4. QED
    BY <2>1, <2>3, Fixpoint
<1>10. f = [i \in D |-> Scan(path, i, f)]
  BY <1>9 DEF F
<1>11. QED
  BY <1>9, <1>10 DEF IsScan, D

(* A turn of the loop reads a piece, whatever piece there is, and finds one *)
(* if it does not fail.                                                    *)
LEMMA PieceTurn ==
  ASSUME NEW path \in Seq(Char), NEW i \in 1..(Len(path) + 1), NEW f, IsScan(f, path)
  PROVE  /\ \A e : IsPiece(path, i, e) =>
              f[i] = Prepend(Meaning(Piece(path, i, e)), f[e + 1])
         /\ f[i].ok => \E e : IsPiece(path, i, e)
<1> DEFINE n == Len(path)
<1>1. n \in Nat
  OBVIOUS
<1>2. f[i] = Scan(path, i, f)
  BY <1>1 DEF IsScan
<1>3. f[n + 2] = Segments(<<>>)
  <2>1. n + 2 \in 1..n + 2 /\ n + 2 > n + 1
    BY <1>1
  <2>2. f[n + 2] = Scan(path, n + 2, f)
    BY <2>1 DEF IsScan
  <2>3. QED
    BY <2>1, <2>2 DEF Scan
<1>4. /\ i <= n /\ path[i] = "'" =>
           \/ \E x : /\ QuoteEnds(path, i, x) /\ (x < n => path[x + 1] = ".")
                     /\ f[i] = Prepend(SubSeq(path, i + 1, x - 1), f[x + 2])
           \/ /\ f[i] = ErrPath
              /\ \A x : QuoteEnds(path, i, x) => x < n /\ path[x + 1] # "."
      /\ ~(i <= n /\ path[i] = "'") =>
           \/ \E x : /\ DotEnds(path, i, x)
                     /\ f[i] = Prepend(SubSeq(path, i, x - 1), f[x + 1])
           \/ /\ f[i] = Segments(<<SubSeq(path, i, n)>>)
              /\ \A j \in i..n : path[j] # "."
  BY <1>2, Turn
<1>5. ASSUME NEW e, IsPiece(path, i, e), IsQuoted(path, i, e)
      PROVE  f[i] = Prepend(SubSeq(path, i + 1, e - 2), f[e + 1])
  <2>1. e \in i..(n + 1) /\ (e = n + 1 \/ path[e] = ".") /\ i + 2 <= e
    BY <1>5 DEF IsPiece, IsQuoted
  <2>2. i <= n /\ path[i] = "'" /\ QuoteEnds(path, i, e - 1)
    <3>1. e - 1 \in (i + 1)..n /\ path[e - 1] = "'" /\ path[i] = "'" /\ i <= n
      BY <1>1, <1>5, <2>1 DEF IsQuoted
    <3>2. \A j \in (i + 1)..n : path[j] = "'" => e - 1 <= j
      <4>1. \A j \in (i + 1)..n : ~(e - 1 <= j) => j \in (i + 1)..(e - 2)
        BY <1>1, <2>1
      <4>2. QED
        BY <1>5, <4>1 DEF IsQuoted
    <3>3. QED
      BY <3>1, <3>2 DEF QuoteEnds
  <2>3. \A x : QuoteEnds(path, i, x) => x = e - 1
    BY <1>1, <2>1, <2>2 DEF QuoteEnds
  <2>4. ~(e - 1 < n /\ path[(e - 1) + 1] # ".")
    BY <1>1, <2>1
  <2>5. f[i] = Prepend(SubSeq(path, i + 1, (e - 1) - 1), f[(e - 1) + 2])
    <3> HIDE DEF n
    <3>1. QED
      BY <1>4, <2>2, <2>3, <2>4
  <2>6. (e - 1) - 1 = e - 2 /\ (e - 1) + 2 = e + 1
    BY <2>1
  <2>7. QED
    BY <2>5, <2>6
<1>6. ASSUME NEW e, IsPiece(path, i, e), ~IsQuoted(path, i, e)
      PROVE  f[i] = Prepend(SubSeq(path, i, e - 1), f[e + 1])
  <2>1. /\ e \in i..(n + 1) /\ (e = n + 1 \/ path[e] = ".") /\ IsPlain(path, i, e)
    BY <1>6 DEF IsPiece
  <2>2. ~(i <= n /\ path[i] = "'")
    <3>1. CASE i < e
      BY <2>1, <3>1 DEF IsPlain
    <3>2. CASE i = e
      BY <1>1, <2>1, <3>2
    <3>3. QED
      BY <2>1, <3>1, <3>2
  <2>3. CASE e <= n
    <3>1. e \in i..n /\ path[e] = "."
      BY <1>1, <2>1, <2>3
    <3>2. \A x : DotEnds(path, i, x) => x = e
      <4>1. \A x \in i..n : x < e => x \in i..(e - 1)
        BY <1>1, <2>1
      <4>2. \A x : DotEnds(path, i, x) => x \in i..n /\ path[x] = "." /\ x <= e
        BY <3>1 DEF DotEnds
      <4>3. \A x \in i..n : path[x] = "." => ~(x < e)
        BY <2>1, <4>1 DEF IsPlain
      <4>4. QED
        BY <1>1, <3>1, <4>2, <4>3
    <3> HIDE DEF n
    <3>3. QED
      BY <1>4, <2>2, <3>1, <3>2
  <2>4. CASE e = n + 1
    <3>1. \A j \in i..n : path[j] # "."
      BY <1>1, <2>1, <2>4 DEF IsPlain
    <3>2. \A x : ~DotEnds(path, i, x)
      BY <3>1 DEF DotEnds
    <3>3. f[i] = Segments(<<SubSeq(path, i, n)>>)
      <4> HIDE DEF n
      <4>1. QED
        BY <1>4, <2>2, <3>2
    <3>4. e - 1 = n /\ e + 1 = n + 2
      BY <1>1, <2>4
    <3> DEFINE seg == SubSeq(path, i, n)
    <3>5. seg \in Seq(Char)
      BY <1>1, SliceTyped
    <3> HIDE DEF seg
    <3>6. Prepend(seg, Segments(<<>>)) = Segments(<<seg>> \o <<>>)
      BY SegmentsOf
    <3>7. <<seg>> \o <<>> = <<seg>>
      <4> DEFINE T == Seq(Char)
      <4>1. <<seg>> \in Seq(T)
        BY <3>5
      <4> HIDE DEF T
      <4>2. QED
        BY <4>1, ConcatEmptySeq
    <3>8. QED
      BY <1>3, <3>3, <3>4, <3>6, <3>7 DEF seg
  <2>5. QED
    BY <1>1, <2>1, <2>3, <2>4
<1>7. ASSUME NEW e, IsPiece(path, i, e)
      PROVE  f[i] = Prepend(Meaning(Piece(path, i, e)), f[e + 1])
  <2>1. e \in i..(Len(path) + 1)
    BY <1>7 DEF IsPiece
  <2>2. Meaning(Piece(path, i, e)) = IF IsQuoted(path, i, e) THEN SubSeq(path, i + 1, e - 2)
                                     ELSE SubSeq(path, i, e - 1)
    BY <2>1, PieceAt
  <2>3. QED
    BY <1>5, <1>6, <1>7, <2>2
<1>8. ASSUME f[i].ok PROVE \E e : IsPiece(path, i, e)
  <2>1. f[i] # ErrPath
    BY <1>8 DEF ErrPath
  <2>2. CASE i <= n /\ path[i] = "'"
    <3>1. PICK x : QuoteEnds(path, i, x) /\ (x < n => path[x + 1] = ".")
      <4> HIDE DEF n
      <4>1. QED
        BY <1>4, <2>1, <2>2
    <3>2. x \in (i + 1)..n /\ path[x] = "'"
          /\ \A j \in (i + 1)..n : path[j] = "'" => x <= j
      BY <3>1 DEF QuoteEnds
    <3>3. x + 1 \in i..(n + 1) /\ (x + 1 = n + 1 \/ path[x + 1] = ".")
      BY <1>1, <3>1, <3>2
    <3>4. IsQuoted(path, i, x + 1)
      <4>1. i + 2 <= x + 1 /\ (x + 1) - 1 = x /\ (x + 1) - 2 = x - 1
        BY <1>1, <3>2
      <4>2. \A j \in (i + 1)..(x - 1) : path[j] # "'"
        BY <1>1, <3>2
      <4>3. QED
        BY <2>2, <3>2, <4>1, <4>2 DEF IsQuoted
    <3>5. IsPiece(path, i, x + 1)
      BY <3>3, <3>4 DEF IsPiece
    <3>6. QED
      BY <3>5
  <2>3. CASE ~(i <= n /\ path[i] = "'")
    <3>1. CASE \E x : DotEnds(path, i, x)
      <4>1. PICK x : DotEnds(path, i, x)
        BY <3>1
      <4>2. x \in i..n /\ path[x] = "." /\ \A j \in i..n : path[j] = "." => x <= j
        BY <4>1 DEF DotEnds
      <4>3. \A j \in i..(x - 1) : path[j] # "."
        BY <1>1, <4>2
      <4>4. i < x => path[i] # "'"
        BY <1>1, <2>3, <4>2
      <4>5. IsPiece(path, i, x)
        BY <1>1, <4>2, <4>3, <4>4 DEF IsPiece, IsPlain
      <4>6. QED
        BY <4>5
    <3>2. CASE ~\E x : DotEnds(path, i, x)
      <4>1. \A j \in i..n : path[j] # "."
        <5> HIDE DEF n
        <5>1. QED
          BY <1>4, <2>3, <3>2
      <4>2. IsPlain(path, i, n + 1)
        <5>1. (n + 1) - 1 = n /\ (i < n + 1 => i <= n)
          BY <1>1
        <5>2. QED
          BY <2>3, <4>1, <5>1 DEF IsPlain
      <4>3. n + 1 \in i..(n + 1)
        BY <1>1
      <4>4. IsPiece(path, i, n + 1)
        BY <4>2, <4>3 DEF IsPiece
      <4>5. QED
        BY <4>4
    <3>3. QED
      BY <3>1, <3>2
  <2>4. QED
    BY <2>2, <2>3
<1>9. QED
  BY <1>7, <1>8

(* A way to cut the rest of a path, from an index on, into pieces: their   *)
(* ends in order, after the index before it; and what it reads.            *)
CutsPath(path, i, m, q) ==
  /\ m \in Nat /\ q \in [0..m -> Nat] /\ q[0] = i - 1 /\ q[m] = Len(path) + 1
  /\ \A k \in 1..m : IsPiece(path, q[k - 1] + 1, q[k])
Read(path, m, q) == [k \in 1..m |-> Meaning(Piece(path, q[k - 1] + 1, q[k]))]

(* The cuts of a path grow, and lie within it.                             *)
LEMMA CutsTyped ==
  ASSUME NEW path \in Seq(Char), NEW i \in 1..(Len(path) + 2), NEW m, NEW q,
         CutsPath(path, i, m, q)
  PROVE  \A k \in 1..m : /\ q[k - 1] + 1 \in 1..(Len(path) + 1)
                         /\ q[k - 1] < q[k] /\ q[k] \in 1..(Len(path) + 1)
                         /\ Meaning(Piece(path, q[k - 1] + 1, q[k])) \in Seq(Char)
<1> SUFFICES ASSUME NEW k \in 1..m
             PROVE  /\ q[k - 1] + 1 \in 1..(Len(path) + 1)
                    /\ q[k - 1] < q[k] /\ q[k] \in 1..(Len(path) + 1)
                    /\ Meaning(Piece(path, q[k - 1] + 1, q[k])) \in Seq(Char)
  OBVIOUS
<1> DEFINE a == q[k - 1]
           e == q[k]
<1>1. m \in Nat /\ k \in 0..m /\ k - 1 \in 0..m /\ Len(path) \in Nat
  BY DEF CutsPath
<1>2. a \in Nat /\ e \in Nat /\ IsPiece(path, a + 1, e)
  BY <1>1 DEF CutsPath
<1>3. e \in (a + 1)..(Len(path) + 1)
  BY <1>2 DEF IsPiece
<1>4. a + 1 \in 1..(Len(path) + 1) /\ a < e /\ e \in 1..(Len(path) + 1)
  BY <1>1, <1>2, <1>3
<1> HIDE DEF a, e
<1>5. Meaning(Piece(path, a + 1, e)) \in Seq(Char)
  BY <1>3, <1>4, PieceAt
<1>6. QED
  BY <1>4, <1>5 DEF a, e

(* splitPath reads every way to cut the path: so there is but one.         *)
LEMMA CutsAreRead ==
  ASSUME NEW path \in Seq(Char), NEW m, NEW q, CutsPath(path, 1, m, q),
         NEW f, IsScan(f, path)
  PROVE  f[1] = Segments(Read(path, m, q))
<1> DEFINE n == Len(path)
           segs == Read(path, m, q)
           Rest(k) == SubSeq(segs, k + 1, m)
           P == {l \in 0..m : f[q[m - l] + 1] = Segments(Rest(m - l))}
<1>1. n \in Nat /\ m \in Nat /\ q[0] = 0 /\ q[m] = n + 1 /\ 1 \in 1..(n + 2)
  BY DEF CutsPath
<1>2. \A k \in 1..m : /\ q[k - 1] + 1 \in 1..(n + 1) /\ q[k] \in 1..(n + 1)
                      /\ segs[k] \in Seq(Char)
                      /\ segs[k] = Meaning(Piece(path, q[k - 1] + 1, q[k]))
  BY <1>1, CutsTyped DEF Read
<1>3. segs \in Seq(Seq(Char)) /\ Len(segs) = m
  <2> DEFINE T == Seq(Char)
  <2>1. \A k \in 1..m : segs[k] \in T
    BY <1>2
  <2> HIDE DEF T
  <2>2. segs \in [1..m -> T]
    BY <2>1 DEF Read
  <2> HIDE DEF segs
  <2>3. segs \in Seq(T) /\ Len(segs) = m
    BY <1>1, <2>2
  <2>4. QED
    BY <2>3 DEF T
<1> HIDE DEF segs, n
<1>4. 0 \in P
  <2>1. m - 0 = m /\ m + 1 \in Int /\ m < m + 1 /\ m \in Int /\ n + 1 + 1 = n + 2
    BY <1>1
  <2>2. SubSeq(segs, m + 1, m) = <<>>
    BY <2>1, SubSeqEmpty
  <2>3. f[n + 2] = Segments(<<>>)
    <3>1. n + 2 \in 1..n + 2 /\ n + 2 > n + 1
      BY <1>1
    <3>2. f[n + 2] = Scan(path, n + 2, f)
      BY <3>1 DEF IsScan, n
    <3>3. QED
      BY <3>1, <3>2 DEF Scan, n
  <2>4. f[q[m] + 1] = Segments(Rest(m))
    BY <1>1, <2>1, <2>2, <2>3
  <2> HIDE DEF Rest
  <2>5. QED
    BY <1>1, <2>1, <2>4
<1>5. ASSUME NEW l \in 1..m, l - 1 \in P PROVE l \in P
  <2> DEFINE k == m - l + 1
  <2>1. k \in 1..m /\ m - l = k - 1 /\ m - (l - 1) = k
    BY <1>1
  <2>2. f[q[k] + 1] = Segments(Rest(k))
    BY <1>5, <2>1
  <2> HIDE DEF k
  <2>3. IsPiece(path, q[k - 1] + 1, q[k])
    BY <2>1 DEF CutsPath
  <2>4. f[q[k - 1] + 1] = Prepend(segs[k], f[q[k] + 1])
    <3>1. q[k - 1] + 1 \in 1..(Len(path) + 1)
      BY <1>2, <2>1 DEF n
    <3>2. QED
      BY <1>2, <2>1, <2>3, <3>1, PieceTurn
  <2>5. f[q[k - 1] + 1] = Segments(<<segs[k]>> \o SubSeq(segs, k + 1, m))
    BY <2>2, <2>4, SegmentsOf
  <2>6. SubSeq(segs, k, m) = <<segs[k]>> \o SubSeq(segs, k + 1, m)
    <3>1. k \in 1..Len(segs) /\ m \in k..Len(segs)
      BY <1>1, <1>3, <2>1
    <3>2. QED
      BY <1>3, <3>1, SubSeqRecursiveFirst
  <2>7. (k - 1) + 1 = k
    BY <2>1
  <2>8. f[q[k - 1] + 1] = Segments(Rest(k - 1))
    BY <2>5, <2>6, <2>7
  <2> HIDE DEF Rest
  <2>9. QED
    BY <1>1, <2>1, <2>8
<1>6. m \in P
  <2> HIDE DEF P
  <2>1. 0..m \subseteq P
    BY <1>1, <1>4, <1>5, Induct
  <2>2. QED
    BY <1>1, <2>1
<1>7. f[1] = Segments(SubSeq(segs, 1, m))
  <2>1. m - m = 0 /\ 0 + 1 = 1
    BY <1>1
  <2>2. f[q[m - m] + 1] = Segments(SubSeq(segs, (m - m) + 1, m))
    BY <1>6
  <2>3. QED
    BY <1>1, <2>1, <2>2
<1>8. SubSeq(segs, 1, m) = segs
  BY <1>3, SubSeqFull
<1>9. QED
  BY <1>7, <1>8 DEF segs

(* What splitPath accepts can be cut.                                      *)
LEMMA CutsFound ==
  ASSUME NEW path \in Seq(Char), NEW f, IsScan(f, path),
         f[1].ok
  PROVE  \E m, q : CutsPath(path, 1, m, q)
<1> DEFINE n == Len(path)
           Found1(i) == f[i].ok => \E m, q : CutsPath(path, i, m, q)
           P == {l \in 0..(n + 1) : \A i \in ((n + 2) - l)..(n + 2) : Found1(i)}
<1>1. n \in Nat
  OBVIOUS
<1>2. 0 \in P
  <2> DEFINE q == [k \in 0..0 |-> n + 1]
  <2>1. q \in [0..0 -> Nat] /\ q[0] = n + 1
    BY <1>1
  <2> HIDE DEF q
  <2>2. CutsPath(path, n + 2, 0, q)
    <3>1. (n + 2) - 1 = n + 1 /\ \A k : k \notin 1..0
      BY <1>1
    <3>2. QED
      BY <2>1, <3>1 DEF CutsPath
  <2>3. Found1(n + 2)
    BY <2>2
  <2>4. \A i \in ((n + 2) - 0)..(n + 2) : i = n + 2
    BY <1>1
  <2> HIDE DEF Found1
  <2>5. QED
    BY <1>1, <2>3, <2>4
<1>3. ASSUME NEW l \in 1..(n + 1), l - 1 \in P PROVE l \in P
  <2> DEFINE i == (n + 2) - l
  <2>1. i \in 1..(n + 1) /\ (n + 2) - (l - 1) = i + 1
    BY <1>1
  <2>2. \A j \in (i + 1)..(n + 2) : Found1(j)
    BY <1>3, <2>1
  <2> HIDE DEF i
  <2>3. ASSUME f[i].ok PROVE \E m, q : CutsPath(path, i, m, q)
    <3>1. PICK e : IsPiece(path, i, e)
      BY <2>1, <2>3, PieceTurn
    <3>2. e \in i..(n + 1)
      BY <3>1 DEF IsPiece
    <3>3. e + 1 \in (i + 1)..(n + 2) /\ e + 1 \in 1..n + 2 /\ e \in Nat
      BY <1>1, <2>1, <3>2
    <3>4. f[e + 1].ok
      <4>1. f[i] = Prepend(Meaning(Piece(path, i, e)), f[e + 1])
        BY <2>1, <3>1, PieceTurn
      <4>2. CASE ~f[e + 1].ok
        <5>1. f[i] = ErrPath
          BY <4>1, <4>2 DEF Prepend
        <5>2. QED
          BY <2>3, <5>1, SegmentsOf
      <4>3. QED
        BY <4>2
    <3>5. PICK m, q : CutsPath(path, e + 1, m, q)
      BY <2>2, <3>3, <3>4
    <3>6. /\ m \in Nat /\ q \in [0..m -> Nat] /\ q[0] = e /\ q[m] = n + 1
          /\ \A k \in 1..m : IsPiece(path, q[k - 1] + 1, q[k])
      BY <3>3, <3>5 DEF CutsPath
    <3> DEFINE r == [k \in 0..(m + 1) |-> IF k = 0 THEN i - 1 ELSE q[k - 1]]
    <3>7. r \in [0..(m + 1) -> Nat] /\ r[0] = i - 1
      BY <2>1, <3>6
    <3>8. \A k \in 1..(m + 1) : r[k] = q[k - 1]
      BY <3>6
    <3> HIDE DEF r
    <3>9. ASSUME NEW k \in 1..(m + 1) PROVE IsPiece(path, r[k - 1] + 1, r[k])
      <4>1. CASE k = 1
        <5>1. r[k] = e /\ r[k - 1] + 1 = i
          <6>1. 1 - 1 = 0 /\ (i - 1) + 1 = i /\ 1 \in 1..(m + 1)
            BY <2>1, <3>6
          <6>2. QED
            BY <3>6, <3>7, <3>8, <4>1, <6>1
        <5>2. QED
          BY <3>1, <5>1
      <4>2. CASE k # 1
        <5>1. k - 1 \in 1..m /\ k - 1 \in 1..(m + 1)
          BY <3>6, <4>2
        <5>2. r[k] = q[k - 1] /\ r[k - 1] = q[(k - 1) - 1]
          BY <3>8, <5>1
        <5>3. QED
          BY <3>6, <5>1, <5>2
      <4>3. QED
        BY <4>1, <4>2
    <3>10. r[m + 1] = n + 1 /\ m + 1 \in Nat
      <4>1. m + 1 \in 1..(m + 1) /\ (m + 1) - 1 = m /\ m + 1 \in Nat
        BY <3>6
      <4>2. r[m + 1] = q[(m + 1) - 1]
        BY <3>8, <4>1
      <4>3. QED
        BY <3>6, <4>1, <4>2
    <3>11. CutsPath(path, i, m + 1, r)
      BY <3>7, <3>9, <3>10 DEF CutsPath
    <3>12. QED
      BY <3>11
  <2>4. Found1(i)
    BY <2>3
  <2> HIDE DEF Found1
  <2>5. \A j \in i..(n + 2) : Found1(j)
    <3>1. \A j \in i..(n + 2) : j = i \/ j \in (i + 1)..(n + 2)
      BY <1>1, <2>1
    <3>2. QED
      BY <2>2, <2>4, <3>1
  <2>6. QED
    BY <2>5 DEF i
<1>4. n + 1 \in P
  <2> HIDE DEF P
  <2>1. n + 1 \in Nat
    BY <1>1
  <2> DEFINE N == n + 1
  <2>2. N \in Nat /\ 0 \in P /\ \A l \in 1..N : l - 1 \in P => l \in P
    BY <1>2, <1>3, <2>1
  <2>3. N \in 0..N
    BY <2>1
  <2> HIDE DEF N
  <2>4. 0..N \subseteq P
    BY <2>2, Induct
  <2>5. QED
    BY <2>3, <2>4 DEF N
<1>5. Found1(1)
  <2>1. 1 \in ((n + 2) - (n + 1))..(n + 2)
    BY <1>1
  <2> HIDE DEF Found1
  <2>2. QED
    BY <1>4, <2>1
<1>6. QED
  BY <1>5

(* How many of the ends lie before one, and the ends in order.             *)
Before(ends, e) == {d \in ends : d < e}
Rank(ends, e) == Cardinality(Before(ends, e))
EndAt(ends, k) == CHOOSE e \in ends : Rank(ends, e) = k

(* Ranks grow with the ends, one by one.                                   *)
LEMMA RanksGrow ==
  ASSUME NEW n \in Nat, NEW ends \in SUBSET (0..n)
  PROVE  /\ \A e \in ends : Rank(ends, e) \in Nat
         /\ \A d, e \in ends : d < e => Rank(ends, d) < Rank(ends, e)
         /\ \A d, e \in ends :
              d < e /\ (\A c \in ends : ~(d < c /\ c < e)) => Rank(ends, e) = Rank(ends, d) + 1
<1>1. IsFiniteSet(ends)
  <2>1. IsFiniteSet(0..n)
    BY FS_Interval
  <2>2. QED
    BY <2>1, FS_Subset
<1>2. /\ \A e : Before(ends, e) \in SUBSET ends
      /\ \A d, e : d \in Before(ends, e) <=> d \in ends /\ d < e
      /\ \A e \in ends : e \in Nat
  BY DEF Before
<1>3. \A e : IsFiniteSet(Before(ends, e)) /\ Rank(ends, e) \in Nat
  BY <1>1, <1>2, FS_Subset, FS_CardinalityType DEF Rank
<1>4. ASSUME NEW d \in ends, NEW e \in ends, d < e PROVE Rank(ends, d) < Rank(ends, e)
  <2>1. Before(ends, d) \in SUBSET Before(ends, e)
    <3>1. \A c \in ends : c < d => c < e
      BY <1>2, <1>4
    <3>2. QED
      BY <1>2, <3>1
  <2>2. d \in Before(ends, e) /\ d \notin Before(ends, d)
    BY <1>2, <1>4
  <2>3. Cardinality(Before(ends, d)) < Cardinality(Before(ends, e))
    <3>1. Before(ends, d) # Before(ends, e)
      BY <2>2
    <3>2. /\ Cardinality(Before(ends, d)) <= Cardinality(Before(ends, e))
          /\ Cardinality(Before(ends, e)) = Cardinality(Before(ends, d)) =>
               Before(ends, d) = Before(ends, e)
      BY <1>3, <2>1, FS_Subset
    <3>3. QED
      BY <1>3, <3>1, <3>2 DEF Rank
  <2>4. QED
    BY <2>3 DEF Rank
<1>5. ASSUME NEW d \in ends, NEW e \in ends, d < e, \A c \in ends : ~(d < c /\ c < e)
      PROVE  Rank(ends, e) = Rank(ends, d) + 1
  <2>1. Before(ends, e) = Before(ends, d) \cup {d}
    <3>1. \A c \in ends : c < e <=> c < d \/ c = d
      BY <1>2, <1>5
    <3>2. QED
      BY <1>2, <1>5, <3>1
  <2>2. d \notin Before(ends, d)
    BY <1>2
  <2>3. QED
    BY <1>3, <2>1, <2>2, FS_AddElement DEF Rank
<1>6. QED
  BY <1>3, <1>4, <1>5

(* The ends of the pieces that a set of cuts makes, in order: from 0 to    *)
(* the end of the path, and none between two that follow each other.       *)
Ordered(q, m, ends, top) ==
  /\ q \in [0..m -> ends] /\ q[0] = 0 /\ q[m] = top
  /\ \A k \in 1..m : q[k - 1] < q[k] /\ \A e \in ends : ~(q[k - 1] < e /\ e < q[k])

(* By their ranks, the ends of pieces are enumerated in order.             *)
LEMMA EndsInOrder ==
  ASSUME NEW n \in Nat, NEW cuts \in SUBSET (1..n)
  PROVE  LET ends == cuts \cup {0, n + 1}
             m    == Cardinality(cuts) + 1
         IN m \in Nat /\ m > 0 /\ Ordered([k \in 0..m |-> EndAt(ends, k)], m, ends, n + 1)
<1> DEFINE ends == cuts \cup {0, n + 1}
           m == Cardinality(cuts) + 1
           R(e) == Rank(ends, e)
<1>1. IsFiniteSet(cuts) /\ m \in Nat /\ m > 0
  <2>1. IsFiniteSet(1..n)
    BY FS_Interval
  <2>2. IsFiniteSet(cuts)
    BY <2>1, FS_Subset
  <2>3. Cardinality(cuts) \in Nat
    BY <2>2, FS_CardinalityType
  <2>4. QED
    BY <2>2, <2>3
<1>2. ends \in SUBSET (0..(n + 1)) /\ n + 1 \in Nat /\ 0 \in ends /\ n + 1 \in ends
      /\ \A e \in ends : 0 <= e /\ e <= n + 1 /\ e \in Nat
  OBVIOUS
<1>3. R(0) = 0
  <2>1. Before(ends, 0) = {}
    <3>1. \A e \in ends : ~(e < 0)
      BY <1>2
    <3> HIDE DEF ends
    <3>2. QED
      BY <3>1 DEF Before
  <2>2. QED
    BY <2>1, FS_EmptySet DEF Rank
<1>4. R(n + 1) = m
  <2>1. Before(ends, n + 1) = cuts \cup {0}
    <3>1. \A e \in ends : e < n + 1 <=> e \in cuts \cup {0}
      OBVIOUS
    <3>2. cuts \cup {0} \subseteq ends
      OBVIOUS
    <3> HIDE DEF ends
    <3>3. QED
      BY <3>1, <3>2 DEF Before
  <2>2. 0 \notin cuts
    OBVIOUS
  <2>3. QED
    BY <1>1, <2>1, <2>2, FS_AddElement DEF Rank
<1>5. /\ \A e \in ends : R(e) \in Nat
      /\ \A d, e \in ends : d < e => R(d) < R(e)
      /\ \A d, e \in ends :
           d < e /\ (\A c \in ends : ~(d < c /\ c < e)) => R(e) = R(d) + 1
  BY <1>2, RanksGrow
<1> HIDE DEF ends, m, R
<1> DEFINE P == {k \in 0..m : \E e \in ends : R(e) = k}
<1>6. 0 \in P
  BY <1>1, <1>2, <1>3
<1>7. ASSUME NEW k \in 1..m, k - 1 \in P PROVE k \in P
  <2>1. PICK d \in ends : R(d) = k - 1
    BY <1>7
  <2> DEFINE Above == {e \in ends : d < e}
  <2>2. Above \in SUBSET Nat /\ n + 1 \in Above
    <3>1. d # n + 1
      BY <1>1, <1>4, <2>1
    <3>2. d < n + 1
      BY <1>2, <2>1, <3>1
    <3>3. QED
      BY <1>2, <3>2
  <2>3. PICK e \in Above : \A c \in Above : e <= c
    <3> HIDE DEF Above
    <3>1. QED
      BY <2>2, Least
  <2>4. e \in ends /\ d < e /\ \A c \in ends : ~(d < c /\ c < e)
    BY <1>2, <2>1, <2>3
  <2>5. R(e) = k
    BY <1>1, <1>5, <2>1, <2>4
  <2>6. QED
    BY <2>4, <2>5
<1>8. \A k \in 0..m : \E e \in ends : R(e) = k
  <2>1. 0..m \subseteq P
    <3> HIDE DEF P
    <3>1. QED
      BY <1>1, <1>6, <1>7, Induct
  <2>2. QED
    BY <2>1
<1>9. \A d, e \in ends : R(d) = R(e) => d = e
  BY <1>2, <1>5
<1> DEFINE q == [k \in 0..m |-> EndAt(ends, k)]
<1>10. \A k \in 0..m : q[k] \in ends /\ R(q[k]) = k
  BY <1>8 DEF EndAt, R
<1>11. q \in [0..m -> ends]
  BY <1>10
<1> HIDE DEF q
<1>12. q[0] = 0 /\ q[m] = n + 1
  <2>1. 0 \in 0..m /\ m \in 0..m
    BY <1>1
  <2>2. QED
    BY <1>2, <1>3, <1>4, <1>9, <1>10, <2>1
<1>13. ASSUME NEW k \in 1..m
       PROVE  q[k - 1] < q[k] /\ \A e \in ends : ~(q[k - 1] < e /\ e < q[k])
  <2>1. k - 1 \in 0..m /\ k \in 0..m
    BY <1>1
  <2> DEFINE a == q[k - 1]
             b == q[k]
  <2>2. a \in ends /\ b \in ends /\ R(a) = k - 1 /\ R(b) = k
    BY <1>10, <2>1
  <2> HIDE DEF a, b
  <2>3. a < b
    <3>1. a # b /\ ~(b < a)
      BY <1>5, <2>1, <2>2
    <3>2. a \in Nat /\ b \in Nat
      BY <1>2, <2>2
    <3>3. QED
      BY <3>1, <3>2
  <2>4. ASSUME NEW e \in ends, a < e, e < b PROVE FALSE
    <3>1. R(a) < R(e) /\ R(e) < R(b) /\ R(e) \in Nat
      BY <1>5, <2>2, <2>4
    <3>2. QED
      BY <2>1, <2>2, <3>1
  <2>5. QED
    BY <2>3, <2>4 DEF a, b
<1>14. Ordered(q, m, ends, n + 1)
  BY <1>11, <1>12, <1>13 DEF Ordered
<1>15. QED
  BY <1>1, <1>14 DEF q, ends, m

(* There is but one order.                                                 *)
SameUpTo(q, r, m) == \A k \in 0..m : q[k] = r[k]
LEMMA OneOrder ==
  ASSUME NEW n \in Nat, NEW ends \in SUBSET (0..n), NEW top \in 0..n,
         \A e \in ends : e <= top,
         NEW m \in Nat, NEW q, Ordered(q, m, ends, top),
         NEW l \in Nat, NEW r, Ordered(r, l, ends, top)
  PROVE  m <= l /\ SameUpTo(q, r, m)
<1>1. /\ q \in [0..m -> ends] /\ q[0] = 0 /\ q[m] = top
      /\ \A k \in 1..m : q[k - 1] < q[k] /\ \A e \in ends : ~(q[k - 1] < e /\ e < q[k])
  BY DEF Ordered
<1>2. /\ r \in [0..l -> ends] /\ r[0] = 0 /\ r[l] = top
      /\ \A k \in 1..l : r[k - 1] < r[k] /\ \A e \in ends : ~(r[k - 1] < e /\ e < r[k])
  BY DEF Ordered
<1> DEFINE P == {k \in 0..m : k <= l /\ q[k] = r[k]}
<1>3. 0 \in P
  BY <1>1, <1>2
<1>4. ASSUME NEW k \in 1..m, k - 1 \in P PROVE k \in P
  <2>1. k - 1 <= l /\ q[k - 1] = r[k - 1] /\ k \in 0..m
    BY <1>4
  <2>2. k <= l
    <3>1. SUFFICES ASSUME k - 1 = l PROVE FALSE
      BY <2>1
    <3>2. q[k - 1] = top /\ q[k - 1] < q[k] /\ q[k] \in ends
      BY <1>1, <1>2, <2>1, <3>1
    <3>3. q[k] <= top /\ q[k] \in 0..n
      BY <3>2
    <3>4. QED
      BY <3>2, <3>3
  <2>3. k \in 1..l /\ k \in 0..l
    BY <2>2
  <2>4. /\ q[k - 1] < q[k] /\ ~(q[k - 1] < r[k] /\ r[k] < q[k])
        /\ r[k - 1] < r[k] /\ ~(r[k - 1] < q[k] /\ q[k] < r[k])
    BY <1>1, <1>2, <2>1, <2>3
  <2>5. q[k] \in 0..n /\ r[k] \in 0..n
    BY <1>1, <1>2, <2>1, <2>3
  <2>6. q[k] = r[k]
    BY <2>1, <2>4, <2>5
  <2>7. QED
    BY <2>1, <2>2, <2>6
<1>5. 0..m \subseteq P
  <2> HIDE DEF P
  <2>1. QED
    BY <1>3, <1>4, Induct
<1>6. QED
  BY <1>5 DEF SameUpTo

-----------------------------------------------------------------------------
(* The grammar's pieces between cuts.                                      *)
Dots(path) == {i \in DOMAIN path : path[i] = "."}
Ends(path, cuts) == cuts \cup {0, Len(path) + 1}
EndsOf(path, cuts) ==
  [k \in 0..(Cardinality(cuts) + 1) |-> EndAt(Ends(path, cuts), k)]
Pieces(path, cuts) ==
  [k \in 1..Cardinality(cuts) + 1 |->
     SubSeq(path, EndAt(Ends(path, cuts), k - 1) + 1, EndAt(Ends(path, cuts), k) - 1)]
PiecesAreWellFormed(pieces) == \A k \in DOMAIN pieces : Quoted(pieces[k]) \/ Plain(pieces[k])
Meanings(pieces) == [k \in DOMAIN pieces |-> Meaning(pieces[k])]

(* The grammar's definition, in these terms.                               *)
LEMMA ParsesAre ==
  ASSUME NEW path
  PROVE  Parses(path) = {Meanings(pieces) :
           pieces \in {p \in {Pieces(path, cuts) : cuts \in SUBSET Dots(path)} :
                         PiecesAreWellFormed(p)}}
  BY DEF Parses, Meanings, Pieces, Dots, PiecesAreWellFormed, Ends, EndAt, Rank, Before

(* A set of dots that cuts a path into well-formed pieces gives its cuts   *)
(* in order.                                                               *)
LEMMA ParseIsRead ==
  ASSUME NEW path \in Seq(Char), NEW cuts \in SUBSET Dots(path),
         PiecesAreWellFormed(Pieces(path, cuts))
  PROVE  LET m == Cardinality(cuts) + 1
             q == EndsOf(path, cuts)
         IN CutsPath(path, 1, m, q) /\ Meanings(Pieces(path, cuts)) = Read(path, m, q)
<1> DEFINE n == Len(path)
           ends == Ends(path, cuts)
           m == Cardinality(cuts) + 1
           q == EndsOf(path, cuts)
<1> HIDE DEF n
<1>1. n \in Nat /\ cuts \in SUBSET (1..n) /\ \A e \in cuts : path[e] = "."
  BY DEF Dots, n
<1>2. m \in Nat /\ m > 0 /\ Ordered(q, m, ends, n + 1)
  BY <1>1, EndsInOrder DEF EndsOf, Ends, n
<1>3. /\ ends \in SUBSET Nat /\ \A e \in ends : e \in cuts \/ e = 0 \/ e = n + 1
      /\ \A e \in ends : e <= n + 1
  <2>1. ends = cuts \cup {0, n + 1}
    BY DEF Ends, n
  <2> HIDE DEF ends
  <2>2. QED
    BY <1>1, <2>1
<1> HIDE DEF ends
<1>4. /\ q \in [0..m -> ends] /\ q[0] = 0 /\ q[m] = n + 1
      /\ \A k \in 1..m : q[k - 1] < q[k]
  BY <1>2 DEF Ordered
<1>5. \A k \in 0..m : q[k] = EndAt(ends, k)
  BY DEF EndsOf, ends
<1>6. Pieces(path, cuts) = [k \in 1..m |-> SubSeq(path, EndAt(ends, k - 1) + 1, EndAt(ends, k) - 1)]
  BY DEF Pieces, ends
<1> HIDE DEF q, m
<1>7. \A k \in 1..m : Pieces(path, cuts)[k] = Piece(path, q[k - 1] + 1, q[k])
  <2> SUFFICES ASSUME NEW k \in 1..m
               PROVE  Pieces(path, cuts)[k] = Piece(path, q[k - 1] + 1, q[k])
    OBVIOUS
  <2>1. k - 1 \in 0..m /\ k \in 0..m
    BY <1>2
  <2>2. q[k - 1] = EndAt(ends, k - 1) /\ q[k] = EndAt(ends, k)
    BY <1>5, <2>1
  <2>3. QED
    BY <1>6, <2>2 DEF Piece
<1>8. DOMAIN Pieces(path, cuts) = 1..m
  BY <1>6
<1>9. ASSUME NEW k \in 1..m PROVE IsPiece(path, q[k - 1] + 1, q[k])
  <2> DEFINE a == q[k - 1]
             e == q[k]
  <2>1. k - 1 \in 0..m /\ k \in 0..m
    BY <1>2
  <2>2. a \in ends /\ e \in ends /\ a < e
    BY <1>4, <2>1
  <2> HIDE DEF a, e
  <2>3. a \in Nat /\ e \in Nat /\ e <= n + 1
    BY <1>3, <2>2
  <2>4. a + 1 \in 1..(n + 1) /\ e \in (a + 1)..(n + 1)
    BY <1>1, <2>2, <2>3
  <2>5. e = n + 1 \/ path[e] = "."
    BY <1>1, <1>3, <2>2, <2>3
  <2>6. Quoted(Piece(path, a + 1, e)) \/ Plain(Piece(path, a + 1, e))
    BY <1>7, <1>8 DEF PiecesAreWellFormed, a, e
  <2>7. IsQuoted(path, a + 1, e) \/ IsPlain(path, a + 1, e)
    BY <2>4, <2>6, PieceAt DEF n
  <2>8. IsPiece(path, a + 1, e)
    BY <2>4, <2>5, <2>7 DEF IsPiece, n
  <2>9. QED
    BY <2>8 DEF a, e
<1>10. CutsPath(path, 1, m, q)
  <2>1. q \in [0..m -> Nat]
    BY <1>3, <1>4
  <2>2. q[0] = 1 - 1
    BY <1>4
  <2>3. QED
    BY <1>2, <1>4, <1>9, <2>1, <2>2 DEF CutsPath, n
<1>11. Meanings(Pieces(path, cuts)) = Read(path, m, q)
  BY <1>7, <1>8 DEF Meanings, Read
<1>12. QED
  BY <1>10, <1>11 DEF q, m

(* Cuts in order enumerate the dots they are at.                           *)
LEMMA CutsAreOrdered ==
  ASSUME NEW path \in Seq(Char), NEW m, NEW q, CutsPath(path, 1, m, q)
  PROVE  LET cuts == {q[k] : k \in 1..(m - 1)}
         IN cuts \in SUBSET Dots(path) /\ Ordered(q, m, Ends(path, cuts), Len(path) + 1)
<1> DEFINE n == Len(path)
           cuts == {q[k] : k \in 1..(m - 1)}
           ends == Ends(path, cuts)
<1>1. /\ n \in Nat /\ m \in Nat /\ q \in [0..m -> Nat] /\ q[0] = 0 /\ q[m] = n + 1
      /\ \A k \in 1..m : IsPiece(path, q[k - 1] + 1, q[k])
  BY DEF CutsPath
<1>2. \A k \in 1..m : q[k - 1] < q[k] /\ q[k] \in 1..(n + 1)
  <2>1. 1 \in 1..(Len(path) + 2)
    BY <1>1
  <2>2. QED
    BY <2>1, CutsTyped
<1>3. m > 0
  BY <1>1
<1> HIDE DEF n
<1>4. \A k \in 0..m : \A j \in 0..k : q[j] <= q[k]
  <2> DEFINE P == {k \in 0..m : \A j \in 0..k : q[j] <= q[k]}
  <2>1. 0 \in P
    BY <1>1
  <2>2. ASSUME NEW k \in 1..m, k - 1 \in P PROVE k \in P
    <3>1. k - 1 \in 0..m /\ k \in 0..m
      BY <1>1
    <3>2. q[k - 1] < q[k] /\ q[k] \in Nat /\ q[k - 1] \in Nat
      BY <1>1, <1>2, <3>1
    <3>3. ASSUME NEW j \in 0..k PROVE q[j] <= q[k]
      <4>1. j \in 0..m /\ q[j] \in Nat
        BY <1>1
      <4>2. CASE j = k
        BY <3>2, <4>2
      <4>3. CASE j # k
        <5>1. j \in 0..(k - 1)
          BY <4>3
        <5>2. q[j] <= q[k - 1]
          BY <2>2, <5>1
        <5>3. QED
          BY <3>2, <4>1, <5>2
      <4>4. QED
        BY <4>2, <4>3
    <3>4. QED
      BY <3>1, <3>3
  <2> HIDE DEF P
  <2>3. 0..m \subseteq P
    BY <1>1, <2>1, <2>2, Induct
  <2>4. QED
    BY <2>3 DEF P
<1>5. \A k \in 1..(m - 1) : q[k] \in 1..n /\ path[q[k]] = "."
  <2> SUFFICES ASSUME NEW k \in 1..(m - 1)
               PROVE  q[k] \in 1..n /\ path[q[k]] = "."
    OBVIOUS
  <2>1. k \in 1..m /\ k + 1 \in 1..m /\ k + 1 \in 0..m /\ (k + 1) - 1 = k
    BY <1>1
  <2>2. q[k] < q[k + 1] /\ q[k + 1] \in 1..(n + 1) /\ q[k] \in 1..(n + 1)
    BY <1>2, <2>1
  <2>3. q[k] \in 1..n /\ q[k] # n + 1
    <3> DEFINE e == q[k]
               above == q[k + 1]
    <3>1. n \in Nat /\ e < above /\ above \in 1..(n + 1) /\ e \in 1..(n + 1)
      BY <1>1, <2>2
    <3> HIDE DEF e, above
    <3>2. e \in 1..n /\ e # n + 1
      BY <3>1
    <3>3. QED
      BY <3>2 DEF e
  <2>4. IsPiece(path, q[k - 1] + 1, q[k])
    BY <1>1, <2>1
  <2>5. QED
    BY <2>3, <2>4 DEF IsPiece, n
<1>6. cuts \in SUBSET Dots(path)
  <2>1. \A k \in 1..(m - 1) : q[k] \in Dots(path)
    BY <1>1, <1>5 DEF Dots, n
  <2>2. QED
    BY <2>1
<1>7. \A k \in 0..m : q[k] \in ends
  <2> SUFFICES ASSUME NEW k \in 0..m PROVE q[k] \in ends
    OBVIOUS
  <2>1. k = 0 \/ k = m \/ k \in 1..(m - 1)
    BY <1>1
  <2>2. QED
    BY <1>1, <2>1 DEF Ends, n
<1>8. \A e \in ends : \E k \in 0..m : e = q[k]
  <2> SUFFICES ASSUME NEW e \in ends PROVE \E k \in 0..m : e = q[k]
    OBVIOUS
  <2>1. e = 0 \/ e = n + 1 \/ \E k \in 1..(m - 1) : e = q[k]
    BY DEF Ends, n
  <2>2. 0 \in 0..m /\ m \in 0..m /\ \A k \in 1..(m - 1) : k \in 0..m
    BY <1>1
  <2>3. QED
    BY <1>1, <2>1, <2>2
<1> HIDE DEF ends
<1>9. \A k \in 1..m : \A e \in ends : ~(q[k - 1] < e /\ e < q[k])
  <2> SUFFICES ASSUME NEW k \in 1..m, NEW e \in ends, q[k - 1] < e, e < q[k]
               PROVE  FALSE
    OBVIOUS
  <2>1. PICK j \in 0..m : e = q[j]
    BY <1>8
  <2>2. k - 1 \in 0..m /\ k \in 0..m /\ q[k] \in Nat /\ q[k - 1] \in Nat /\ q[j] \in Nat
    BY <1>1
  <2>3. CASE j <= k - 1
    <3>1. j \in 0..(k - 1)
      BY <2>3
    <3>2. q[j] <= q[k - 1]
      BY <1>4, <2>2, <3>1
    <3>3. QED
      BY <2>1, <2>2, <3>2
  <2>4. CASE ~(j <= k - 1)
    <3>1. k \in 0..j
      BY <2>4
    <3>2. q[k] <= q[j]
      BY <1>4, <3>1
    <3>3. QED
      BY <2>1, <2>2, <3>2
  <2>5. QED
    BY <2>3, <2>4
<1>10. q \in [0..m -> ends]
  BY <1>1, <1>7
<1>11. Ordered(q, m, ends, n + 1)
  BY <1>1, <1>2, <1>9, <1>10 DEF Ordered
<1>12. QED
  BY <1>6, <1>11 DEF ends, n

(* What is read between cuts is a parse of the path.                       *)
LEMMA ReadIsParse ==
  ASSUME NEW path \in Seq(Char), NEW m, NEW q, CutsPath(path, 1, m, q)
  PROVE  Read(path, m, q) \in Parses(path)
<1> DEFINE n == Len(path)
           cuts == {q[k] : k \in 1..(m - 1)}
           ends == Ends(path, cuts)
           l == Cardinality(cuts) + 1
           r == EndsOf(path, cuts)
<1>1. /\ n \in Nat /\ n + 1 \in Nat /\ m \in Nat
      /\ \A k \in 1..m : IsPiece(path, q[k - 1] + 1, q[k])
  BY DEF CutsPath
<1>2. cuts \in SUBSET Dots(path) /\ Ordered(q, m, ends, n + 1)
  BY CutsAreOrdered
<1>3. cuts \in SUBSET (1..n)
  <2>1. Dots(path) \subseteq 1..n
    BY DEF Dots
  <2> HIDE DEF cuts, n
  <2>2. QED
    BY <1>2, <2>1
<1>4. l \in Nat /\ Ordered(r, l, ends, n + 1)
  <2> HIDE DEF cuts
  <2>1. QED
    BY <1>1, <1>3, EndsInOrder DEF EndsOf, Ends
<1> HIDE DEF cuts
<1> DEFINE top == n + 1
<1>5. ends \in SUBSET (0..top) /\ top \in 0..top /\ \A e \in ends : e <= top
  <2>1. ends = cuts \cup {0, n + 1}
    BY DEF Ends
  <2> HIDE DEF ends, n
  <2>2. QED
    BY <1>1, <1>3, <2>1
<1>6. /\ \A k \in 0..l : r[k] = EndAt(ends, k)
      /\ Pieces(path, cuts) =
           [k \in 1..l |-> SubSeq(path, EndAt(ends, k - 1) + 1, EndAt(ends, k) - 1)]
  BY DEF EndsOf, Pieces
<1> HIDE DEF ends, l, r, n
<1>7. top \in Nat /\ Ordered(q, m, ends, top) /\ Ordered(r, l, ends, top)
  BY <1>1, <1>2, <1>4
<1> HIDE DEF top
<1>8. m <= l /\ l <= m
  BY <1>1, <1>4, <1>5, <1>7, OneOrder
<1>9. SameUpTo(q, r, m)
  BY <1>1, <1>4, <1>5, <1>7, OneOrder
<1>10. l = m
  BY <1>1, <1>4, <1>8
<1>11. DOMAIN Pieces(path, cuts) = 1..m
  BY <1>6, <1>10
<1>12. \A k \in 1..m : Pieces(path, cuts)[k] = Piece(path, q[k - 1] + 1, q[k])
  <2> SUFFICES ASSUME NEW k \in 1..m
               PROVE  Pieces(path, cuts)[k] = Piece(path, q[k - 1] + 1, q[k])
    OBVIOUS
  <2>1. k - 1 \in 0..m /\ k \in 0..m
    BY <1>1
  <2>2. q[k - 1] = EndAt(ends, k - 1) /\ q[k] = EndAt(ends, k)
    BY <1>6, <1>9, <1>10, <2>1 DEF SameUpTo
  <2>3. QED
    BY <1>6, <1>10, <2>2 DEF Piece
<1>13. PiecesAreWellFormed(Pieces(path, cuts))
  <2>1. ASSUME NEW k \in 1..m
        PROVE  Quoted(Piece(path, q[k - 1] + 1, q[k])) \/ Plain(Piece(path, q[k - 1] + 1, q[k]))
    <3> DEFINE i == q[k - 1] + 1
               e == q[k]
    <3>1. i \in 1..(n + 1) /\ IsPiece(path, i, e)
      <4>1. 1 \in 1..(Len(path) + 2)
        BY <1>1 DEF n
      <4>2. QED
        BY <1>1, <4>1, CutsTyped DEF n
    <3> HIDE DEF i, e
    <3>2. e \in i..(n + 1) /\ (IsQuoted(path, i, e) \/ IsPlain(path, i, e))
      BY <3>1 DEF IsPiece, n
    <3>3. Quoted(Piece(path, i, e)) \/ Plain(Piece(path, i, e))
      BY <3>1, <3>2, PieceAt DEF n
    <3>4. QED
      BY <3>3 DEF i, e
  <2>2. QED
    BY <1>11, <1>12, <2>1 DEF PiecesAreWellFormed
<1>14. Meanings(Pieces(path, cuts)) = Read(path, m, q)
  BY <1>11, <1>12 DEF Meanings, Read
<1>15. QED
  BY <1>2, <1>13, <1>14, ParsesAre

-----------------------------------------------------------------------------
(* splitPath reads every path the grammar of Config.Has allows, the one    *)
(* way there is to read it, and no other path: quotes and dots make no     *)
(* path ambiguous, whatever its length.                                    *)
THEOREM PathIsParsed ==
  ASSUME NEW path \in Seq(Char)
  PROVE  LET split == SplitPath(path)
         IN IF split.ok THEN Parses(path) = {split.segs}
            ELSE path = <<>> \/ Parses(path) = {}
<1> DEFINE from == CHOOSE f : f = [i \in 1..Len(path) + 2 |-> Scan(path, i, f)]
<1>1. SplitPath(path) = IF path = <<>> THEN ErrPath ELSE from[1]
  BY DEF SplitPath
<1>2. IsScan(from, path)
  BY Scans DEF IsScan
<1> HIDE DEF from
<1>3. \A s \in Parses(path) : from[1] = Segments(s)
  <2> SUFFICES ASSUME NEW s \in Parses(path) PROVE from[1] = Segments(s)
    OBVIOUS
  <2>1. PICK cuts \in SUBSET Dots(path) :
          PiecesAreWellFormed(Pieces(path, cuts)) /\ s = Meanings(Pieces(path, cuts))
    BY ParsesAre
  <2>2. \E m, q : CutsPath(path, 1, m, q) /\ s = Read(path, m, q)
    BY <2>1, ParseIsRead
  <2>3. QED
    BY <1>2, <2>2, CutsAreRead
<1>4. from[1].ok => \E s : s \in Parses(path)
  <2>1. ASSUME from[1].ok PROVE \E s : s \in Parses(path)
    <3>1. PICK m, q : CutsPath(path, 1, m, q)
      BY <1>2, <2>1, CutsFound
    <3>2. QED
      BY <3>1, ReadIsParse
  <2>2. QED
    BY <2>1
<1>5. CASE path = <<>>
  BY <1>1, <1>5 DEF ErrPath
<1>6. CASE path # <<>> /\ from[1].ok
  <2>1. PICK s : s \in Parses(path)
    BY <1>4, <1>6
  <2>2. \A t \in Parses(path) : from[1].segs = t
    BY <1>3, SegmentsOf
  <2>3. Parses(path) = {from[1].segs}
    BY <2>1, <2>2
  <2>4. QED
    BY <1>1, <1>6, <2>3
<1>7. CASE path # <<>> /\ ~from[1].ok
  <2>1. \A s \in Parses(path) : FALSE
    BY <1>3, <1>7, SegmentsOf
  <2>2. QED
    BY <1>1, <1>7, <2>1
<1>8. QED
  BY <1>5, <1>6, <1>7

SplitCalled ==
  call.fn = "splitPath" => call.path \in Seq(Char) /\ result = SplitPath(call.path)

(* What SplitPathParses says, for every bound on the length of a path.     *)
THEOREM Parsed == Spec => []SplitPathParses
<1>1. Init => SplitCalled
  BY DEF Init, None, SplitCalled
<1>2. SplitCalled /\ [Next]_vars => SplitCalled'
  <2>1. CASE Next
    <3>1. ASSUME call'.fn = "splitPath"
          PROVE  call'.path \in Seq(Char) /\ result' = SplitPath(call'.path)
      <4>1. PICK path \in BoundedSeq(Char, MaxPath) :
              /\ call' = [fn |-> "splitPath", path |-> path]
              /\ result' = SplitPath(path)
        BY <2>1, <3>1, Steps DEF CallSplitPath, Calls
      <4>2. path \in Seq(Char)
        BY InputsAssumption, BoundedIsSeq
      <4>3. QED
        BY <4>1, <4>2
    <3>2. QED
      BY <3>1 DEF SplitCalled
  <2>2. CASE SplitCalled /\ UNCHANGED vars
    BY <2>2 DEF vars, SplitCalled
  <2>3. QED
    BY <2>1, <2>2
<1>3. SplitCalled => SplitPathParses
  BY PathIsParsed DEF SplitCalled, SplitPathParses
<1>4. QED
  BY <1>1, <1>2, <1>3, PTL DEF Spec
=============================================================================
