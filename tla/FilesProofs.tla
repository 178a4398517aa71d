---------------------------- MODULE FilesProofs ----------------------------
(***************************************************************************)
(* Proofs about the files gomake rewrites and reads: the go.work and go.mod*)
(* of the build directory mean what they meant, for any number of use and  *)
(* replace directives and any order of the map, and any number of targets  *)
(* files of any length are merged and applied as they say.  Each algorithm *)
(* is a fold over a list; its states are those of a loop (Induction), and  *)
(* a proof is the invariant of that loop.                                  *)
(***************************************************************************)
EXTENDS AlgorithmsProofs

(* go work edit, run for every directive of a list, drops or adds the      *)
(* directives of the list.                                                 *)
LEMMA DropsAll ==
  ASSUME NEW uses, NEW U, NEW drops \in Seq(U)
  PROVE  FoldLeft(DropUse, uses, drops) = uses \ ToSet(drops)
<1> DEFINE N == Len(drops)
           Out == SUBSET uses
           start == uses
           Add(us, u) == DropUse(us, u)
           step == [e \in (1..N) \X Out |-> Add(e[2], drops[e[1]])]
           iter == CHOOSE g : g = [w \in SUBSET (1..N) |->
                     IF w = {} THEN start ELSE Add(g[w \ {Max(w)}], drops[Max(w)])]
<1>1. /\ N \in Nat /\ DOMAIN drops = 1..N /\ start \in Out
      /\ \A i \in 1..N : drops[i] \in U
  OBVIOUS
<1>2. \A out \in Out, x \in U : Add(out, x) \in Out
  BY DEF DropUse
<1>3. FoldLeft(DropUse, uses, drops) = iter[1..N]
  BY <1>1 DEF FoldLeft, MapThenFoldSet
<1> HIDE DEF N, Out, start, Add
<1>4. step \in [(1..N) \X Out -> Out]
  BY <1>1, <1>2
<1>5. \A i \in 1..N, out \in Out : step[<<i, out>>] = Add(out, drops[i])
  OBVIOUS
<1> HIDE DEF step, iter
<1>6. PICK g : IsFold(g, N, Out, start, step)
  BY <1>1, <1>4, FoldRecursion
<1>7. g = [w \in SUBSET (1..N) |-> IF w = {} THEN start ELSE Add(g[w \ {Max(w)}], drops[Max(w)])]
  <2>1. ASSUME NEW w \in SUBSET (1..N), w # {}
        PROVE  step[<<Max(w), g[w \ {Max(w)}]>>] = Add(g[w \ {Max(w)}], drops[Max(w)])
    BY <1>1, <1>5, <1>6, <2>1, GreatestIndex DEF IsFold
  <2>2. QED
    BY <1>6, <2>1 DEF IsFold
<1>8. iter = [w \in SUBSET (1..N) |-> IF w = {} THEN start ELSE Add(iter[w \ {Max(w)}], drops[Max(w)])]
  BY <1>7 DEF iter
<1>9. iter[{}] = start
  BY <1>8
<1>10. ASSUME NEW i \in 1..N, iter[1..(i - 1)] \in Out
       PROVE  iter[1..i] = step[<<i, iter[1..(i - 1)]>>]
  <2>1. /\ Max(1..i) = i /\ 1..i \in SUBSET (1..N) /\ 1..i # {}
        /\ (1..i) \ {i} = 1..(i - 1)
    BY <1>1, GreatestIndex
  <2>2. iter[1..i] = Add(iter[1..(i - 1)], drops[i])
    BY <1>8, <2>1
  <2>3. QED
    BY <1>5, <1>10, <2>2
<1> DEFINE f == [i \in 0..N |-> iter[1..i]]
<1>11. IsRecursive(f, N, Out, start, step)
  BY <1>1, <1>4, <1>9, <1>10, FoldStates
<1>12. f[N] = iter[1..N]
  BY <1>1
<1> HIDE DEF f
<1>13. ASSUME NEW i \in 1..N PROVE f[i - 1] \in Out /\ f[i] = Add(f[i - 1], drops[i])
  <2>1. f[i - 1] \in Out /\ f[i] = step[<<i, f[i - 1]>>]
    BY <1>1, <1>11 DEF IsRecursive
  <2>2. QED
    BY <1>5, <2>1
<1> DEFINE P == {i \in 0..N : f[i] = uses \ {drops[j] : j \in 1..i}}
<1>14. 0 \in P
  BY <1>1, <1>11 DEF IsRecursive, start
<1>15. ASSUME NEW i \in 1..N, i - 1 \in P PROVE i \in P
  <2>1. f[i] = f[i - 1] \ {drops[i]} /\ f[i - 1] = uses \ {drops[j] : j \in 1..(i - 1)}
    BY <1>13, <1>15 DEF Add, DropUse
  <2>2. \A x : (\E j \in 1..i : x = drops[j])
             <=> (x = drops[i] \/ \E j \in 1..(i - 1) : x = drops[j])
    BY <1>1
  <2>3. QED
    BY <1>1, <2>1, <2>2
<1>16. 0..N \subseteq P
  <2> HIDE DEF P
  <2>1. QED
    BY <1>1, <1>14, <1>15, Induct
<1>17. f[N] = uses \ {drops[j] : j \in 1..N}
  BY <1>1, <1>16
<1>18. QED
  BY <1>1, <1>3, <1>12, <1>17 DEF ToSet

(* The adds of a list, done one after the other.                           *)
LEMMA AddsAll ==
  ASSUME NEW uses, NEW U, NEW adds \in Seq(U)
  PROVE  FoldLeft(AddUse, uses, adds) = uses \cup ToSet(adds)
<1> DEFINE N == Len(adds)
           Out == SUBSET (uses \cup U)
           start == uses
           Add(us, u) == AddUse(us, u)
           step == [e \in (1..N) \X Out |-> Add(e[2], adds[e[1]])]
           iter == CHOOSE g : g = [w \in SUBSET (1..N) |->
                     IF w = {} THEN start ELSE Add(g[w \ {Max(w)}], adds[Max(w)])]
<1>1. /\ N \in Nat /\ DOMAIN adds = 1..N /\ start \in Out
      /\ \A i \in 1..N : adds[i] \in U
  OBVIOUS
<1>2. \A out \in Out, x \in U : Add(out, x) \in Out
  BY DEF AddUse
<1>3. FoldLeft(AddUse, uses, adds) = iter[1..N]
  BY <1>1 DEF FoldLeft, MapThenFoldSet
<1> HIDE DEF N, Out, start, Add
<1>4. step \in [(1..N) \X Out -> Out]
  BY <1>1, <1>2
<1>5. \A i \in 1..N, out \in Out : step[<<i, out>>] = Add(out, adds[i])
  OBVIOUS
<1> HIDE DEF step, iter
<1>6. PICK g : IsFold(g, N, Out, start, step)
  BY <1>1, <1>4, FoldRecursion
<1>7. g = [w \in SUBSET (1..N) |-> IF w = {} THEN start ELSE Add(g[w \ {Max(w)}], adds[Max(w)])]
  <2>1. ASSUME NEW w \in SUBSET (1..N), w # {}
        PROVE  step[<<Max(w), g[w \ {Max(w)}]>>] = Add(g[w \ {Max(w)}], adds[Max(w)])
    BY <1>1, <1>5, <1>6, <2>1, GreatestIndex DEF IsFold
  <2>2. QED
    BY <1>6, <2>1 DEF IsFold
<1>8. iter = [w \in SUBSET (1..N) |-> IF w = {} THEN start ELSE Add(iter[w \ {Max(w)}], adds[Max(w)])]
  BY <1>7 DEF iter
<1>9. iter[{}] = start
  BY <1>8
<1>10. ASSUME NEW i \in 1..N, iter[1..(i - 1)] \in Out
       PROVE  iter[1..i] = step[<<i, iter[1..(i - 1)]>>]
  <2>1. /\ Max(1..i) = i /\ 1..i \in SUBSET (1..N) /\ 1..i # {}
        /\ (1..i) \ {i} = 1..(i - 1)
    BY <1>1, GreatestIndex
  <2>2. iter[1..i] = Add(iter[1..(i - 1)], adds[i])
    BY <1>8, <2>1
  <2>3. QED
    BY <1>5, <1>10, <2>2
<1> DEFINE f == [i \in 0..N |-> iter[1..i]]
<1>11. IsRecursive(f, N, Out, start, step)
  BY <1>1, <1>4, <1>9, <1>10, FoldStates
<1>12. f[N] = iter[1..N]
  BY <1>1
<1> HIDE DEF f
<1>13. ASSUME NEW i \in 1..N PROVE f[i - 1] \in Out /\ f[i] = Add(f[i - 1], adds[i])
  <2>1. f[i - 1] \in Out /\ f[i] = step[<<i, f[i - 1]>>]
    BY <1>1, <1>11 DEF IsRecursive
  <2>2. QED
    BY <1>5, <2>1
<1> DEFINE P == {i \in 0..N : f[i] = uses \cup {adds[j] : j \in 1..i}}
<1>14. 0 \in P
  BY <1>1, <1>11 DEF IsRecursive, start
<1>15. ASSUME NEW i \in 1..N, i - 1 \in P PROVE i \in P
  <2>1. f[i] = f[i - 1] \cup {adds[i]} /\ f[i - 1] = uses \cup {adds[j] : j \in 1..(i - 1)}
    BY <1>13, <1>15 DEF Add, AddUse
  <2>2. \A x : (\E j \in 1..i : x = adds[j])
             <=> (x = adds[i] \/ \E j \in 1..(i - 1) : x = adds[j])
    BY <1>1
  <2>3. QED
    BY <1>1, <2>1, <2>2
<1>16. 0..N \subseteq P
  <2> HIDE DEF P
  <2>1. QED
    BY <1>1, <1>14, <1>15, Induct
<1>17. f[N] = uses \cup {adds[j] : j \in 1..N}
  BY <1>1, <1>16
<1>18. QED
  BY <1>1, <1>3, <1>12, <1>17 DEF ToSet

(* An order in which a loop can see a map is of its keys.                  *)
LEMMA OrderIsOfAll ==
  ASSUME NEW S, IsFiniteSet(S), NEW s \in SetToSeqs(S)
  PROVE  s \in Seq(S) /\ ToSet(s) = S
<1> DEFINE c == Cardinality(S)
<1>1. c \in Nat /\ IsFiniteSet(1..c) /\ Cardinality(1..c) = c
  BY FS_CardinalityType, FS_Interval
<1>2. s \in [1..c -> S] /\ \A i, j \in 1..c : i # j => s[i] # s[j]
  BY DEF SetToSeqs
<1>3. ASSUME NEW x \in S PROVE \E i \in 1..c : s[i] = x
  <2>1. SUFFICES ASSUME \A i \in 1..c : s[i] # x PROVE FALSE
    OBVIOUS
  <2>2. IsFiniteSet(S \ {x}) /\ Cardinality(S \ {x}) = c - 1
    BY FS_RemoveElement
  <2>3. s \in [1..c -> S \ {x}]
    BY <1>2, <2>1
  <2>4. Cardinality(S \ {x}) < Cardinality(1..c)
    BY <1>1, <2>2
  <2>5. \E i, j \in 1..c : i # j /\ s[i] = s[j]
    <3> HIDE DEF c
    <3>1. QED
      BY <1>1, <2>2, <2>3, <2>4, FS_PigeonHole
  <2>6. QED
    BY <1>2, <2>5
<1>4. s \in Seq(S)
  BY <1>1, <1>2, SeqDef
<1>5. DOMAIN s = 1..c
  BY <1>2
<1> HIDE DEF c
<1>6. QED
  BY <1>2, <1>3, <1>4, <1>5 DEF ToSet

(* In whatever order editGoWork sees its map, the workspace of the copy    *)
(* has the modules the workspace had, with the build directory in the      *)
(* place of the makefile's.                                                *)
THEOREM WorkspaceMeansTheSame ==
  ASSUME NEW uses \in SUBSET Use, NEW modRoot \in {"module", "work"},
         NEW drops \in Orders(uses, modRoot), NEW adds \in Orders(uses, modRoot)
  PROVE  {MeantInCopy(use) : use \in EditGoWork(uses, modRoot, drops, adds)} =
         {Meant(use, modRoot) : use \in uses}
<1> DEFINE replace == Replace(uses, modRoot)
           D == DOMAIN replace
<1>1. /\ D = {v \in uses : IF v[2] = modRoot THEN v # Here ELSE v[1] = "relative"}
      /\ \A u \in D : replace[u] = IF u[2] = modRoot THEN Here ELSE <<"absolute", u[2]>>
  BY DEF Replace
<1>2. drops \in SetToSeqs(D) /\ adds \in SetToSeqs(D)
  BY DEF Orders
<1>3. D \subseteq uses /\ IsFiniteSet(D)
  <2>1. IsFiniteSet(Use)
    <3>1. IsFiniteSet({"relative", "absolute"}) /\ IsFiniteSet({"module", "work", "other"})
      <4>1. /\ {"relative", "absolute"} = {"relative"} \cup {"absolute"}
            /\ {"module", "work", "other"} = {"module"} \cup {"work"} \cup {"other"}
        OBVIOUS
      <4>2. \A x : IsFiniteSet({x})
        BY FS_Singleton
      <4>3. /\ IsFiniteSet({"relative"} \cup {"absolute"})
            /\ IsFiniteSet(({"module"} \cup {"work"}) \cup {"other"})
        BY <4>2, FS_Union
      <4>4. QED
        BY <4>1, <4>3
    <3>2. QED
      BY <3>1, FS_Product DEF Use
  <2>2. D \subseteq uses
    BY <1>1
  <2>3. QED
    BY <2>1, <2>2, FS_Subset
<1> HIDE DEF D
<1>4. /\ drops \in Seq(D) /\ ToSet(drops) = D
      /\ adds \in Seq(D) /\ ToSet(adds) = D
  BY <1>2, <1>3, OrderIsOfAll
<1> DEFINE added == [i \in DOMAIN adds |-> replace[adds[i]]]
           New == {replace[u] : u \in D}
<1>5. added \in Seq(New) /\ ToSet(added) = New
  <2>1. Len(adds) \in Nat /\ DOMAIN adds = 1..Len(adds) /\ \A i \in DOMAIN adds : adds[i] \in D
    BY <1>4
  <2>2. added \in [1..Len(adds) -> New]
    BY <2>1
  <2>3. added \in Seq(New)
    BY <2>1, <2>2, SeqDef
  <2>4. \A u \in D : \E i \in DOMAIN adds : adds[i] = u
    BY <1>4 DEF ToSet
  <2>5. QED
    BY <2>1, <2>3, <2>4 DEF ToSet
<1> HIDE DEF added, New
<1>6. EditGoWork(uses, modRoot, drops, adds) = (uses \ D) \cup New
  <2>1. EditGoWork(uses, modRoot, drops, adds)
          = FoldLeft(AddUse, FoldLeft(DropUse, uses, drops), added)
    BY DEF EditGoWork, Edit, added
  <2>2. FoldLeft(DropUse, uses, drops) = uses \ D
    BY <1>4, DropsAll
  <2>3. FoldLeft(AddUse, uses \ D, added) = (uses \ D) \cup New
    BY <1>5, AddsAll
  <2>4. QED
    BY <2>1, <2>2, <2>3
<1>7. ASSUME NEW u \in D PROVE MeantInCopy(replace[u]) = Meant(u, modRoot)
  <2> DEFINE r == replace[u]
  <2>1. r = IF u[2] = modRoot THEN Here ELSE <<"absolute", u[2]>>
    BY <1>1
  <2> HIDE DEF r
  <2>2. <<"absolute", u[2]>> # Here
    BY DEF Here
  <2>3. MeantInCopy(r) = Meant(u, modRoot)
    BY <2>1, <2>2 DEF MeantInCopy, Meant
  <2>4. QED
    BY <2>3 DEF r
<1>8. ASSUME NEW u \in uses \ D PROVE MeantInCopy(u) = Meant(u, modRoot)
  <2>1. u = <<u[1], u[2]>> /\ u[1] \in {"relative", "absolute"}
    BY DEF Use
  <2>2. CASE u[2] = modRoot
    BY <1>1, <2>1, <2>2 DEF MeantInCopy, Meant, Here
  <2>3. CASE u[2] # modRoot
    BY <1>1, <2>1, <2>3 DEF MeantInCopy, Meant, Here
  <2>4. QED
    BY <2>2, <2>3
<1>9. ASSUME NEW use \in (uses \ D) \cup New
      PROVE  MeantInCopy(use) \in {Meant(u, modRoot) : u \in uses}
  BY <1>3, <1>7, <1>8 DEF New
<1>10. ASSUME NEW u \in uses
       PROVE  Meant(u, modRoot) \in {MeantInCopy(use) : use \in (uses \ D) \cup New}
  <2>1. CASE u \in D
    <3>1. replace[u] \in New
      BY <2>1 DEF New
    <3>2. QED
      BY <1>7, <2>1, <3>1
  <2>2. CASE u \notin D
    BY <1>8, <2>2
  <2>3. QED
    BY <2>1, <2>2
<1>11. QED
  BY <1>6, <1>9, <1>10

(* Lists of directives for one module, no two for the same version, and    *)
(* tables of them.                                                         *)
Old       == Versions \cup {AnyVersion}
Directive == [old : Old, new : Replacement]
Replacing == Replacement \cup {Absolute(new) : new \in Replacement}
RplTables == UNION {[D -> Replacing] : D \in SUBSET Old}
Distinct(rpls) == \A i, j \in 1..Len(rpls) : i # j => rpls[i].old # rpls[j].old

(* What is written for one directive: it takes the place of the one for    *)
(* its version, or, for any version, of all.                               *)
RewrittenOnce(next, file, table, rpl) ==
  /\ ~Rewritten(file, rpl.new) => next = table
  /\ Rewritten(file, rpl.new) =>
       /\ DOMAIN next = {rpl.old} \cup IF rpl.old = AnyVersion THEN {} ELSE DOMAIN table
       /\ \A v \in DOMAIN next :
            next[v] = IF v = rpl.old THEN Absolute(rpl.new) ELSE table[v]

(* One turn of the loop: a directive written anew over a table.            *)
LEMMA RewriteOne ==
  ASSUME NEW file, NEW table \in RplTables, NEW rpl \in Directive
  PROVE  /\ Rewrite(file, table, rpl) \in RplTables
         /\ RewrittenOnce(Rewrite(file, table, rpl), file, table, rpl)
<1>1. CASE ~Rewritten(file, rpl.new)
  BY <1>1 DEF Rewrite, RewrittenOnce
<1>2. CASE Rewritten(file, rpl.new)
  <2> DEFINE dropped == DropReplace(table, rpl.old)
             kept == IF rpl.old = AnyVersion THEN {} ELSE DOMAIN dropped
             written == [v \in kept \cup {rpl.old} |->
                           IF v = rpl.old THEN Absolute(rpl.new) ELSE dropped[v]]
  <2>1. /\ DOMAIN dropped = DOMAIN table \ {rpl.old}
        /\ \A v \in DOMAIN dropped : dropped[v] = table[v]
    BY DEF DropReplace, RestrictDomain, Restrict
  <2>2. Rewrite(file, table, rpl) = written
    BY <1>2 DEF Rewrite, AddReplace
  <2>3. DOMAIN table \subseteq Old /\ \A v \in DOMAIN table : table[v] \in Replacing
    BY DEF RplTables
  <2>4. rpl.old \in Old /\ Absolute(rpl.new) \in Replacing
    BY DEF Directive, Replacing
  <2> HIDE DEF dropped
  <2>5. /\ DOMAIN written = {rpl.old} \cup IF rpl.old = AnyVersion THEN {} ELSE DOMAIN table
        /\ \A v \in DOMAIN written :
             /\ written[v] = IF v = rpl.old THEN Absolute(rpl.new) ELSE table[v]
             /\ written[v] \in Replacing
    BY <2>1, <2>3, <2>4
  <2>6. written \in RplTables
    <3>1. DOMAIN written \in SUBSET Old
      BY <2>3, <2>4, <2>5
    <3>2. written = [v \in DOMAIN written |-> written[v]]
      OBVIOUS
    <3> HIDE DEF written
    <3>3. written \in [DOMAIN written -> Replacing]
      BY <2>5, <3>2
    <3>4. QED
      BY <3>1, <3>3 DEF RplTables
  <2> HIDE DEF written
  <2>7. QED
    BY <1>2, <2>2, <2>5, <2>6 DEF RewrittenOnce
<1>3. QED
  BY <1>1, <1>2

(* The table of a list in which no two directives have one left side.      *)
LEMMA TableOfList ==
  ASSUME NEW rpls \in Seq(Directive), Distinct(rpls)
  PROVE  /\ Table(rpls) \in RplTables
         /\ DOMAIN Table(rpls) = {rpls[k].old : k \in 1..Len(rpls)}
         /\ \A k \in 1..Len(rpls) : Table(rpls)[rpls[k].old] = rpls[k].new
<1>1. /\ DOMAIN rpls = 1..Len(rpls)
      /\ \A i \in DOMAIN rpls : rpls[i].old \in Old /\ rpls[i].new \in Replacement
  <2>1. DOMAIN rpls = 1..Len(rpls) /\ \A i \in DOMAIN rpls : rpls[i] \in Directive
    OBVIOUS
  <2>2. QED
    BY <2>1 DEF Directive
<1> DEFINE at(v) == CHOOSE i \in DOMAIN rpls : rpls[i].old = v
           D == {rpls[i].old : i \in DOMAIN rpls}
<1>2. \A v \in D : at(v) \in DOMAIN rpls /\ rpls[at(v)].old = v
  OBVIOUS
<1>3. Table(rpls) = [v \in D |-> rpls[at(v)].new]
  BY DEF Table
<1> HIDE DEF at
<1>4. \A k \in DOMAIN rpls : at(rpls[k].old) = k
  BY <1>1, <1>2 DEF Distinct
<1>5. D \in SUBSET Old /\ Table(rpls) \in [D -> Replacing]
  BY <1>1, <1>2, <1>3 DEF Replacing
<1>6. QED
  BY <1>1, <1>3, <1>4, <1>5 DEF RplTables

(* The loop over the directives, state by state.                           *)
RewriteLoop(f, file, rpls) ==
  /\ f \in [0..Len(rpls) -> RplTables]
  /\ f[0] = Table(rpls) /\ AbsolutizeReplaces(file, rpls) = f[Len(rpls)]
  /\ \A i \in 1..Len(rpls) : f[i] = Rewrite(file, f[i - 1], rpls[i])

(* The states of the loop, one per directive.                              *)
LEMMA RewriteStates ==
  ASSUME NEW file, NEW rpls \in Seq(Directive), Distinct(rpls)
  PROVE  \E f : RewriteLoop(f, file, rpls)
<1> DEFINE N == Len(rpls)
           Out == RplTables
           start == Table(rpls)
           Add(table, rpl) == Rewrite(file, table, rpl)
           step == [e \in (1..N) \X Out |-> Add(e[2], rpls[e[1]])]
           iter == CHOOSE g : g = [w \in SUBSET (1..N) |->
                     IF w = {} THEN start ELSE Add(g[w \ {Max(w)}], rpls[Max(w)])]
<1>1. /\ N \in Nat /\ DOMAIN rpls = 1..N /\ start \in Out
      /\ \A i \in 1..N : rpls[i] \in Directive
  <2>1. N \in Nat /\ DOMAIN rpls = 1..N /\ \A i \in 1..N : rpls[i] \in Directive
    OBVIOUS
  <2>2. start \in Out
    BY TableOfList
  <2>3. QED
    BY <2>1, <2>2
<1>2. \A out \in Out, x \in Directive : Add(out, x) \in Out
  BY RewriteOne
<1>3. AbsolutizeReplaces(file, rpls) = iter[1..N]
  BY <1>1 DEF AbsolutizeReplaces, FoldLeft, MapThenFoldSet
<1> HIDE DEF N, Out, start, Add
<1>4. step \in [(1..N) \X Out -> Out]
  BY <1>1, <1>2
<1>5. \A i \in 1..N, out \in Out : step[<<i, out>>] = Add(out, rpls[i])
  OBVIOUS
<1> HIDE DEF step, iter
<1>6. PICK g : IsFold(g, N, Out, start, step)
  BY <1>1, <1>4, FoldRecursion
<1>7. g = [w \in SUBSET (1..N) |-> IF w = {} THEN start ELSE Add(g[w \ {Max(w)}], rpls[Max(w)])]
  <2>1. ASSUME NEW w \in SUBSET (1..N), w # {}
        PROVE  step[<<Max(w), g[w \ {Max(w)}]>>] = Add(g[w \ {Max(w)}], rpls[Max(w)])
    BY <1>1, <1>5, <1>6, <2>1, GreatestIndex DEF IsFold
  <2>2. QED
    BY <1>6, <2>1 DEF IsFold
<1>8. iter = [w \in SUBSET (1..N) |-> IF w = {} THEN start ELSE Add(iter[w \ {Max(w)}], rpls[Max(w)])]
  BY <1>7 DEF iter
<1>9. iter[{}] = start
  BY <1>8
<1>10. ASSUME NEW i \in 1..N, iter[1..(i - 1)] \in Out
       PROVE  iter[1..i] = step[<<i, iter[1..(i - 1)]>>]
  <2>1. /\ Max(1..i) = i /\ 1..i \in SUBSET (1..N) /\ 1..i # {}
        /\ (1..i) \ {i} = 1..(i - 1)
    BY <1>1, GreatestIndex
  <2>2. iter[1..i] = Add(iter[1..(i - 1)], rpls[i])
    BY <1>8, <2>1
  <2>3. QED
    BY <1>5, <1>10, <2>2
<1> DEFINE f == [i \in 0..N |-> iter[1..i]]
<1>11. IsRecursive(f, N, Out, start, step)
  BY <1>1, <1>4, <1>9, <1>10, FoldStates
<1>12. f[N] = iter[1..N]
  BY <1>1
<1> HIDE DEF f
<1>13. ASSUME NEW i \in 1..N PROVE f[i - 1] \in Out /\ f[i] = Add(f[i - 1], rpls[i])
  <2>1. f[i - 1] \in Out /\ f[i] = step[<<i, f[i - 1]>>]
    BY <1>1, <1>11 DEF IsRecursive
  <2>2. QED
    BY <1>5, <2>1
<1>14. QED
  BY <1>3, <1>11, <1>12, <1>13 DEF IsRecursive, RewriteLoop, N, Out, start, Add

(* The table after i directives has those that no directive for any        *)
(* version, written anew, has dropped; of these, the ones written anew are *)
(* absolute.                                                               *)
Anew(file, rpls, k) == Rewritten(file, rpls[k].new)
DropsOthers(file, rpls, j) == rpls[j].old = AnyVersion /\ Anew(file, rpls, j)
Kept(file, rpls, i) ==
  {k \in 1..Len(rpls) : \A j \in 1..i : DropsOthers(file, rpls, j) =>
                          j <= k /\ k <= i /\ Anew(file, rpls, k)}
Value(file, rpls, i, k) ==
  IF k <= i /\ Anew(file, rpls, k) THEN Absolute(rpls[k].new) ELSE rpls[k].new

TableAfter(table, file, rpls, i) ==
  /\ DOMAIN table = {rpls[k].old : k \in Kept(file, rpls, i)}
  /\ \A k \in Kept(file, rpls, i) : table[rpls[k].old] = Value(file, rpls, i, k)

(* The table after one more directive.                                     *)
LEMMA RewriteStep ==
  ASSUME NEW file, NEW rpls \in Seq(Directive), Distinct(rpls),
         NEW i \in 1..Len(rpls), NEW table \in RplTables,
         TableAfter(table, file, rpls, i - 1)
  PROVE  TableAfter(Rewrite(file, table, rpls[i]), file, rpls, i)
<1> DEFINE rpl == rpls[i]
           next == Rewrite(file, table, rpls[i])
<1>1. Len(rpls) \in Nat /\ rpl \in Directive
  OBVIOUS
<1>2. /\ ~Anew(file, rpls, i) => next = table
      /\ Anew(file, rpls, i) =>
           /\ DOMAIN next = {rpls[i].old}
                            \cup IF rpls[i].old = AnyVersion THEN {} ELSE DOMAIN table
           /\ \A v \in DOMAIN next :
                next[v] = IF v = rpls[i].old THEN Absolute(rpls[i].new) ELSE table[v]
  <2> HIDE DEF rpl, next
  <2>1. RewrittenOnce(Rewrite(file, table, rpl), file, table, rpl)
    BY <1>1, RewriteOne
  <2>2. RewrittenOnce(next, file, table, rpl)
    BY <2>1 DEF next, rpl
  <2>3. QED
    BY <2>2 DEF rpl, Anew, RewrittenOnce
<1> HIDE DEF rpl, next
<1> DEFINE N == Len(rpls)
           K(n) == Kept(file, rpls, n)
           V(n, k) == Value(file, rpls, n, k)
<1>3. CASE ~Anew(file, rpls, i)
  <2>1. K(i) = K(i - 1)
    BY <1>1, <1>3 DEF Kept, DropsOthers
  <2>2. \A k \in 1..N : V(i, k) = V(i - 1, k)
    BY <1>1, <1>3 DEF Value
  <2>3. K(i) \subseteq 1..N
    BY DEF Kept
  <2> HIDE DEF K, V
  <2>4. next = table /\ DOMAIN table = {rpls[k].old : k \in K(i)}
    BY <1>2, <1>3, <2>1 DEF TableAfter, K
  <2>5. \A k \in K(i) : table[rpls[k].old] = V(i, k)
    BY <2>1, <2>2, <2>3 DEF TableAfter, K, V
  <2>6. QED
    BY <2>4, <2>5 DEF TableAfter, next, K, V
<1>4. CASE Anew(file, rpls, i) /\ rpls[i].old # AnyVersion
  <2>1. K(i) = K(i - 1) \cup {i}
    <3>1. ~DropsOthers(file, rpls, i)
      BY <1>4 DEF DropsOthers
    <3>2. ASSUME NEW k \in K(i), k # i PROVE k \in K(i - 1)
      BY <1>1, <3>2 DEF Kept
    <3>3. ASSUME NEW k \in K(i - 1) PROVE k \in K(i)
      BY <1>1, <3>1, <3>3 DEF Kept
    <3>4. i \in K(i)
      BY <1>1, <1>4 DEF Kept
    <3>5. QED
      BY <3>2, <3>3, <3>4
  <2>2. \A k \in 1..N : k # i => V(i, k) = V(i - 1, k)
    BY <1>1 DEF Value
  <2>3. V(i, i) = Absolute(rpls[i].new)
    BY <1>1, <1>4 DEF Value
  <2>4. K(i) \subseteq 1..N /\ \A k \in K(i) : k # i => rpls[k].old # rpls[i].old
    BY DEF Kept, Distinct
  <2> HIDE DEF K, V
  <2>5. DOMAIN table = {rpls[k].old : k \in K(i - 1)}
    BY DEF TableAfter, K
  <2>6. DOMAIN next = {rpls[k].old : k \in K(i)}
    BY <1>2, <1>4, <2>1, <2>5
  <2>7. ASSUME NEW k \in K(i) PROVE next[rpls[k].old] = V(i, k)
    <3>1. rpls[k].old \in DOMAIN next
      BY <2>6
    <3>2. CASE k = i
      BY <1>2, <1>4, <2>3, <3>1, <3>2
    <3>3. CASE k # i
      <4>1. next[rpls[k].old] = table[rpls[k].old]
        BY <1>2, <1>4, <2>4, <3>1, <3>3
      <4>2. table[rpls[k].old] = V(i - 1, k)
        BY <2>1, <3>3 DEF TableAfter, K, V
      <4>3. QED
        BY <2>2, <2>4, <3>3, <4>1, <4>2
    <3>4. QED
      BY <3>2, <3>3
  <2>8. QED
    BY <2>6, <2>7 DEF TableAfter, next, K, V
<1>5. CASE Anew(file, rpls, i) /\ rpls[i].old = AnyVersion
  <2>1. \A j \in 1..N : j # i => ~DropsOthers(file, rpls, j)
    BY <1>5 DEF DropsOthers, Distinct
  <2>2. DropsOthers(file, rpls, i)
    BY <1>5 DEF DropsOthers
  <2>3. K(i) = {i}
    <3>1. i \in K(i)
      BY <1>1, <1>5, <2>1 DEF Kept
    <3>2. \A k \in K(i) : k = i
      BY <1>1, <2>2 DEF Kept
    <3>3. QED
      BY <3>1, <3>2
  <2>4. V(i, i) = Absolute(rpls[i].new)
    BY <1>1, <1>5 DEF Value
  <2>5. DOMAIN next = {rpls[i].old} /\ next[rpls[i].old] = Absolute(rpls[i].new)
    BY <1>2, <1>5
  <2> HIDE DEF K, V
  <2>6. QED
    BY <2>3, <2>4, <2>5 DEF TableAfter, next, K, V
<1>6. QED
  BY <1>3, <1>4, <1>5

(* The table after all of them.                                            *)
LEMMA RewrittenTable ==
  ASSUME NEW file, NEW rpls \in Seq(Directive), Distinct(rpls)
  PROVE  TableAfter(AbsolutizeReplaces(file, rpls), file, rpls, Len(rpls))
<1>1. PICK f : RewriteLoop(f, file, rpls)
  BY RewriteStates
<1> DEFINE N == Len(rpls)
           P == {i \in 0..N : TableAfter(f[i], file, rpls, i)}
<1>2. N \in Nat
  OBVIOUS
<1>3. 0 \in P
  <2>1. Kept(file, rpls, 0) = 1..N /\ \A k \in 1..N : Value(file, rpls, 0, k) = rpls[k].new
    BY <1>2 DEF Kept, Value
  <2>2. TableAfter(Table(rpls), file, rpls, 0)
    BY <2>1, TableOfList DEF TableAfter
  <2>3. QED
    BY <1>1, <1>2, <2>2 DEF RewriteLoop
<1>4. ASSUME NEW i \in 1..N, i - 1 \in P PROVE i \in P
  <2>1. /\ f[i - 1] \in RplTables /\ TableAfter(f[i - 1], file, rpls, i - 1)
        /\ f[i] = Rewrite(file, f[i - 1], rpls[i])
    BY <1>1, <1>2, <1>4 DEF RewriteLoop
  <2>2. TableAfter(f[i], file, rpls, i)
    BY <2>1, RewriteStep
  <2>3. QED
    BY <1>2, <2>2
<1>5. N \in P
  <2> HIDE DEF N, P
  <2>1. 0..N \subseteq P
    BY <1>2, <1>3, <1>4, Induct
  <2>2. QED
    BY <1>2, <2>1
<1>6. QED
  BY <1>1, <1>5 DEF RewriteLoop

(* Every version of a module is replaced by what replaced it before the    *)
(* file was copied, unless a directive for any version is written anew     *)
(* over one for a version.                                                 *)
THEOREM ReplacedAsBefore ==
  ASSUME NEW file, NEW rpls \in Seq(Directive), Distinct(rpls), ~Overrides(file, rpls),
         NEW v \in Versions
  PROVE  SameReplacement(rpls, AbsolutizeReplaces(file, rpls), v)
<1> DEFINE N == Len(rpls)
           now == AbsolutizeReplaces(file, rpls)
           was == Table(rpls)
           K == Kept(file, rpls, N)
           Same(new) == IF IsLocal(new) THEN Absolute(new) ELSE new
<1>1. N \in Nat /\ DOMAIN rpls = 1..N
  OBVIOUS
<1>2. \A k \in 1..N : rpls[k].old \in Old /\ rpls[k].new \in Replacement
  <2>1. \A k \in 1..N : rpls[k] \in Directive
    OBVIOUS
  <2>2. QED
    BY <2>1 DEF Directive
<1>3. /\ DOMAIN was = {rpls[k].old : k \in 1..N}
      /\ \A k \in 1..N : was[rpls[k].old] = rpls[k].new
  BY TableOfList
<1>4. /\ DOMAIN now = {rpls[k].old : k \in K} /\ K \subseteq 1..N
      /\ \A k \in K : now[rpls[k].old] = Value(file, rpls, N, k)
  BY RewrittenTable DEF TableAfter, Kept
<1>5. ASSUME NEW k \in 1..N PROVE Value(file, rpls, N, k) = Same(rpls[k].new)
  BY <1>1, <1>2 DEF Value, Anew, Rewritten, IsLocal, Absolute, Replacement
<1>6. v # AnyVersion /\ Same(<<"module", "itself">>) = <<"module", "itself">>
  BY DEF Versions, AnyVersion, IsLocal
<1> HIDE DEF now, was, K, Same
<1>7. CASE \A j \in 1..N : ~DropsOthers(file, rpls, j)
  <2>1. K = 1..N
    BY <1>7 DEF Kept, K
  <2>2. ReplacedBy(now, v) = Same(ReplacedBy(was, v))
    <3>1. DOMAIN now = DOMAIN was /\ \A w \in DOMAIN was : now[w] = Same(was[w])
      BY <1>3, <1>4, <1>5, <2>1
    <3>2. QED
      BY <1>6, <3>1 DEF ReplacedBy
  <2>3. QED
    BY <2>2 DEF SameReplacement, now, was, Same
<1>8. CASE \E j \in 1..N : DropsOthers(file, rpls, j)
  <2>1. PICK j \in 1..N : DropsOthers(file, rpls, j)
    BY <1>8
  <2>2. \A k \in 1..N : k # j => ~DropsOthers(file, rpls, k)
    BY <2>1 DEF DropsOthers, Distinct
  <2>3. K = {k \in 1..N : j <= k /\ Anew(file, rpls, k)}
    BY <1>1, <2>1, <2>2 DEF Kept, K
  <2>4. j \in K /\ rpls[j].old = AnyVersion /\ Rewritten(file, rpls[j].new)
    BY <1>1, <2>1, <2>3 DEF DropsOthers, Anew
  <2>5. now[AnyVersion] = Same(rpls[j].new) /\ AnyVersion \in DOMAIN now
    BY <1>4, <1>5, <2>4
  <2>6. was[AnyVersion] = rpls[j].new /\ AnyVersion \in DOMAIN was
    BY <1>3, <2>4
  <2>7. CASE \E k \in 1..N : rpls[k].old = v
    <3>1. PICK k \in 1..N : rpls[k].old = v
      BY <2>7
    <3>2. ReplacedBy(was, v) = rpls[k].new
      BY <1>3, <3>1 DEF ReplacedBy
    <3>3. CASE k \in K
      BY <1>4, <1>5, <3>1, <3>2, <3>3 DEF ReplacedBy, SameReplacement, now, was, Same
    <3>4. CASE k \notin K
      <4>1. v \notin DOMAIN now
        BY <1>4, <3>1, <3>4 DEF Distinct
      <4>2. ReplacedBy(now, v) = Same(rpls[j].new)
        BY <2>5, <4>1 DEF ReplacedBy
      <4>3. k < j \/ ~Rewritten(file, rpls[k].new)
        BY <1>1, <2>3, <3>4 DEF Anew
      <4>4. rpls[k].new[2] = rpls[j].new[2]
        BY <1>1, <2>4, <4>3 DEF Overrides
      <4>5. Same(rpls[j].new) = Same(rpls[k].new)
        BY <1>2, <2>4, <4>4 DEF Same, Replacement, Rewritten, IsLocal, Absolute
      <4>6. QED
        BY <3>2, <4>2, <4>5 DEF SameReplacement, now, was, Same
    <3>5. QED
      BY <3>3, <3>4
  <2>8. CASE ~\E k \in 1..N : rpls[k].old = v
    <3>1. v \notin DOMAIN now /\ v \notin DOMAIN was
      BY <1>3, <1>4, <2>8
    <3>2. QED
      BY <2>5, <2>6, <3>1 DEF ReplacedBy, SameReplacement, now, was, Same
  <2>9. QED
    BY <2>7, <2>8
<1>9. QED
  BY <1>7, <1>8

(* A list of directives, no two for one version, is one of directives.     *)
LEMMA ListedDirectives ==
  ASSUME NEW rpls \in ReplaceLists
  PROVE  rpls \in Seq(Directive) /\ Distinct(rpls)
<1> DEFINE All == UNION {SetToSeqs(vs) : vs \in SUBSET Old}
           Lists(olds) == {[i \in DOMAIN olds |-> [old |-> olds[i], new |-> news[i]]] :
                             news \in [DOMAIN olds -> Replacement]}
<1>a. PICK olds \in All : rpls \in Lists(olds)
  <2> HIDE DEF All
  <2>1. ReplaceLists = UNION {Lists(os) : os \in All}
    BY DEF ReplaceLists, Old, All
  <2> HIDE DEF Lists
  <2>2. QED
    BY <2>1
<1>b. PICK news \in [DOMAIN olds -> Replacement] :
        rpls = [i \in DOMAIN olds |-> [old |-> olds[i], new |-> news[i]]]
  BY <1>a
<1>1. PICK vs \in SUBSET Old : olds \in SetToSeqs(vs)
  BY <1>a
<1> HIDE DEF All, Lists
<1> DEFINE n == Cardinality(vs)
<1>2. IsFiniteSet(Old)
  <2>1. Old = {"v1"} \cup {"v2"} \cup {AnyVersion}
    BY DEF Old, Versions
  <2>2. IsFiniteSet(({"v1"} \cup {"v2"}) \cup {AnyVersion})
    BY FS_Singleton, FS_Union
  <2>3. QED
    BY <2>1, <2>2
<1>3. n \in Nat
  BY <1>1, <1>2, FS_Subset, FS_CardinalityType
<1>4. olds \in [1..n -> vs] /\ \A i, j \in 1..n : i # j => olds[i] # olds[j]
  BY <1>1 DEF SetToSeqs
<1> HIDE DEF n
<1>5. \A i \in 1..n : [old |-> olds[i], new |-> news[i]] \in Directive
  <2>1. \A i \in 1..n : olds[i] \in Old /\ news[i] \in Replacement
    BY <1>b, <1>4
  <2>2. QED
    BY <2>1 DEF Directive
<1>6. rpls \in [1..n -> Directive]
  BY <1>b, <1>4, <1>5
<1>7. rpls \in Seq(Directive)
  BY <1>3, <1>6, SeqDef
<1>8. Len(rpls) = n
  BY <1>3, <1>6, <1>7
<1>9. \A i \in 1..n : rpls[i].old = olds[i]
  BY <1>b, <1>4
<1>10. QED
  BY <1>4, <1>7, <1>8, <1>9 DEF Distinct

(* A call returns what CopyMeansTheSame says.                              *)
LEMMA StepCopies ==
  ASSUME Next
  PROVE  CopyMeansTheSame'
<1>1. ASSUME call'.fn = "editGoWork"
      PROVE  {MeantInCopy(use) : use \in result'} =
             {Meant(use, call'.modRoot) : use \in call'.uses}
  <2>1. PICK uses \in SUBSET Use, modRoot \in {"module", "work"} :
          \E drops, adds \in Orders(uses, modRoot) :
            Calls([fn |-> "editGoWork", uses |-> uses, modRoot |-> modRoot],
                  EditGoWork(uses, modRoot, drops, adds))
    BY <1>1, Steps DEF CallEditGoWork
  <2>2. PICK drops \in Orders(uses, modRoot), adds \in Orders(uses, modRoot) :
          Calls([fn |-> "editGoWork", uses |-> uses, modRoot |-> modRoot],
                EditGoWork(uses, modRoot, drops, adds))
    BY <2>1
  <2>3. call'.uses = uses /\ call'.modRoot = modRoot
        /\ result' = EditGoWork(uses, modRoot, drops, adds)
    BY <2>2 DEF Calls
  <2>4. {MeantInCopy(use) : use \in EditGoWork(uses, modRoot, drops, adds)} =
        {Meant(use, modRoot) : use \in uses}
    BY WorkspaceMeansTheSame, ZenonT(40)
  <2>5. QED
    BY <2>3, <2>4, Zenon
<1>2. ASSUME call'.fn = "absolutizeReplaces", ~Overrides(call'.file, call'.rpls),
             NEW v \in Versions
      PROVE  SameReplacement(call'.rpls, result', v)
  <2>1. PICK file \in {"go.mod", "go.work"}, rpls \in ReplaceLists :
          Calls([fn |-> "absolutizeReplaces", file |-> file, rpls |-> rpls],
                AbsolutizeReplaces(file, rpls))
    BY <1>2, Steps DEF CallAbsolutizeReplaces
  <2>2. call'.file = file /\ call'.rpls = rpls /\ result' = AbsolutizeReplaces(file, rpls)
    BY <2>1 DEF Calls
  <2>3. rpls \in Seq(Directive) /\ Distinct(rpls)
    BY ListedDirectives
  <2>4. QED
    BY <1>2, <2>2, <2>3, ReplacedAsBefore
<1>3. QED
  BY <1>1, <1>2 DEF CopyMeansTheSame

(* The files copied into the build directory mean what they meant.         *)
THEOREM Copies == Spec => []CopyMeansTheSame
<1>1. Init => CopyMeansTheSame
  BY DEF Init, None, CopyMeansTheSame
<1>2. CopyMeansTheSame /\ [Next]_vars => CopyMeansTheSame'
  <2>1. CASE Next
    BY <2>1, StepCopies
  <2>2. CASE CopyMeansTheSame /\ UNCHANGED vars
    BY <2>2 DEF vars, CopyMeansTheSame
  <2>3. QED
    BY <2>1, <2>2
<1>3. QED
  BY <1>1, <1>2, PTL DEF Spec


-----------------------------------------------------------------------------
(* The merged imports after a list of entries: none when two of them       *)
(* disagree about a package, else every entry once, in the list's order.   *)
Disagree(E) == \E e, f \in E : e.pkg = f.pkg /\ e # f
MergedStates == [error : {"none", "conflict"}, imports : Seq(Entry)]
MergedOf(merged, all) ==
  IF Disagree(ToSet(all)) THEN merged = Failed("conflict")
  ELSE merged.error = "none" /\ EachOnce(merged.imports, all)

(* The elements of a list with one more.                                   *)
LEMMA OneMore ==
  ASSUME NEW S, NEW s \in Seq(S), NEW t \in S
  PROVE  Append(s, t) \in Seq(S) /\ ToSet(Append(s, t)) = ToSet(s) \cup {t}
<1>1. /\ Append(s, t) \in Seq(S) /\ DOMAIN s = 1..Len(s) /\ Len(s) \in Nat
      /\ DOMAIN Append(s, t) = 1..(Len(s) + 1)
      /\ \A i \in 1..Len(s) : Append(s, t)[i] = s[i]
      /\ Append(s, t)[Len(s) + 1] = t
  OBVIOUS
<1> DEFINE more == Append(s, t)
<1> HIDE DEF more
<1>2. \A i \in DOMAIN more : more[i] \in ToSet(s) \cup {t}
  BY <1>1 DEF ToSet, more
<1>3. \A x \in ToSet(s) \cup {t} : \E i \in DOMAIN more : more[i] = x
  BY <1>1 DEF ToSet, more
<1>4. ToSet(more) = ToSet(s) \cup {t}
  BY <1>2, <1>3 DEF ToSet
<1>5. QED
  BY <1>1, <1>4 DEF more

(* One entry merged into what was merged before.                           *)
LEMMA MergeOne ==
  ASSUME NEW all \in Seq(Entry), NEW merged \in MergedStates,
         MergedOf(merged, all), NEW ent \in Entry
  PROVE  /\ MergeEntry(merged, ent) \in MergedStates
         /\ MergedOf(MergeEntry(merged, ent), Append(all, ent))
<1> DEFINE imports == merged.imports
           seen == {i \in DOMAIN imports : imports[i].pkg = ent.pkg}
           next == MergeEntry(merged, ent)
           E == ToSet(all)
           more == Append(all, ent)
<1>1. imports \in Seq(Entry) /\ DOMAIN imports = 1..Len(imports) /\ Len(imports) \in Nat
  BY DEF MergedStates
<1>2. Failed("conflict") \in MergedStates
  BY DEF Failed, MergedStates
<1>3. more \in Seq(Entry) /\ ToSet(more) = E \cup {ent}
  BY OneMore
<1> HIDE DEF E, more
<1>4. CASE Disagree(E)
  <2>1. merged = Failed("conflict")
    BY <1>4 DEF MergedOf, E
  <2>2. next = merged
    BY <2>1 DEF MergeEntry, Failed
  <2>3. Disagree(ToSet(more))
    BY <1>3, <1>4 DEF Disagree
  <2> HIDE DEF next
  <2>4. QED
    BY <2>1, <2>2, <2>3 DEF MergedOf, next, more
<1>5. CASE ~Disagree(E)
  <2>1. merged.error = "none" /\ EachOnce(imports, all)
    BY <1>5 DEF MergedOf, E
  <2>2. /\ ToSet(imports) = E
        /\ \A i \in DOMAIN imports : imports[i] \in E
        /\ \A e \in E : \E i \in DOMAIN imports : imports[i] = e
    <3>1. ToSet(imports) = E
      BY <2>1 DEF EachOnce, E
    <3>2. QED
      BY <3>1 DEF ToSet
  <2> HIDE DEF imports
  <2>3. CASE seen = {}
    <3> DEFINE kept == Append(imports, ent)
    <3>1. next = Loaded(kept)
      BY <2>1, <2>3 DEF MergeEntry, imports
    <3>2. \A e \in E : e.pkg # ent.pkg
      BY <2>2, <2>3
    <3>3. ~Disagree(ToSet(more))
      BY <1>3, <1>5, <3>2 DEF Disagree
    <3>4. kept \in Seq(Entry)
      BY <1>1
    <3>5. EachOnce(kept, more)
      <4>1. ent \notin ToSet(imports)
        BY <2>2, <3>2
      <4>2. QED
        BY <1>1, <2>1, <4>1, EachOnceAdds DEF more
    <3> HIDE DEF next, kept
    <3>6. next.error = "none" /\ next.imports = kept /\ next \in MergedStates
      BY <3>1, <3>4 DEF Loaded, MergedStates
    <3>7. QED
      BY <3>3, <3>5, <3>6 DEF MergedOf, next, more
  <2>4. CASE \E i \in seen : imports[i] # ent
    <3>1. next = Failed("conflict")
      BY <2>1, <2>4 DEF MergeEntry, imports
    <3>2. Disagree(ToSet(more))
      BY <1>3, <2>2, <2>4 DEF Disagree
    <3> HIDE DEF next
    <3>3. QED
      BY <1>2, <3>1, <3>2 DEF MergedOf, next, more
  <2>5. CASE seen # {} /\ \A i \in seen : imports[i] = ent
    <3>1. next = merged
      BY <2>1, <2>5 DEF MergeEntry, imports
    <3>2. ent \in ToSet(imports)
      BY <2>2, <2>5
    <3>3. EachOnce(imports, more)
      BY <1>1, <2>1, <3>2, EachOnceAdds DEF more
    <3>4. ToSet(more) = E
      BY <1>3, <2>2, <3>2
    <3> HIDE DEF next
    <3>5. QED
      BY <1>5, <2>1, <3>1, <3>3, <3>4 DEF MergedOf, next, more, imports
  <2>6. QED
    BY <2>3, <2>4, <2>5
<1>6. QED
  BY <1>4, <1>5

(* One list of entries merged into what was merged before.                 *)
LEMMA MergeOneList ==
  ASSUME NEW all \in Seq(Entry), NEW merged \in MergedStates,
         MergedOf(merged, all), NEW ents \in Seq(Entry)
  PROVE  /\ MergeList(merged, ents) \in MergedStates
         /\ MergedOf(MergeList(merged, ents), all \o ents)
<1> DEFINE N == Len(ents)
           Out == [error : {"none", "conflict"}, imports : Seq(Entry)]
           start == merged
           Add(ms, ent) == MergeEntry(ms, ent)
           step == [e \in (1..N) \X Out |-> Add(e[2], ents[e[1]])]
           iter == CHOOSE g : g = [w \in SUBSET (1..N) |->
                     IF w = {} THEN start ELSE Add(g[w \ {Max(w)}], ents[Max(w)])]
<1>1. /\ N \in Nat /\ DOMAIN ents = 1..N /\ start \in Out
      /\ \A i \in 1..N : ents[i] \in Entry
  BY DEF MergedStates
<1>2. \A out \in Out, x \in Entry : Add(out, x) \in Out
  <2>1. ASSUME NEW out \in Out, NEW x \in Entry PROVE MergeEntry(out, x) \in Out
    <3>1. Failed("conflict") \in Out
      BY DEF Failed
    <3>2. Append(out.imports, x) \in Seq(Entry)
      OBVIOUS
    <3>3. Loaded(Append(out.imports, x)) \in Out
      BY <3>2 DEF Loaded
    <3>4. QED
      BY <3>1, <3>3 DEF MergeEntry
  <2>2. QED
    BY <2>1
<1>3. FoldLeft(MergeEntry, merged, ents) = iter[1..N]
  BY <1>1 DEF FoldLeft, MapThenFoldSet
<1> HIDE DEF N, Out, start, Add
<1>4. step \in [(1..N) \X Out -> Out]
  BY <1>1, <1>2
<1>5. \A i \in 1..N, out \in Out : step[<<i, out>>] = Add(out, ents[i])
  OBVIOUS
<1> HIDE DEF step, iter
<1>6. PICK g : IsFold(g, N, Out, start, step)
  BY <1>1, <1>4, FoldRecursion
<1>7. g = [w \in SUBSET (1..N) |-> IF w = {} THEN start ELSE Add(g[w \ {Max(w)}], ents[Max(w)])]
  <2>1. ASSUME NEW w \in SUBSET (1..N), w # {}
        PROVE  step[<<Max(w), g[w \ {Max(w)}]>>] = Add(g[w \ {Max(w)}], ents[Max(w)])
    BY <1>1, <1>5, <1>6, <2>1, GreatestIndex DEF IsFold
  <2>2. QED
    BY <1>6, <2>1 DEF IsFold
<1>8. iter = [w \in SUBSET (1..N) |-> IF w = {} THEN start ELSE Add(iter[w \ {Max(w)}], ents[Max(w)])]
  BY <1>7 DEF iter
<1>9. iter[{}] = start
  BY <1>8
<1>10. ASSUME NEW i \in 1..N, iter[1..(i - 1)] \in Out
       PROVE  iter[1..i] = step[<<i, iter[1..(i - 1)]>>]
  <2>1. /\ Max(1..i) = i /\ 1..i \in SUBSET (1..N) /\ 1..i # {}
        /\ (1..i) \ {i} = 1..(i - 1)
    BY <1>1, GreatestIndex
  <2>2. iter[1..i] = Add(iter[1..(i - 1)], ents[i])
    BY <1>8, <2>1
  <2>3. QED
    BY <1>5, <1>10, <2>2
<1> DEFINE f == [i \in 0..N |-> iter[1..i]]
<1>11. IsRecursive(f, N, Out, start, step)
  BY <1>1, <1>4, <1>9, <1>10, FoldStates
<1>12. f[N] = iter[1..N]
  BY <1>1
<1> HIDE DEF f
<1>13. ASSUME NEW i \in 1..N PROVE f[i - 1] \in Out /\ f[i] = Add(f[i - 1], ents[i])
  <2>1. f[i - 1] \in Out /\ f[i] = step[<<i, f[i - 1]>>]
    BY <1>1, <1>11 DEF IsRecursive
  <2>2. QED
    BY <1>5, <2>1
<1>a. Out = MergedStates
  BY DEF Out, MergedStates
<1> DEFINE until(i) == all \o SubSeq(ents, 1, i)
           P == {i \in 0..N : MergedOf(f[i], until(i))}
<1>14. 0 \in P
  <2>1. until(0) = all /\ f[0] = merged
    <3>1. SubSeq(ents, 1, 0) = <<>>
      BY Parts
    <3>2. all \o <<>> = all
      OBVIOUS
    <3>3. QED
      BY <1>11, <3>1, <3>2 DEF IsRecursive, start
  <2> HIDE DEF until
  <2>2. QED
    BY <1>1, <2>1
<1>15. ASSUME NEW i \in 1..N, i - 1 \in P PROVE i \in P
  <2>1. until(i) = Append(until(i - 1), ents[i]) /\ until(i - 1) \in Seq(Entry)
    <3>1. i - 1 \in 0..Len(ents) - 1 /\ (i - 1) + 1 = i /\ ents[i] \in Entry
      BY <1>1 DEF N
    <3>2. /\ SubSeq(ents, 1, i - 1) \in Seq(Entry)
          /\ SubSeq(ents, 1, i) = Append(SubSeq(ents, 1, i - 1), ents[i])
      BY <3>1, Parts
    <3>3. \A s, t \in Seq(Entry), x \in Entry :
            s \o t \in Seq(Entry) /\ s \o Append(t, x) = Append(s \o t, x)
      OBVIOUS
    <3>4. QED
      BY <3>1, <3>2, <3>3
  <2>2. f[i] = MergeEntry(f[i - 1], ents[i]) /\ f[i - 1] \in MergedStates
    BY <1>a, <1>13 DEF Add
  <2> HIDE DEF until
  <2>3. MergedOf(f[i - 1], until(i - 1))
    BY <1>15
  <2>4. ents[i] \in Entry
    BY <1>1
  <2>5. MergedOf(MergeEntry(f[i - 1], ents[i]), Append(until(i - 1), ents[i]))
    BY <2>1, <2>2, <2>3, <2>4, MergeOne
  <2>6. MergedOf(f[i], until(i))
    BY <2>1, <2>2, <2>5
  <2>7. QED
    BY <1>1, <2>6
<1>16. 0..N \subseteq P
  <2> HIDE DEF P
  <2>1. QED
    BY <1>1, <1>14, <1>15, Induct
<1>17. MergedOf(f[N], until(N)) /\ f[N] \in MergedStates
  BY <1>1, <1>11, <1>16, <1>a DEF IsRecursive
<1>18. until(N) = all \o ents
  BY Parts DEF N
<1> HIDE DEF until
<1>19. MergeList(merged, ents) = f[N]
  BY <1>3, <1>12 DEF MergeList
<1>20. QED
  BY <1>17, <1>18, <1>19

(* What a loop over the lists starts with.                                 *)
LEMMA NothingMerged == MergedOf(Loaded(<<>>), <<>>)
<1>1. <<>> \in Seq(Entry) /\ DOMAIN <<>> = {}
  OBVIOUS
<1>2. ToSet(<<>>) = {} /\ IsInjective(<<>>) /\ ~Disagree({})
  BY <1>1 DEF ToSet, IsInjective, Disagree
<1>3. EachOnce(<<>>, <<>>)
  BY <1>1, <1>2, EachOnceOfItself
<1>4. QED
  BY <1>2, <1>3 DEF Loaded, MergedOf

(* All lists merged.                                                       *)
LEMMA MergeAllLists ==
  ASSUME NEW lists \in Seq(Seq(Entry))
  PROVE  /\ FoldLeft(MergeList, Loaded(<<>>), lists) \in MergedStates
         /\ MergedOf(FoldLeft(MergeList, Loaded(<<>>), lists), FlattenSeq(lists))
<1> DEFINE N == Len(lists)
           Out == {m \in MergedStates : \E all \in Seq(Entry) : MergedOf(m, all)}
           start == Loaded(<<>>)
           Add(ms, ents) == MergeList(ms, ents)
           step == [e \in (1..N) \X Out |-> Add(e[2], lists[e[1]])]
           iter == CHOOSE g : g = [w \in SUBSET (1..N) |->
                     IF w = {} THEN start ELSE Add(g[w \ {Max(w)}], lists[Max(w)])]
<1>1. /\ N \in Nat /\ DOMAIN lists = 1..N /\ start \in Out
      /\ \A i \in 1..N : lists[i] \in Seq(Entry)
  <2>1. <<>> \in Seq(Entry) /\ Loaded(<<>>) \in MergedStates
    <3>1. <<>> \in Seq(Entry)
      OBVIOUS
    <3>2. QED
      BY <3>1 DEF Loaded, MergedStates
  <2>2. MergedOf(Loaded(<<>>), <<>>)
    BY NothingMerged
  <2>3. start \in Out
    BY <2>1, <2>2
  <2> HIDE DEF start, Out
  <2>4. QED
    BY <2>3
<1>2. \A out \in Out, x \in Seq(Entry) : Add(out, x) \in Out
  <2>1. ASSUME NEW out \in Out, NEW x \in Seq(Entry) PROVE MergeList(out, x) \in Out
    <3>1. PICK all \in Seq(Entry) : MergedOf(out, all)
      OBVIOUS
    <3>2. all \o x \in Seq(Entry)
      OBVIOUS
    <3>3. out \in MergedStates
      OBVIOUS
    <3>4. /\ MergeList(out, x) \in MergedStates
          /\ MergedOf(MergeList(out, x), all \o x)
      <4> HIDE DEF Out
      <4>1. QED
        BY <3>1, <3>3, MergeOneList
    <3>5. QED
      BY <3>2, <3>4
  <2>2. QED
    BY <2>1
<1>3. FoldLeft(MergeList, Loaded(<<>>), lists) = iter[1..N]
  BY <1>1 DEF FoldLeft, MapThenFoldSet
<1> HIDE DEF N, Out, start, Add
<1>4. step \in [(1..N) \X Out -> Out]
  BY <1>1, <1>2
<1>5. \A i \in 1..N, out \in Out : step[<<i, out>>] = Add(out, lists[i])
  OBVIOUS
<1> HIDE DEF step, iter
<1>6. PICK g : IsFold(g, N, Out, start, step)
  BY <1>1, <1>4, FoldRecursion
<1>7. g = [w \in SUBSET (1..N) |-> IF w = {} THEN start ELSE Add(g[w \ {Max(w)}], lists[Max(w)])]
  <2>1. ASSUME NEW w \in SUBSET (1..N), w # {}
        PROVE  step[<<Max(w), g[w \ {Max(w)}]>>] = Add(g[w \ {Max(w)}], lists[Max(w)])
    BY <1>1, <1>5, <1>6, <2>1, GreatestIndex DEF IsFold
  <2>2. QED
    BY <1>6, <2>1 DEF IsFold
<1>8. iter = [w \in SUBSET (1..N) |-> IF w = {} THEN start ELSE Add(iter[w \ {Max(w)}], lists[Max(w)])]
  BY <1>7 DEF iter
<1>9. iter[{}] = start
  BY <1>8
<1>10. ASSUME NEW i \in 1..N, iter[1..(i - 1)] \in Out
       PROVE  iter[1..i] = step[<<i, iter[1..(i - 1)]>>]
  <2>1. /\ Max(1..i) = i /\ 1..i \in SUBSET (1..N) /\ 1..i # {}
        /\ (1..i) \ {i} = 1..(i - 1)
    BY <1>1, GreatestIndex
  <2>2. iter[1..i] = Add(iter[1..(i - 1)], lists[i])
    BY <1>8, <2>1
  <2>3. QED
    BY <1>5, <1>10, <2>2
<1> DEFINE f == [i \in 0..N |-> iter[1..i]]
<1>11. IsRecursive(f, N, Out, start, step)
  BY <1>1, <1>4, <1>9, <1>10, FoldStates
<1>12. f[N] = iter[1..N]
  BY <1>1
<1> HIDE DEF f
<1>13. ASSUME NEW i \in 1..N PROVE f[i - 1] \in Out /\ f[i] = Add(f[i - 1], lists[i])
  <2>1. f[i - 1] \in Out /\ f[i] = step[<<i, f[i - 1]>>]
    BY <1>1, <1>11 DEF IsRecursive
  <2>2. QED
    BY <1>5, <2>1
<1>a. Out \subseteq MergedStates
  BY DEF Out
<1>b. PICK flat \in [0..Len(lists) -> Seq(Entry)] :
        /\ flat[0] = <<>> /\ flat[Len(lists)] = FlattenSeq(lists)
        /\ \A i \in 1..Len(lists) : flat[i] = flat[i - 1] \o lists[i]
  BY Flattened
<1> DEFINE P == {i \in 0..N : MergedOf(f[i], flat[i])}
<1>14. 0 \in P
  <2>1. f[0] = Loaded(<<>>) /\ flat[0] = <<>>
    BY <1>11, <1>b DEF IsRecursive, start
  <2>2. MergedOf(f[0], flat[0])
    BY <2>1, NothingMerged
  <2>3. QED
    BY <1>1, <2>2
<1>15. ASSUME NEW i \in 1..N, i - 1 \in P PROVE i \in P
  <2>1. lists[i] \in Seq(Entry)
    BY <1>1
  <2>2. flat[i] = flat[i - 1] \o lists[i] /\ flat[i - 1] \in Seq(Entry)
    <3>1. i \in 1..Len(lists) /\ i - 1 \in 0..Len(lists)
      BY <1>1 DEF N
    <3>2. QED
      BY <1>b, <3>1
  <2>3. f[i] = MergeList(f[i - 1], lists[i]) /\ f[i - 1] \in MergedStates
    BY <1>a, <1>13 DEF Add
  <2>4. MergedOf(f[i - 1], flat[i - 1])
    BY <1>15
  <2>5. MergedOf(MergeList(f[i - 1], lists[i]), flat[i - 1] \o lists[i])
    BY <2>1, <2>2, <2>3, <2>4, MergeOneList
  <2>6. MergedOf(f[i], flat[i])
    BY <2>2, <2>3, <2>5
  <2>7. QED
    BY <1>1, <2>6
<1>16. 0..N \subseteq P
  <2> HIDE DEF P
  <2>1. QED
    BY <1>1, <1>14, <1>15, Induct
<1>17. MergedOf(f[N], flat[N]) /\ f[N] \in MergedStates
  BY <1>1, <1>11, <1>16, <1>a DEF IsRecursive
<1>18. flat[N] = FlattenSeq(lists)
  BY <1>b DEF N
<1>19. QED
  BY <1>3, <1>12, <1>17, <1>18

ReadFile == [state : {"read", "missing", "empty", "invalid"}, entries : Seq(Entry)]

(* Loading gives the entries of a file, or says why not.                   *)
LEMMA LoadOne ==
  ASSUME NEW file \in ReadFile
  PROVE  /\ LoadWithBytes(file).error = "none" <=>
              file.state = "read" /\ ~DupPaths(file.entries)
         /\ LoadWithBytes(file).error = "none" =>
              LoadWithBytes(file) = Loaded(file.entries)
         /\ LoadWithBytes(file).error # "conflict"
<1>1. file.state \in {"read", "missing", "empty", "invalid"}
  BY DEF ReadFile
<1>2. QED
  BY <1>1 DEF LoadWithBytes, LoadExternalTargets, RawIsNil, Loaded, Failed

(* The imports of an install from any number of targets files: each entry  *)
(* once, in the order of the files, unless a file does not load or, of     *)
(* several files, two entries disagree about a package, whichever of the   *)
(* files they are in.  A file given alone is taken as it is: only equal    *)
(* paths with their versions are an error there.                           *)
THEOREM ImportsAreMerged ==
  ASSUME NEW files \in Seq(ReadFile)
  PROVE  LET merged   == EffectiveImports(files)
             all      == AllEntries(files)
             loaded   == \A file \in ToSet(files) :
                           file.state = "read" /\ ~DupPaths(file.entries)
             conflict == /\ Len(files) > 1
                         /\ \E e, f \in ToSet(all) : e.pkg = f.pkg /\ e # f
         IN /\ merged.error = "none" <=> loaded /\ ~conflict
            /\ merged.error = "conflict" <=> loaded /\ conflict
            /\ merged.error = "none" => EachOnce(merged.imports, all)
<1> DEFINE N == Len(files)
           load(i) == LoadWithBytes(files[i])
           bad == {i \in DOMAIN files : load(i).error # "none"}
           res == EffectiveImports(files)
           all == AllEntries(files)
           loaded == \A file \in ToSet(files) :
                       file.state = "read" /\ ~DupPaths(file.entries)
           conflict == N > 1 /\ Disagree(ToSet(all))
<1> SUFFICES /\ res.error = "none" <=> loaded /\ ~conflict
             /\ res.error = "conflict" <=> loaded /\ conflict
             /\ res.error = "none" => EachOnce(res.imports, all)
  BY DEF Disagree
<1>1. N \in Nat /\ DOMAIN files = 1..N /\ \A i \in 1..N : files[i] \in ReadFile
  OBVIOUS
<1>2. ToSet(files) = {files[i] : i \in 1..N}
  BY <1>1 DEF ToSet
<1>3. \A i \in 1..N : /\ load(i).error = "none" <=>
                            files[i].state = "read" /\ ~DupPaths(files[i].entries)
                      /\ load(i).error = "none" => load(i) = Loaded(files[i].entries)
                      /\ load(i).error # "conflict"
  BY <1>1, LoadOne
<1> HIDE DEF load
<1>4. bad = {} <=> loaded
  BY <1>1, <1>2, <1>3
<1>5. CASE bad # {}
  <2>1. bad \in SUBSET Nat
    BY <1>1
  <2> DEFINE first == CHOOSE i \in bad : \A j \in bad : i <= j
  <2>2. res = load(first)
    BY <1>5 DEF EffectiveImports, load
  <2>3. first \in bad
    <3> HIDE DEF bad
    <3>1. \E i \in bad : \A j \in bad : i <= j
      BY <1>5, <2>1, Least
    <3>2. QED
      BY <3>1
  <2> HIDE DEF first
  <2>4. res.error \notin {"none", "conflict"}
    BY <1>1, <1>3, <2>2, <2>3
  <2> HIDE DEF res, all, bad, loaded, conflict
  <2>5. QED
    BY <1>4, <1>5, <2>4
<1>6. CASE bad = {}
  <2> DEFINE lists == [i \in DOMAIN files |-> LoadWithBytes(files[i]).imports]
  <2>1. \A i \in 1..N : lists[i] = files[i].entries /\ files[i].entries \in Seq(Entry)
    <3>1. \A i \in 1..N : load(i).imports = files[i].entries
      BY <1>1, <1>3, <1>6 DEF Loaded
    <3>2. \A i \in 1..N : lists[i] = load(i).imports
      BY <1>1 DEF load
    <3>3. \A i \in 1..N : files[i].entries \in Seq(Entry)
      BY <1>1 DEF ReadFile
    <3>4. QED
      BY <3>1, <3>2, <3>3
  <2>2. res = MergeImports(lists)
    BY <1>6 DEF EffectiveImports, load
  <2>3. DOMAIN lists = 1..N
    BY <1>1
  <2> HIDE DEF lists
  <2>4. lists \in Seq(Seq(Entry)) /\ Len(lists) = N
    <3>1. lists = [i \in 1..N |-> lists[i]]
      BY <2>3 DEF lists
    <3>2. lists \in [1..N -> Seq(Entry)]
      BY <2>1, <3>1
    <3>3. lists \in Seq(Seq(Entry))
      BY <1>1, <3>2, SeqDef
    <3>4. QED
      BY <1>1, <2>3, <3>3
  <2>5. all = FlattenSeq(lists)
    <3>1. [i \in DOMAIN files |-> files[i].entries] = lists
      BY <1>1, <2>1, <2>3, <2>4 DEF lists
    <3>2. QED
      BY <3>1 DEF AllEntries
  <2>6. CASE N = 1
    <3>1. res = Loaded(lists[1])
      BY <2>2, <2>4, <2>6 DEF MergeImports
    <3>2. lists[1] = files[1].entries /\ files[1].entries \in Seq(Entry)
      BY <2>1, <2>6
    <3>3. all = files[1].entries
      <4>1. PICK flat \in [0..Len(lists) -> Seq(Entry)] :
              /\ flat[0] = <<>> /\ flat[Len(lists)] = FlattenSeq(lists)
              /\ \A i \in 1..Len(lists) : flat[i] = flat[i - 1] \o lists[i]
        BY <2>4, Flattened
      <4>2. Len(lists) = 1 /\ 1 \in 1..Len(lists) /\ 1 - 1 = 0
        BY <2>4, <2>6
      <4>3. FlattenSeq(lists) = <<>> \o files[1].entries
        BY <3>2, <4>1, <4>2
      <4>4. \A t \in Seq(Entry) : <<>> \o t = t
        OBVIOUS
      <4>5. QED
        BY <2>5, <3>2, <4>3, <4>4
    <3>4. ~DupPaths(files[1].entries)
      BY <1>1, <1>3, <1>6, <2>6
    <3>5. IsInjective(files[1].entries)
      BY <3>2, <3>4 DEF DupPaths, IsInjective
    <3>6. res.error = "none" /\ res.imports = files[1].entries
      BY <3>1, <3>2 DEF Loaded
    <3>7. EachOnce(res.imports, all)
      BY <3>2, <3>3, <3>5, <3>6, EachOnceOfItself
    <3> HIDE DEF res, all, loaded, bad
    <3>8. QED
      BY <1>4, <1>6, <2>6, <3>6, <3>7
  <2>7. CASE N # 1
    <3>1. res = FoldLeft(MergeList, Loaded(<<>>), lists)
      BY <2>2, <2>4, <2>7 DEF MergeImports
    <3>2. res \in MergedStates /\ MergedOf(res, all)
      BY <2>4, <2>5, <3>1, MergeAllLists
    <3>3. /\ Disagree(ToSet(all)) => res.error = "conflict"
          /\ ~Disagree(ToSet(all)) =>
               res.error = "none" /\ EachOnce(res.imports, all)
      BY <3>2 DEF MergedOf, Failed
    <3>4. N = 0 => ~Disagree(ToSet(all))
      <4>1. N = 0 => all = <<>>
        BY <2>4, <2>5, Flattened
      <4>2. ToSet(<<>>) = {} /\ ~Disagree({})
        BY DEF ToSet, Disagree
      <4>3. QED
        BY <4>1, <4>2
    <3>5. N = 0 \/ N > 1
      BY <1>1, <2>7
    <3> HIDE DEF res, all, loaded, bad
    <3>6. QED
      BY <1>4, <1>6, <3>3, <3>4, <3>5
  <2>8. QED
    BY <2>6, <2>7
<1>7. QED
  BY <1>5, <1>6

-----------------------------------------------------------------------------
(* The configs applied after entries that make up a set.                   *)
Configured(E) == {ent \in E : ent.config # ""}
SameKey(E) == \E e, f \in Configured(E) : e # f /\ MetaKey(e) = MetaKey(f)
Keys == {MetaKey(ent) : ent \in Entry}
Paths == {ImportPath(ent) : ent \in Entry}
AppliedStates == [error : {"none", "duplicate"},
                  meta : UNION {[K -> Paths] : K \in SUBSET Keys}]
AppliedOf(applied, E) ==
  IF SameKey(E) THEN applied.error = "duplicate"
  ELSE /\ applied.error = "none"
       /\ DOMAIN applied.meta = {MetaKey(ent) : ent \in Configured(E)}
       /\ \A ent \in Configured(E) : applied.meta[MetaKey(ent)] = ImportPath(ent)

(* The states of the loop over the configs.                                *)
LEMMA SetMetaIsApplied ==
  ASSUME NEW applied \in AppliedStates, NEW ent \in Entry
  PROVE  SetMeta(applied, ent) \in AppliedStates
<1> DEFINE meta == applied.meta
           key == MetaKey(ent)
           added == [k \in DOMAIN meta \cup {key} |->
                       IF k = key THEN ImportPath(ent) ELSE meta[k]]
<1>1. applied.error \in {"none", "duplicate"}
      /\ DOMAIN meta \in SUBSET Keys /\ \A k \in DOMAIN meta : meta[k] \in Paths
  BY DEF AppliedStates
<1>2. key \in Keys /\ ImportPath(ent) \in Paths
  BY DEF Keys, Paths
<1>3. applied = [error |-> applied.error, meta |-> meta]
  BY DEF AppliedStates
<1> HIDE DEF key
<1>4. [applied EXCEPT !.error = "duplicate"] = [error |-> "duplicate", meta |-> meta]
  BY <1>3
<1>5. [applied EXCEPT !.meta = added] = [error |-> applied.error, meta |-> added]
  BY <1>3
<1> HIDE DEF meta
<1>6. meta \in UNION {[K -> Paths] : K \in SUBSET Keys}
  BY DEF meta, AppliedStates
<1>7. added \in [DOMAIN meta \cup {key} -> Paths] /\ DOMAIN meta \cup {key} \in SUBSET Keys
  BY <1>1, <1>2
<1>8. added \in UNION {[K -> Paths] : K \in SUBSET Keys}
  BY <1>7
<1> HIDE DEF added
<1>9. SetMeta(applied, ent) \in {applied, [applied EXCEPT !.error = "duplicate"],
                                 [applied EXCEPT !.meta = added]}
  BY DEF SetMeta, added, meta, key
<1>10. QED
  BY <1>1, <1>4, <1>5, <1>6, <1>8, <1>9 DEF AppliedStates

(* One more entry's config applied.                                        *)
LEMMA SetMetaOne ==
  ASSUME NEW E \in SUBSET Entry, NEW applied \in AppliedStates, AppliedOf(applied, E),
         NEW ent \in Entry, ent \notin E
  PROVE  AppliedOf(SetMeta(applied, ent), E \cup {ent})
<1> DEFINE meta == applied.meta
           key == MetaKey(ent)
           next == SetMeta(applied, ent)
           added == [k \in DOMAIN meta \cup {key} |->
                       IF k = key THEN ImportPath(ent) ELSE meta[k]]
<1>1. applied = [error |-> applied.error, meta |-> meta]
  BY DEF AppliedStates
<1>2. [applied EXCEPT !.error = "duplicate"].error = "duplicate"
  BY <1>1
<1>3. /\ [applied EXCEPT !.meta = added].error = applied.error
      /\ [applied EXCEPT !.meta = added].meta = added
  BY <1>1
<1>4. CASE SameKey(E)
  <2>1. applied.error = "duplicate"
    BY <1>4 DEF AppliedOf
  <2>2. next = applied
    BY <2>1 DEF SetMeta
  <2>3. SameKey(E \cup {ent})
    BY <1>4 DEF SameKey, Configured
  <2> HIDE DEF next
  <2>4. QED
    BY <2>1, <2>2, <2>3 DEF AppliedOf, next
<1>5. CASE ~SameKey(E)
  <2>1. /\ applied.error = "none"
        /\ DOMAIN meta = {MetaKey(e) : e \in Configured(E)}
        /\ \A e \in Configured(E) : meta[MetaKey(e)] = ImportPath(e)
    BY <1>5 DEF AppliedOf
  <2>2. CASE ent.config = ""
    <3>1. next = applied
      BY <2>2 DEF SetMeta
    <3>2. Configured(E \cup {ent}) = Configured(E)
      BY <2>2 DEF Configured
    <3>3. SameKey(E \cup {ent}) <=> SameKey(E)
      BY <3>2 DEF SameKey
    <3> HIDE DEF next
    <3>4. AppliedOf(next, E \cup {ent})
      BY <1>5, <2>1, <3>1, <3>2, <3>3 DEF AppliedOf
    <3>5. QED
      BY <3>4 DEF next
  <2>3. ent.config # "" => Configured(E \cup {ent}) = Configured(E) \cup {ent}
    BY DEF Configured
  <2>4. CASE ent.config # "" /\ key \in DOMAIN meta
    <3>1. next = [applied EXCEPT !.error = "duplicate"]
      BY <2>1, <2>4 DEF SetMeta
    <3>2. PICK e \in Configured(E) : MetaKey(e) = key
      BY <2>1, <2>4
    <3>3. e # ent
      BY DEF Configured
    <3>4. SameKey(E \cup {ent})
      BY <2>3, <2>4, <3>2, <3>3 DEF SameKey
    <3> HIDE DEF next
    <3>5. next.error = "duplicate"
      BY <1>2, <3>1
    <3>6. QED
      BY <3>4, <3>5 DEF AppliedOf, next
  <2>5. CASE ent.config # "" /\ key \notin DOMAIN meta
    <3>1. next = [applied EXCEPT !.meta = added]
      BY <2>1, <2>5 DEF SetMeta
    <3>2. \A e \in Configured(E) : MetaKey(e) # key
      BY <2>1, <2>5
    <3>3. ~SameKey(E \cup {ent})
      BY <1>5, <2>3, <2>5, <3>2 DEF SameKey
    <3> HIDE DEF next
    <3>4. next.error = "none" /\ next.meta = added
      BY <1>3, <2>1, <3>1
    <3>5. DOMAIN added = {MetaKey(e) : e \in Configured(E) \cup {ent}}
      BY <2>1
    <3>6. \A e \in Configured(E) \cup {ent} : added[MetaKey(e)] = ImportPath(e)
      BY <2>1, <3>2
    <3> HIDE DEF added, key, meta
    <3>7. AppliedOf(next, E \cup {ent})
      BY <2>3, <2>5, <3>3, <3>4, <3>5, <3>6 DEF AppliedOf
    <3>8. QED
      BY <3>7 DEF next
  <2>6. QED
    BY <2>2, <2>4, <2>5
<1>6. QED
  BY <1>4, <1>5

(* The configs of all entries applied.                                     *)
LEMMA MetaOfAll ==
  ASSUME NEW ents \in Seq(Entry), IsInjective(ents)
  PROVE  LET applied == FoldLeft(SetMeta, [error |-> "none", meta |-> [k \in {} |-> ""]], ents)
         IN applied \in AppliedStates /\ AppliedOf(applied, ToSet(ents))
<1> DEFINE N == Len(ents)
           Out == AppliedStates
           start == [error |-> "none", meta |-> [k \in {} |-> ""]]
           Add(as, ent) == SetMeta(as, ent)
           step == [e \in (1..N) \X Out |-> Add(e[2], ents[e[1]])]
           iter == CHOOSE g : g = [w \in SUBSET (1..N) |->
                     IF w = {} THEN start ELSE Add(g[w \ {Max(w)}], ents[Max(w)])]
<1>1. /\ N \in Nat /\ DOMAIN ents = 1..N /\ start \in Out
      /\ \A i \in 1..N : ents[i] \in Entry
  <2>1. [k \in {} |-> ""] \in UNION {[K -> Paths] : K \in SUBSET Keys}
    <3>1. [k \in {} |-> ""] \in [{} -> Paths] /\ {} \in SUBSET Keys
      OBVIOUS
    <3>2. QED
      BY <3>1
  <2>2. start \in Out
    BY <2>1 DEF AppliedStates
  <2> HIDE DEF start
  <2>3. QED
    BY <2>2
<1>2. \A out \in Out, x \in Entry : Add(out, x) \in Out
  BY SetMetaIsApplied
<1>3. FoldLeft(SetMeta, [error |-> "none", meta |-> [k \in {} |-> ""]], ents) = iter[1..N]
  BY <1>1 DEF FoldLeft, MapThenFoldSet
<1> HIDE DEF N, Out, start, Add
<1>4. step \in [(1..N) \X Out -> Out]
  BY <1>1, <1>2
<1>5. \A i \in 1..N, out \in Out : step[<<i, out>>] = Add(out, ents[i])
  OBVIOUS
<1> HIDE DEF step, iter
<1>6. PICK g : IsFold(g, N, Out, start, step)
  BY <1>1, <1>4, FoldRecursion
<1>7. g = [w \in SUBSET (1..N) |-> IF w = {} THEN start ELSE Add(g[w \ {Max(w)}], ents[Max(w)])]
  <2>1. ASSUME NEW w \in SUBSET (1..N), w # {}
        PROVE  step[<<Max(w), g[w \ {Max(w)}]>>] = Add(g[w \ {Max(w)}], ents[Max(w)])
    BY <1>1, <1>5, <1>6, <2>1, GreatestIndex DEF IsFold
  <2>2. QED
    BY <1>6, <2>1 DEF IsFold
<1>8. iter = [w \in SUBSET (1..N) |-> IF w = {} THEN start ELSE Add(iter[w \ {Max(w)}], ents[Max(w)])]
  BY <1>7 DEF iter
<1>9. iter[{}] = start
  BY <1>8
<1>10. ASSUME NEW i \in 1..N, iter[1..(i - 1)] \in Out
       PROVE  iter[1..i] = step[<<i, iter[1..(i - 1)]>>]
  <2>1. /\ Max(1..i) = i /\ 1..i \in SUBSET (1..N) /\ 1..i # {}
        /\ (1..i) \ {i} = 1..(i - 1)
    BY <1>1, GreatestIndex
  <2>2. iter[1..i] = Add(iter[1..(i - 1)], ents[i])
    BY <1>8, <2>1
  <2>3. QED
    BY <1>5, <1>10, <2>2
<1> DEFINE f == [i \in 0..N |-> iter[1..i]]
<1>11. IsRecursive(f, N, Out, start, step)
  BY <1>1, <1>4, <1>9, <1>10, FoldStates
<1>12. f[N] = iter[1..N]
  BY <1>1
<1> HIDE DEF f
<1>13. ASSUME NEW i \in 1..N PROVE f[i - 1] \in Out /\ f[i] = Add(f[i - 1], ents[i])
  <2>1. f[i - 1] \in Out /\ f[i] = step[<<i, f[i - 1]>>]
    BY <1>1, <1>11 DEF IsRecursive
  <2>2. QED
    BY <1>5, <2>1
<1>a. Out = AppliedStates
  BY DEF Out
<1> DEFINE E2(i) == {ents[j] : j \in 1..i}
           P == {i \in 0..N : AppliedOf(f[i], E2(i))}
<1>14. 0 \in P
  <2>1. AppliedOf(start, {})
    <3>1. DOMAIN start.meta = {} /\ start.error = "none"
      BY DEF start
    <3>2. Configured({}) = {} /\ ~SameKey({})
      BY DEF Configured, SameKey
    <3>3. QED
      BY <3>1, <3>2 DEF AppliedOf
  <2>2. E2(0) = {} /\ f[0] = start
    BY <1>11 DEF IsRecursive
  <2> HIDE DEF E2
  <2>3. AppliedOf(f[0], E2(0))
    BY <2>1, <2>2
  <2>4. QED
    BY <1>1, <2>3
<1>15. ASSUME NEW i \in 1..N, i - 1 \in P PROVE i \in P
  <2>1. E2(i) = E2(i - 1) \cup {ents[i]} /\ E2(i - 1) \in SUBSET Entry
    <3>1. \A x : (\E j \in 1..i : x = ents[j])
                 <=> (x = ents[i] \/ \E j \in 1..(i - 1) : x = ents[j])
      BY <1>1
    <3>2. \A j \in 1..(i - 1) : ents[j] \in Entry
      BY <1>1
    <3>3. QED
      BY <3>1, <3>2
  <2>2. f[i] = SetMeta(f[i - 1], ents[i]) /\ f[i - 1] \in AppliedStates
    BY <1>a, <1>13 DEF Add
  <2>3. ents[i] \notin E2(i - 1)
    BY <1>1 DEF IsInjective
  <2> HIDE DEF E2
  <2>4. AppliedOf(f[i - 1], E2(i - 1))
    BY <1>15
  <2>5. ents[i] \in Entry
    BY <1>1
  <2>6. AppliedOf(SetMeta(f[i - 1], ents[i]), E2(i - 1) \cup {ents[i]})
    BY <2>1, <2>2, <2>3, <2>4, <2>5, SetMetaOne
  <2>7. AppliedOf(f[i], E2(i))
    BY <2>1, <2>2, <2>6
  <2>8. QED
    BY <1>1, <2>7
<1>16. 0..N \subseteq P
  <2> HIDE DEF P
  <2>1. QED
    BY <1>1, <1>14, <1>15, Induct
<1>17. f[N] \in AppliedStates /\ AppliedOf(f[N], E2(N))
  BY <1>1, <1>11, <1>16, <1>a DEF IsRecursive
<1>18. E2(N) = ToSet(ents)
  BY <1>1 DEF ToSet
<1> HIDE DEF E2
<1>19. QED
  BY <1>3, <1>12, <1>17, <1>18

(* The packages are all called db, whatever their paths end in.            *)
LEMMA KeyOfEntry ==
  ASSUME NEW ent \in Entry
  PROVE  MetaKey(ent) = IF ent.namespace # "" THEN ent.namespace ELSE "db"
<1>1. ent.pkg \in TargetPackage
  BY DEF Entry
<1>2. CASE ent.pkg = <<"a", "db">>
  BY <1>2 DEF MetaKey, IsMajorVersion, Last, Front
<1>3. CASE ent.pkg = <<"b", "db">>
  BY <1>3 DEF MetaKey, IsMajorVersion, Last, Front
<1>4. CASE ent.pkg = <<"a", "db", "v2">>
  <2>1. Last(ent.pkg) = "v2"
    BY <1>4 DEF Last
  <2>2. Last(Front(ent.pkg)) = "db"
    BY <1>4 DEF Last, Front
  <2>3. QED
    BY <2>1, <2>2 DEF MetaKey, IsMajorVersion
<1>5. QED
  BY <1>1, <1>2, <1>3, <1>4 DEF TargetPackage

(* The configs of a project's file are all found under their own keys,     *)
(* unless two share a key, and that is an error.                           *)
THEOREM ConfigsAreApplied ==
  ASSUME NEW file \in ReadFile
  PROVE  LET applied    == ApplyExternalTargetMeta(file)
             readable   == file.state # "invalid" /\ ~DupPaths(file.entries)
             configured == {ent \in ToSet(file.entries) : ent.config # ""}
             Key(ent)   == IF ent.namespace # "" THEN ent.namespace ELSE "db"
         IN /\ applied.error = "duplicate" <=>
                 readable /\ \E e, f \in configured : e # f /\ Key(e) = Key(f)
            /\ readable /\ applied.error = "none" =>
                 applied.meta = [k \in {Key(e) : e \in configured} |->
                                  ImportPath(CHOOSE e \in configured : Key(e) = k)]
<1> DEFINE res == ApplyExternalTargetMeta(file)
           readable == file.state # "invalid" /\ ~DupPaths(file.entries)
           all == ToSet(file.entries)
           loaded == LoadExternalTargets(file).imports
           Key(ent) == IF ent.namespace # "" THEN ent.namespace ELSE "db"
<1>1. file.entries \in Seq(Entry)
  BY DEF ReadFile
<1>2. /\ readable => loaded = file.entries
      /\ ~readable => loaded = <<>>
  BY DEF LoadExternalTargets, Loaded, Failed
<1>3. loaded \in Seq(Entry) /\ IsInjective(loaded)
  <2>1. readable => IsInjective(file.entries)
    BY <1>1 DEF DupPaths, IsInjective
  <2>2. <<>> \in Seq(Entry) /\ IsInjective(<<>>)
    BY DEF IsInjective
  <2>3. QED
    BY <1>1, <1>2, <2>1, <2>2
<1> HIDE DEF loaded
<1>4. res \in AppliedStates /\ AppliedOf(res, ToSet(loaded))
  BY <1>3, MetaOfAll DEF ApplyExternalTargetMeta, loaded
<1>5. ToSet(loaded) = IF readable THEN all ELSE {}
  BY <1>2 DEF ToSet
<1>6. \A e \in all : e \in Entry /\ MetaKey(e) = Key(e)
  <2>1. \A e \in all : e \in Entry
    BY <1>1 DEF ToSet
  <2>2. QED
    BY <2>1, KeyOfEntry
<1> DEFINE configured == {ent \in all : ent.config # ""}
<1> HIDE DEF res, readable, all, Key
<1>7. Configured(all) = configured /\ ~SameKey({})
  BY DEF Configured, SameKey
<1>8. SameKey(all) <=> \E e, f \in configured : e # f /\ Key(e) = Key(f)
  BY <1>6, <1>7 DEF SameKey
<1>9. res.error = "duplicate" <=>
        readable /\ \E e, f \in configured : e # f /\ Key(e) = Key(f)
  BY <1>4, <1>5, <1>7, <1>8 DEF AppliedOf
<1>10. ASSUME readable, res.error = "none"
       PROVE  res.meta = [k \in {Key(e) : e \in configured} |->
                            ImportPath(CHOOSE e \in configured : Key(e) = k)]
  <2>1. /\ DOMAIN res.meta = {MetaKey(e) : e \in configured}
        /\ \A e \in configured : res.meta[MetaKey(e)] = ImportPath(e)
    BY <1>4, <1>5, <1>7, <1>10 DEF AppliedOf
  <2>2. configured \subseteq all
    OBVIOUS
  <2> HIDE DEF configured
  <2>3. /\ DOMAIN res.meta = {Key(e) : e \in configured}
        /\ \A e \in configured : res.meta[Key(e)] = ImportPath(e)
    BY <1>6, <2>1, <2>2
  <2>4. \A k \in {Key(e) : e \in configured} :
          res.meta[k] = ImportPath(CHOOSE e \in configured : Key(e) = k)
    <3>1. ASSUME NEW k \in {Key(e) : e \in configured}
          PROVE  res.meta[k] = ImportPath(CHOOSE e \in configured : Key(e) = k)
      <4> DEFINE c == CHOOSE e \in configured : Key(e) = k
      <4>1. c \in configured /\ Key(c) = k
        OBVIOUS
      <4> HIDE DEF c
      <4>2. res.meta[k] = ImportPath(c)
        BY <2>3, <4>1
      <4>3. QED
        BY <4>2 DEF c
    <3>2. QED
      BY <3>1
  <2>5. res.meta = [k \in DOMAIN res.meta |-> res.meta[k]]
    <3>1. res.meta \in UNION {[K -> Paths] : K \in SUBSET Keys}
      BY <1>4 DEF AppliedStates
    <3>2. QED
      BY <3>1
  <2>6. QED
    BY <2>3, <2>4, <2>5
<1>11. QED
  BY <1>9, <1>10 DEF res, readable, all, Key

(* The files of the calls are files.                                       *)
LEMMA FilesOfCalls ==
  /\ OneEntry \cup TwoEntries \subseteq ReadFile
  /\ FileLists \subseteq Seq(ReadFile)
<1>1. OneEntry \subseteq ReadFile
  <2>1. NoEntries \subseteq ReadFile
    <3>1. <<>> \in Seq(Entry)
      OBVIOUS
    <3>2. QED
      BY <3>1 DEF NoEntries, ReadFile
  <2>2. ASSUME NEW ent \in Entry PROVE TargetsFile(<<ent>>) \in ReadFile
    <3>1. <<ent>> \in Seq(Entry)
      OBVIOUS
    <3>2. QED
      BY <3>1 DEF TargetsFile, ReadFile
  <2>3. QED
    BY <2>1, <2>2 DEF OneEntry
<1>2. TwoEntries \subseteq ReadFile
  <2>1. ASSUME NEW ents \in Entry \X Entry PROVE TargetsFile(ents) \in ReadFile
    <3>1. PICK e \in Entry, f \in Entry : ents = <<e, f>>
      OBVIOUS
    <3>2. <<e, f>> \in Seq(Entry)
      OBVIOUS
    <3>3. QED
      BY <3>1, <3>2 DEF TargetsFile, ReadFile
  <2>2. QED
    BY <2>1 DEF TwoEntries
<1>3. \A file \in ReadFile : <<file>> \in Seq(ReadFile)
  OBVIOUS
<1>4. ReadFile \X ReadFile \subseteq Seq(ReadFile)
  <2>1. ASSUME NEW both \in ReadFile \X ReadFile PROVE both \in Seq(ReadFile)
    <3>1. PICK f \in ReadFile, g \in ReadFile : both = <<f, g>>
      OBVIOUS
    <3>2. <<f, g>> \in Seq(ReadFile)
      OBVIOUS
    <3>3. QED
      BY <3>1, <3>2
  <2>2. QED
    BY <2>1
<1>5. {TargetsFile(<<ent>>) : ent \in Entry} \subseteq OneEntry
  BY DEF OneEntry
<1>6. FileLists \subseteq Seq(ReadFile)
  <2> DEFINE single == {TargetsFile(<<ent>>) : ent \in Entry}
  <2>1. {<<file>> : file \in OneEntry \cup TwoEntries} \subseteq Seq(ReadFile)
    BY <1>1, <1>2, <1>3
  <2>2. OneEntry \X OneEntry \subseteq Seq(ReadFile)
    BY <1>1, <1>4
  <2>3. TwoEntries \X single \subseteq Seq(ReadFile)
    <3> HIDE DEF single
    <3>1. single \subseteq ReadFile
      BY <1>1, <1>5 DEF single
    <3>2. QED
      BY <1>2, <1>4, <3>1
  <2>4. FileLists = {<<file>> : file \in OneEntry \cup TwoEntries}
                    \cup (OneEntry \X OneEntry) \cup (TwoEntries \X single)
    BY DEF FileLists
  <2> HIDE DEF single
  <2>5. QED
    BY <2>1, <2>2, <2>3, <2>4
<1>7. QED
  BY <1>1, <1>2, <1>6

(* A call that has returned has what the algorithm makes of the files.     *)
FilesCalled ==
  /\ call.fn = "effectiveImports" =>
       call.files \in Seq(ReadFile) /\ result = EffectiveImports(call.files)
  /\ call.fn = "applyExternalTargetMeta" =>
       call.file \in ReadFile /\ result = ApplyExternalTargetMeta(call.file)

(* A call has the result of the files it was given.                        *)
LEMMA StepFiles ==
  ASSUME Next
  PROVE  FilesCalled'
<1>1. ASSUME call'.fn = "effectiveImports"
      PROVE  call'.files \in Seq(ReadFile) /\ result' = EffectiveImports(call'.files)
  <2>1. PICK files \in FileLists :
          Calls([fn |-> "effectiveImports", files |-> files], EffectiveImports(files))
    BY <1>1, Steps DEF CallEffectiveImports
  <2>2. call'.files = files /\ result' = EffectiveImports(files)
    BY <2>1 DEF Calls
  <2>3. QED
    BY <2>2, FilesOfCalls
<1>2. ASSUME call'.fn = "applyExternalTargetMeta"
      PROVE  call'.file \in ReadFile /\ result' = ApplyExternalTargetMeta(call'.file)
  <2>1. PICK file \in OneEntry \cup TwoEntries :
          Calls([fn |-> "applyExternalTargetMeta", file |-> file],
                ApplyExternalTargetMeta(file))
    BY <1>2, Steps DEF CallApplyMeta
  <2>2. call'.file = file /\ result' = ApplyExternalTargetMeta(file)
    BY <2>1 DEF Calls
  <2>3. QED
    BY <2>2, FilesOfCalls
<1>3. QED
  BY <1>1, <1>2 DEF FilesCalled

(* The imports of an install are merged and the configs of a run applied   *)
(* as the files say.                                                       *)
THEOREM Merged == Spec => []TargetsMerged
<1>1. Init => FilesCalled
  BY DEF Init, None, FilesCalled
<1>2. FilesCalled /\ [Next]_vars => FilesCalled'
  <2>1. CASE Next
    BY <2>1, StepFiles
  <2>2. CASE FilesCalled /\ UNCHANGED vars
    BY <2>2 DEF vars, FilesCalled
  <2>3. QED
    BY <2>1, <2>2
<1>3. FilesCalled => TargetsMerged
  <2> SUFFICES ASSUME FilesCalled PROVE TargetsMerged
    OBVIOUS
  <2>1. CASE call.fn = "effectiveImports"
    <3>1. call.files \in Seq(ReadFile) /\ result = EffectiveImports(call.files)
      BY <2>1 DEF FilesCalled
    <3>2. LET all      == AllEntries(call.files)
              loaded   == \A file \in ToSet(call.files) :
                            file.state = "read" /\ ~DupPaths(file.entries)
              conflict == /\ Len(call.files) > 1
                          /\ \E e, f \in ToSet(all) : e.pkg = f.pkg /\ e # f
          IN /\ result.error = "none" <=> loaded /\ ~conflict
             /\ result.error = "conflict" <=> loaded /\ conflict
             /\ result.error = "none" => EachOnce(result.imports, all)
      BY <3>1, ImportsAreMerged
    <3>3. call.fn # "applyExternalTargetMeta"
      BY <2>1
    <3>4. QED
      BY <3>2, <3>3 DEF TargetsMerged
  <2>2. CASE call.fn = "applyExternalTargetMeta"
    <3>1. call.file \in ReadFile /\ result = ApplyExternalTargetMeta(call.file)
      BY <2>2 DEF FilesCalled
    <3>2. LET readable   == call.file.state # "invalid" /\ ~DupPaths(call.file.entries)
              configured == {ent \in ToSet(call.file.entries) : ent.config # ""}
              Key(ent)   == IF ent.namespace # "" THEN ent.namespace ELSE "db"
          IN /\ result.error = "duplicate" <=>
                  readable /\ \E e, f \in configured : e # f /\ Key(e) = Key(f)
             /\ readable /\ result.error = "none" =>
                  result.meta = [k \in {Key(e) : e \in configured} |->
                                   ImportPath(CHOOSE e \in configured : Key(e) = k)]
      BY <3>1, ConfigsAreApplied
    <3>3. call.fn # "effectiveImports"
      BY <2>2
    <3>4. QED
      BY <3>2, <3>3 DEF TargetsMerged
  <2>3. QED
    BY <2>1, <2>2 DEF TargetsMerged
<1>4. QED
  BY <1>1, <1>2, <1>3, PTL DEF Spec

=============================================================================
