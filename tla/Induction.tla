------------------------------ MODULE Induction ------------------------------
(***************************************************************************)
(* Induction, recursion and lists without repetitions for the proofs.      *)
(* The induction theorems of the library take an operator as a parameter,  *)
(* which the provers cannot instantiate; these take a set in the place of  *)
(* a property and a function in the place of a definition.                 *)
(***************************************************************************)
EXTENDS Integers, FiniteSetTheorems, FiniteSetsExt, SequenceTheorems, Ordered,
        TLAPS

(* A function from 0 to n of states, each from the one before it, and the  *)
(* function by which FoldLeft of the community modules is defined.         *)
IsRecursive(f, n, S, base, step) ==
  /\ f \in [0..n -> S] /\ f[0] = base
  /\ \A i \in 1..n : f[i] = step[<<i, f[i - 1]>>]

IsFold(g, n, S, base, step) ==
  /\ g \in [SUBSET (1..n) -> S]
  /\ \A s \in SUBSET (1..n) :
       g[s] = IF s = {} THEN base ELSE step[<<Max(s), g[s \ {Max(s)}]>>]

-----------------------------------------------------------------------------
(* The least number principle.                                             *)
LEMMA Least ==
  ASSUME NEW S \in SUBSET Nat, S # {}
  PROVE  \E n \in S : \A m \in S : n <= m
<1> DEFINE R == {ss \in Nat \X Nat : ss[1] < ss[2]}
<1>1. IsWellFoundedOn(R, Nat)
  BY NatLessThanWellFounded DEF OpToRel
<1>2. \A m, n \in S : <<m, n>> \in R <=> m < n
  OBVIOUS
<1> HIDE DEF R
<1>3. PICK n \in S : \A m \in S : ~(<<m, n>> \in R)
  BY <1>1, WFMin
<1>4. \A m \in S : ~(m < n)
  BY <1>2, <1>3
<1>5. QED
  BY <1>4

(* Every index is in a set that has 0 and, with an index, the next one.    *)
LEMMA Induct ==
  ASSUME NEW n \in Nat, NEW P, 0 \in P,
         \A i \in 1..n : i - 1 \in P => i \in P
  PROVE  0..n \subseteq P
<1> DEFINE Rest == 0..n \ P
<1>1. Rest \in SUBSET Nat
  OBVIOUS
<1>2. ASSUME Rest # {} PROVE FALSE
  <2> HIDE DEF Rest
  <2>1. PICK k \in Rest : \A m \in Rest : k <= m
    BY <1>1, <1>2, Least
  <2> USE DEF Rest
  <2>2. k \in 1..n /\ k \notin P
    BY <2>1
  <2>3. k - 1 \in Rest
    BY <2>2
  <2>4. k <= k - 1
    BY <2>1, <2>3
  <2>5. QED
    BY <2>2, <2>4
<1>3. QED
  BY <1>2

(* The greatest element of a set of indices.                               *)
LEMMA Greatest ==
  ASSUME NEW n \in Nat, NEW S \in SUBSET (0..n), S # {}
  PROVE  Max(S) \in S /\ \A m \in S : m <= Max(S)
<1> DEFINE Below == {n - m : m \in S}
<1>1. Below \in SUBSET Nat /\ Below # {}
  <2>1. \A m \in S : n - m \in Nat
    OBVIOUS
  <2>2. QED
    BY <2>1
<1>2. PICK b \in Below : \A c \in Below : b <= c
  <2> HIDE DEF Below
  <2>1. QED
    BY <1>1, Least
<1>3. PICK k \in S : b = n - k
  BY <1>2
<1>4. \A m \in S : k >= m
  BY <1>2, <1>3
<1>5. QED
  BY <1>4 DEF Max

(* The greatest of a set of indices, and the indices below one.            *)
LEMMA GreatestIndex ==
  ASSUME NEW n \in Nat
  PROVE  /\ \A S \in SUBSET (1..n) : S # {} => Max(S) \in 1..n
         /\ \A i \in 1..n :
              /\ Max(1..i) = i /\ 1..i \in SUBSET (1..n) /\ 1..i # {}
              /\ (1..i) \ {i} = 1..(i - 1)
<1>1. ASSUME NEW S \in SUBSET (1..n), S # {} PROVE Max(S) \in 1..n
  <2>1. S \in SUBSET (0..n)
    OBVIOUS
  <2>2. Max(S) \in S
    BY <1>1, <2>1, Greatest
  <2>3. QED
    BY <2>2
<1>2. ASSUME NEW i \in 1..n PROVE Max(1..i) = i
  <2>1. i \in Nat /\ 1..i \in SUBSET (0..i) /\ i \in 1..i /\ 1..i # {}
    OBVIOUS
  <2>2. Max(1..i) \in 1..i /\ i <= Max(1..i)
    BY <2>1, Greatest
  <2>3. QED
    BY <2>2
<1>3. ASSUME NEW i \in 1..n
      PROVE  1..i \in SUBSET (1..n) /\ 1..i # {} /\ (1..i) \ {i} = 1..(i - 1)
  <2>1. i \in 1..i /\ \A j \in 1..i : j \in 1..n
    OBVIOUS
  <2>2. \A j : j \in (1..i) \ {i} <=> j \in 1..(i - 1)
    OBVIOUS
  <2>3. QED
    BY <2>1, <2>2
<1>4. QED
  BY <1>1, <1>2, <1>3

(* Both exist for every step.                                              *)
LEMMA Recursion ==
  ASSUME NEW n \in Nat, NEW S, NEW base \in S, NEW step \in [(1..n) \X S -> S]
  PROVE  \E f : IsRecursive(f, n, S, base, step)
<1> DEFINE States(f, k) ==
             f[0] = base /\ \A i \in 1..k : f[i] = step[<<i, f[i - 1]>>]
           Reaches(k) == \E f \in [0..k -> S] : States(f, k)
           P == {k \in 0..n : Reaches(k)}
<1>1. 0 \in P
  <2> DEFINE g == [i \in 0..0 |-> base]
  <2>1. g \in [0..0 -> S] /\ States(g, 0)
    OBVIOUS
  <2> HIDE DEF g
  <2>2. Reaches(0)
    BY <2>1
  <2> HIDE DEF Reaches
  <2>3. QED
    BY <2>2
<1>2. ASSUME NEW k \in 1..n, k - 1 \in P PROVE k \in P
  <2>1. PICK f \in [0..(k - 1) -> S] : States(f, k - 1)
    BY <1>2
  <2> DEFINE g == [i \in 0..k |-> IF i = k THEN step[<<k, f[k - 1]>>] ELSE f[i]]
  <2>2. g \in [0..k -> S]
    BY <2>1
  <2>3. g[0] = base
    BY <2>1
  <2>4. ASSUME NEW i \in 1..k PROVE g[i] = step[<<i, g[i - 1]>>]
    <3>1. i - 1 \in 0..k /\ i - 1 # k
      OBVIOUS
    <3>2. g[i - 1] = f[i - 1]
      BY <3>1
    <3>3. CASE i = k
      <4>1. g[k] = step[<<k, f[k - 1]>>]
        OBVIOUS
      <4> HIDE DEF g
      <4>2. QED
        BY <3>2, <3>3, <4>1
    <3>4. CASE i # k
      <4>1. i \in 1..(k - 1) /\ g[i] = f[i]
        BY <3>4
      <4>2. QED
        BY <2>1, <3>2, <4>1
    <3>5. QED
      BY <3>3, <3>4
  <2> HIDE DEF g
  <2>5. Reaches(k)
    BY <2>2, <2>3, <2>4
  <2> HIDE DEF Reaches
  <2>6. QED
    BY <2>5
<1> HIDE DEF P
<1>3. 0..n \subseteq P
  BY <1>1, <1>2, Induct
<1>4. n \in P
  BY <1>3
<1>5. QED
  BY <1>4 DEF P, IsRecursive

(* A function that folds from the greatest index down exists.              *)
LEMMA FoldRecursion ==
  ASSUME NEW n \in Nat, NEW S, NEW base \in S, NEW step \in [(1..n) \X S -> S]
  PROVE  \E g : IsFold(g, n, S, base, step)
<1> DEFINE Fold(g, k) ==
             \A s \in SUBSET (1..k) :
               g[s] = IF s = {} THEN base ELSE step[<<Max(s), g[s \ {Max(s)}]>>]
           Reaches(k) == \E g \in [SUBSET (1..k) -> S] : Fold(g, k)
           P == {k \in 0..n : Reaches(k)}
<1>1. 0 \in P
  <2> DEFINE g == [s \in SUBSET (1..0) |-> base]
  <2>1. \A s \in SUBSET (1..0) : s = {}
    OBVIOUS
  <2>2. g \in [SUBSET (1..0) -> S] /\ Fold(g, 0)
    BY <2>1
  <2> HIDE DEF g
  <2>3. Reaches(0)
    BY <2>2
  <2> HIDE DEF Reaches
  <2>4. QED
    BY <2>3
<1>2. ASSUME NEW k \in 1..n, k - 1 \in P PROVE k \in P
  <2>1. PICK f \in [SUBSET (1..(k - 1)) -> S] : Fold(f, k - 1)
    BY <1>2
  <2> DEFINE g == [s \in SUBSET (1..k) |->
                     IF k \in s THEN step[<<k, f[s \ {k}]>>] ELSE f[s]]
  <2>2. \A s \in SUBSET (1..k) : k \notin s => s \in SUBSET (1..(k - 1))
    OBVIOUS
  <2>3. \A s \in SUBSET (1..k) : s \ {k} \in SUBSET (1..(k - 1))
    OBVIOUS
  <2>4. g \in [SUBSET (1..k) -> S]
    BY <2>1, <2>2, <2>3
  <2>5. ASSUME NEW s \in SUBSET (1..k)
        PROVE  g[s] = IF s = {} THEN base ELSE step[<<Max(s), g[s \ {Max(s)}]>>]
    <3>1. CASE k \in s
      <4>1. Max(s) = k
        <5>1. s \in SUBSET (0..n) /\ s # {}
          BY <3>1
        <5>2. Max(s) \in s /\ k <= Max(s)
          BY <3>1, <5>1, Greatest
        <5>3. Max(s) \in 1..k
          BY <5>2
        <5>4. QED
          BY <5>2, <5>3
      <4>2. g[s \ {k}] = f[s \ {k}] /\ g[s] = step[<<k, f[s \ {k}]>>]
        BY <2>3, <3>1
      <4>3. QED
        BY <3>1, <4>1, <4>2
    <3>2. CASE k \notin s
      <4>1. g[s] = f[s] /\ s \in SUBSET (1..(k - 1))
        BY <2>2, <3>2
      <4>2. CASE s = {}
        BY <2>1, <4>1, <4>2
      <4>3. CASE s # {}
        <5>1. g[s \ {Max(s)}] = f[s \ {Max(s)}]
          BY <3>2
        <5>2. QED
          BY <2>1, <4>1, <4>3, <5>1
      <4>4. QED
        BY <4>2, <4>3
    <3>3. QED
      BY <3>1, <3>2
  <2> HIDE DEF g
  <2>6. Reaches(k)
    BY <2>4, <2>5
  <2> HIDE DEF Reaches
  <2>7. QED
    BY <2>6
<1> HIDE DEF P
<1>3. n \in P
  BY <1>1, <1>2, Induct
<1>4. QED
  BY <1>3 DEF P, IsFold

(* What the recursion of a fold makes of the first indices, when each step *)
(* takes a state to a state, are the states of a loop.                     *)
LEMMA FoldStates ==
  ASSUME NEW n \in Nat, NEW S, NEW base \in S, NEW step \in [(1..n) \X S -> S],
         NEW iter, iter[{}] = base,
         \A i \in 1..n : iter[1..(i - 1)] \in S =>
                           iter[1..i] = step[<<i, iter[1..(i - 1)]>>]
  PROVE  IsRecursive([i \in 0..n |-> iter[1..i]], n, S, base, step)
<1> DEFINE P == {i \in 0..n : iter[1..i] \in S}
<1>1. 1..0 = {}
  OBVIOUS
<1>2. 0 \in P
  BY <1>1
<1>3. ASSUME NEW i \in 1..n, i - 1 \in P PROVE i \in P
  <2>1. iter[1..i] = step[<<i, iter[1..(i - 1)]>>]
    BY <1>3
  <2>2. <<i, iter[1..(i - 1)]>> \in (1..n) \X S
    BY <1>3
  <2>3. QED
    BY <2>1, <2>2
<1>4. 0..n \subseteq P
  <2> HIDE DEF P
  <2>1. QED
    BY <1>2, <1>3, Induct
<1>5. \A i \in 0..n : iter[1..i] \in S
  BY <1>4
<1>6. \A i \in 1..n : i - 1 \in 0..n
  OBVIOUS
<1> HIDE DEF P
<1>7. QED
  BY <1>1, <1>5, <1>6 DEF IsRecursive

-----------------------------------------------------------------------------
(* A recursion whose values each depend on those of smaller arguments, and *)
(* that it has a value.                                                    *)
ReadsSmaller(F, D, V, mu) ==
  \A f, g \in [D -> V] : \A d \in D :
    (\A e \in D : mu[e] < mu[d] => f[e] = g[e]) => F[f][d] = F[g][d]
IsDescending(F, D, V, mu, n, start) ==
  /\ mu \in [D -> 0..n] /\ start \in [D -> V] /\ F \in [[D -> V] -> [D -> V]]
  /\ ReadsSmaller(F, D, V, mu)

(* Such a recursion has a value.                                           *)
LEMMA Fixpoint ==
  ASSUME NEW n \in Nat, NEW D, NEW V, NEW mu, NEW start, NEW F,
         IsDescending(F, D, V, mu, n, start)
  PROVE  \E f \in [D -> V] : f = F[f]
<1> DEFINE N == n + 1
           S == [D -> V]
           step == [e \in (1..(N + 1)) \X S |-> F[e[2]]]
<1>1. N \in Nat /\ N + 1 \in Nat /\ \A d \in D : mu[d] \in Nat /\ mu[d] < N
  BY DEF IsDescending
<1>2. \A f, g \in S : \A d \in D :
        (\A e \in D : mu[e] < mu[d] => f[e] = g[e]) => F[f][d] = F[g][d]
  BY DEF IsDescending, ReadsSmaller
<1> HIDE DEF N
<1>3. step \in [(1..(N + 1)) \X S -> S] /\ start \in S
  BY DEF IsDescending
<1> HIDE DEF S
<1>4. \A i \in 1..(N + 1), f \in S : step[<<i, f>>] = F[f]
  OBVIOUS
<1> HIDE DEF step
<1>5. PICK h : IsRecursive(h, N + 1, S, start, step)
  BY <1>1, <1>3, Recursion
<1>6. \A i \in 1..(N + 1) : h[i] = F[h[i - 1]] /\ h[i] \in S /\ h[i - 1] \in S
  <2>1. \A i \in 1..(N + 1) : i - 1 \in 0..(N + 1) /\ i \in 0..(N + 1)
    BY <1>1
  <2>2. QED
    BY <1>4, <1>5, <2>1 DEF IsRecursive
<1> DEFINE Agree(k) == \A d \in D : mu[d] < k => h[k][d] = h[k + 1][d]
           P == {k \in 0..N : Agree(k)}
<1>7. 0 \in P
  <2>1. \A d \in D : ~(mu[d] < 0)
    BY <1>1
  <2>2. QED
    BY <1>1, <2>1
<1>8. ASSUME NEW k \in 1..N, k - 1 \in P PROVE k \in P
  <2>1. k \in 1..(N + 1) /\ k + 1 \in 1..(N + 1) /\ k + 1 - 1 = k /\ k - 1 + 1 = k
    BY <1>1
  <2>2. /\ h[k] = F[h[k - 1]] /\ h[k + 1] = F[h[k]]
        /\ h[k - 1] \in S /\ h[k] \in S
    BY <1>6, <2>1
  <2>3. \A d \in D : mu[d] < k - 1 => h[k - 1][d] = h[k][d]
    BY <1>8, <2>1
  <2>4. ASSUME NEW d \in D, mu[d] < k PROVE h[k][d] = h[k + 1][d]
    <3>1. \A e \in D : mu[e] < mu[d] => h[k - 1][e] = h[k][e]
      <4>1. \A e \in D : mu[e] < mu[d] => mu[e] < k - 1
        BY <1>1, <2>4
      <4>2. QED
        BY <2>3, <4>1
    <3>2. F[h[k - 1]][d] = F[h[k]][d]
      BY <1>2, <2>2, <3>1
    <3>3. QED
      BY <2>2, <3>2
  <2>5. Agree(k)
    BY <2>4
  <2> HIDE DEF Agree
  <2>6. QED
    BY <1>1, <2>5
<1>9. N \in P
  <2> HIDE DEF P
  <2>1. 0..N \subseteq P
    BY <1>1, <1>7, <1>8, Induct
  <2>2. QED
    BY <1>1, <2>1
<1>10. h[N + 1] = F[h[N]] /\ h[N] \in S /\ h[N + 1] \in S
  <2> DEFINE M == N + 1
  <2>1. M \in 1..M /\ M - 1 = N
    BY <1>1
  <2>2. \A i \in 1..M : h[i] = F[h[i - 1]] /\ h[i] \in S /\ h[i - 1] \in S
    BY <1>6
  <2> HIDE DEF M, P, Agree
  <2>3. h[M] = F[h[M - 1]] /\ h[M] \in S /\ h[M - 1] \in S
    BY <2>1, <2>2
  <2>4. QED
    BY <2>1, <2>3 DEF M
<1>11. \A d \in D : h[N][d] = h[N + 1][d]
  BY <1>1, <1>9
<1> HIDE DEF P
<1>12. h[N] = h[N + 1]
  BY <1>10, <1>11 DEF S
<1>13. QED
  BY <1>10, <1>12 DEF S

-----------------------------------------------------------------------------
(* Lists without repetitions.                                              *)

(* One more element, kept only when it has not been seen.                  *)
LEMMA EachOnceAdds ==
  ASSUME NEW S, NEW s \in Seq(S), NEW all \in Seq(S), NEW t \in S,
         EachOnce(s, all)
  PROVE  /\ t \in ToSet(s) => EachOnce(s, Append(all, t))
         /\ t \notin ToSet(s) => EachOnce(Append(s, t), Append(all, t))
<1> DEFINE more == Append(all, t)
           next == Append(s, t)
<1>1. /\ Len(s) \in Nat /\ DOMAIN s = 1..Len(s)
      /\ Len(all) \in Nat /\ DOMAIN all = 1..Len(all)
  OBVIOUS
<1>2. /\ DOMAIN more = 1..(Len(all) + 1) /\ more[Len(all) + 1] = t
      /\ \A k \in 1..Len(all) : more[k] = all[k]
      /\ DOMAIN next = 1..(Len(s) + 1) /\ next[Len(s) + 1] = t
      /\ \A k \in 1..Len(s) : next[k] = s[k]
  OBVIOUS
<1>3. /\ \A i \in DOMAIN s : \E k \in DOMAIN all : all[k] = s[i]
      /\ \A k \in DOMAIN all : \E i \in DOMAIN s : s[i] = all[k]
      /\ \A i, j \in DOMAIN s : i < j =>
           \E k \in DOMAIN all : all[k] = s[i] /\ \A l \in 1..k : all[l] # s[j]
  <2>1. ToSet(s) = ToSet(all)
    BY DEF EachOnce
  <2>2. \A i \in DOMAIN s : s[i] \in ToSet(s)
    BY DEF ToSet
  <2>3. \A k \in DOMAIN all : all[k] \in ToSet(all)
    BY DEF ToSet
  <2>4. \A i \in DOMAIN s : \E k \in DOMAIN all : all[k] = s[i]
    BY <2>1, <2>2 DEF ToSet
  <2>5. \A k \in DOMAIN all : \E i \in DOMAIN s : s[i] = all[k]
    BY <2>1, <2>3 DEF ToSet
  <2>6. QED
    BY <2>4, <2>5 DEF EachOnce
<1> HIDE DEF more, next
<1>4. \A i, j \in DOMAIN s : i < j =>
        \E k \in DOMAIN more : more[k] = s[i] /\ \A l \in 1..k : more[l] # s[j]
  <2>1. ASSUME NEW i \in DOMAIN s, NEW j \in DOMAIN s, i < j
        PROVE  \E k \in DOMAIN more :
                 more[k] = s[i] /\ \A l \in 1..k : more[l] # s[j]
    <3>1. PICK k \in DOMAIN all :
            all[k] = s[i] /\ \A l \in 1..k : all[l] # s[j]
      BY <1>3, <2>1
    <3>2. k \in DOMAIN more /\ \A l \in 1..k : more[l] = all[l]
      BY <1>1, <1>2
    <3>3. more[k] = s[i] /\ \A l \in 1..k : more[l] # s[j]
      BY <1>1, <3>1, <3>2
    <3>4. QED
      BY <3>2, <3>3
  <2>2. QED
    BY <2>1
<1>5. ToSet(more) = ToSet(all) \cup {t}
  <2>1. \A k \in DOMAIN more : more[k] \in ToSet(all) \cup {t}
    BY <1>1, <1>2 DEF ToSet
  <2>2. \A k \in DOMAIN all : all[k] \in ToSet(more)
    BY <1>1, <1>2 DEF ToSet
  <2>3. t \in ToSet(more)
    BY <1>1, <1>2 DEF ToSet
  <2>4. ToSet(more) \subseteq ToSet(all) \cup {t}
    BY <2>1 DEF ToSet
  <2>5. ToSet(all) \subseteq ToSet(more)
    BY <2>2 DEF ToSet
  <2>6. QED
    BY <2>3, <2>4, <2>5
<1>6. ASSUME t \in ToSet(s) PROVE EachOnce(s, more)
  <2>1. ToSet(s) = ToSet(more)
    BY <1>5, <1>6 DEF EachOnce
  <2>2. QED
    BY <1>4, <2>1 DEF EachOnce
<1>7. ASSUME t \notin ToSet(s) PROVE EachOnce(next, more)
  <2>1. ToSet(next) = ToSet(s) \cup {t}
    <3>1. \A i \in DOMAIN next : next[i] \in ToSet(s) \cup {t}
      BY <1>1, <1>2 DEF ToSet
    <3>2. \A i \in DOMAIN s : s[i] \in ToSet(next)
      BY <1>1, <1>2 DEF ToSet
    <3>3. t \in ToSet(next)
      BY <1>1, <1>2 DEF ToSet
    <3>4. ToSet(next) \subseteq ToSet(s) \cup {t}
      BY <3>1 DEF ToSet
    <3>5. ToSet(s) \subseteq ToSet(next)
      BY <3>2 DEF ToSet
    <3>6. QED
      BY <3>3, <3>4, <3>5
  <2>2. ASSUME NEW i \in DOMAIN next, NEW j \in DOMAIN next, i < j
        PROVE  \E k \in DOMAIN more :
                 more[k] = next[i] /\ \A l \in 1..k : more[l] # next[j]
    <3>1. i \in DOMAIN s /\ next[i] = s[i]
      BY <1>1, <1>2, <2>2
    <3>2. CASE j \in DOMAIN s
      BY <1>1, <1>2, <1>4, <2>2, <3>1, <3>2
    <3>3. CASE j = Len(s) + 1
      <4>1. PICK k \in DOMAIN all : all[k] = s[i]
        BY <1>3, <3>1
      <4>2. \A l \in DOMAIN all : all[l] # t
        BY <1>3, <1>7 DEF ToSet
      <4>3. k \in DOMAIN more /\ \A l \in 1..k : l \in DOMAIN all /\ more[l] = all[l]
        BY <1>1, <1>2
      <4>4. more[k] = next[i] /\ \A l \in 1..k : more[l] # next[j]
        BY <1>1, <1>2, <3>1, <3>3, <4>1, <4>2, <4>3
      <4>5. QED
        BY <4>3, <4>4
    <3>4. QED
      BY <1>1, <1>2, <3>2, <3>3
  <2>3. ToSet(next) = ToSet(more)
    BY <1>5, <2>1 DEF EachOnce
  <2>4. QED
    BY <2>2, <2>3 DEF EachOnce
<1>8. QED
  BY <1>6, <1>7 DEF more, next

(* A list without repetitions is what is left of itself.                   *)
LEMMA EachOnceOfItself ==
  ASSUME NEW S, NEW s \in Seq(S), IsInjective(s)
  PROVE  EachOnce(s, s)
<1>1. ASSUME NEW i \in DOMAIN s, NEW j \in DOMAIN s, i < j
      PROVE  \E k \in DOMAIN s : s[k] = s[i] /\ \A l \in 1..k : s[l] # s[j]
  <2>1. \A l \in 1..i : l \in DOMAIN s /\ l # j
    BY <1>1
  <2>2. \A l \in 1..i : s[l] # s[j]
    BY <2>1 DEF IsInjective
  <2>3. QED
    BY <2>2
<1>2. QED
  BY <1>1 DEF EachOnce

(* The part of a list up to an index: nothing, one element more, all of it.*)
LEMMA Parts ==
  ASSUME NEW S, NEW s \in Seq(S)
  PROVE  /\ SubSeq(s, 1, 0) = <<>> /\ SubSeq(s, 1, Len(s)) = s
         /\ \A k \in 0..Len(s) - 1 :
              /\ SubSeq(s, 1, k) \in Seq(S)
              /\ SubSeq(s, 1, k + 1) = Append(SubSeq(s, 1, k), s[k + 1])
<1>1. SubSeq(s, 1, 0) = <<>> /\ SubSeq(s, 1, Len(s)) = s
  BY SubSeqEmpty, SubSeqFull
<1>2. ASSUME NEW k \in 0..Len(s) - 1
      PROVE  /\ SubSeq(s, 1, k) \in Seq(S)
             /\ SubSeq(s, 1, k + 1) = Append(SubSeq(s, 1, k), s[k + 1])
  <2>1. Len(s) \in Nat /\ \A j \in 1..Len(s) : s[j] \in S
    OBVIOUS
  <2>2. \A j \in 1..k : s[j] \in S
    BY <2>1
  <2>3. /\ SubSeq(s, 1, k) \in Seq(S) /\ Len(SubSeq(s, 1, k)) = k
        /\ \A j \in 1..k : SubSeq(s, 1, k)[j] = s[j]
    BY <2>1, <2>2, SubSeqProperties
  <2>4. 1 \in 1..Len(s) /\ k + 1 \in 1..Len(s) /\ (k + 1) - 1 = k
    BY <2>1
  <2>5. SubSeq(s, 1, k + 1) = SubSeq(s, 1, k) \o <<s[k + 1]>>
    BY <2>4, SubSeqRecursiveSecond
  <2>6. SubSeq(s, 1, k) \o <<s[k + 1]>> = Append(SubSeq(s, 1, k), s[k + 1])
    <3>1. s[k + 1] \in S
      BY <2>1, <2>4
    <3>2. \A u \in Seq(S), x \in S : u \o <<x>> = Append(u, x)
      OBVIOUS
    <3>3. QED
      BY <2>3, <3>1, <3>2
  <2>7. QED
    BY <2>3, <2>5, <2>6
<1>3. QED
  BY <1>1, <1>2

(* The lists of a list one after the other, as FlattenSeq does it.         *)
LEMMA Flattened ==
  ASSUME NEW S, NEW lists \in Seq(Seq(S))
  PROVE  \E f \in [0..Len(lists) -> Seq(S)] :
           /\ f[0] = <<>> /\ f[Len(lists)] = FlattenSeq(lists)
           /\ \A i \in 1..Len(lists) : f[i] = f[i - 1] \o lists[i]
<1> DEFINE N == Len(lists)
           step == [e \in (1..N) \X Seq(S) |-> e[2] \o lists[e[1]]]
           flatten == CHOOSE g : g = [i \in 1..N |->
                        IF i = 1 THEN lists[i] ELSE g[i - 1] \o lists[i]]
<1>1. N \in Nat /\ \A i \in 1..N : lists[i] \in Seq(S)
  OBVIOUS
<1>2. FlattenSeq(lists) = IF N = 0 THEN lists ELSE flatten[N]
  BY DEF FlattenSeq
<1>3. N = 0 => lists = <<>>
  OBVIOUS
<1> HIDE DEF N
<1>4. step \in [(1..N) \X Seq(S) -> Seq(S)]
  BY <1>1
<1>5. \A i \in 1..N, s \in Seq(S) : step[<<i, s>>] = s \o lists[i]
  OBVIOUS
<1> HIDE DEF step, flatten
<1>6. <<>> \in Seq(S)
  OBVIOUS
<1>7. PICK f : IsRecursive(f, N, Seq(S), <<>>, step)
  BY <1>1, <1>4, <1>6, Recursion
<1>8. f \in [0..N -> Seq(S)] /\ f[0] = <<>>
  BY <1>7 DEF IsRecursive
<1>9. \A i \in 1..N : i - 1 \in 0..N /\ f[i - 1] \in Seq(S) /\ f[i] = f[i - 1] \o lists[i]
  <2>1. \A i \in 1..N : i - 1 \in 0..N
    BY <1>1
  <2>2. QED
    BY <1>5, <1>7, <1>8, <2>1 DEF IsRecursive
<1> DEFINE h == [i \in 1..N |-> f[i]]
<1>10. h = [i \in 1..N |-> IF i = 1 THEN lists[i] ELSE h[i - 1] \o lists[i]]
  <2>1. ASSUME NEW i \in 1..N
        PROVE  f[i] = IF i = 1 THEN lists[i] ELSE h[i - 1] \o lists[i]
    <3>1. CASE i = 1
      <4>1. lists[i] \in Seq(S)
        BY <1>1
      <4>2. <<>> \o lists[i] = lists[i]
        BY <4>1
      <4>3. f[i - 1] = <<>>
        BY <1>8, <3>1
      <4>4. QED
        BY <1>9, <3>1, <4>2, <4>3
    <3>2. CASE i # 1
      <4>1. i - 1 \in 1..N
        BY <1>1, <3>2
      <4>2. QED
        BY <1>9, <3>2, <4>1
    <3>3. QED
      BY <3>1, <3>2
  <2>2. QED
    BY <2>1
<1> HIDE DEF h
<1>11. flatten = [i \in 1..N |-> IF i = 1 THEN lists[i] ELSE flatten[i - 1] \o lists[i]]
  BY <1>10 DEF flatten
<1> DEFINE P == {i \in 0..N : i > 0 => flatten[i] = f[i]}
<1>12. 0 \in P
  BY <1>1
<1>13. ASSUME NEW i \in 1..N, i - 1 \in P PROVE i \in P
  <2>1. flatten[i] = IF i = 1 THEN lists[i] ELSE flatten[i - 1] \o lists[i]
    BY <1>11
  <2>2. f[i] = IF i = 1 THEN lists[i] ELSE f[i - 1] \o lists[i]
    <3>1. h[i] = f[i]
      BY DEF h
    <3>2. i # 1 => h[i - 1] = f[i - 1]
      BY <1>1 DEF h
    <3>3. h[i] = IF i = 1 THEN lists[i] ELSE h[i - 1] \o lists[i]
      BY <1>10
    <3>4. QED
      BY <3>1, <3>2, <3>3
  <2>3. i # 1 => i - 1 > 0
    BY <1>1
  <2>4. i # 1 => flatten[i - 1] = f[i - 1]
    BY <1>13, <2>3
  <2>5. flatten[i] = f[i]
    BY <2>1, <2>2, <2>4
  <2>6. QED
    BY <1>1, <2>5
<1>14. 0..N \subseteq P
  <2> HIDE DEF P
  <2>1. QED
    BY <1>1, <1>12, <1>13, Induct
<1>15. N # 0 => flatten[N] = f[N]
  BY <1>1, <1>14
<1>16. f[N] = FlattenSeq(lists)
  BY <1>2, <1>3, <1>8, <1>15
<1>17. QED
  BY <1>8, <1>9, <1>16 DEF N
=============================================================================
