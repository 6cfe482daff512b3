---------------------------- MODULE SortingProofs ----------------------------
(***************************************************************************)
(* What the operators of Sorting return, for sets, sequences and steps of  *)
(* any size, and induction over numbers.                                   *)
(***************************************************************************)
EXTENDS Sorting, SequenceTheorems, FiniteSetTheorems, WellFoundedInduction, TLAPS

-----------------------------------------------------------------------------
(* Sorting by keys *)

\* The elements of S with a lower key, and how many they are.
Below(S, key, s) == {r \in S : key[r] < key[s]}

Rank(S, key, s) == Cardinality(Below(S, key, s))

\* Keys that tell the elements of a set apart.
Keys(S, key) ==
  /\ IsFiniteSet(S)
  /\ \A s \in S : key[s] \in Int
  /\ \A r, s \in S : key[r] = key[s] => r = s

\* Counting what is below an element gives each number below the size once.
LEMMA RanksAreNumbers ==
  ASSUME NEW S, NEW key, Keys(S, key)
  PROVE  /\ Cardinality(S) \in Nat
         /\ \A k \in 1..Cardinality(S) : \E s \in S : Rank(S, key, s) = k - 1
         /\ \A s \in S : Rank(S, key, s) \in 0..(Cardinality(S) - 1)
         /\ \A r, s \in S : Rank(S, key, r) = Rank(S, key, s) => r = s
         /\ \A r, s \in S : key[r] < key[s] <=> Rank(S, key, r) < Rank(S, key, s)
<1> DEFINE n == Cardinality(S)
           R(s) == Rank(S, key, s)
           rank == [s \in S |-> R(s)]
<1>0. /\ IsFiniteSet(S)
      /\ \A s \in S : key[s] \in Int
      /\ \A r, s \in S : key[r] = key[s] => r = s
  BY DEF Keys
<1>1. n \in Nat
  BY <1>0, FS_CardinalityType
<1>2. ASSUME NEW s \in S
      PROVE  IsFiniteSet(Below(S, key, s)) /\ R(s) \in Nat /\ R(s) < n
  <2>1. Below(S, key, s) \in SUBSET S /\ s \notin Below(S, key, s)
    BY <1>0 DEF Below
  <2>2. /\ IsFiniteSet(Below(S, key, s)) /\ Cardinality(Below(S, key, s)) <= n
        /\ Cardinality(Below(S, key, s)) # n
    BY <1>0, <2>1, FS_Subset
  <2>3. Cardinality(Below(S, key, s)) \in Nat
    BY <2>2, FS_CardinalityType
  <2>4. QED
    BY <1>1, <2>2, <2>3 DEF Rank
<1>3. ASSUME NEW r \in S, NEW s \in S, key[r] < key[s]
      PROVE  R(r) < R(s)
  <2>1. Below(S, key, r) \in SUBSET Below(S, key, s)
    BY <1>0, <1>3 DEF Below
  <2>2. Below(S, key, r) # Below(S, key, s)
    BY <1>0, <1>3 DEF Below
  <2>3. R(r) \in Nat /\ R(s) \in Nat /\ IsFiniteSet(Below(S, key, s))
    BY <1>2
  <2>4. R(r) <= R(s) /\ R(r) # R(s)
    BY <2>1, <2>2, <2>3, FS_Subset DEF Rank
  <2>5. QED
    BY <2>3, <2>4
<1>4. \A s \in S : R(s) \in 0..(n - 1)
  BY <1>1, <1>2
<1>5. \A r, s \in S : key[r] < key[s] <=> R(r) < R(s)
  <2>1. SUFFICES ASSUME NEW r \in S, NEW s \in S, R(r) < R(s) PROVE key[r] < key[s]
    BY <1>3
  <2>2. CASE key[s] < key[r]
    BY <1>2, <1>3, <2>1, <2>2
  <2>3. CASE key[s] = key[r]
    BY <1>0, <1>2, <2>1, <2>3
  <2>4. QED
    BY <1>0, <2>2, <2>3
<1>6. \A r, s \in S : R(r) = R(s) => r = s
  BY <1>0, <1>2, <1>5
<1>7. rank \in Injection(S, 0..(n - 1))
  BY <1>4, <1>6 DEF Injection, IsInjective
<1>8. IsFiniteSet(0..(n - 1)) /\ Cardinality(0..(n - 1)) = Cardinality(S)
  <2> HIDE DEF n
  <2>1. n - 1 \in Int
    BY <1>1
  <2>2. IsFiniteSet(0..(n - 1)) /\ Cardinality(0..(n - 1)) = n
    BY <1>1, <2>1, FS_Interval
  <2>3. QED
    BY <2>2 DEF n
<1>9. \A s \in S : rank[s] = R(s)
  OBVIOUS
<1> HIDE DEF rank, n, R
<1>10. rank \in Surjection(S, 0..(n - 1))
  BY <1>7, <1>8, FS_Injection
<1>11. \A k \in 1..n : \E s \in S : rank[s] = k - 1
  BY <1>1, <1>10 DEF Surjection
<1>12. QED
  BY <1>1, <1>4, <1>5, <1>6, <1>9, <1>11 DEF n, R

\* SortedBy lists each element once, by ascending keys.
LEMMA SortedLists ==
  ASSUME NEW S, NEW key, Keys(S, key)
  PROVE  LET s == SortedBy(S, key)
             n == Cardinality(S)
         IN  /\ n \in Nat /\ DOMAIN s = 1..n /\ s \in Seq(S) /\ Len(s) = n
             /\ s = [k \in 1..n |-> s[k]]
             /\ \A k \in 1..n : s[k] \in S /\ Rank(S, key, s[k]) = k - 1
             /\ \A e \in S : \E k \in 1..n : s[k] = e
             /\ \A j, k \in 1..n : s[j] = s[k] => j = k
             /\ \A j, k \in 1..n : j < k <=> key[s[j]] < key[s[k]]
<1> DEFINE n == Cardinality(S)
           pick(k) == CHOOSE s \in S : Rank(S, key, s) = k - 1
           sorted == SortedBy(S, key)
<1>1. /\ n \in Nat
      /\ \A k \in 1..n : \E s \in S : Rank(S, key, s) = k - 1
      /\ \A s \in S : Rank(S, key, s) \in 0..(n - 1)
      /\ \A r, s \in S : Rank(S, key, r) = Rank(S, key, s) => r = s
      /\ \A r, s \in S : key[r] < key[s] <=> Rank(S, key, r) < Rank(S, key, s)
  BY RanksAreNumbers
<1>2. sorted = [k \in 1..n |-> pick(k)]
  BY Zenon DEF SortedBy, Rank, Below
<1>3. \A k \in 1..n : pick(k) \in S /\ Rank(S, key, pick(k)) = k - 1
  BY <1>1
<1> HIDE DEF pick, n, sorted
<1>4. DOMAIN sorted = 1..n /\ \A k \in 1..n : sorted[k] \in S /\ Rank(S, key, sorted[k]) = k - 1
  BY <1>2, <1>3
<1>5. sorted \in Seq(S) /\ Len(sorted) = n
  BY <1>1, <1>2, <1>3
<1>6. \A e \in S : \E k \in 1..n : sorted[k] = e
  <2>1. SUFFICES ASSUME NEW e \in S PROVE \E k \in 1..n : sorted[k] = e
    OBVIOUS
  <2>2. /\ Rank(S, key, e) + 1 \in 1..n
        /\ (Rank(S, key, e) + 1) - 1 = Rank(S, key, e)
    BY <1>1
  <2>3. sorted[Rank(S, key, e) + 1] = e
    BY <1>1, <1>4, <2>2
  <2>4. QED
    BY <2>2, <2>3
<1>7. \A j, k \in 1..n : sorted[j] = sorted[k] => j = k
  <2>1. SUFFICES ASSUME NEW j \in 1..n, NEW k \in 1..n, sorted[j] = sorted[k] PROVE j = k
    OBVIOUS
  <2>2. j - 1 = k - 1
    BY <1>4, <2>1
  <2>3. QED
    BY <2>2
<1>8. \A j, k \in 1..n : j < k <=> key[sorted[j]] < key[sorted[k]]
  <2>1. SUFFICES ASSUME NEW j \in 1..n, NEW k \in 1..n
                 PROVE  j < k <=> key[sorted[j]] < key[sorted[k]]
    OBVIOUS
  <2>2. key[sorted[j]] < key[sorted[k]] <=> j - 1 < k - 1
    BY <1>1, <1>4
  <2>3. QED
    BY <2>2
<1>9. sorted = [k \in 1..n |-> sorted[k]]
  BY <1>2
<1>10. QED
  BY <1>1, <1>4, <1>5, <1>6, <1>7, <1>8, <1>9 DEF n, sorted

\* The first k numbers are as many as k.
LEMMA ImageCount ==
  ASSUME NEW n \in Nat, NEW f, NEW S, S = {f[j] : j \in 1..n},
         \A i, j \in 1..n : f[i] = f[j] => i = j
  PROVE  IsFiniteSet(S) /\ Cardinality(S) = n
<1> DEFINE g == [j \in 1..n |-> f[j]]
<1>1. g \in Bijection(1..n, S)
  BY DEF Bijection, Injection, Surjection, IsInjective
<1>2. IsFiniteSet(1..n) /\ Cardinality(1..n) = n
  BY FS_Interval
<1>3. ExistsBijection(1..n, S)
  BY <1>1 DEF ExistsBijection
<1>4. QED
  BY <1>2, <1>3, FS_Bijection

\* t lists all n elements by ascending keys.
Ascends(t, n, S, key) ==
  /\ n \in Nat /\ t = [k \in 1..n |-> t[k]]
  /\ \A k \in 1..n : t[k] \in S /\ key[t[k]] \in Int
  /\ \A e \in S : \E k \in 1..n : t[k] = e
  /\ \A j, k \in 1..n : j < k => key[t[j]] < key[t[k]]

\* That is what SortedBy gives.
LEMMA SortedIs ==
  ASSUME NEW S, NEW key, NEW n, NEW t, Ascends(t, n, S, key)
  PROVE  Keys(S, key) /\ Cardinality(S) = n /\ SortedBy(S, key) = t
<1>0. /\ n \in Nat /\ t = [k \in 1..n |-> t[k]] /\ DOMAIN t = 1..n
      /\ \A k \in 1..n : t[k] \in S /\ key[t[k]] \in Int
      /\ \A e \in S : \E k \in 1..n : t[k] = e
      /\ \A j, k \in 1..n : j < k => key[t[j]] < key[t[k]]
  BY DEF Ascends
<1>1. \A j, k \in 1..n : j < k <=> key[t[j]] < key[t[k]]
  BY <1>0
<1>2. \A j, k \in 1..n : key[t[j]] = key[t[k]] => j = k
  BY <1>0
<1>3. \A j, k \in 1..n : t[j] = t[k] => j = k
  BY <1>2
<1>4. S = {t[j] : j \in 1..n}
  BY <1>0
<1>5. IsFiniteSet(S) /\ Cardinality(S) = n
  BY <1>0, <1>3, <1>4, ImageCount
<1>6. Keys(S, key)
  BY <1>0, <1>2, <1>5 DEF Keys
<1>7. ASSUME NEW k \in 1..n PROVE Rank(S, key, t[k]) = k - 1
  <2>1. Below(S, key, t[k]) = {t[j] : j \in 1..(k - 1)}
    <3>1. ASSUME NEW e \in Below(S, key, t[k]) PROVE e \in {t[j] : j \in 1..(k - 1)}
      <4>1. PICK j \in 1..n : t[j] = e
        BY <1>0 DEF Below
      <4>2. j < k
        BY <1>1, <4>1 DEF Below
      <4>3. j \in 1..(k - 1)
        BY <1>0, <4>2
      <4>4. QED
        BY <4>1, <4>3
    <3>2. ASSUME NEW j \in 1..(k - 1) PROVE t[j] \in Below(S, key, t[k])
      <4>1. j \in 1..n /\ j < k
        BY <1>0
      <4>2. QED
        BY <1>0, <1>1, <4>1 DEF Below
    <3>3. QED
      BY <3>1, <3>2
  <2>2. k - 1 \in Nat /\ \A j \in 1..(k - 1) : j \in 1..n
    BY <1>0
  <2>3. \A i, j \in 1..(k - 1) : t[i] = t[j] => i = j
    BY <1>3, <2>2
  <2>4. QED
    BY <2>1, <2>2, <2>3, ImageCount DEF Rank
<1> DEFINE sorted == SortedBy(S, key)
<1>8. /\ DOMAIN sorted = 1..n
      /\ \A k \in 1..n : sorted[k] \in S /\ Rank(S, key, sorted[k]) = k - 1
      /\ sorted = [k \in 1..n |-> sorted[k]]
  BY <1>5, <1>6, SortedLists
<1>9. \A r, s \in S : Rank(S, key, r) = Rank(S, key, s) => r = s
  BY <1>6, RanksAreNumbers
<1> HIDE DEF sorted
<1>10. \A k \in 1..n : sorted[k] = t[k]
  BY <1>0, <1>7, <1>8, <1>9
<1>11. sorted = t
  BY <1>0, <1>8, <1>10
<1>12. QED
  BY <1>5, <1>6, <1>11 DEF sorted

\* Keys in the same order sort alike.
LEMMA SortedAlike ==
  ASSUME NEW S, NEW a, NEW b, Keys(S, a), \A s \in S : b[s] \in Int,
         \A r, s \in S : a[r] < a[s] => b[r] < b[s]
  PROVE  SortedBy(S, a) = SortedBy(S, b)
<1> DEFINE n == Cardinality(S)
           t == SortedBy(S, a)
<1>1. /\ n \in Nat /\ DOMAIN t = 1..n
      /\ \A k \in 1..n : t[k] \in S
      /\ \A e \in S : \E k \in 1..n : t[k] = e
      /\ \A j, k \in 1..n : j < k <=> a[t[j]] < a[t[k]]
  BY SortedLists
<1>2. t = [k \in 1..n |-> t[k]]
  BY SortedLists
<1> HIDE DEF t, n
<1>3. /\ \A k \in 1..n : t[k] \in S /\ b[t[k]] \in Int
      /\ \A j, k \in 1..n : j < k => b[t[j]] < b[t[k]]
  BY <1>1
<1>4. Ascends(t, n, S, b)
  BY <1>1, <1>2, <1>3 DEF Ascends
<1>5. SortedBy(S, b) = t
  BY <1>4, SortedIs
<1>6. QED
  BY <1>5 DEF t

\* What is left of a sorted sorted when some elements are taken.
LEMMA AmongSorted ==
  ASSUME NEW S, NEW key, Keys(S, key), NEW R
  PROVE  /\ Among(SortedBy(S, key), R) = SortedBy(S \cap R, key)
         /\ Keys(S \cap R, key)
<1> DEFINE n == Cardinality(S)
           s == SortedBy(S, key)
           at == {k \in DOMAIN s : s[k] \in R}
           id == [k \in at |-> k]
           order == SortedBy(at, id)
           m == Cardinality(at)
           t == [j \in DOMAIN order |-> s[order[j]]]
<1>1. /\ n \in Nat /\ DOMAIN s = 1..n
      /\ \A k \in 1..n : s[k] \in S
      /\ \A e \in S : \E k \in 1..n : s[k] = e
      /\ \A j, k \in 1..n : j < k <=> key[s[j]] < key[s[k]]
  BY SortedLists
<1>2. Among(s, R) = t
  BY DEF Among, Ascending
<1> HIDE DEF s, n
<1>3. \A k \in at : k \in 1..n /\ s[k] \in S \cap R /\ id[k] = k
  BY <1>1
<1>4. \A k \in 1..n : s[k] \in R => k \in at
  BY <1>1
<1>5. IsFiniteSet(at)
  <2>1. IsFiniteSet(1..n)
    BY <1>1, FS_Interval
  <2>2. at \in SUBSET (1..n)
    BY <1>3
  <2>3. QED
    BY <2>1, <2>2, FS_Subset
<1> HIDE DEF at, id
<1>6. Keys(at, id)
  BY <1>3, <1>5 DEF Keys
<1>7. /\ m \in Nat /\ DOMAIN order = 1..m
      /\ \A j \in 1..m : order[j] \in at
      /\ \A e \in at : \E j \in 1..m : order[j] = e
      /\ \A j, k \in 1..m : j < k <=> id[order[j]] < id[order[k]]
  BY <1>6, SortedLists
<1> HIDE DEF order, m
<1>8. DOMAIN t = 1..m /\ t = [j \in 1..m |-> t[j]] /\ \A j \in 1..m : t[j] = s[order[j]]
  BY <1>7
<1> HIDE DEF t
<1>9. \A e \in S \cap R : \E j \in 1..m : t[j] = e
  <2>1. SUFFICES ASSUME NEW e \in S \cap R PROVE \E j \in 1..m : t[j] = e
    OBVIOUS
  <2>2. PICK k \in 1..n : s[k] = e
    BY <1>1
  <2>3. PICK j \in 1..m : order[j] = k
    BY <1>4, <1>7, <2>2
  <2>4. QED
    BY <1>8, <2>2, <2>3
<1>10. \A j \in 1..m : t[j] \in S \cap R /\ key[t[j]] \in Int
  BY <1>3, <1>7, <1>8 DEF Keys
<1>11. \A j, k \in 1..m : j < k => key[t[j]] < key[t[k]]
  <2>1. SUFFICES ASSUME NEW j \in 1..m, NEW k \in 1..m, j < k PROVE key[t[j]] < key[t[k]]
    OBVIOUS
  <2>2. order[j] \in 1..n /\ order[k] \in 1..n /\ order[j] < order[k]
    BY <1>3, <1>7, <2>1
  <2>3. QED
    BY <1>1, <1>8, <2>2
<1>12. Ascends(t, m, S \cap R, key)
  BY <1>7, <1>8, <1>9, <1>10, <1>11 DEF Ascends
<1>13. SortedBy(S \cap R, key) = t /\ Keys(S \cap R, key)
  BY <1>12, SortedIs
<1>14. QED
  BY <1>2, <1>13 DEF s

-----------------------------------------------------------------------------
(* Steps *)

\* A set of numbers has a least one.
LEMMA LeastNatural ==
  ASSUME NEW T \in SUBSET Nat, T # {}
  PROVE  \E n \in T : \A m \in T : n <= m
<1>1. IsWellFoundedOn(OpToRel(<, Nat), Nat)
  BY NatLessThanWellFounded
<1>2. PICK n \in T : \A m \in T : ~(<<m, n>> \in OpToRel(<, Nat))
  BY <1>1, WFMin, Zenon
<1>3. ASSUME NEW m \in T, m < n
      PROVE  <<m, n>> \in OpToRel(<, Nat)
  BY <1>3, m \in Nat, n \in Nat DEF OpToRel
<1>4. \A m \in T : ~(m < n)
  BY <1>2, <1>3, Zenon
<1>5. QED
  BY <1>4, T \subseteq Nat

\* Induction over a set.
LEMMA EachNatural ==
  ASSUME NEW S, 0 \in S, \A k \in Nat : k \in S => k + 1 \in S
  PROVE  Nat \subseteq S
<1>1. SUFFICES ASSUME Nat \ S # {} PROVE FALSE
  OBVIOUS
<1>2. PICK n \in Nat \ S : \A m \in Nat \ S : n <= m
  BY <1>1, LeastNatural
<1>3. n # 0 /\ n - 1 \in Nat
  BY <1>2
<1>4. n - 1 \in S
  BY <1>2, <1>3
<1>5. (n - 1) + 1 \in S
  BY <1>3, <1>4
<1>6. QED
  BY <1>2, <1>5

\* What each step keeps is kept in the end.
LEMMA StepsStay ==
  ASSUME NEW P, NEW n \in Nat, NEW f, f[0] \in P,
         \A k \in 1..n : f[k - 1] \in P => f[k] \in P
  PROVE  f[n] \in P
<1> DEFINE S == {k \in Nat : k <= n => f[k] \in P}
<1>1. 0 \in S
  OBVIOUS
<1>2. ASSUME NEW k \in Nat, k \in S PROVE k + 1 \in S
  <2>1. SUFFICES ASSUME k + 1 <= n PROVE f[k + 1] \in P
    OBVIOUS
  <2>2. k + 1 \in 1..n /\ (k + 1) - 1 = k /\ f[k] \in P
    BY <1>2, <2>1
  <2>3. QED
    BY <2>2
<1> HIDE DEF S
<1>3. n \in S
  BY <1>1, <1>2, EachNatural
<1>4. QED
  BY <1>3 DEF S

\* f takes the steps g for the elements of s, one after the other.
TakesSteps(f, g, start, s, n) ==
  f = [k \in 0..n |-> IF k = 0 THEN start ELSE g[<<f[k - 1], s[k]>>]]

\* There is a function that does.
LEMMA StepsExist ==
  ASSUME NEW g, NEW start, NEW s, NEW n \in Nat
  PROVE  \E f : TakesSteps(f, g, start, s, n)
<1> DEFINE Steps(f, m) == f = [k \in 0..m |-> IF k = 0 THEN start ELSE g[<<f[k - 1], s[k]>>]]
           S == {m \in Nat : \E f : Steps(f, m)}
<1>1. 0 \in S
  <2> DEFINE h == [k \in 0..0 |-> start]
             rhs == [k \in 0..0 |-> IF k = 0 THEN start ELSE g[<<h[k - 1], s[k]>>]]
  <2>1. \A k \in 0..0 : h[k] = rhs[k]
    OBVIOUS
  <2>2. h = rhs
    BY <2>1
  <2>3. QED
    BY <2>2, Zenon
<1>2. ASSUME NEW m \in Nat, m \in S PROVE m + 1 \in S
  <2>1. PICK f : Steps(f, m)
    BY <1>2
  <2> DEFINE step(e, k) == IF k = 0 THEN start ELSE g[<<e[k - 1], s[k]>>]
             h == [k \in 0..(m + 1) |-> IF k = m + 1 THEN g[<<f[m], s[m + 1]>>] ELSE f[k]]
             rhs == [k \in 0..(m + 1) |-> step(h, k)]
  <2>2. \A k \in 0..m : f[k] = step(f, k)
    BY <2>1
  <2>3. \A k \in 0..(m + 1) : h[k] = IF k = m + 1 THEN g[<<f[m], s[m + 1]>>] ELSE f[k]
    OBVIOUS
  <2> HIDE DEF h
  <2>4. ASSUME NEW k \in 0..(m + 1) PROVE h[k] = step(h, k)
    <3>1. CASE k = m + 1
      <4>1. (m + 1) - 1 = m /\ m \in 0..(m + 1) /\ k # 0 /\ m # m + 1
        BY <3>1
      <4>2. h[m] = f[m]
        BY <2>3, <4>1
      <4>3. h[k] = g[<<f[m], s[m + 1]>>]
        BY <2>3, <3>1
      <4>4. QED
        BY <3>1, <4>1, <4>2, <4>3
    <3>2. CASE k = 0
      <4>1. 0 # m + 1 /\ 0 \in 0..m
        OBVIOUS
      <4>2. QED
        BY <2>2, <2>3, <3>2, <4>1
    <3>3. CASE k \in 1..m
      <4>1. /\ k - 1 \in 0..(m + 1) /\ k - 1 # m + 1
            /\ k \in 0..m /\ k # 0 /\ k # m + 1
        BY <3>3
      <4>2. h[k] = f[k] /\ h[k - 1] = f[k - 1]
        BY <2>3, <4>1
      <4>3. f[k] = g[<<f[k - 1], s[k]>>]
        BY <2>2, <4>1
      <4>4. QED
        BY <4>1, <4>2, <4>3
    <3>4. QED
      BY <3>1, <3>2, <3>3
  <2>5. h = [k \in 0..(m + 1) |-> h[k]]
    BY DEF h
  <2>6. h = rhs
    BY <2>4, <2>5
  <2>7. Steps(h, m + 1)
    BY <2>6
  <2> HIDE DEF Steps
  <2>8. QED
    BY <2>7
<1> HIDE DEF S
<1>3. n \in S
  BY <1>1, <1>2, EachNatural
<1>4. QED
  BY <1>3, Zenon DEF S, TakesSteps

\* Steps with the elements of s, which are in E, stay in P.
StepsIn(P, E, g, start, s, n) ==
  /\ g \in [P \X E -> P] /\ start \in P /\ n \in Nat
  /\ \A k \in 1..n : s[k] \in E

\* h takes such steps.
Stepwise(h, P, g, start, s, n) ==
  /\ h = [k \in 0..n |-> h[k]] /\ h[0] = start
  /\ \A k \in 1..n : h[k] = g[<<h[k - 1], s[k]>>]
  /\ \A k \in 0..n : h[k] \in P

\* Then there is a function that does.
LEMMA StepsTaken ==
  ASSUME NEW P, NEW E, NEW g, NEW start, NEW s, NEW n, StepsIn(P, E, g, start, s, n)
  PROVE  \E h : Stepwise(h, P, g, start, s, n)
<1>0. /\ g \in [P \X E -> P] /\ start \in P /\ n \in Nat
      /\ \A k \in 1..n : s[k] \in E
  BY DEF StepsIn
<1>1. PICK h : h = [k \in 0..n |-> IF k = 0 THEN start ELSE g[<<h[k - 1], s[k]>>]]
  <2>1. \E h : TakesSteps(h, g, start, s, n)
    BY <1>0, StepsExist
  <2>2. QED
    BY <2>1, Zenon DEF TakesSteps
<1>2. /\ h = [k \in 0..n |-> h[k]]
      /\ \A k \in 0..n : h[k] = IF k = 0 THEN start ELSE g[<<h[k - 1], s[k]>>]
  BY <1>1
<1>3. 0 \in 0..n /\ \A k \in 1..n : k \in 0..n /\ k # 0
  BY <1>0
<1>4. h[0] = start /\ \A k \in 1..n : h[k] = g[<<h[k - 1], s[k]>>]
  BY <1>2, <1>3
<1>5. ASSUME NEW m \in 0..n PROVE h[m] \in P
  <2>1. ASSUME NEW k \in 1..m, h[k - 1] \in P PROVE h[k] \in P
    <3>1. k \in 1..n
      BY <1>0
    <3>2. QED
      BY <1>0, <1>4, <2>1, <3>1
  <2>2. m \in Nat /\ h[0] \in P
    BY <1>0, <1>4
  <2>3. QED
    BY <2>1, <2>2, StepsStay
<1>6. Stepwise(h, P, g, start, s, n)
  BY <1>2, <1>4, <1>5 DEF Stepwise
<1>7. QED
  BY <1>6

-----------------------------------------------------------------------------
(* Sequences without repetitions *)

\* A sequence in which each element comes once is sorted by the places of its
\* elements, counted from any number.
LEMMA SortedByPlace ==
  ASSUME NEW T, NEW s \in Seq(T), NEW key,
         \A j, k \in 1..Len(s) : j < k => key[s[j]] < key[s[k]],
         \A k \in 1..Len(s) : key[s[k]] \in Int
  PROVE  /\ Keys(ToSet(s), key) /\ SortedBy(ToSet(s), key) = s
         /\ IsFiniteSet(ToSet(s)) /\ Cardinality(ToSet(s)) = Len(s)
<1>1. Len(s) \in Nat /\ DOMAIN s = 1..Len(s) /\ s = [k \in 1..Len(s) |-> s[k]]
  OBVIOUS
<1>2. /\ \A k \in 1..Len(s) : s[k] \in ToSet(s)
      /\ \A e \in ToSet(s) : \E k \in 1..Len(s) : s[k] = e
  BY <1>1 DEF ToSet
<1>3. Ascends(s, Len(s), ToSet(s), key)
  BY <1>1, <1>2 DEF Ascends
<1>4. QED
  BY <1>3, SortedIs DEF Keys

\* The elements of some numbers are in their order.
LEMMA AscendingLists ==
  ASSUME NEW S, IsFiniteSet(S), S \subseteq Int
  PROVE  /\ Ascending(S) \in Seq(S) /\ ToSet(Ascending(S)) = S /\ IsInjective(Ascending(S))
         /\ Len(Ascending(S)) = Cardinality(S)
<1> DEFINE id == [s \in S |-> s]
           t == SortedBy(S, id)
           n == Cardinality(S)
<1>1. \A s \in S : id[s] = s /\ s \in Int
  OBVIOUS
<1> HIDE DEF id
<1>2. Keys(S, id)
  BY <1>1 DEF Keys
<1>3. /\ n \in Nat /\ DOMAIN t = 1..n /\ Len(t) = n /\ t \in Seq(S)
      /\ \A k \in 1..n : t[k] \in S
      /\ \A e \in S : \E k \in 1..n : t[k] = e
      /\ \A j, k \in 1..n : t[j] = t[k] => j = k
  BY <1>2, SortedLists
<1>4. Ascending(S) = t
  BY DEF Ascending, id
<1> HIDE DEF t
<1> HIDE DEF n
<1>5. ToSet(t) = S
  <2>1. ToSet(t) = {t[k] : k \in 1..n}
    BY <1>3, Zenon DEF ToSet
  <2>2. /\ \A k \in 1..n : t[k] \in S
        /\ \A e \in S : \E k \in 1..n : t[k] = e
    BY <1>3
  <2>3. QED
    BY <2>1, <2>2, Zenon
<1>6. IsInjective(t)
  BY <1>3 DEF IsInjective
<1>7. QED
  BY <1>3, <1>4, <1>5, <1>6 DEF n

\* What Among leaves of a sequence without repetitions, sorted by any key that
\* goes up along it.
LEMMA AmongKey ==
  ASSUME NEW T, NEW s \in Seq(T), NEW key, NEW S,
         \A j, k \in 1..Len(s) : j < k => key[s[j]] < key[s[k]],
         \A k \in 1..Len(s) : key[s[k]] \in Int
  PROVE  /\ Among(s, S) = SortedBy(ToSet(s) \cap S, key) /\ Keys(ToSet(s) \cap S, key)
         /\ Among(s, S) \in Seq(T) /\ ToSet(Among(s, S)) = ToSet(s) \cap S
         /\ IsInjective(Among(s, S))
<1>1. Keys(ToSet(s), key) /\ SortedBy(ToSet(s), key) = s
  BY SortedByPlace
<1>2. Among(s, S) = SortedBy(ToSet(s) \cap S, key) /\ Keys(ToSet(s) \cap S, key)
  BY <1>1, AmongSorted
<1> DEFINE R == ToSet(s) \cap S
           a == SortedBy(R, key)
           n == Cardinality(R)
<1>3. /\ n \in Nat /\ DOMAIN a = 1..n /\ Len(a) = n /\ a \in Seq(R)
      /\ \A k \in 1..n : a[k] \in R
      /\ \A e \in R : \E k \in 1..n : a[k] = e
      /\ \A j, k \in 1..n : a[j] = a[k] => j = k
  <2>1. Keys(R, key)
    BY <1>2
  <2> HIDE DEF R
  <2>2. QED
    BY <2>1, SortedLists
<1>4. R \in SUBSET T
  BY DEF ToSet
<1> HIDE DEF a, R, n
<1>5. a \in Seq(T)
  BY <1>3, <1>4
<1>6. ToSet(a) = R
  BY <1>3 DEF ToSet
<1>7. IsInjective(a)
  BY <1>3 DEF IsInjective
<1>8. QED
  BY <1>2, <1>5, <1>6, <1>7 DEF a, R

\* The place of each element of a sequence without repetitions.
PlacesIn(s) == [e \in ToSet(s) |-> CHOOSE k \in DOMAIN s : s[k] = e]

LEMMA PlacesGoUp ==
  ASSUME NEW T, NEW s \in Seq(T), IsInjective(s)
  PROVE  /\ \A k \in 1..Len(s) : s[k] \in ToSet(s) /\ PlacesIn(s)[s[k]] = k
         /\ \A j, k \in 1..Len(s) : j < k => PlacesIn(s)[s[j]] < PlacesIn(s)[s[k]]
         /\ \A e \in ToSet(s) : PlacesIn(s)[e] \in 1..Len(s) /\ s[PlacesIn(s)[e]] = e
<1>1. DOMAIN s = 1..Len(s) /\ Len(s) \in Nat
  OBVIOUS
<1>2. \A j, k \in 1..Len(s) : s[j] = s[k] => j = k
  BY <1>1 DEF IsInjective
<1>3. \A e \in ToSet(s) : \E k \in 1..Len(s) : s[k] = e
  BY <1>1 DEF ToSet
<1>4. \A e \in ToSet(s) : PlacesIn(s)[e] \in 1..Len(s) /\ s[PlacesIn(s)[e]] = e
  BY <1>1, <1>3 DEF PlacesIn
<1>5. \A k \in 1..Len(s) : s[k] \in ToSet(s)
  BY <1>1 DEF ToSet
<1>6. \A k \in 1..Len(s) : PlacesIn(s)[s[k]] = k
  BY <1>2, <1>4, <1>5
<1>7. QED
  BY <1>1, <1>4, <1>5, <1>6

\* Selecting from a sequence without repetitions.
LEMMA AmongLists ==
  ASSUME NEW T, NEW s \in Seq(T), IsInjective(s), NEW S
  PROVE  /\ Among(s, S) \in Seq(T) /\ ToSet(Among(s, S)) = ToSet(s) \cap S
         /\ IsInjective(Among(s, S))
         /\ Among(s, S) = SortedBy(ToSet(s) \cap S, PlacesIn(s))
         /\ Keys(ToSet(s) \cap S, PlacesIn(s))
         /\ IsFiniteSet(ToSet(s)) /\ Cardinality(ToSet(s)) = Len(s)
<1> DEFINE key == PlacesIn(s)
<1>1. Len(s) \in Nat /\ \A k \in 1..Len(s) : key[s[k]] = k
  BY PlacesGoUp
<1>2. \A j, k \in 1..Len(s) : j < k => key[s[j]] < key[s[k]]
  BY PlacesGoUp
<1> HIDE DEF key
<1>3. \A k \in 1..Len(s) : key[s[k]] \in Int
  BY <1>1
<1>4. IsFiniteSet(ToSet(s)) /\ Cardinality(ToSet(s)) = Len(s)
  BY <1>2, <1>3, SortedByPlace
<1>5. /\ Among(s, S) = SortedBy(ToSet(s) \cap S, key) /\ Keys(ToSet(s) \cap S, key)
      /\ Among(s, S) \in Seq(T) /\ ToSet(Among(s, S)) = ToSet(s) \cap S
      /\ IsInjective(Among(s, S))
  BY <1>2, <1>3, AmongKey
<1>6. QED
  BY <1>4, <1>5 DEF key

\* One sequence after another with other elements.
LEMMA JoinedLists ==
  ASSUME NEW T, NEW a \in Seq(T), NEW b \in Seq(T), IsInjective(a), IsInjective(b),
         ToSet(a) \cap ToSet(b) = {}
  PROVE  /\ a \o b \in Seq(T) /\ ToSet(a \o b) = ToSet(a) \cup ToSet(b) /\ IsInjective(a \o b)
         /\ Len(a \o b) = Len(a) + Len(b)
         /\ \A k \in 1..Len(a) : (a \o b)[k] = a[k]
         /\ \A k \in 1..Len(b) : (a \o b)[Len(a) + k] = b[k]
<1> DEFINE s == a \o b
           m == Len(a)
           n == Len(b)
<1>1. /\ m \in Nat /\ n \in Nat /\ DOMAIN a = 1..m /\ DOMAIN b = 1..n
      /\ \A j, k \in 1..m : a[j] = a[k] => j = k
      /\ \A j, k \in 1..n : b[j] = b[k] => j = k
      /\ \A j \in 1..m, k \in 1..n : a[j] # b[k]
  BY DEF IsInjective, ToSet
<1>2. /\ s \in Seq(T) /\ Len(s) = m + n /\ DOMAIN s = 1..(m + n)
      /\ \A k \in 1..(m + n) : s[k] = IF k <= m THEN a[k] ELSE b[k - m]
  OBVIOUS
<1>3. ToSet(a) = {a[k] : k \in 1..m} /\ ToSet(b) = {b[k] : k \in 1..n}
      /\ ToSet(s) = {s[k] : k \in 1..(m + n)}
  BY <1>1, <1>2 DEF ToSet
<1> HIDE DEF s, m, n
<1>4. \A k \in 1..m : k \in 1..(m + n) /\ s[k] = a[k]
  BY <1>1, <1>2
<1>5. ASSUME NEW k \in 1..n PROVE m + k \in 1..(m + n) /\ s[m + k] = b[k]
  <2>1. m + k \in 1..(m + n) /\ ~(m + k <= m) /\ (m + k) - m = k
    BY <1>1
  <2>2. QED
    BY <1>2, <2>1
<1>6. \A k \in 1..(m + n) : k \in 1..m \/ (k - m \in 1..n /\ s[k] = b[k - m])
  BY <1>1, <1>2
<1>7. ToSet(s) = ToSet(a) \cup ToSet(b)
  <2>1. ASSUME NEW e \in ToSet(s) PROVE e \in ToSet(a) \cup ToSet(b)
    <3>1. PICK k \in 1..(m + n) : s[k] = e
      BY <1>3
    <3>2. CASE k \in 1..m
      BY <1>3, <1>4, <3>1, <3>2
    <3>3. CASE k \notin 1..m
      BY <1>3, <1>6, <3>1, <3>3
    <3>4. QED
      BY <3>2, <3>3
  <2>2. ASSUME NEW e \in ToSet(a) PROVE e \in ToSet(s)
    <3>1. PICK k \in 1..m : a[k] = e
      BY <1>3
    <3>2. QED
      BY <1>3, <1>4, <3>1
  <2>3. ASSUME NEW e \in ToSet(b) PROVE e \in ToSet(s)
    <3>1. PICK k \in 1..n : b[k] = e
      BY <1>3
    <3>2. QED
      BY <1>3, <1>5, <3>1
  <2>4. QED
    BY <2>1, <2>2, <2>3
<1>8. ASSUME NEW j \in 1..(m + n), NEW k \in 1..(m + n), s[j] = s[k], j < k PROVE FALSE
  <2>1. CASE k \in 1..m
    <3>1. j \in 1..m
      BY <1>1, <1>8, <2>1
    <3>2. QED
      BY <1>1, <1>4, <1>8, <2>1, <3>1
  <2>2. CASE k \notin 1..m
    <3>1. k - m \in 1..n /\ s[k] = b[k - m]
      BY <1>6, <2>2
    <3>2. CASE j \in 1..m
      BY <1>1, <1>4, <1>8, <3>1, <3>2
    <3>3. CASE j \notin 1..m
      <4>1. j - m \in 1..n /\ s[j] = b[j - m]
        BY <1>6, <3>3
      <4>2. j - m = k - m
        BY <1>1, <1>8, <3>1, <4>1
      <4>3. QED
        BY <1>1, <1>8, <4>2
    <3>4. QED
      BY <3>2, <3>3
  <2>3. QED
    BY <2>1, <2>2
<1>9. \A j, k \in 1..(m + n) : s[j] = s[k] => j = k
  BY <1>1, <1>8
<1>10. IsInjective(s)
  BY <1>2, <1>9 DEF IsInjective
<1>11. QED
  BY <1>2, <1>4, <1>5, <1>7, <1>10 DEF s, m, n

\* S is A and B, and each of A has a lower key than each of B.
Parted(S, A, B, key) == S = A \cup B /\ \A a \in A, b \in B : key[a] < key[b]

\* Elements with lower keys come first.
LEMMA SortedJoined ==
  ASSUME NEW S, NEW A, NEW B, NEW key, Keys(S, key), Parted(S, A, B, key)
  PROVE  SortedBy(S, key) = SortedBy(A, key) \o SortedBy(B, key)
<1> DEFINE s == SortedBy(A, key)
           t == SortedBy(B, key)
           m == Cardinality(A)
           n == Cardinality(B)
           j == s \o t
<1>0. S = A \cup B /\ \A a \in A, b \in B : key[a] < key[b]
  BY DEF Parted
<1>1. Keys(A, key) /\ Keys(B, key)
  <2>1. IsFiniteSet(A) /\ IsFiniteSet(B)
    BY <1>0, FS_Subset DEF Keys
  <2>2. QED
    BY <1>0, <2>1 DEF Keys
<1>2. /\ m \in Nat /\ s \in Seq(A) /\ Len(s) = m
      /\ \A k \in 1..m : s[k] \in A
      /\ \A e \in A : \E k \in 1..m : s[k] = e
      /\ \A i, k \in 1..m : i < k <=> key[s[i]] < key[s[k]]
  BY <1>1, SortedLists
<1>3. /\ n \in Nat /\ t \in Seq(B) /\ Len(t) = n
      /\ \A k \in 1..n : t[k] \in B
      /\ \A e \in B : \E k \in 1..n : t[k] = e
      /\ \A i, k \in 1..n : i < k <=> key[t[i]] < key[t[k]]
  BY <1>1, SortedLists
<1> HIDE DEF s, t, m, n
<1>4. /\ j = [k \in 1..(m + n) |-> j[k]]
      /\ \A k \in 1..m : k \in 1..(m + n) /\ j[k] = s[k]
      /\ \A k \in 1..(m + n) : k \notin 1..m => k - m \in 1..n /\ j[k] = t[k - m]
  <2>1. s \in Seq(S) /\ t \in Seq(S)
    BY <1>0, <1>2, <1>3
  <2>2. /\ j \in Seq(S) /\ Len(j) = Len(s) + Len(t)
        /\ \A k \in 1..(Len(s) + Len(t)) : j[k] = IF k <= Len(s) THEN s[k] ELSE t[k - Len(s)]
    BY <2>1
  <2> HIDE DEF j
  <2>3. QED
    BY <1>2, <1>3, <2>2
<1>5. \A k \in 1..n : m + k \in 1..(m + n) /\ j[m + k] = t[k]
  <2>1. SUFFICES ASSUME NEW k \in 1..n PROVE m + k \in 1..(m + n) /\ j[m + k] = t[k]
    OBVIOUS
  <2>2. m + k \in 1..(m + n) /\ m + k \notin 1..m /\ (m + k) - m = k
    BY <1>2, <1>3
  <2>3. QED
    BY <1>4, <2>2
<1> HIDE DEF j
<1>6. \A k \in 1..(m + n) : j[k] \in S /\ key[j[k]] \in Int
  <2>1. \A k \in 1..(m + n) : j[k] \in S
    BY <1>0, <1>2, <1>3, <1>4
  <2>2. QED
    BY <2>1 DEF Keys
<1>7. ASSUME NEW e \in S PROVE \E k \in 1..(m + n) : j[k] = e
  <2>1. CASE e \in A
    BY <1>2, <1>4, <2>1
  <2>2. CASE e \in B
    BY <1>3, <1>5, <2>2
  <2>3. QED
    BY <1>0, <2>1, <2>2
<1>8. ASSUME NEW i \in 1..(m + n), NEW k \in 1..(m + n), i < k PROVE key[j[i]] < key[j[k]]
  <2>1. CASE k \in 1..m
    <3>1. i \in 1..m
      BY <1>2, <1>8, <2>1
    <3>2. QED
      BY <1>2, <1>4, <1>8, <2>1, <3>1
  <2>2. CASE k \notin 1..m
    <3>1. k - m \in 1..n /\ j[k] = t[k - m]
      BY <1>4, <2>2
    <3>2. CASE i \in 1..m
      BY <1>0, <1>2, <1>3, <1>4, <3>1, <3>2
    <3>3. CASE i \notin 1..m
      <4>1. i - m \in 1..n /\ j[i] = t[i - m] /\ i - m < k - m
        BY <1>2, <1>3, <1>4, <1>8, <3>3
      <4>2. QED
        BY <1>3, <3>1, <4>1
    <3>4. QED
      BY <3>2, <3>3
  <2>3. QED
    BY <2>1, <2>2
<1>9. Ascends(j, m + n, S, key)
  BY <1>2, <1>3, <1>4, <1>6, <1>7, <1>8 DEF Ascends
<1>10. QED
  BY <1>9, SortedIs DEF j, s, t

\* The new keys of a set are in the order of the old ones.
Kept(S, old, new) == \A x, y \in S : old[x] < old[y] => new[x] < new[y]

\* Elements that come together: some before them, some behind, each of the three
\* as they were among each other.
LEMMA SortedTogether ==
  ASSUME NEW S, NEW old, NEW new, Keys(S, old), Keys(S, new),
         NEW A, NEW D, NEW B,
         Parted(A \cup D, A, D, new), Parted(S, A \cup D, B, new),
         Kept(A, old, new), Kept(D, old, new), Kept(B, old, new)
  PROVE  SortedBy(S, new) = Among(SortedBy(S, old), A) \o Among(SortedBy(S, old), D)
                              \o Among(SortedBy(S, old), B)
<1>1. A \subseteq S /\ D \subseteq S /\ B \subseteq S /\ A \cup D \subseteq S
  BY DEF Parted
<1>2. Keys(A \cup D, new)
  <2>1. IsFiniteSet(A \cup D)
    BY <1>1, FS_Subset DEF Keys
  <2>2. QED
    BY <1>1, <2>1 DEF Keys
<1>3. SortedBy(S, new) = SortedBy(A, new) \o SortedBy(D, new) \o SortedBy(B, new)
  <2> DEFINE R == A \cup D
  <2>1. Keys(R, new) /\ Parted(R, A, D, new) /\ Parted(S, R, B, new)
    BY <1>2
  <2> HIDE DEF R
  <2>2. SortedBy(R, new) = SortedBy(A, new) \o SortedBy(D, new)
    BY <2>1, SortedJoined
  <2>3. SortedBy(S, new) = SortedBy(R, new) \o SortedBy(B, new)
    BY <2>1, SortedJoined
  <2>4. QED
    BY <2>2, <2>3
<1>4. \A s \in S : new[s] \in Int
  BY DEF Keys
<1>5. /\ Among(SortedBy(S, old), A) = SortedBy(A, new)
      /\ Among(SortedBy(S, old), D) = SortedBy(D, new)
      /\ Among(SortedBy(S, old), B) = SortedBy(B, new)
  <2>1. S \cap A = A /\ S \cap D = D /\ S \cap B = B
    BY <1>1
  <2>2. /\ Among(SortedBy(S, old), A) = SortedBy(A, old) /\ Keys(A, old)
        /\ Among(SortedBy(S, old), D) = SortedBy(D, old) /\ Keys(D, old)
        /\ Among(SortedBy(S, old), B) = SortedBy(B, old) /\ Keys(B, old)
    BY <2>1, AmongSorted
  <2>3. SortedBy(A, old) = SortedBy(A, new)
    BY <1>1, <1>4, <2>2, SortedAlike DEF Kept
  <2>4. SortedBy(D, old) = SortedBy(D, new)
    BY <1>1, <1>4, <2>2, SortedAlike DEF Kept
  <2>5. SortedBy(B, old) = SortedBy(B, new)
    BY <1>1, <1>4, <2>2, SortedAlike DEF Kept
  <2>6. QED
    BY <2>2, <2>3, <2>4, <2>5
<1>6. QED
  BY <1>3, <1>5
=============================================================================
