--------------------------- MODULE OrganizerProofs ---------------------------
(***************************************************************************)
(* Proofs about ProfileOrder and Organizer: reading, writing and moving    *)
(* keep the order of the mods, and what the list, modlist.txt, the         *)
(* structure, the plugins and a started program show of it agrees.         *)
(***************************************************************************)
EXTENDS MCOrganizer, SortingProofs

-----------------------------------------------------------------------------
(* Collections *)

\* The collection of some mods, the overwrite directory among them.
IsCollection(mods) ==
  \E all \in SUBSET Mods : IsFiniteSet(all) /\ Overwrite \in all /\ mods = Collection(all)

\* A collection has each of its mods once.
LEMMA CollectionLists ==
  ASSUME NEW all \in SUBSET Mods, IsFiniteSet(all)
  PROVE  LET mods == Collection(all)
         IN  /\ Len(mods) = Cardinality(all) /\ Len(mods) \in Nat
             /\ DOMAIN mods = 1..Len(mods)
             /\ ToSet(mods) = all
             /\ \A i \in DOMAIN mods : mods[i] \in all
             /\ \A m \in all : \E i \in DOMAIN mods : mods[i] = m
             /\ \A i, j \in DOMAIN mods : mods[i] = mods[j] => i = j
<1> DEFINE id == [m \in all |-> m]
           mods == SortedBy(all, id)
           n == Cardinality(all)
<1>1. \A m \in all : id[m] = m /\ m \in Int
  BY KindsAssumption
<1> HIDE DEF id
<1>2. Keys(all, id)
  BY <1>1 DEF Keys
<1>3. /\ n \in Nat /\ DOMAIN mods = 1..n /\ Len(mods) = n
      /\ \A k \in 1..n : mods[k] \in all
      /\ \A e \in all : \E k \in 1..n : mods[k] = e
      /\ \A j, k \in 1..n : mods[j] = mods[k] => j = k
  BY <1>2, SortedLists
<1>4. ToSet(mods) = all
  BY <1>3 DEF ToSet
<1>5. Collection(all) = mods
  BY DEF Collection, Ascending, id
<1> HIDE DEF mods, n
<1>6. QED
  BY <1>3, <1>4, <1>5 DEF n

\* What is known of a collection.
LEMMA CollectionFacts ==
  ASSUME NEW mods, IsCollection(mods)
  PROVE  /\ Len(mods) \in Nat \ {0} /\ DOMAIN mods = 1..Len(mods)
         /\ ToSet(mods) \in SUBSET Mods /\ IsFiniteSet(ToSet(mods))
         /\ Cardinality(ToSet(mods)) = Len(mods)
         /\ mods = Collection(ToSet(mods))
         /\ Overwrite \in ToSet(mods)
         /\ \A i \in DOMAIN mods : mods[i] \in ToSet(mods) /\ mods[i] \in Mods
         /\ \A m \in ToSet(mods) : Index(mods, m) \in DOMAIN mods /\ mods[Index(mods, m)] = m
         /\ \A i \in DOMAIN mods : Index(mods, mods[i]) = i
         /\ \A i, j \in DOMAIN mods : mods[i] = mods[j] => i = j
<1>1. PICK all \in SUBSET Mods : IsFiniteSet(all) /\ Overwrite \in all /\ mods = Collection(all)
  BY DEF IsCollection
<1>2. /\ Len(mods) = Cardinality(all) /\ Len(mods) \in Nat
      /\ DOMAIN mods = 1..Len(mods)
      /\ ToSet(mods) = all
      /\ \A i \in DOMAIN mods : mods[i] \in all
      /\ \A m \in all : \E i \in DOMAIN mods : mods[i] = m
      /\ \A i, j \in DOMAIN mods : mods[i] = mods[j] => i = j
  BY <1>1, CollectionLists
<1>3. \A m \in all : Index(mods, m) \in DOMAIN mods /\ mods[Index(mods, m)] = m
  BY <1>2 DEF Index
<1>4. \A i \in DOMAIN mods : Index(mods, mods[i]) = i
  BY <1>2, <1>3
<1>5. Len(mods) # 0
  BY <1>1, <1>2
<1>6. QED
  BY <1>1, <1>2, <1>3, <1>4, <1>5

-----------------------------------------------------------------------------
(* What refreshModStatus reads *)

\* What a profile says of a mod.
ModStatus == [enabled : BOOLEAN, priority : Int]

\* The names refreshModStatus uses are defined here outside its LET.
Known(file, mods) ==
  {k \in NamesRead(file) : file[k].mod \in ToSet(mods) /\ ~HasAutomaticPriority(file[k].mod)}
InFile(file, mods)    == {file[k].mod : k \in Known(file, mods)}
LineOf(file, mods, m) == CHOOSE k \in Known(file, mods) : file[k].mod = m
New(file, mods, kind) == (ToSet(mods) \cap kind) \ InFile(file, mods)
Before(S, m)          == Cardinality({n \in S : n < m})
After(S, k)           == Cardinality({l \in S : l > k})
BackupsOf(mods)       == ToSet(mods) \cap Backups

Offset(file, mods)   == Cardinality(New(file, mods, Foreign))
Above(file, mods)    == Offset(file, mods) + Cardinality(Known(file, mods))
ManagedOf(file, mods) == Above(file, mods) + Cardinality(New(file, mods, Regular))

PriorityRead(file, mods, m) ==
  CASE m = Overwrite -> Len(mods) - 1
    [] m \in InFile(file, mods) ->
         Offset(file, mods) + After(Known(file, mods), LineOf(file, mods, m))
    [] m \in New(file, mods, Foreign) ->
         Offset(file, mods) - 1 - Before(New(file, mods, Foreign), m)
    [] m \in New(file, mods, Regular) ->
         Above(file, mods) + Before(New(file, mods, Regular), m)
    [] m \in BackupsOf(mods) -> ManagedOf(file, mods) + Before(BackupsOf(mods), m)

EnabledRead(file, mods, m) ==
  AlwaysEnabled(m) \/ (m \in InFile(file, mods) /\ file[LineOf(file, mods, m)].on)

MustWrite(file, mods) ==
  \/ \E k \in DOMAIN file : \/ file[k].mod \notin ToSet(mods)
                            \/ HasAutomaticPriority(file[k].mod)
  \/ New(file, mods, Foreign) \cup New(file, mods, Regular) \cup BackupsOf(mods) # {}

\* refreshModStatus in these terms.
LEMMA ReadIs ==
  ASSUME NEW file, NEW mods
  PROVE  RefreshModStatus(file, mods) =
           [profile  |-> [status  |-> [i \in DOMAIN mods |->
                                         [enabled  |-> EnabledRead(file, mods, mods[i]),
                                          priority |-> PriorityRead(file, mods, mods[i])]],
                          managed |-> ManagedOf(file, mods)],
            modified |-> MustWrite(file, mods)]
BY Zenon DEF RefreshModStatus, EnabledRead, PriorityRead, ManagedOf, MustWrite, Above, Offset,
             New, InFile, Known, LineOf, Before, After, BackupsOf

\* A set of mods by name.
LEMMA BeforeRanks ==
  ASSUME NEW S, S \in SUBSET Mods, IsFiniteSet(S)
  PROVE  /\ Cardinality(S) \in Nat
         /\ \A m \in S : Before(S, m) \in 0..(Cardinality(S) - 1)
         /\ \A k \in 0..(Cardinality(S) - 1) : \E m \in S : Before(S, m) = k
         /\ \A m, n \in S : Before(S, m) = Before(S, n) => m = n
<1> DEFINE id == [m \in S |-> m]
<1>1. \A m \in S : id[m] = m /\ id[m] \in Int
  BY KindsAssumption
<1>2. \A m \in S : {n \in S : id[n] < id[m]} = {n \in S : n < m}
  BY <1>1
<1> HIDE DEF id
<1>3. Keys(S, id)
  BY <1>1 DEF Keys
<1>4. \A m \in S : Rank(S, id, m) = Before(S, m)
  BY <1>2 DEF Rank, Below, Before
<1>5. /\ Cardinality(S) \in Nat
      /\ \A k \in 1..Cardinality(S) : \E s \in S : Rank(S, id, s) = k - 1
      /\ \A s \in S : Rank(S, id, s) \in 0..(Cardinality(S) - 1)
      /\ \A r, s \in S : Rank(S, id, r) = Rank(S, id, s) => r = s
  BY <1>3, RanksAreNumbers
<1>6. \A k \in 0..(Cardinality(S) - 1) : \E m \in S : Before(S, m) = k
  <2>1. SUFFICES ASSUME NEW k \in 0..(Cardinality(S) - 1) PROVE \E m \in S : Before(S, m) = k
    OBVIOUS
  <2>2. k + 1 \in 1..Cardinality(S) /\ (k + 1) - 1 = k
    BY <1>5
  <2>3. PICK s \in S : Rank(S, id, s) = (k + 1) - 1
    BY <1>5, <2>2
  <2>4. QED
    BY <1>4, <2>2, <2>3
<1>7. QED
  BY <1>4, <1>5, <1>6

\* A set of lines from the last.
LEMMA AfterRanks ==
  ASSUME NEW S, S \in SUBSET Nat, IsFiniteSet(S)
  PROVE  /\ Cardinality(S) \in Nat
         /\ \A m \in S : After(S, m) \in 0..(Cardinality(S) - 1)
         /\ \A k \in 0..(Cardinality(S) - 1) : \E m \in S : After(S, m) = k
         /\ \A m, n \in S : After(S, m) = After(S, n) => m = n
         /\ \A m, n \in S : m < n <=> After(S, n) < After(S, m)
<1> DEFINE key == [m \in S |-> -m]
<1>1. \A m \in S : key[m] = -m /\ m \in Nat
  OBVIOUS
<1> HIDE DEF key
<1>2. \A m \in S : {n \in S : key[n] < key[m]} = {n \in S : n > m}
  <2>1. \A m, n \in S : key[n] < key[m] <=> n > m
    BY <1>1
  <2>2. QED
    BY <2>1, Zenon
<1>3. Keys(S, key)
  BY <1>1 DEF Keys
<1>4. \A m \in S : Rank(S, key, m) = After(S, m)
  BY <1>2 DEF Rank, Below, After
<1>5. /\ Cardinality(S) \in Nat
      /\ \A k \in 1..Cardinality(S) : \E s \in S : Rank(S, key, s) = k - 1
      /\ \A s \in S : Rank(S, key, s) \in 0..(Cardinality(S) - 1)
      /\ \A r, s \in S : Rank(S, key, r) = Rank(S, key, s) => r = s
      /\ \A r, s \in S : key[r] < key[s] <=> Rank(S, key, r) < Rank(S, key, s)
  BY <1>3, RanksAreNumbers
<1>6. \A k \in 0..(Cardinality(S) - 1) : \E m \in S : After(S, m) = k
  <2>1. SUFFICES ASSUME NEW k \in 0..(Cardinality(S) - 1) PROVE \E m \in S : After(S, m) = k
    OBVIOUS
  <2>2. k + 1 \in 1..Cardinality(S) /\ (k + 1) - 1 = k
    BY <1>5
  <2>3. PICK s \in S : Rank(S, key, s) = (k + 1) - 1
    BY <1>5, <2>2
  <2>4. QED
    BY <1>4, <2>2, <2>3
<1>7. \A m, n \in S : m < n <=> After(S, n) < After(S, m)
  <2>1. \A m, n \in S : m < n <=> key[n] < key[m]
    BY <1>1
  <2>2. QED
    BY <2>1, <1>4, <1>5
<1>8. QED
  BY <1>4, <1>5, <1>6, <1>7

\* Sets with nothing in common are counted one after the other.
LEMMA DisjointUnion ==
  ASSUME NEW S, NEW T, IsFiniteSet(S), IsFiniteSet(T), S \cap T = {}
  PROVE  /\ IsFiniteSet(S \cup T) /\ Cardinality(S \cup T) = Cardinality(S) + Cardinality(T)
         /\ Cardinality(S) \in Nat /\ Cardinality(T) \in Nat
<1>1. Cardinality(S) \in Nat /\ Cardinality(T) \in Nat
  BY FS_CardinalityType
<1>2. Cardinality(S \cap T) = 0
  BY FS_EmptySet
<1>3. /\ IsFiniteSet(S \cup T)
      /\ Cardinality(S \cup T) = Cardinality(S) + Cardinality(T) - Cardinality(S \cap T)
  BY FS_Union
<1>4. QED
  BY <1>1, <1>2, <1>3

\* The mods of a collection come in five kinds.
LEMMA ReadKinds ==
  ASSUME NEW mods, IsCollection(mods), NEW file \in Seq(Lines)
  PROVE  LET F == New(file, mods, Foreign)
             I == InFile(file, mods)
             R == New(file, mods, Regular)
             B == BackupsOf(mods)
             K == Known(file, mods)
         IN  /\ K \in SUBSET Nat /\ IsFiniteSet(K)
             /\ ToSet(mods) = F \cup I \cup R \cup B \cup {Overwrite}
             /\ Managed(mods) = F \cup I \cup R
             /\ F \cap I = {} /\ F \cap R = {} /\ I \cap R = {}
             /\ B \cap Managed(mods) = {} /\ Overwrite \notin Managed(mods) \cup B
             /\ IsFiniteSet(F) /\ IsFiniteSet(I) /\ IsFiniteSet(R) /\ IsFiniteSet(B)
             /\ F \in SUBSET Mods /\ R \in SUBSET Mods /\ B \in SUBSET Mods
             /\ Cardinality(I) = Cardinality(K)
             /\ \A m \in I : LineOf(file, mods, m) \in K /\ file[LineOf(file, mods, m)].mod = m
             /\ \A k \in K : file[k].mod \in I /\ LineOf(file, mods, file[k].mod) = k
             /\ Cardinality(F) \in Nat /\ Cardinality(K) \in Nat /\ Cardinality(R) \in Nat
             /\ Cardinality(B) \in Nat
             /\ Cardinality(Managed(mods)) = Cardinality(F) + Cardinality(K) + Cardinality(R)
             /\ Len(mods) = Cardinality(Managed(mods)) + Cardinality(B) + 1
<1> DEFINE F == New(file, mods, Foreign)
           I == InFile(file, mods)
           R == New(file, mods, Regular)
           B == BackupsOf(mods)
           K == Known(file, mods)
           A == ToSet(mods)
           L(m) == LineOf(file, mods, m)
<1>1. /\ A \in SUBSET Mods /\ IsFiniteSet(A) /\ Cardinality(A) = Len(mods) /\ Len(mods) \in Nat
      /\ Overwrite \in A
  BY CollectionFacts
<1>2. K \in SUBSET (1..Len(file)) /\ K \in SUBSET Nat
  BY DEF Known, NamesRead
<1>3. IsFiniteSet(K)
  <2>1. IsFiniteSet(1..Len(file))
    BY FS_Interval
  <2>2. QED
    BY <1>2, <2>1, FS_Subset
<1>4. \A j, k \in K : file[j].mod = file[k].mod => j = k
  <2>1. SUFFICES ASSUME NEW j \in K, NEW k \in K, file[j].mod = file[k].mod, j < k PROVE FALSE
    BY <1>2
  <2>2. j \in 1..(k - 1)
    BY <1>2, <2>1
  <2>3. QED
    BY <2>1, <2>2 DEF Known, NamesRead
<1>5. \A m \in I : L(m) \in K /\ file[L(m)].mod = m
  BY DEF InFile, LineOf
<1>6. \A k \in K : file[k].mod \in I /\ L(file[k].mod) = k
  BY <1>4, <1>5 DEF InFile
<1>7. I \in SUBSET A /\ \A m \in I : ~HasAutomaticPriority(m)
  BY DEF InFile, Known
<1>8. /\ F \in SUBSET A /\ R \in SUBSET A /\ B \in SUBSET A
      /\ F \cap I = {} /\ R \cap I = {} /\ F \cap R = {}
  BY KindsAssumption DEF New, BackupsOf
<1>9. Managed(mods) = F \cup I \cup R
  BY <1>1, <1>7, KindsAssumption DEF Managed, New, HasAutomaticPriority, Mods
<1>10. A = Managed(mods) \cup B \cup {Overwrite}
  BY <1>1 DEF Managed, BackupsOf, HasAutomaticPriority
<1>11. B \cap Managed(mods) = {} /\ Overwrite \notin Managed(mods) \cup B
  BY KindsAssumption DEF Managed, BackupsOf, HasAutomaticPriority
<1>12. Cardinality(I) = Cardinality(K)
  <2> DEFINE f == [k \in K |-> file[k].mod]
  <2>1. f \in Bijection(K, I)
    BY <1>4, <1>6 DEF Bijection, Injection, Surjection, IsInjective, InFile
  <2>2. QED
    BY <1>3, <2>1, FS_Bijection DEF ExistsBijection
<1>13. IsFiniteSet(F) /\ IsFiniteSet(I) /\ IsFiniteSet(R) /\ IsFiniteSet(B)
  BY <1>1, <1>7, <1>8, FS_Subset
<1>14. /\ Cardinality(F) \in Nat /\ Cardinality(K) \in Nat /\ Cardinality(R) \in Nat
       /\ Cardinality(B) \in Nat
  BY <1>3, <1>13, FS_CardinalityType
<1> HIDE DEF F, I, R, B, K, A
<1>15. IsFiniteSet(F \cup I) /\ Cardinality(F \cup I) = Cardinality(F) + Cardinality(I)
  BY <1>8, <1>13, DisjointUnion
<1>16. /\ IsFiniteSet(Managed(mods))
       /\ Cardinality(Managed(mods)) = Cardinality(F) + Cardinality(K) + Cardinality(R)
  <2>1. (F \cup I) \cap R = {}
    BY <1>8
  <2>2. QED
    <3>1. /\ IsFiniteSet((F \cup I) \cup R)
          /\ Cardinality((F \cup I) \cup R) = Cardinality(F \cup I) + Cardinality(R)
      BY <1>13, <1>15, <2>1, DisjointUnion
    <3>2. QED
      BY <1>9, <1>12, <1>15, <3>1
<1>17. IsFiniteSet(Managed(mods) \cup B)
       /\ Cardinality(Managed(mods) \cup B) = Cardinality(Managed(mods)) + Cardinality(B)
  <2>1. Managed(mods) \cap B = {}
    BY <1>11
  <2>2. QED
    BY <1>13, <1>16, <2>1, DisjointUnion
<1>18. Cardinality(A) = Cardinality(Managed(mods)) + Cardinality(B) + 1
  BY <1>10, <1>11, <1>17, FS_AddElement
<1>19. F \in SUBSET Mods /\ R \in SUBSET Mods /\ B \in SUBSET Mods
  BY <1>1, <1>8
<1>20. A = F \cup I \cup R \cup B \cup {Overwrite}
  BY <1>9, <1>10
<1>21. QED
  BY <1>1, <1>2, <1>3, <1>5, <1>6, <1>8, <1>9, <1>11, <1>12, <1>13, <1>14, <1>16, <1>18, <1>19,
     <1>20 DEF F, I, R, B, K, A

\* Where refreshModStatus puts the mods of each kind.
LEMMA ReadPlaces ==
  ASSUME NEW mods, IsCollection(mods), NEW file \in Seq(Lines)
  PROVE  LET F == New(file, mods, Foreign)
             I == InFile(file, mods)
             R == New(file, mods, Regular)
             B == BackupsOf(mods)
             K == Known(file, mods)
             P(m) == PriorityRead(file, mods, m)
             f == Cardinality(F)
             a == Above(file, mods)
             n == ManagedOf(file, mods)
         IN  /\ f \in Nat /\ a \in Nat /\ n \in Nat /\ n = Cardinality(Managed(mods))
             /\ f <= a /\ a <= n /\ n + Cardinality(B) = Len(mods) - 1
             /\ \A m \in F : P(m) \in 0..(f - 1) /\ P(m) = f - 1 - Before(F, m)
             /\ \A m \in I : P(m) \in f..(a - 1) /\ P(m) = f + After(K, LineOf(file, mods, m))
             /\ \A m \in R : P(m) \in a..(n - 1) /\ P(m) = a + Before(R, m)
             /\ \A m \in B : P(m) \in n..(Len(mods) - 2) /\ P(m) = n + Before(B, m)
             /\ P(Overwrite) = Len(mods) - 1
             /\ \A p \in 0..(n - 1) : \E m \in Managed(mods) : P(m) = p
<1> DEFINE F == New(file, mods, Foreign)
           I == InFile(file, mods)
           R == New(file, mods, Regular)
           B == BackupsOf(mods)
           K == Known(file, mods)
           P(m) == PriorityRead(file, mods, m)
           L(m) == LineOf(file, mods, m)
           f == Cardinality(F)
           k == Cardinality(K)
           r == Cardinality(R)
           b == Cardinality(B)
           a == Above(file, mods)
           n == ManagedOf(file, mods)
<1>1. /\ K \in SUBSET Nat /\ IsFiniteSet(K)
      /\ Managed(mods) = F \cup I \cup R
      /\ F \cap I = {} /\ F \cap R = {} /\ I \cap R = {}
      /\ B \cap Managed(mods) = {} /\ Overwrite \notin Managed(mods) \cup B
      /\ IsFiniteSet(F) /\ IsFiniteSet(R) /\ IsFiniteSet(B)
      /\ F \in SUBSET Mods /\ R \in SUBSET Mods /\ B \in SUBSET Mods
      /\ \A m \in I : L(m) \in K
      /\ \A e \in K : file[e].mod \in I /\ L(file[e].mod) = e
      /\ f \in Nat /\ k \in Nat /\ r \in Nat /\ b \in Nat
      /\ Cardinality(Managed(mods)) = f + k + r
      /\ Len(mods) = Cardinality(Managed(mods)) + b + 1
  BY ReadKinds
<1>2. a = f + k /\ n = a + r
  BY DEF Above, ManagedOf, Offset
<1>3. /\ P(Overwrite) = Len(mods) - 1
      /\ \A m \in I : P(m) = f + After(K, L(m))
      /\ \A m \in F : P(m) = f - 1 - Before(F, m)
      /\ \A m \in R : P(m) = a + Before(R, m)
      /\ \A m \in B : P(m) = n + Before(B, m)
  BY <1>1 DEF PriorityRead, Offset
<1>4. /\ \A m \in F : Before(F, m) \in 0..(f - 1)
      /\ \A q \in 0..(f - 1) : \E m \in F : Before(F, m) = q
  BY <1>1, BeforeRanks
<1>5. /\ \A m \in R : Before(R, m) \in 0..(r - 1)
      /\ \A q \in 0..(r - 1) : \E m \in R : Before(R, m) = q
  BY <1>1, BeforeRanks
<1>6. \A m \in B : Before(B, m) \in 0..(b - 1)
  BY <1>1, BeforeRanks
<1>7. /\ \A e \in K : After(K, e) \in 0..(k - 1)
      /\ \A q \in 0..(k - 1) : \E e \in K : After(K, e) = q
  BY <1>1, AfterRanks
<1> HIDE DEF F, I, R, B, K, P, L, f, k, r, b, a, n
<1>8. \A m \in I : After(K, L(m)) \in 0..(k - 1)
  BY <1>1, <1>7
<1>9. \A p \in 0..(n - 1) : \E m \in Managed(mods) : P(m) = p
  <2>1. SUFFICES ASSUME NEW p \in 0..(n - 1) PROVE \E m \in Managed(mods) : P(m) = p
    OBVIOUS
  <2>2. CASE p < f
    <3>1. f - 1 - p \in 0..(f - 1)
      BY <1>1, <2>2
    <3>2. PICK m \in F : Before(F, m) = f - 1 - p
      BY <1>4, <3>1
    <3>3. P(m) = f - 1 - (f - 1 - p)
      BY <1>3, <3>2
    <3>4. P(m) = p
      BY <1>1, <3>3
    <3>5. QED
      BY <1>1, <3>4
  <2>3. CASE f <= p /\ p < a
    <3>1. p - f \in 0..(k - 1)
      BY <1>1, <1>2, <2>3
    <3>2. PICK e \in K : After(K, e) = p - f
      BY <1>7, <3>1
    <3>3. file[e].mod \in I /\ P(file[e].mod) = f + (p - f)
      BY <1>1, <1>3, <3>2
    <3>4. P(file[e].mod) = p
      BY <1>1, <3>3
    <3>5. QED
      BY <1>1, <3>3, <3>4
  <2>4. CASE a <= p
    <3>1. p - a \in 0..(r - 1)
      BY <1>1, <1>2, <2>4
    <3>2. PICK m \in R : Before(R, m) = p - a
      BY <1>5, <3>1
    <3>3. P(m) = p
      BY <1>1, <1>2, <1>3, <3>2
    <3>4. QED
      BY <1>1, <3>3
  <2>5. QED
    BY <1>1, <1>2, <2>1, <2>2, <2>3, <2>4
<1>10. \A m \in F : P(m) \in 0..(f - 1)
  BY <1>1, <1>3, <1>4
<1>11. \A m \in I : P(m) \in f..(a - 1)
  BY <1>1, <1>2, <1>3, <1>8
<1>12. \A m \in R : P(m) \in a..(n - 1)
  BY <1>1, <1>2, <1>3, <1>5
<1>13. \A m \in B : P(m) \in n..(Len(mods) - 2)
  BY <1>1, <1>2, <1>3, <1>6
<1>14. /\ a \in Nat /\ n \in Nat /\ n = Cardinality(Managed(mods))
       /\ f <= a /\ a <= n /\ n + b = Len(mods) - 1
  BY <1>1, <1>2
<1>15. QED
  BY <1>1, <1>3, <1>9, <1>10, <1>11, <1>12, <1>13, <1>14 DEF F, I, R, B, K, P, L, f, b, a, n

\* Backups and the overwrite directory are above the mods that can be moved.
AutomaticPriority(mods, m) ==
  IF m = Overwrite THEN Len(mods) - 1
  ELSE Cardinality(Managed(mods)) + Before(BackupsOf(mods), m)

ProfilesOf(mods) == [status : [DOMAIN mods -> ModStatus], managed : Nat]

\* Every mod has a priority of its own. Those of the mods that can be moved are
\* the ones below the number of managed mods, without a gap.
ListInOrder(profile, mods) ==
  /\ profile \in ProfilesOf(mods)
  /\ profile.managed = Cardinality(Managed(mods))
  /\ \A i \in DOMAIN mods : profile.status[i].priority \in 0..(Len(mods) - 1)
  /\ \A i \in DOMAIN mods :
       ~HasAutomaticPriority(mods[i]) <=> profile.status[i].priority \in 0..(profile.managed - 1)
  /\ \A i, j \in DOMAIN mods :
       i # j => profile.status[i].priority # profile.status[j].priority
  /\ \A p \in 0..(profile.managed - 1) : \E i \in DOMAIN mods : profile.status[i].priority = p
  /\ \A i \in DOMAIN mods :
       /\ HasAutomaticPriority(mods[i]) =>
            profile.status[i].priority = AutomaticPriority(mods, mods[i])
       /\ AlwaysEnabled(mods[i]) => profile.status[i].enabled
       /\ AlwaysDisabled(mods[i]) => ~profile.status[i].enabled

\* Two mods do not get one priority.
LEMMA ReadApart ==
  ASSUME NEW mods, IsCollection(mods), NEW file \in Seq(Lines),
         NEW m \in ToSet(mods), NEW q \in ToSet(mods),
         PriorityRead(file, mods, m) = PriorityRead(file, mods, q)
  PROVE  m = q
<1> DEFINE F == New(file, mods, Foreign)
           I == InFile(file, mods)
           R == New(file, mods, Regular)
           B == BackupsOf(mods)
           K == Known(file, mods)
           P(x) == PriorityRead(file, mods, x)
           L(x) == LineOf(file, mods, x)
           f == Cardinality(F)
           a == Above(file, mods)
           n == ManagedOf(file, mods)
           l == Len(mods)
<1>1. /\ K \in SUBSET Nat /\ IsFiniteSet(K)
      /\ ToSet(mods) = F \cup I \cup R \cup B \cup {Overwrite}
      /\ IsFiniteSet(F) /\ IsFiniteSet(R) /\ IsFiniteSet(B)
      /\ F \in SUBSET Mods /\ R \in SUBSET Mods /\ B \in SUBSET Mods
      /\ \A x \in I : L(x) \in K /\ file[L(x)].mod = x
  BY ReadKinds
<1>2. /\ f \in Nat /\ a \in Nat /\ n \in Nat /\ l \in Nat
      /\ f <= a /\ a <= n
      /\ \A x \in F : P(x) \in 0..(f - 1) /\ P(x) = f - 1 - Before(F, x)
      /\ \A x \in I : P(x) \in f..(a - 1) /\ P(x) = f + After(K, L(x))
      /\ \A x \in R : P(x) \in a..(n - 1) /\ P(x) = a + Before(R, x)
      /\ \A x \in B : P(x) \in n..(l - 2) /\ P(x) = n + Before(B, x)
      /\ P(Overwrite) = l - 1 /\ n <= l - 1
  <2>1. Cardinality(B) \in Nat
    BY ReadKinds
  <2>2. QED
    BY <2>1, ReadPlaces, CollectionFacts
<1>3. /\ \A x \in F : Before(F, x) \in Int
      /\ \A x, y \in F : Before(F, x) = Before(F, y) => x = y
  BY <1>1, BeforeRanks
<1>4. /\ \A x \in R : Before(R, x) \in Int
      /\ \A x, y \in R : Before(R, x) = Before(R, y) => x = y
  BY <1>1, BeforeRanks
<1>5. /\ \A x \in B : Before(B, x) \in Int
      /\ \A x, y \in B : Before(B, x) = Before(B, y) => x = y
  BY <1>1, BeforeRanks
<1>6. /\ \A x \in K : After(K, x) \in Int
      /\ \A x, y \in K : After(K, x) = After(K, y) => x = y
  BY <1>1, AfterRanks
<1>7. P(m) = P(q)
  OBVIOUS
<1> HIDE DEF F, I, R, B, K, P, L, f, a, n, l
<1>8. /\ \A x \in F : P(x) \in Int /\ P(x) < f
      /\ \A x \in I : P(x) \in Int /\ f <= P(x) /\ P(x) < a
      /\ \A x \in R : P(x) \in Int /\ a <= P(x) /\ P(x) < n
      /\ \A x \in B : P(x) \in Int /\ n <= P(x) /\ P(x) < l - 1
      /\ P(Overwrite) = l - 1
  BY <1>2
<1>9. m \in F \/ m \in I \/ m \in R \/ m \in B \/ m = Overwrite
  BY <1>1
<1>10. q \in F \/ q \in I \/ q \in R \/ q \in B \/ q = Overwrite
  BY <1>1
<1>17. f \in Nat /\ a \in Nat /\ n \in Nat /\ l \in Nat /\ f <= a /\ a <= n /\ n <= l - 1
  BY <1>2
<1>11. CASE m \in F
  <2>1. q \in F
    BY <1>17, <1>7, <1>8, <1>10, <1>11
  <2>2. P(m) = f - 1 - Before(F, m) /\ P(q) = f - 1 - Before(F, q)
    BY <1>2, <1>11, <2>1
  <2>3. Before(F, m) \in Int /\ Before(F, q) \in Int
    BY <1>3, <1>11, <2>1
  <2>4. f - 1 - Before(F, m) = f - 1 - Before(F, q)
    BY <1>7, <2>2, Zenon
  <2>5. Before(F, m) = Before(F, q)
    BY <1>17, <2>3, <2>4
  <2>6. QED
    BY <1>3, <1>11, <2>1, <2>5
<1>12. CASE m \in I
  <2>1. q \in I
    BY <1>17, <1>7, <1>8, <1>10, <1>12
  <2>2. P(m) = f + After(K, L(m)) /\ P(q) = f + After(K, L(q))
    BY <1>2, <1>12, <2>1
  <2>3. L(m) \in K /\ L(q) \in K /\ file[L(m)].mod = m /\ file[L(q)].mod = q
    BY <1>1, <1>12, <2>1
  <2>4. After(K, L(m)) \in Int /\ After(K, L(q)) \in Int
    BY <1>6, <2>3
  <2>5. f + After(K, L(m)) = f + After(K, L(q))
    BY <1>7, <2>2, Zenon
  <2>6. After(K, L(m)) = After(K, L(q))
    BY <1>17, <2>4, <2>5
  <2>7. L(m) = L(q)
    BY <1>6, <2>3, <2>6
  <2>8. QED
    BY <2>3, <2>7
<1>13. CASE m \in R
  <2>1. q \in R
    BY <1>17, <1>7, <1>8, <1>10, <1>13
  <2>2. P(m) = a + Before(R, m) /\ P(q) = a + Before(R, q)
    BY <1>2, <1>13, <2>1
  <2>3. Before(R, m) \in Int /\ Before(R, q) \in Int
    BY <1>4, <1>13, <2>1
  <2>4. a + Before(R, m) = a + Before(R, q)
    BY <1>7, <2>2, Zenon
  <2>5. Before(R, m) = Before(R, q)
    BY <1>17, <2>3, <2>4
  <2>6. QED
    BY <1>4, <1>13, <2>1, <2>5
<1>14. CASE m \in B
  <2>1. q \in B
    BY <1>17, <1>7, <1>8, <1>10, <1>14
  <2>2. P(m) = n + Before(B, m) /\ P(q) = n + Before(B, q)
    BY <1>2, <1>14, <2>1
  <2>3. Before(B, m) \in Int /\ Before(B, q) \in Int
    BY <1>5, <1>14, <2>1
  <2>4. n + Before(B, m) = n + Before(B, q)
    BY <1>7, <2>2, Zenon
  <2>5. Before(B, m) = Before(B, q)
    BY <1>17, <2>3, <2>4
  <2>6. QED
    BY <1>5, <1>14, <2>1, <2>5
<1>15. CASE m = Overwrite
  <2>1. P(q) = l - 1
    BY <1>7, <1>8, <1>15, Zenon
  <2>2. q \notin F /\ q \notin I /\ q \notin R /\ q \notin B
    BY <1>8, <1>17, <2>1
  <2>3. QED
    BY <1>10, <1>15, <2>2
<1>16. QED
  BY <1>9, <1>11, <1>12, <1>13, <1>14, <1>15

\* refreshModStatus puts the list in order, whatever is in the file.
LEMMA ReadInOrder ==
  ASSUME NEW mods, IsCollection(mods), NEW file \in Seq(Lines)
  PROVE  LET read == RefreshModStatus(file, mods)
         IN  /\ ListInOrder(read.profile, mods)
             /\ read.modified \in BOOLEAN
             /\ \A i \in DOMAIN mods : read.profile.status[i].priority = PriorityRead(file, mods, mods[i])
             /\ \A i \in DOMAIN mods : read.profile.status[i].enabled = EnabledRead(file, mods, mods[i])
             /\ read.modified = MustWrite(file, mods)
<1> DEFINE F == New(file, mods, Foreign)
           I == InFile(file, mods)
           R == New(file, mods, Regular)
           B == BackupsOf(mods)
           P(x) == PriorityRead(file, mods, x)
           E(x) == EnabledRead(file, mods, x)
           f == Cardinality(F)
           a == Above(file, mods)
           n == ManagedOf(file, mods)
           read == RefreshModStatus(file, mods)
<1>1. /\ read.profile = [status |-> [i \in DOMAIN mods |-> [enabled |-> E(mods[i]), priority |-> P(mods[i])]],
                         managed |-> n]
      /\ read.modified = MustWrite(file, mods)
  BY ReadIs, Zenon
<1>2. \A m : E(m) \in BOOLEAN
  <2>1. \A m \in InFile(file, mods) : file[LineOf(file, mods, m)].on \in BOOLEAN
    <3>1. SUFFICES ASSUME NEW m \in InFile(file, mods)
                   PROVE  file[LineOf(file, mods, m)].on \in BOOLEAN
      OBVIOUS
    <3>2. LineOf(file, mods, m) \in Known(file, mods)
      BY ReadKinds
    <3>3. LineOf(file, mods, m) \in DOMAIN file
      BY <3>2 DEF Known, NamesRead
    <3>4. file[LineOf(file, mods, m)] \in Lines
      BY <3>3
    <3>5. QED
      BY <3>4 DEF Lines
  <2>2. QED
    BY <2>1 DEF EnabledRead, AlwaysEnabled
<1>3. /\ ToSet(mods) = F \cup I \cup R \cup B \cup {Overwrite}
      /\ Managed(mods) = F \cup I \cup R
      /\ B \cap Managed(mods) = {} /\ Overwrite \notin Managed(mods)
  BY ReadKinds
<1>4. /\ f \in Nat /\ a \in Nat /\ n \in Nat /\ n = Cardinality(Managed(mods))
      /\ f <= a /\ a <= n /\ n <= Len(mods) - 1
      /\ \A m \in F : P(m) \in 0..(f - 1)
      /\ \A m \in I : P(m) \in f..(a - 1)
      /\ \A m \in R : P(m) \in a..(n - 1)
      /\ \A m \in B : P(m) \in n..(Len(mods) - 2)
      /\ P(Overwrite) = Len(mods) - 1
      /\ \A p \in 0..(n - 1) : \E m \in Managed(mods) : P(m) = p
  <2>1. Cardinality(B) \in Nat
    BY ReadKinds
  <2>2. QED
    BY <2>1, ReadPlaces, CollectionFacts
<1>5. /\ Len(mods) \in Nat \ {0} /\ \A i \in DOMAIN mods : mods[i] \in ToSet(mods)
      /\ \A m \in ToSet(mods) : \E i \in DOMAIN mods : mods[i] = m
      /\ \A i, j \in DOMAIN mods : mods[i] = mods[j] => i = j
  BY CollectionFacts
<1>6. MustWrite(file, mods) \in BOOLEAN
  BY DEF MustWrite
<1>7. \A m, q \in ToSet(mods) : P(m) = P(q) => m = q
  BY ReadApart
<1>17. \A m \in B : P(m) = n + Before(B, m)
  BY ReadPlaces
<1> HIDE DEF F, I, R, B, P, E, f, a, n, read
<1>8. \A m \in ToSet(mods) : P(m) \in 0..(Len(mods) - 1) /\ (m \in Managed(mods) <=> P(m) \in 0..(n - 1))
  <2>1. \A m \in Managed(mods) : P(m) \in 0..(n - 1)
    <3>1. \A m \in F : P(m) \in 0..(n - 1)
      BY <1>4
    <3>2. \A m \in I : P(m) \in 0..(n - 1)
      BY <1>4
    <3>3. \A m \in R : P(m) \in 0..(n - 1)
      BY <1>4
    <3>4. QED
      BY <1>3, <3>1, <3>2, <3>3
  <2>2. \A m \in B \cup {Overwrite} : P(m) \in n..(Len(mods) - 1)
    <3>1. \A m \in B : P(m) \in n..(Len(mods) - 1)
      BY <1>4, <1>5
    <3>2. P(Overwrite) \in n..(Len(mods) - 1)
      BY <1>4, <1>5
    <3>3. QED
      BY <3>1, <3>2
  <2>3. \A m \in ToSet(mods) : m \notin Managed(mods) => m \in B \cup {Overwrite}
    BY <1>3
  <2>4. ASSUME NEW p \in 0..(n - 1) PROVE p \in 0..(Len(mods) - 1)
    BY <1>4, <1>5
  <2>5. ASSUME NEW p \in n..(Len(mods) - 1)
        PROVE  p \in 0..(Len(mods) - 1) /\ p \notin 0..(n - 1)
    BY <1>4, <1>5
  <2>6. QED
    BY <2>1, <2>2, <2>3, <2>4, <2>5
<1>9. \A i \in DOMAIN mods : ~HasAutomaticPriority(mods[i]) <=> mods[i] \in Managed(mods)
  BY <1>5 DEF Managed
<1> DEFINE status == [i \in DOMAIN mods |-> [enabled |-> E(mods[i]), priority |-> P(mods[i])]]
<1>10. /\ status \in [DOMAIN mods -> ModStatus]
       /\ \A i \in DOMAIN mods : status[i].priority = P(mods[i]) /\ status[i].enabled = E(mods[i])
  BY <1>2, <1>5, <1>8 DEF ModStatus
<1>11. /\ read.profile \in ProfilesOf(mods)
       /\ read.profile.managed = n /\ read.profile.status = status
  BY <1>1, <1>4, <1>10 DEF ProfilesOf
<1> HIDE DEF status
<1>12. \A p \in 0..(n - 1) : \E i \in DOMAIN mods : status[i].priority = p
  <2>1. SUFFICES ASSUME NEW p \in 0..(n - 1) PROVE \E i \in DOMAIN mods : status[i].priority = p
    OBVIOUS
  <2>2. PICK m \in Managed(mods) : P(m) = p
    BY <1>4
  <2>3. PICK i \in DOMAIN mods : mods[i] = m
    BY <1>5 DEF Managed
  <2>4. QED
    BY <1>10, <2>2, <2>3
<1>13. \A i, j \in DOMAIN mods : i # j => status[i].priority # status[j].priority
  BY <1>5, <1>7, <1>10
<1>16. \A i \in DOMAIN mods :
         /\ HasAutomaticPriority(mods[i]) => status[i].priority = AutomaticPriority(mods, mods[i])
         /\ AlwaysEnabled(mods[i]) => status[i].enabled
         /\ AlwaysDisabled(mods[i]) => ~status[i].enabled
  <2>1. SUFFICES ASSUME NEW i \in DOMAIN mods
                 PROVE  /\ HasAutomaticPriority(mods[i]) =>
                             status[i].priority = AutomaticPriority(mods, mods[i])
                        /\ AlwaysEnabled(mods[i]) => status[i].enabled
                        /\ AlwaysDisabled(mods[i]) => ~status[i].enabled
    OBVIOUS
  <2>2. AlwaysEnabled(mods[i]) => status[i].enabled
    BY <1>10 DEF E, EnabledRead
  <2>3. ASSUME AlwaysDisabled(mods[i]) PROVE ~status[i].enabled
    <3>1. mods[i] \notin I /\ ~AlwaysEnabled(mods[i])
      <4>1. mods[i] \in Backups
        BY <2>3 DEF AlwaysDisabled
      <4>2. mods[i] \notin Managed(mods)
        BY <4>1 DEF Managed, HasAutomaticPriority
      <4>3. QED
        BY <1>3, <4>1, <4>2, KindsAssumption DEF AlwaysEnabled
    <3>2. QED
      BY <1>10, <3>1 DEF E, EnabledRead, I
  <2>4. ASSUME HasAutomaticPriority(mods[i])
        PROVE  status[i].priority = AutomaticPriority(mods, mods[i])
    <3>1. CASE mods[i] = Overwrite
      BY <1>4, <1>10, <3>1 DEF AutomaticPriority
    <3>2. CASE mods[i] # Overwrite
      <4>1. mods[i] \in B
        BY <1>5, <2>4, <3>2 DEF HasAutomaticPriority, B, BackupsOf
      <4>2. P(mods[i]) = n + Before(B, mods[i])
        BY <1>17, <4>1
      <4>3. QED
        BY <1>4, <1>10, <3>2, <4>2 DEF AutomaticPriority, B
    <3>3. QED
      BY <3>1, <3>2
  <2>5. QED
    BY <2>2, <2>3, <2>4
<1>14. ListInOrder(read.profile, mods)
  BY <1>4, <1>5, <1>8, <1>9, <1>10, <1>11, <1>12, <1>13, <1>16 DEF ListInOrder
<1>15. QED
  BY <1>1, <1>6, <1>10, <1>11, <1>14 DEF read, P, E

\* Where the mods of a list go when one moves between two places.
Shifted(p, from, to) ==
  IF p = from THEN to
  ELSE IF to <= p /\ p < from THEN p + 1
  ELSE IF from < p /\ p <= to THEN p - 1 ELSE p

-----------------------------------------------------------------------------

\* The places are permuted, the others stay in order, and back is the way it came.
LEMMA ShiftPermutes ==
  ASSUME NEW n \in Nat, NEW from \in 0..(n - 1), NEW to \in 0..(n - 1)
  PROVE  /\ \A p \in Int : /\ Shifted(p, from, to) \in Int
                           /\ Shifted(Shifted(p, from, to), to, from) = p
                           /\ Shifted(p, from, to) \in 0..(n - 1) <=> p \in 0..(n - 1)
                           /\ p \notin 0..(n - 1) => Shifted(p, from, to) = p
         /\ \A p, q \in Int : Shifted(p, from, to) = Shifted(q, from, to) => p = q
         /\ \A p, q \in Int \ {from} :
              p < q <=> Shifted(p, from, to) < Shifted(q, from, to)
<1>1. ASSUME NEW p \in Int
      PROVE  /\ Shifted(p, from, to) \in Int
             /\ Shifted(Shifted(p, from, to), to, from) = p
             /\ Shifted(p, from, to) \in 0..(n - 1) <=> p \in 0..(n - 1)
             /\ p \notin 0..(n - 1) => Shifted(p, from, to) = p
  BY DEF Shifted
<1>2. ASSUME NEW p \in Int, NEW q \in Int
      PROVE  Shifted(p, from, to) = Shifted(q, from, to) => p = q
  BY <1>1
<1>3. ASSUME NEW p \in Int \ {from}, NEW q \in Int \ {from}
      PROVE  p < q <=> Shifted(p, from, to) < Shifted(q, from, to)
  BY DEF Shifted
<1>4. QED
  BY <1>1, <1>2, <1>3

\* The new priority is one that a managed mod can have.
LEMMA ClampIsPlace ==
  ASSUME NEW target \in Int, NEW n \in Nat \ {0}
  PROVE  /\ Clamp(target, 0, n - 1) \in 0..(n - 1)
         /\ target \in 0..(n - 1) => Clamp(target, 0, n - 1) = target
BY DEF Clamp

\* What setModPriority does to the list, without the loop.
LEMMA SetModPriorityShifts ==
  ASSUME NEW mods, NEW profile, ListInOrder(profile, mods),
         NEW i \in DOMAIN mods, ~HasAutomaticPriority(mods[i]), NEW target \in Int
  PROVE  LET done == SetModPriority(profile, mods, i, target)
             from == profile.status[i].priority
         IN  /\ done.to = Clamp(target, 0, profile.managed - 1)
             /\ from \in 0..(profile.managed - 1)
             /\ done.to \in 0..(profile.managed - 1)
             /\ done.profile \in ProfilesOf(mods)
             /\ done.profile.managed = profile.managed
             /\ \A j \in DOMAIN mods :
                  /\ done.profile.status[j].enabled = profile.status[j].enabled
                  /\ done.profile.status[j].priority
                       = Shifted(profile.status[j].priority, from, done.to)
<1> USE DEF ProfilesOf, ModStatus
<1> DEFINE to    == Clamp(target, 0, profile.managed - 1)
           from  == profile.status[i].priority
           old   == profile.status
           new   == [j \in DOMAIN mods |-> [old[j] EXCEPT !.priority = Shifted(@, from, to)]]
<1>1. /\ profile.managed \in Nat /\ old \in [DOMAIN mods -> ModStatus]
      /\ profile \in ProfilesOf(mods)
      /\ from \in 0..(profile.managed - 1)
      /\ \A j \in DOMAIN mods : j # i => old[j].priority # from
  BY DEF ListInOrder
<1>2. to \in 0..(profile.managed - 1)
  BY <1>1, ClampIsPlace
<1>3. \A j \in DOMAIN mods : Shifted(old[j].priority, from, to) \in Int
  BY <1>1, <1>2, ShiftPermutes
<1>4. SetModPriority(profile, mods, i, target) = [profile |-> [profile EXCEPT !.status = new], to |-> to]
  <2> DEFINE at(j) == old[j].priority
             moved(j) == IF j = i THEN to
                         ELSE IF to <= at(j) /\ at(j) < at(i) THEN at(j) + 1
                         ELSE IF at(i) < at(j) /\ at(j) <= to THEN at(j) - 1 ELSE at(j)
             entry(j) == [old[j] EXCEPT !.priority = moved(j)]
             loop == [j \in DOMAIN old |-> entry(j)]
  <2>1. SetModPriority(profile, mods, i, target) = [profile |-> [profile EXCEPT !.status = loop], to |-> to]
    BY Zenon DEF SetModPriority
  <2>2. \A j \in DOMAIN mods : entry(j) = new[j]
    BY <1>1 DEF Shifted
  <2>3. DOMAIN old = DOMAIN mods
    BY <1>1
  <2> HIDE DEF entry
  <2>4. loop = [j \in DOMAIN mods |-> entry(j)]
    BY <2>3
  <2>5. loop = new
    BY <2>2, <2>4
  <2>6. QED
    BY <2>1, <2>5
<1>5. /\ new \in [DOMAIN mods -> ModStatus]
      /\ \A j \in DOMAIN mods : /\ new[j].enabled = old[j].enabled
                                /\ new[j].priority = Shifted(old[j].priority, from, to)
  BY <1>1, <1>3
<1> HIDE DEF new
<1>6. QED
  BY <1>1, <1>2, <1>4, <1>5

\* setModPriority, for any list, mod and target: every mod keeps a priority of its
\* own without a gap, mods with automatic priorities keep theirs, the mod gets the
\* priority asked for as far as there is one like that, and the others stay as
\* they were among each other (profile.cpp:677 to 710).
THEOREM OneModMoves ==
  ASSUME NEW mods, NEW profile, ListInOrder(profile, mods),
         NEW i \in DOMAIN mods, NEW target \in Int
  PROVE  LET done  == SetModPriority(profile, mods, i, target)
             at(j) == profile.status[j].priority
             to(j) == done.profile.status[j].priority
         IN  /\ ListInOrder(done.profile, mods)
             /\ \A j \in DOMAIN mods : HasAutomaticPriority(mods[j]) => to(j) = at(j)
             /\ ~HasAutomaticPriority(mods[i]) =>
                  /\ to(i) = done.to
                  /\ target \in 0..(profile.managed - 1) => to(i) = target
             /\ \A j \in DOMAIN mods : done.profile.status[j].enabled = profile.status[j].enabled
             /\ \A j, k \in DOMAIN mods \ {i} : at(j) < at(k) <=> to(j) < to(k)
             /\ done.to \in Int
<1> USE DEF ProfilesOf, ModStatus
<1> DEFINE done  == SetModPriority(profile, mods, i, target)
           at(j) == profile.status[j].priority
           to(j) == done.profile.status[j].priority
<1>1. CASE HasAutomaticPriority(mods[i])
  <2>1. done = [profile |-> profile, to |-> target]
    BY <1>1 DEF SetModPriority
  <2>2. QED
    BY <1>1, <2>1
<1>2. CASE ~HasAutomaticPriority(mods[i])
  <2> DEFINE n == profile.managed
  <2>1. /\ done.to = Clamp(target, 0, n - 1)
        /\ at(i) \in 0..(n - 1) /\ done.to \in 0..(n - 1)
        /\ done.profile \in ProfilesOf(mods)
        /\ done.profile.managed = n
        /\ \A j \in DOMAIN mods : /\ to(j) = Shifted(at(j), at(i), done.to)
                                  /\ done.profile.status[j].enabled = profile.status[j].enabled
    BY <1>2, SetModPriorityShifts
  <2>2. /\ n \in Nat
        /\ \A j \in DOMAIN mods : at(j) \in Int
        /\ \A j \in DOMAIN mods : ~HasAutomaticPriority(mods[j]) <=> at(j) \in 0..(n - 1)
        /\ \A j, k \in DOMAIN mods : j # k => at(j) # at(k)
        /\ \A p \in 0..(n - 1) : \E j \in DOMAIN mods : at(j) = p
    BY DEF ListInOrder
  <2> DEFINE from == at(i)
             dest == done.to
  <2> HIDE DEF done, n, at, to, from, dest
  <2>a. n \in Nat /\ from \in 0..(n - 1) /\ dest \in 0..(n - 1)
    BY <2>1, <2>2 DEF from, dest
  <2>b. from \in Int /\ \A j \in DOMAIN mods : to(j) = Shifted(at(j), from, dest)
    BY <2>1, <2>a DEF from, dest
  <2>3. /\ \A p \in Int : /\ Shifted(p, from, dest) \in Int
                          /\ Shifted(p, from, dest) \in 0..(n - 1) <=> p \in 0..(n - 1)
                          /\ p \notin 0..(n - 1) => Shifted(p, from, dest) = p
        /\ \A p, q \in Int : Shifted(p, from, dest) = Shifted(q, from, dest) => p = q
        /\ \A p, q \in Int \ {from} :
             p < q <=> Shifted(p, from, dest) < Shifted(q, from, dest)
    BY <2>a, ShiftPermutes
  <2>4. \A p \in Int : Shifted(Shifted(p, dest, from), from, dest) = p
                       /\ Shifted(p, dest, from) \in Int
                       /\ (Shifted(p, dest, from) \in 0..(n - 1) <=> p \in 0..(n - 1))
    BY <2>a, ShiftPermutes
  <2>5. \A j \in DOMAIN mods : ~HasAutomaticPriority(mods[j]) <=> to(j) \in 0..(n - 1)
    BY <2>b, <2>2, <2>3
  <2>6. \A j, k \in DOMAIN mods : j # k => to(j) # to(k)
    BY <2>b, <2>2, <2>3
  <2>7. ASSUME NEW p \in 0..(n - 1)
        PROVE  \E j \in DOMAIN mods : to(j) = p
    <3>1. Shifted(p, dest, from) \in 0..(n - 1)
      BY <2>2, <2>4
    <3>2. PICK j \in DOMAIN mods : at(j) = Shifted(p, dest, from)
      BY <2>2, <3>1
    <3>3. to(j) = p
      BY <2>b, <2>2, <2>4, <3>2
    <3>4. QED
      BY <3>3
  <2>9. \A j \in DOMAIN mods : HasAutomaticPriority(mods[j]) => to(j) = at(j)
    BY <2>b, <2>2, <2>3
  <2>c. \A j \in DOMAIN mods : to(j) \in 0..(Len(mods) - 1)
    <3>1. SUFFICES ASSUME NEW j \in DOMAIN mods PROVE to(j) \in 0..(Len(mods) - 1)
      OBVIOUS
    <3>2. \A k \in DOMAIN mods : at(k) \in 0..(Len(mods) - 1)
      BY DEF ListInOrder, at
    <3>3. CASE to(j) \in 0..(n - 1)
      BY <2>2, <3>2, <3>3
    <3>4. CASE to(j) \notin 0..(n - 1)
      BY <2>5, <2>9, <3>2, <3>4
    <3>5. QED
      BY <3>3, <3>4
  <2>d. \A j \in DOMAIN mods :
          /\ HasAutomaticPriority(mods[j]) => to(j) = AutomaticPriority(mods, mods[j])
          /\ AlwaysEnabled(mods[j]) => done.profile.status[j].enabled
          /\ AlwaysDisabled(mods[j]) => ~done.profile.status[j].enabled
    BY <2>1, <2>9 DEF ListInOrder, at
  <2>8. ListInOrder(done.profile, mods)
    <3>1. n = Cardinality(Managed(mods))
      BY DEF ListInOrder, n
    <3>2. QED
      BY <2>1, <2>5, <2>6, <2>7, <2>c, <2>d, <3>1 DEF ListInOrder, to
  <2>10. to(i) = done.to /\ (target \in 0..(n - 1) => to(i) = target)
    <3>1. to(i) = done.to
      BY <2>b DEF Shifted, from, dest
    <3>2. target \in 0..(n - 1) => done.to = target
      BY <2>1, <2>2 DEF Clamp
    <3>3. QED
      BY <3>1, <3>2
  <2>11. \A j, k \in DOMAIN mods \ {i} : at(j) < at(k) <=> to(j) < to(k)
    <3>1. \A j \in DOMAIN mods \ {i} : at(j) \in Int \ {from}
      BY <2>2 DEF from
    <3>2. QED
      BY <2>b, <2>3, <3>1
  <2>12. QED
    BY <1>2, <2>1, <2>a, <2>8, <2>9, <2>10, <2>11 DEF at, to, done, n, dest
<1>3. QED
  BY <1>1, <1>2

\* What that leaves of the order: the other mods keep theirs.
PlacedAs(placed, profile, mods, i) ==
  /\ ListInOrder(placed, mods)
  /\ \A j \in DOMAIN mods : placed.status[j].enabled = profile.status[j].enabled
  /\ \A j, k \in DOMAIN mods \ {i} : profile.status[j].priority < profile.status[k].priority
                                     <=> placed.status[j].priority < placed.status[k].priority

LEMMA OneModPlaced ==
  ASSUME NEW mods, NEW profile, ListInOrder(profile, mods),
         NEW i \in DOMAIN mods, NEW target \in Int,
         NEW placed, placed = SetModPriority(profile, mods, i, target).profile
  PROVE  PlacedAs(placed, profile, mods, i)
BY OneModMoves DEF PlacedAs

\* A mod that is moved and then given its old priority again leaves the list as
\* it was before.
THEOREM MovedBack ==
  ASSUME NEW mods, NEW profile, ListInOrder(profile, mods),
         NEW i \in DOMAIN mods, ~HasAutomaticPriority(mods[i]), NEW target \in Int
  PROVE  LET moved == SetModPriority(profile, mods, i, target).profile
         IN  SetModPriority(moved, mods, i, profile.status[i].priority).profile = profile
<1> USE DEF ProfilesOf, ModStatus
<1> DEFINE done  == SetModPriority(profile, mods, i, target)
           moved == done.profile
           from  == profile.status[i].priority
           back  == SetModPriority(moved, mods, i, from)
           n     == profile.managed
           T     == ProfilesOf(mods)
<1>1. /\ from \in 0..(n - 1) /\ done.to \in 0..(n - 1)
      /\ moved.managed = n
      /\ \A j \in DOMAIN mods :
           /\ moved.status[j].enabled = profile.status[j].enabled
           /\ moved.status[j].priority = Shifted(profile.status[j].priority, from, done.to)
  BY SetModPriorityShifts
<1>2. profile \in T /\ n \in Nat
  BY DEF ListInOrder
<1>3. ListInOrder(moved, mods) /\ moved.status[i].priority = done.to
  BY OneModMoves
<1>4. from \in Int
  BY <1>1, <1>2
<1> HIDE DEF moved, done
<1>5. /\ back.to = Clamp(from, 0, moved.managed - 1)
      /\ back.profile \in T
      /\ back.profile.managed = moved.managed
      /\ \A j \in DOMAIN mods :
           /\ back.profile.status[j].enabled = moved.status[j].enabled
           /\ back.profile.status[j].priority
                = Shifted(moved.status[j].priority, moved.status[i].priority, back.to)
  BY <1>3, <1>4, SetModPriorityShifts
<1>6. back.to = from
  BY <1>1, <1>2, <1>5 DEF Clamp
<1> HIDE DEF back, from, n
<1>7. \A j \in DOMAIN mods : back.profile.status[j] = profile.status[j]
  <2>1. SUFFICES ASSUME NEW j \in DOMAIN mods
                 PROVE  back.profile.status[j] = profile.status[j]
    OBVIOUS
  <2>2. /\ profile.status[j] \in ModStatus
        /\ back.profile.status[j] \in ModStatus
    BY <1>2, <1>5
  <2>3. back.profile.status[j].priority = profile.status[j].priority
    BY <1>1, <1>2, <1>3, <1>5, <1>6, <2>2, ShiftPermutes
  <2>4. back.profile.status[j].enabled = profile.status[j].enabled
    BY <1>1, <1>5
  <2>5. QED
    BY <2>2, <2>3, <2>4
<1>8. back.profile.status = profile.status
  BY <1>2, <1>5, <1>7
<1>9. back.profile = profile
  BY <1>1, <1>2, <1>5, <1>8 DEF n
<1>10. QED
  BY <1>9 DEF back, moved, done, from

-----------------------------------------------------------------------------
(* Reordering one mod after the other *)

\* What a profile may become when mods are moved, with the priority to move to.
Moved(profile, mods) ==
  {state \in [profile : ProfilesOf(mods), to : Int] :
     /\ ListInOrder(state.profile, mods)
     /\ \A i \in DOMAIN mods :
          state.profile.status[i].enabled = profile.status[i].enabled}

\* A move keeps a list one that was moved to.
LEMMA OneMoved ==
  ASSUME NEW mods, NEW profile, NEW state \in Moved(profile, mods),
         NEW i \in DOMAIN mods, NEW target \in Int
  PROVE  SetModPriority(state.profile, mods, i, target) \in Moved(profile, mods)
<1> DEFINE done == SetModPriority(state.profile, mods, i, target)
<1>1. /\ ListInOrder(state.profile, mods)
      /\ \A j \in DOMAIN mods : state.profile.status[j].enabled = profile.status[j].enabled
  BY DEF Moved
<1>2. /\ ListInOrder(done.profile, mods) /\ done.to \in Int
      /\ \A j \in DOMAIN mods :
           done.profile.status[j].enabled = state.profile.status[j].enabled
  BY <1>1, OneModMoves
<1>3. done = [profile |-> done.profile, to |-> done.to]
  BY DEF SetModPriority
<1> HIDE DEF done
<1>4. done.profile \in ProfilesOf(mods)
  BY <1>2 DEF ListInOrder
<1>5. QED
  BY <1>1, <1>2, <1>3, <1>4 DEF Moved, done

\* One mod of MoveEach.
MoveOne(state, mods, i, down) ==
  IF IF down THEN state.profile.status[i].priority > state.to
     ELSE state.profile.status[i].priority < state.to
  THEN SetModPriority(state.profile, mods, i, state.to) ELSE state

\* f goes through the mods of order one after the other, and keeps the list in order.
Takes(f, start, mods, profile, order, down) ==
  /\ MoveEach(start, mods, order, down) = f[Len(order)]
  /\ f[0] = start
  /\ \A k \in 0..Len(order) : f[k] \in Moved(profile, mods)
  /\ \A k \in 1..Len(order) : f[k] = MoveOne(f[k - 1], mods, order[k], down)

\* MoveEach, which ModList::changeModPriority goes through twice, moves one mod after
\* the other.
LEMMA MovesTaken ==
  ASSUME NEW mods, NEW profile, NEW start, start \in Moved(profile, mods), NEW down,
         down \in BOOLEAN, NEW order, order \in Seq(DOMAIN mods)
  PROVE  \E f : Takes(f, start, mods, profile, order, down)
<1> DEFINE P == Moved(profile, mods)
           n == Len(order)
           at(state, i) == state.profile.status[i].priority
           moves(state, i) == IF down THEN at(state, i) > state.to ELSE at(state, i) < state.to
           step(state, i) == IF moves(state, i)
                             THEN SetModPriority(state.profile, mods, i, state.to) ELSE state
           g == [x \in P \X DOMAIN mods |-> step(x[1], x[2])]
           Steps(f) == f = [k \in 0..n |-> IF k = 0 THEN start ELSE step(f[k - 1], order[k])]
           f == CHOOSE f : Steps(f)
<1>1. MoveEach(start, mods, order, down) = f[n]
  BY Zenon DEF MoveEach, Through
<1>2. ASSUME NEW state \in P, NEW i \in DOMAIN mods PROVE step(state, i) \in P
  <2>1. state.to \in Int
    BY DEF Moved
  <2>2. SetModPriority(state.profile, mods, i, state.to) \in P
    BY <2>1, OneMoved
  <2>3. QED
    BY <2>2
<1>3. n \in Nat /\ \A k \in 1..n : order[k] \in DOMAIN mods
  OBVIOUS
<1>4. \A state \in P, i \in DOMAIN mods : /\ g[<<state, i>>] = step(state, i)
                                          /\ step(state, i) = MoveOne(state, mods, i, down)
  <2>1. \A state \in P, i \in DOMAIN mods : step(state, i) = MoveOne(state, mods, i, down)
    BY Zenon DEF MoveOne
  <2> HIDE DEF step
  <2>2. QED
    BY <2>1
<1> HIDE DEF P, g, n, step
<1>5. StepsIn(P, DOMAIN mods, g, start, order, n)
  <2>1. start \in P
    BY DEF P
  <2>2. g \in [P \X DOMAIN mods -> P]
    BY <1>2 DEF g
  <2>3. QED
    BY <1>3, <2>1, <2>2 DEF StepsIn
<1>6. PICK h : Stepwise(h, P, g, start, order, n)
  BY <1>5, StepsTaken
<1>7. /\ h = [k \in 0..n |-> h[k]] /\ h[0] = start
      /\ \A k \in 1..n : h[k] = g[<<h[k - 1], order[k]>>]
      /\ \A k \in 0..n : h[k] \in P
  BY <1>6 DEF Stepwise
<1>9. \A k \in 0..n : h[k] = IF k = 0 THEN start ELSE step(h[k - 1], order[k])
  <2>1. SUFFICES ASSUME NEW k \in 0..n, k # 0 PROVE h[k] = step(h[k - 1], order[k])
    BY <1>7
  <2>2. k \in 1..n /\ k - 1 \in 0..n
    BY <1>3, <2>1
  <2>3. QED
    BY <1>3, <1>4, <1>7, <2>2
<1>10. Steps(h)
  BY <1>7, <1>9
<1> HIDE DEF Steps
<1>11. Steps(f)
  BY <1>10, Zenon
<1> HIDE DEF f
<1>12. f = [k \in 0..n |-> IF k = 0 THEN start ELSE step(f[k - 1], order[k])]
  BY <1>11 DEF Steps
<1>13. f[0] = start /\ \A k \in 1..n : f[k] = step(f[k - 1], order[k])
  BY <1>3, <1>12
<1>14. ASSUME NEW m \in 0..n PROVE f[m] \in P
  <2>1. ASSUME NEW k \in 1..m, f[k - 1] \in P PROVE f[k] \in P
    <3>1. k \in 1..n
      BY <1>3
    <3>2. QED
      BY <1>2, <1>3, <1>13, <2>1, <3>1
  <2>2. m \in Nat /\ f[0] \in P
    BY <1>3, <1>13 DEF P
  <2>3. QED
    BY <2>1, <2>2, StepsStay
<1>15. \A k \in 1..n : f[k] = MoveOne(f[k - 1], mods, order[k], down)
  <2>1. \A k \in 1..n : k - 1 \in 0..n
    BY <1>3
  <2>2. QED
    BY <1>3, <1>4, <1>13, <1>14, <2>1
<1>16. Takes(f, start, mods, profile, order, down)
  BY <1>1, <1>13, <1>14, <1>15 DEF P, n, Takes
<1>17. QED
  BY <1>16

\* Going through the mods keeps the list in order.
LEMMA EachMoved ==
  ASSUME NEW mods, NEW profile, NEW start \in Moved(profile, mods), NEW down \in BOOLEAN,
         NEW order \in Seq(DOMAIN mods)
  PROVE  MoveEach(start, mods, order, down) \in Moved(profile, mods)
<1>1. PICK f : Takes(f, start, mods, profile, order, down)
  BY MovesTaken
<1>2. Len(order) \in 0..Len(order)
  OBVIOUS
<1>3. QED
  BY <1>1, <1>2 DEF Takes

\* changeModPriority and changeModsPriority, for any list, mods and target: the
\* list stays in order and the mods as enabled as they were.
THEOREM ManyModsMove ==
  ASSUME NEW mods, IsCollection(mods), NEW profile, ListInOrder(profile, mods),
         NEW indices \in SUBSET DOMAIN mods, indices # {}, NEW target \in Int
  PROVE  LET done == ChangeModsPriority(profile, mods, indices, target)
         IN  /\ ListInOrder(done, mods)
             /\ \A i \in DOMAIN mods : done.status[i].enabled = profile.status[i].enabled
<1> DEFINE P == Moved(profile, mods)
           at(state, i) == state.profile.status[i].priority
           start   == [profile |-> profile, to |-> target]
           first   == SortedBy(indices, [i \in indices |-> -at(start, i)])
           lowered == MoveEach(start, mods, first, TRUE)
           below   == IF \E i \in indices : at(lowered, i) < lowered.to
                      THEN [lowered EXCEPT !.to = @ - 1] ELSE lowered
           second  == SortedBy(indices, [i \in indices |-> at(below, i)])
           raised  == MoveEach(below, mods, second, FALSE)
           single(i) == SetModPriority(profile, mods, i, target)
<1>1. start \in P
  BY DEF Moved, ListInOrder
<1>2. IsFiniteSet(indices)
  <2>1. DOMAIN mods = 1..Len(mods) /\ Len(mods) \in Nat
    BY CollectionFacts
  <2>2. IsFiniteSet(1..Len(mods))
    BY <2>1, FS_Interval
  <2>3. QED
    BY <2>1, <2>2, FS_Subset
<1>3. ASSUME NEW state \in P
      PROVE  /\ \A i \in DOMAIN mods : at(state, i) \in Int
             /\ \A i, j \in DOMAIN mods : at(state, i) = at(state, j) => i = j
  BY DEF Moved, ListInOrder, ProfilesOf, ModStatus
<1>4. ASSUME NEW state \in P
      PROVE  /\ SortedBy(indices, [i \in indices |-> -at(state, i)]) \in Seq(DOMAIN mods)
             /\ SortedBy(indices, [i \in indices |-> at(state, i)]) \in Seq(DOMAIN mods)
  <2> DEFINE up   == [i \in indices |-> at(state, i)]
             down == [i \in indices |-> -at(state, i)]
  <2>1. /\ \A i \in indices : at(state, i) \in Int
        /\ \A i, j \in indices : at(state, i) = at(state, j) => i = j
    BY <1>3
  <2>2. Keys(indices, up)
    BY <1>2, <2>1 DEF Keys
  <2>3. Keys(indices, down)
    <3>1. /\ \A i \in indices : down[i] = -at(state, i) /\ down[i] \in Int
      BY <2>1
    <3>2. \A i, j \in indices : -at(state, i) = -at(state, j) => i = j
      BY <2>1
    <3> HIDE DEF down, at
    <3>3. \A i, j \in indices : down[i] = down[j] => i = j
      BY <3>1, <3>2
    <3>4. QED
      BY <1>2, <3>1, <3>3 DEF Keys
  <2> HIDE DEF up, down
  <2>4. SortedBy(indices, up) \in Seq(indices) /\ SortedBy(indices, down) \in Seq(indices)
    BY <2>2, <2>3, SortedLists
  <2>5. QED
    BY <2>4 DEF up, down
<1> HIDE DEF start
<1>5. first \in Seq(DOMAIN mods)
  BY <1>1, <1>4
<1> HIDE DEF first
<1>6. lowered \in P
  BY <1>1, <1>5, EachMoved
<1> HIDE DEF lowered
<1>7. below \in P
  <2>1. lowered.to - 1 \in Int /\ lowered \in [profile : ProfilesOf(mods), to : Int]
    BY <1>6 DEF Moved
  <2>2. [lowered EXCEPT !.to = @ - 1] \in P
    BY <1>6, <2>1 DEF Moved
  <2>3. QED
    BY <1>6, <2>2
<1> HIDE DEF below
<1>8. second \in Seq(DOMAIN mods)
  BY <1>4, <1>7
<1> HIDE DEF second
<1>9. raised \in P
  BY <1>7, <1>8, EachMoved
<1>10. ChangeModPriority(profile, mods, indices, target) = raised.profile
  BY Zenon DEF ChangeModPriority, raised, second, below, lowered, first, start
<1>11. ASSUME NEW i \in DOMAIN mods PROVE single(i) \in P
  <2>1. single(i) = SetModPriority(start.profile, mods, i, target)
    BY DEF start
  <2>2. QED
    BY <1>1, <2>1, OneMoved
<1> HIDE DEF raised, single
<1>12. ChangeModsPriority(profile, mods, indices, target) \in
         {raised.profile} \cup {single(i).profile : i \in DOMAIN mods}
  <2>1. (CHOOSE i \in indices : TRUE) \in DOMAIN mods
    OBVIOUS
  <2>2. QED
    BY <1>10, <2>1 DEF ChangeModsPriority, single
<1>13. \E state \in P : ChangeModsPriority(profile, mods, indices, target) = state.profile
  BY <1>9, <1>11, <1>12
<1>14. QED
  BY <1>13 DEF Moved

-----------------------------------------------------------------------------
(* What doWriteModlist writes *)

\* The states of some mods, each with a priority of its own.
Statuses(status, n) ==
  /\ n \in Nat /\ status \in [1..n -> ModStatus]
  /\ \A i, j \in 1..n : status[i].priority = status[j].priority => i = j

\* A file the program may have written: no name comes twice, and the mods that
\* cannot be disabled are enabled.
OwnFile(file) ==
  /\ \A j, k \in DOMAIN file : file[j].mod = file[k].mod => j = k
  /\ \A k \in DOMAIN file : file[k].mod \in Foreign => file[k].on

WrittenKey(status, mods) == [i \in Listed(status, mods) |-> -status[i].priority]
WrittenOrder(status, mods) == SortedBy(Listed(status, mods), WrittenKey(status, mods))

\* The states may be those of an earlier collection, with as many mods at most.
LEMMA WrittenLines ==
  ASSUME NEW mods, IsCollection(mods), NEW n, NEW status, Statuses(status, n), n <= Len(mods)
  PROVE  LET w == Written(status, mods)
             order == WrittenOrder(status, mods)
             m == Cardinality(Listed(status, mods))
         IN  /\ m \in Nat /\ DOMAIN order = 1..m /\ w = [k \in 1..m |-> Line(status, mods, order[k])]
             /\ \A k \in 1..m : order[k] \in Listed(status, mods) /\ w[k] \in Lines
             /\ w \in Seq(Lines) /\ OwnFile(w) /\ w # Nothing
<1> DEFINE listed == Listed(status, mods)
           key == WrittenKey(status, mods)
           order == WrittenOrder(status, mods)
           m == Cardinality(listed)
           w == Written(status, mods)
<1>1. /\ n \in Nat /\ status \in [1..n -> ModStatus]
      /\ \A i, j \in 1..n : status[i].priority = status[j].priority => i = j
  BY DEF Statuses
<1>2. /\ Len(mods) \in Nat /\ DOMAIN mods = 1..Len(mods)
      /\ \A i \in DOMAIN mods : mods[i] \in Mods
      /\ \A i, j \in DOMAIN mods : mods[i] = mods[j] => i = j
  BY CollectionFacts
<1>3. listed \in SUBSET (1..n) /\ \A i \in listed : i \in DOMAIN mods
  BY <1>1, <1>2 DEF Listed
<1>4. IsFiniteSet(listed)
  <2>1. IsFiniteSet(1..n)
    BY <1>1, FS_Interval
  <2>2. QED
    BY <1>3, <2>1, FS_Subset
<1>5. Keys(listed, key)
  <2>1. \A i \in listed : status[i].priority \in Int /\ key[i] = -status[i].priority
    BY <1>1, <1>3 DEF ModStatus, WrittenKey
  <2> HIDE DEF key, listed
  <2>2. \A i, j \in listed : key[i] = key[j] => status[i].priority = status[j].priority
    BY <2>1
  <2>3. QED
    BY <1>1, <1>3, <1>4, <2>1, <2>2 DEF Keys
<1>6. /\ m \in Nat /\ DOMAIN order = 1..m
      /\ \A k \in 1..m : order[k] \in listed
      /\ \A j, k \in 1..m : order[j] = order[k] => j = k
  BY <1>5, SortedLists DEF WrittenOrder
<1>7. w = [k \in DOMAIN order |-> Line(status, mods, order[k])]
  BY Zenon DEF Written, WrittenOrder, WrittenKey
<1> HIDE DEF listed, key, order, m, w
<1>8. w = [k \in 1..m |-> Line(status, mods, order[k])]
  BY <1>6, <1>7
<1>9. ASSUME NEW i \in listed
      PROVE  /\ Line(status, mods, i) \in Lines /\ Line(status, mods, i).mod = mods[i]
             /\ Line(status, mods, i).mod \in Foreign => Line(status, mods, i).on
  BY <1>1, <1>2, <1>3, KindsAssumption DEF Line, Lines, ModStatus
<1>10. \A k \in 1..m : order[k] \in listed /\ w[k] = Line(status, mods, order[k])
  BY <1>6, <1>8
<1>11. \A k \in 1..m : w[k] \in Lines /\ w[k].mod = mods[order[k]]
                       /\ (w[k].mod \in Foreign => w[k].on)
  BY <1>9, <1>10
<1>12. w \in Seq(Lines) /\ DOMAIN w = 1..m
  BY <1>6, <1>8, <1>11
<1>13. OwnFile(w)
  <2>1. \A j, k \in 1..m : w[j].mod = w[k].mod => j = k
    <3>1. SUFFICES ASSUME NEW j \in 1..m, NEW k \in 1..m, w[j].mod = w[k].mod PROVE j = k
      OBVIOUS
    <3>2. mods[order[j]] = mods[order[k]]
      BY <1>11, <3>1
    <3>3. order[j] \in DOMAIN mods /\ order[k] \in DOMAIN mods
      BY <1>3, <1>6
    <3>4. order[j] = order[k]
      BY <1>2, <3>2, <3>3
    <3>5. QED
      BY <1>6, <3>4
  <2>2. QED
    BY <1>11, <1>12, <2>1 DEF OwnFile
<1>14. w # Nothing
  <2>1. SUFFICES ASSUME w = Nothing PROVE FALSE
    OBVIOUS
  <2>2. 1 \in DOMAIN w /\ w[1].mod = -1
    BY <2>1 DEF Nothing
  <2>3. w[1].mod \in Nat
    BY <1>11, <1>12, <2>2 DEF Lines
  <2>4. QED
    BY <2>2, <2>3
<1>15. QED
  BY <1>6, <1>8, <1>10, <1>11, <1>12, <1>13, <1>14 DEF listed, order, m, w

\* A list in order has a status for each mod.
LEMMA InOrderStatuses ==
  ASSUME NEW mods, IsCollection(mods), NEW profile, ListInOrder(profile, mods)
  PROVE  /\ Statuses(profile.status, Len(mods)) /\ Len(profile.status) = Len(mods)
         /\ DOMAIN profile.status = DOMAIN mods
<1>1. Len(mods) \in Nat /\ DOMAIN mods = 1..Len(mods)
  BY CollectionFacts
<1>2. profile.status \in [1..Len(mods) -> ModStatus]
  BY <1>1 DEF ListInOrder, ProfilesOf
<1>3. \A i, j \in 1..Len(mods) : profile.status[i].priority = profile.status[j].priority => i = j
  BY <1>1 DEF ListInOrder
<1>4. Len(profile.status) = Len(mods)
  BY <1>1, <1>2
<1>5. QED
  BY <1>1, <1>2, <1>3, <1>4 DEF Statuses

\* A list in order is written from the highest priority down to 0.
LEMMA WrittenDescends ==
  ASSUME NEW mods, IsCollection(mods), NEW profile, ListInOrder(profile, mods)
  PROVE  LET listed == Listed(profile.status, mods)
             order == WrittenOrder(profile.status, mods)
             n == profile.managed
         IN  /\ n \in Nat /\ Cardinality(listed) = n
             /\ \A k \in 1..n : order[k] \in DOMAIN mods /\ ~HasAutomaticPriority(mods[order[k]])
             /\ \A k \in 1..n : profile.status[order[k]].priority = n - k
             /\ \A i \in listed : \E k \in 1..n : order[k] = i
<1> DEFINE status == profile.status
           listed == Listed(status, mods)
           key == WrittenKey(status, mods)
           n == profile.managed
           at(i) == status[i].priority
           pick(k) == CHOOSE i \in DOMAIN mods : at(i) = n - k
           t == [k \in 1..n |-> pick(k)]
<1>1. /\ n \in Nat
      /\ \A i \in DOMAIN mods : at(i) \in Int
      /\ \A i \in DOMAIN mods : ~HasAutomaticPriority(mods[i]) <=> at(i) \in 0..(n - 1)
      /\ \A i, j \in DOMAIN mods : at(i) = at(j) => i = j
      /\ \A p \in 0..(n - 1) : \E i \in DOMAIN mods : at(i) = p
      /\ DOMAIN status = DOMAIN mods
  BY DEF ListInOrder, ProfilesOf, ModStatus
<1>2. ASSUME NEW k \in 1..n
      PROVE  t[k] \in DOMAIN mods /\ at(t[k]) = n - k /\ n - k \in 0..(n - 1)
  <2>1. n - k \in 0..(n - 1)
    BY <1>1
  <2>2. \E i \in DOMAIN mods : at(i) = n - k
    BY <1>1, <2>1
  <2>3. pick(k) \in DOMAIN mods /\ at(pick(k)) = n - k
    BY <2>2
  <2>4. QED
    BY <2>1, <2>3
<1>3. \A i : i \in listed <=> i \in DOMAIN mods /\ at(i) \in 0..(n - 1)
  BY <1>1 DEF Listed
<1>4. \A i \in listed : key[i] = -at(i)
  BY DEF WrittenKey
<1>5. t = [k \in 1..n |-> t[k]]
  OBVIOUS
<1> HIDE DEF t, listed, key, at, n
<1>6. \A k \in 1..n : t[k] \in listed /\ key[t[k]] = -(n - k) /\ key[t[k]] \in Int
  BY <1>1, <1>2, <1>3, <1>4
<1>7. \A i \in listed : \E k \in 1..n : t[k] = i
  <2>1. SUFFICES ASSUME NEW i \in listed PROVE \E k \in 1..n : t[k] = i
    OBVIOUS
  <2>2. i \in DOMAIN mods /\ at(i) \in 0..(n - 1)
    BY <1>3
  <2>3. n - at(i) \in 1..n /\ n - (n - at(i)) = at(i)
    BY <1>1, <2>2
  <2>4. at(t[n - at(i)]) = at(i) /\ t[n - at(i)] \in DOMAIN mods
    BY <1>2, <2>3
  <2>5. t[n - at(i)] = i
    BY <1>1, <2>2, <2>4
  <2>6. QED
    BY <2>3, <2>5
<1>8. \A j, k \in 1..n : j < k => key[t[j]] < key[t[k]]
  BY <1>1, <1>6
<1>9. Ascends(t, n, listed, key)
  BY <1>1, <1>5, <1>6, <1>7, <1>8 DEF Ascends
<1>10. Cardinality(listed) = n /\ SortedBy(listed, key) = t
  BY <1>9, SortedIs
<1>11. WrittenOrder(status, mods) = t
  BY <1>10 DEF WrittenOrder, listed, key
<1>12. \A k \in 1..n : ~HasAutomaticPriority(mods[t[k]])
  BY <1>1, <1>2
<1>13. QED
  BY <1>1, <1>2, <1>7, <1>10, <1>11, <1>12 DEF listed, at, n

\* How many numbers follow.
LEMMA AfterInterval ==
  ASSUME NEW n \in Nat, NEW k \in 1..n
  PROVE  After(1..n, k) = n - k
<1>1. {l \in 1..n : l > k} = (k + 1)..n
  OBVIOUS
<1>2. k + 1 \in Int /\ n \in Int
  OBVIOUS
<1>3. Cardinality((k + 1)..n) = IF k + 1 > n THEN 0 ELSE n - (k + 1) + 1
  BY <1>2, FS_Interval
<1>4. Cardinality((k + 1)..n) = n - k
  BY <1>3
<1>5. QED
  BY <1>1, <1>4 DEF After

\* What doWriteModlist writes of a list in order, refreshModStatus reads back the
\* same, whatever mods there are (profile.cpp:220 to 534).
THEOREM WrittenReads ==
  ASSUME NEW mods, IsCollection(mods), NEW profile, ListInOrder(profile, mods)
  PROVE  LET again == RefreshModStatus(Written(profile.status, mods), mods)
         IN  again.profile = profile /\ (again.modified <=> BackupsOf(mods) # {})
<1> DEFINE status == profile.status
           w == Written(status, mods)
           n == profile.managed
           order == WrittenOrder(status, mods)
           I == InFile(w, mods)
           K == Known(w, mods)
           L(m) == LineOf(w, mods, m)
           A == ToSet(mods)
<1>1. /\ Statuses(status, Len(mods)) /\ DOMAIN status = DOMAIN mods
      /\ Len(mods) \in Nat /\ DOMAIN mods = 1..Len(mods)
  BY InOrderStatuses, CollectionFacts
<1>2. /\ n \in Nat /\ Cardinality(Listed(status, mods)) = n
      /\ \A k \in 1..n : order[k] \in DOMAIN mods /\ ~HasAutomaticPriority(mods[order[k]])
      /\ \A k \in 1..n : status[order[k]].priority = n - k
      /\ \A i \in Listed(status, mods) : \E k \in 1..n : order[k] = i
  BY WrittenDescends
<1>3. /\ w = [k \in 1..n |-> Line(status, mods, order[k])]
      /\ w \in Seq(Lines) /\ OwnFile(w)
  <2>1. Len(mods) <= Len(mods)
    BY <1>1
  <2>2. QED
    BY <1>1, <1>2, <2>1, WrittenLines
<1>4. /\ \A i \in DOMAIN mods : mods[i] \in A
      /\ \A i, j \in DOMAIN mods : mods[i] = mods[j] => i = j
      /\ \A m \in A : \E i \in DOMAIN mods : mods[i] = m
  BY CollectionFacts
<1> HIDE DEF w, n, order, A
<1>5. /\ DOMAIN w = 1..n
      /\ \A k \in 1..n : /\ w[k].mod = mods[order[k]]
                         /\ w[k].on = (mods[order[k]] \in Foreign \/ status[order[k]].enabled)
  BY <1>3 DEF Line
<1>6. NamesRead(w) = 1..n
  <2>1. ASSUME NEW k \in 1..n, NEW j \in 1..(k - 1) PROVE w[j].mod # w[k].mod
    <3>1. j \in 1..n /\ j # k
      BY <1>2
    <3>2. QED
      BY <1>3, <1>5, <3>1 DEF OwnFile
  <2>2. QED
    BY <1>5, <2>1 DEF NamesRead
<1>7. \A k \in 1..n : w[k].mod \in A /\ ~HasAutomaticPriority(w[k].mod)
  BY <1>2, <1>4, <1>5
<1>8. K = 1..n
  BY <1>6, <1>7 DEF Known, A
<1>9. \A i \in DOMAIN mods : ~HasAutomaticPriority(mods[i]) => \E k \in 1..n : order[k] = i
  BY <1>1, <1>2 DEF Listed
<1>10. I = Managed(mods)
  <2>1. ASSUME NEW m \in I PROVE m \in Managed(mods)
    BY <1>7, <1>8 DEF InFile, Managed, A
  <2>2. ASSUME NEW m \in Managed(mods) PROVE m \in I
    <3>1. PICK i \in DOMAIN mods : mods[i] = m /\ ~HasAutomaticPriority(mods[i])
      BY <1>4 DEF Managed, A
    <3>2. PICK k \in 1..n : order[k] = i
      BY <1>9, <3>1
    <3>3. w[k].mod = m
      BY <1>5, <3>1, <3>2
    <3>4. QED
      BY <1>8, <3>3 DEF InFile
  <2>3. QED
    BY <2>1, <2>2
<1>11. New(w, mods, Foreign) = {} /\ New(w, mods, Regular) = {}
  BY <1>10, KindsAssumption DEF New, Managed, HasAutomaticPriority
<1>12. Offset(w, mods) = 0 /\ Above(w, mods) = n /\ ManagedOf(w, mods) = n
  <2>1. Cardinality({}) = 0 /\ Cardinality(1..n) = n
    <3>1. Cardinality(1..n) = IF 1 > n THEN 0 ELSE n - 1 + 1
      BY <1>2, FS_Interval
    <3>2. QED
      BY <1>2, <3>1, FS_EmptySet
  <2>2. QED
    BY <1>2, <1>8, <1>11, <2>1 DEF Offset, Above, ManagedOf
<1>13. \A k \in 1..n : w[k].mod \in I /\ L(w[k].mod) = k
  BY <1>3, <1>8, ReadKinds
<1>14. ASSUME NEW i \in DOMAIN mods
       PROVE  /\ PriorityRead(w, mods, mods[i]) = status[i].priority
              /\ EnabledRead(w, mods, mods[i]) = status[i].enabled
  <2>1. /\ HasAutomaticPriority(mods[i]) =>
             status[i].priority = AutomaticPriority(mods, mods[i])
        /\ AlwaysEnabled(mods[i]) => status[i].enabled
        /\ AlwaysDisabled(mods[i]) => ~status[i].enabled
        /\ status[i].enabled \in BOOLEAN
        /\ n = Cardinality(Managed(mods))
    BY DEF ListInOrder, ProfilesOf, ModStatus, n
  <2>2. CASE ~HasAutomaticPriority(mods[i])
    <3>1. PICK k \in 1..n : order[k] = i
      BY <1>9, <2>2
    <3>2. w[k].mod = mods[i] /\ mods[i] \in I /\ L(mods[i]) = k
      BY <1>5, <1>13, <3>1
    <3>3. mods[i] # Overwrite
      BY <2>2 DEF HasAutomaticPriority
    <3>4. PriorityRead(w, mods, mods[i]) = 0 + After(1..n, k)
      <4>1. mods[i] \notin BackupsOf(mods)
        BY <2>2 DEF BackupsOf, HasAutomaticPriority
      <4>2. QED
        BY <1>8, <1>11, <1>12, <3>2, <3>3, <4>1 DEF PriorityRead
    <3>5. After(1..n, k) = n - k /\ n - k \in Int
      BY <1>2, AfterInterval
    <3>6. PriorityRead(w, mods, mods[i]) = status[i].priority
      BY <1>2, <3>1, <3>4, <3>5
    <3>7. EnabledRead(w, mods, mods[i]) = (AlwaysEnabled(mods[i]) \/ w[k].on)
      BY <3>2 DEF EnabledRead
    <3>8. w[k].on = (mods[i] \in Foreign \/ status[i].enabled)
      BY <1>5, <3>1
    <3>9. AlwaysEnabled(mods[i]) <=> mods[i] \in Foreign
      BY <3>3 DEF AlwaysEnabled
    <3>10. QED
      BY <2>1, <3>6, <3>7, <3>8, <3>9
  <2>3. CASE mods[i] = Overwrite
    <3>1. /\ HasAutomaticPriority(mods[i]) /\ AlwaysEnabled(mods[i])
      BY <2>3 DEF HasAutomaticPriority, AlwaysEnabled
    <3>2. PriorityRead(w, mods, mods[i]) = Len(mods) - 1
      <4>1. mods[i] \notin I /\ mods[i] \notin BackupsOf(mods)
        BY <1>10, <2>3, <3>1, KindsAssumption DEF Managed, BackupsOf
      <4>2. QED
        BY <1>11, <2>3, <4>1 DEF PriorityRead
    <3>3. status[i].priority = Len(mods) - 1
      BY <2>1, <2>3, <3>1 DEF AutomaticPriority
    <3>4. QED
      BY <2>1, <3>1, <3>2, <3>3 DEF EnabledRead
  <2>4. CASE mods[i] \in Backups
    <3>1. /\ mods[i] # Overwrite /\ mods[i] \notin Foreign /\ mods[i] \in BackupsOf(mods)
          /\ HasAutomaticPriority(mods[i]) /\ AlwaysDisabled(mods[i])
      BY <1>4, <2>4, KindsAssumption DEF BackupsOf, HasAutomaticPriority, AlwaysDisabled, A
    <3>2. mods[i] \notin I
      BY <1>10, <3>1 DEF Managed
    <3>3. PriorityRead(w, mods, mods[i]) = n + Before(BackupsOf(mods), mods[i])
      BY <1>11, <1>12, <3>1, <3>2 DEF PriorityRead
    <3>4. status[i].priority = n + Before(BackupsOf(mods), mods[i])
      BY <2>1, <3>1 DEF AutomaticPriority
    <3>5. ~AlwaysEnabled(mods[i])
      BY <3>1 DEF AlwaysEnabled
    <3>6. QED
      BY <2>1, <3>1, <3>2, <3>3, <3>4, <3>5 DEF EnabledRead
  <2>5. QED
    BY <2>2, <2>3, <2>4 DEF HasAutomaticPriority
<1> DEFINE again == RefreshModStatus(w, mods)
           read == [i \in DOMAIN mods |-> [enabled  |-> EnabledRead(w, mods, mods[i]),
                                           priority |-> PriorityRead(w, mods, mods[i])]]
<1>15. again.profile = [status |-> read, managed |-> ManagedOf(w, mods)] /\ again.modified = MustWrite(w, mods)
  BY ReadIs, Zenon
<1>16. \A i \in DOMAIN mods : read[i] = status[i]
  BY <1>14 DEF ListInOrder, ProfilesOf, ModStatus
<1>17. read = status
  BY <1>16 DEF ListInOrder, ProfilesOf
<1>18. profile = [status |-> status, managed |-> n]
  BY DEF ListInOrder, ProfilesOf, n
<1>19. MustWrite(w, mods) <=> BackupsOf(mods) # {}
  BY <1>5, <1>7, <1>11 DEF MustWrite, A
<1> HIDE DEF read
<1>20. again.profile = profile
  BY <1>12, <1>15, <1>17, <1>18
<1>21. QED
  BY <1>15, <1>19, <1>20 DEF w

\* A file of the program that need not be written again is what would be written.
LEMMA ReadIsWritten ==
  ASSUME NEW mods, IsCollection(mods), NEW file \in Seq(Lines), OwnFile(file),
         ~MustWrite(file, mods)
  PROVE  file = Written(RefreshModStatus(file, mods).profile.status, mods)
<1> DEFINE profile == RefreshModStatus(file, mods).profile
           status == profile.status
           n == Len(file)
           listed == Listed(status, mods)
           key == WrittenKey(status, mods)
           order == WrittenOrder(status, mods)
           I == InFile(file, mods)
           K == Known(file, mods)
           L(m) == LineOf(file, mods, m)
           A == ToSet(mods)
           t == [k \in 1..n |-> Index(mods, file[k].mod)]
<1>1. /\ n \in Nat /\ DOMAIN file = 1..n /\ file = [k \in 1..n |-> file[k]]
      /\ \A k \in 1..n : file[k] \in Lines
  OBVIOUS
<1>2. /\ \A j, k \in 1..n : file[j].mod = file[k].mod => j = k
      /\ \A k \in 1..n : file[k].mod \in Foreign => file[k].on
  BY <1>1 DEF OwnFile
<1>3. /\ \A k \in 1..n : file[k].mod \in A /\ ~HasAutomaticPriority(file[k].mod)
      /\ New(file, mods, Foreign) = {} /\ New(file, mods, Regular) = {}
      /\ BackupsOf(mods) = {}
  BY <1>1 DEF MustWrite
<1>4. NamesRead(file) = 1..n
  <2>1. ASSUME NEW k \in 1..n, NEW j \in 1..(k - 1) PROVE file[j].mod # file[k].mod
    <3>1. j \in 1..n /\ j # k
      BY <1>1
    <3>2. QED
      BY <1>2, <3>1
  <2>2. QED
    BY <1>1, <2>1 DEF NamesRead
<1>5. K = 1..n
  BY <1>3, <1>4 DEF Known
<1>6. /\ K \in SUBSET Nat /\ IsFiniteSet(K)
      /\ Managed(mods) = New(file, mods, Foreign) \cup I \cup New(file, mods, Regular)
      /\ \A k \in K : file[k].mod \in I /\ L(file[k].mod) = k
      /\ \A m \in I : L(m) \in K /\ file[L(m)].mod = m
  BY ReadKinds
<1>7. /\ \A i \in DOMAIN mods : status[i].priority = PriorityRead(file, mods, mods[i])
      /\ \A i \in DOMAIN mods : status[i].enabled = EnabledRead(file, mods, mods[i])
      /\ ListInOrder(profile, mods)
  BY ReadInOrder
<1>8. DOMAIN status = DOMAIN mods /\ \A i \in DOMAIN mods : status[i].enabled \in BOOLEAN
  BY <1>7 DEF ListInOrder, ProfilesOf, ModStatus
<1>9. /\ \A i \in DOMAIN mods : mods[i] \in A
      /\ \A m \in A : Index(mods, m) \in DOMAIN mods /\ mods[Index(mods, m)] = m
      /\ \A i \in DOMAIN mods : Index(mods, mods[i]) = i
  BY CollectionFacts
<1>10. \A m \in I : PriorityRead(file, mods, m) = Offset(file, mods) + After(K, L(m))
  BY ReadPlaces DEF Offset
<1>11. Offset(file, mods) = 0
  BY <1>3, FS_EmptySet DEF Offset
<1>12. /\ \A k \in K : After(K, k) \in Int
       /\ \A j, k \in K : j < k <=> After(K, k) < After(K, j)
  BY <1>6, AfterRanks
<1> HIDE DEF profile, status, n, I, K, L, A
<1>13. ASSUME NEW k \in 1..n
       PROVE  /\ t[k] \in DOMAIN mods /\ mods[t[k]] = file[k].mod
              /\ t[k] \in listed
              /\ status[t[k]].priority = After(K, k)
              /\ Line(status, mods, t[k]) = file[k]
  <2>1. t[k] \in DOMAIN mods /\ mods[t[k]] = file[k].mod
    BY <1>3, <1>9
  <2>2. t[k] \in listed
    BY <1>3, <1>8, <2>1 DEF Listed
  <2>3. file[k].mod \in I /\ L(file[k].mod) = k
    BY <1>5, <1>6
  <2>4. status[t[k]].priority = 0 + After(K, k)
    BY <1>7, <1>10, <1>11, <2>1, <2>3
  <2>5. After(K, k) \in Int
    BY <1>5, <1>12
  <2>6. status[t[k]].enabled = EnabledRead(file, mods, file[k].mod)
    BY <1>7, <2>1
  <2>7. /\ EnabledRead(file, mods, file[k].mod) = (AlwaysEnabled(file[k].mod) \/ file[k].on)
        /\ AlwaysEnabled(file[k].mod) <=> file[k].mod \in Foreign
    BY <1>3, <2>3 DEF EnabledRead, I, L, AlwaysEnabled, HasAutomaticPriority
  <2>8. file[k].on \in BOOLEAN /\ file[k] = [mod |-> file[k].mod, on |-> file[k].on]
    BY <1>1 DEF Lines
  <2>9. (file[k].mod \in Foreign \/ status[t[k]].enabled) = file[k].on
    BY <1>2, <2>6, <2>7, <2>8
  <2>10. Line(status, mods, t[k]) = [mod |-> mods[t[k]], on |-> mods[t[k]] \in Foreign \/ status[t[k]].enabled]
    BY DEF Line
  <2> HIDE DEF t
  <2>11. Line(status, mods, t[k]) = file[k]
    BY <2>1, <2>8, <2>9, <2>10
  <2>12. QED
    BY <2>1, <2>2, <2>4, <2>5, <2>11
<1>14. t = [k \in 1..n |-> t[k]]
  OBVIOUS
<1> HIDE DEF t
<1>15. \A i \in listed : key[i] = -status[i].priority
  BY DEF WrittenKey
<1>16. \A k \in 1..n : key[t[k]] = -After(K, k) /\ key[t[k]] \in Int
  BY <1>5, <1>12, <1>13, <1>15
<1>17. \A j, k \in 1..n : j < k => key[t[j]] < key[t[k]]
  <2>1. SUFFICES ASSUME NEW j \in 1..n, NEW k \in 1..n, j < k PROVE key[t[j]] < key[t[k]]
    OBVIOUS
  <2>2. After(K, k) < After(K, j) /\ After(K, k) \in Int /\ After(K, j) \in Int
    BY <1>5, <1>12, <2>1
  <2>3. QED
    BY <1>16, <2>2
<1>18. \A i \in listed : \E k \in 1..n : t[k] = i
  <2>1. SUFFICES ASSUME NEW i \in listed PROVE \E k \in 1..n : t[k] = i
    OBVIOUS
  <2>2. i \in DOMAIN mods /\ mods[i] \in Managed(mods)
    BY <1>8, <1>9 DEF Listed, Managed, A
  <2>3. mods[i] \in I
    BY <1>3, <1>6, <2>2
  <2>4. L(mods[i]) \in 1..n /\ file[L(mods[i])].mod = mods[i]
    BY <1>5, <1>6, <2>3
  <2>5. mods[t[L(mods[i])]] = mods[i] /\ t[L(mods[i])] \in DOMAIN mods
    BY <1>13, <2>4
  <2>6. t[L(mods[i])] = i
    BY <1>9, <2>2, <2>5
  <2>7. QED
    BY <2>4, <2>6
<1>19. n \in Nat /\ \A k \in 1..n : t[k] \in listed
  BY <1>1, <1>13
<1> HIDE DEF listed, key
<1>20. Ascends(t, n, listed, key)
  BY <1>14, <1>16, <1>17, <1>18, <1>19 DEF Ascends
<1>21. order = t
  BY <1>20, SortedIs DEF WrittenOrder, listed, key
<1>22. Written(status, mods) = [k \in DOMAIN order |-> Line(status, mods, order[k])]
  BY Zenon DEF Written, WrittenOrder, WrittenKey
<1>23. DOMAIN order = 1..n /\ \A k \in 1..n : order[k] = t[k]
  BY <1>14, <1>21
<1> HIDE DEF order
<1>24. Written(status, mods) = [k \in 1..n |-> Line(status, mods, order[k])]
  BY <1>22, <1>23
<1>25. Written(status, mods) = [k \in 1..n |-> file[k]]
  BY <1>13, <1>23, <1>24
<1>26. QED
  BY <1>1, <1>25 DEF status, profile

-----------------------------------------------------------------------------
(* The enabled mods *)

\* getActiveMods lists the enabled mods by their priorities.
LEMMA ActiveFacts ==
  ASSUME NEW mods, IsCollection(mods), NEW profile, ListInOrder(profile, mods)
  PROVE  LET status == profile.status
             E == EnabledMods(status, mods)
             key == [m \in E |-> PriorityOf(status, mods, m)]
             order == ActiveOrder(status, mods)
             n == Cardinality(E)
         IN  /\ order = SortedBy(E, key) /\ Keys(E, key)
             /\ E \in SUBSET ToSet(mods)
             /\ \A m \in ToSet(mods) : PriorityOf(status, mods, m) \in 0..(Len(mods) - 1)
             /\ \A i \in DOMAIN mods : /\ status[i].enabled <=> mods[i] \in E
                                       /\ PriorityOf(status, mods, mods[i]) = status[i].priority
             /\ n \in Nat /\ DOMAIN order = 1..n /\ order \in Seq(E)
             /\ \A k \in 1..n : order[k] \in E
             /\ \A m \in E : \E k \in 1..n : order[k] = m
             /\ \A j, k \in 1..n : order[j] = order[k] => j = k
             /\ \A j, k \in 1..n : j < k <=> PriorityOf(status, mods, order[j])
                                               < PriorityOf(status, mods, order[k])
<1> DEFINE status == profile.status
           E == EnabledMods(status, mods)
           P(m) == PriorityOf(status, mods, m)
           key == [m \in E |-> P(m)]
           order == ActiveOrder(status, mods)
           n == Cardinality(E)
<1>1. /\ \A m \in ToSet(mods) : Index(mods, m) \in DOMAIN mods /\ mods[Index(mods, m)] = m
      /\ \A i \in DOMAIN mods : Index(mods, mods[i]) = i /\ mods[i] \in ToSet(mods)
      /\ \A i, j \in DOMAIN mods : mods[i] = mods[j] => i = j
      /\ IsFiniteSet(ToSet(mods)) /\ Len(mods) \in Nat
  BY CollectionFacts
<1>2. /\ \A i \in DOMAIN mods : status[i].priority \in 0..(Len(mods) - 1)
      /\ \A i, j \in DOMAIN mods : status[i].priority = status[j].priority => i = j
  BY DEF ListInOrder
<1>3. order = SortedBy(E, key)
  BY Zenon DEF ActiveOrder
<1>4. E \in SUBSET ToSet(mods)
  BY <1>1 DEF EnabledMods
<1>5. /\ \A m \in ToSet(mods) : P(m) = status[Index(mods, m)].priority
      /\ \A m \in ToSet(mods) : P(m) \in 0..(Len(mods) - 1)
      /\ \A i \in DOMAIN mods : P(mods[i]) = status[i].priority
  BY <1>1, <1>2 DEF PriorityOf
<1>6. \A i \in DOMAIN mods : status[i].enabled <=> mods[i] \in E
  BY <1>1 DEF EnabledMods
<1>7. \A m, q \in ToSet(mods) : P(m) = P(q) => m = q
  <2>1. SUFFICES ASSUME NEW m \in ToSet(mods), NEW q \in ToSet(mods), P(m) = P(q) PROVE m = q
    OBVIOUS
  <2>2. status[Index(mods, m)].priority = status[Index(mods, q)].priority
    BY <1>5, <2>1
  <2>3. Index(mods, m) = Index(mods, q)
    BY <1>1, <1>2, <2>2
  <2>4. QED
    BY <1>1, <2>3
<1>8. IsFiniteSet(E)
  BY <1>1, <1>4, FS_Subset
<1> HIDE DEF E, P, status
<1>9. \A m \in E : key[m] = P(m) /\ key[m] \in Int
  BY <1>1, <1>4, <1>5
<1>10. Keys(E, key)
  <2> HIDE DEF key
  <2>1. \A m, q \in E : key[m] = key[q] => m = q
    BY <1>4, <1>7, <1>9
  <2>2. QED
    BY <1>8, <1>9, <2>1 DEF Keys
<1> HIDE DEF key, order
<1>11. /\ n \in Nat /\ DOMAIN order = 1..n /\ order \in Seq(E)
       /\ \A k \in 1..n : order[k] \in E
       /\ \A m \in E : \E k \in 1..n : order[k] = m
       /\ \A j, k \in 1..n : order[j] = order[k] => j = k
       /\ \A j, k \in 1..n : j < k <=> key[order[j]] < key[order[k]]
  <2> DEFINE s == SortedBy(E, key)
  <2>1. /\ n \in Nat /\ DOMAIN s = 1..n /\ s \in Seq(E)
        /\ \A k \in 1..n : s[k] \in E
        /\ \A m \in E : \E k \in 1..n : s[k] = m
        /\ \A j, k \in 1..n : s[j] = s[k] => j = k
        /\ \A j, k \in 1..n : j < k <=> key[s[j]] < key[s[k]]
    BY <1>10, SortedLists
  <2> HIDE DEF s, n
  <2>2. QED
    BY <1>3, <2>1 DEF s
<1> HIDE DEF n
<1>12. \A j, k \in 1..n : j < k <=> P(order[j]) < P(order[k])
  BY <1>9, <1>11
<1>13. QED
  BY <1>3, <1>4, <1>5, <1>6, <1>10, <1>11, <1>12 DEF E, P, status, key, order, n

-----------------------------------------------------------------------------
(* The invariant *)

\* All mods that can be there.
All == FirstMods \cup Arriving

\* The first files are ones that the program has written.
FirstListsOwn == \A file \in FirstLists : OwnFile(file)

\* What is known of the file whatever the mods are: what was written last is in
\* it, if nothing else has written it.
FileInv(l, replaced_) ==
  /\ l \in [file : Seq(Lines), profile : {l.profile}, pending : BOOLEAN,
            written : Seq(Lines) \cup {Nothing}]
  /\ ~replaced_ => l.written \in {Nothing, l.file}
  /\ FirstListsOwn => OwnFile(l.file)

\* The file says what the list shows.
Saved(l, mods) ==
  /\ RefreshModStatus(l.file, mods).profile = l.profile
  /\ FirstListsOwn => l.file = Written(l.profile.status, mods)

\* The list is in order, and saved once no write is under way.
ListInv(l, mods, replaced_) ==
  /\ FileInv(l, replaced_)
  /\ ListInOrder(l.profile, mods)
  /\ ~replaced_ /\ ~l.pending => Saved(l, mods)

\* A structure with the mods of an order, and mods given to the refresher.
Shows(structure, order) ==
  /\ Shown(structure) = ToSet(order)
  /\ \A j, k \in DOMAIN order :
       j < k => structure[order[j]].priority < structure[order[k]].priority

Gives(given, order) ==
  /\ DOMAIN given = DOMAIN order
  /\ \A k \in DOMAIN order : given[k].mod = order[k]
  /\ \A j, k \in DOMAIN order : j < k => given[j].priority < given[k].priority

IsStructure(s) == \A m \in DOMAIN s : s[m] \in ModStatus

\* The refresher works only while an update is under way.
CoreInv(c) ==
  /\ DOMAIN c = {"update", "refresher", "mods", "root", "structure", "plugins", "postRefresh"}
  /\ c.refresher \in {"idle", "queued", "done"}
  /\ c.update = (c.refresher # "idle")
  /\ c.mods \in Seq(Mod(All))
  /\ IsStructure(c.root) /\ IsStructure(c.structure)
  /\ c.postRefresh \in BOOLEAN
  /\ c.postRefresh => c.update

\* Who comes between the list and the structure has the mods of the list.
Follows(c, order) ==
  /\ c.refresher = "idle" => Shows(c.structure, order)
  /\ c.refresher = "queued" => Gives(c.mods, order)
  /\ c.refresher = "done" => Shows(c.root, order)

\* The plugins are those of the structure.
PluginsFollow(c) == ~c.update => c.plugins = Shown(c.structure)

\* The inductive invariant: the list is in order and, once written, is that of the
\* file; what the refresher was given, what it built and the structure in use are
\* each of the list, unless a change was missed; the plugins follow the structure.
IInv ==
  /\ Overwrite \in disk /\ disk \subseteq All
  /\ ToSet(collection) \subseteq All /\ IsCollection(collection)
  /\ ListInv(list, collection, replaced)
  /\ backup \in Seq(Lines) \cup {Nothing}
  /\ backup # Nothing /\ FirstListsOwn => OwnFile(backup)
  /\ CoreInv(core)
  /\ PluginsFollow(core)
  /\ ~missed => Follows(core, Active(list, collection))
  /\ program \in {"none", "waiting", "ready", "saved", "running"}
  /\ missed \in BOOLEAN /\ replaced \in BOOLEAN
  /\ commands \in 0..MaxCommands

-----------------------------------------------------------------------------
(* Collections and files *)

\* The mods that can be there.
LEMMA AllMods ==
  /\ All \in SUBSET Mods /\ IsFiniteSet(All) /\ Overwrite \in All
  /\ \A all \in SUBSET All : IsFiniteSet(all)
<1>1. All \in SUBSET Mods /\ Overwrite \in All
  BY FirstAssumption DEF All, Mods
<1>2. IsFiniteSet(All)
  BY FirstAssumption, FS_Union DEF All
<1>3. QED
  BY <1>1, <1>2, FS_Subset

\* The collection that ModInfo makes of the disk.
LEMMA CollectionIs ==
  ASSUME NEW all \in SUBSET All, Overwrite \in all
  PROVE  IsCollection(Collection(all)) /\ ToSet(Collection(all)) = all
<1>1. all \in SUBSET Mods /\ IsFiniteSet(all)
  BY AllMods
<1>2. QED
  BY <1>1, CollectionLists DEF IsCollection

\* Whether the file is still one that the profile has not written.
Replaces(r, l, after) == r /\ ~WroteFile(l, after)

\* doWriteModlist, with the states of this collection or an earlier one.
LEMMA DoWriteKeepsFile ==
  ASSUME NEW mods, IsCollection(mods), NEW r \in BOOLEAN, NEW l, FileInv(l, r),
         NEW n, Statuses(l.profile.status, n)
  PROVE  LET after == DoWriteModlist(l, mods)
         IN  /\ FileInv(after, Replaces(r, l, after))
             /\ after.profile = l.profile /\ ~after.pending
<1> DEFINE after == DoWriteModlist(l, mods)
           status == l.profile.status
           content == Written(status, mods)
           lines == Seq(Lines)
<1>1. /\ l \in [file : lines, profile : {l.profile}, pending : BOOLEAN,
                written : lines \cup {Nothing}]
      /\ ~r => l.written \in {Nothing, l.file}
      /\ FirstListsOwn => OwnFile(l.file)
  BY DEF FileInv
<1>2. Len(status) = n /\ n \in Nat /\ Len(mods) \in Nat
  <2>1. n \in Nat /\ status \in [1..n -> ModStatus]
    BY DEF Statuses
  <2>2. Len(status) = n
    BY <2>1
  <2>3. QED
    BY <2>1, <2>2, CollectionFacts
<1>3. ASSUME n <= Len(mods)
      PROVE  content \in lines /\ OwnFile(content) /\ content # Nothing
  BY <1>3, WrittenLines
<1> HIDE DEF lines, content, status
<1>4. CASE n > Len(mods)
  <2>1. after = [l EXCEPT !.pending = FALSE]
    BY <1>2, <1>4 DEF DoWriteModlist, status
  <2> HIDE DEF after
  <2>2. /\ after \in [file : lines, profile : {l.profile}, pending : BOOLEAN,
                      written : lines \cup {Nothing}]
        /\ after.file = l.file /\ after.profile = l.profile /\ after.written = l.written
        /\ ~after.pending
    BY <1>1, <2>1
  <2>3. Replaces(r, l, after) = r
    BY <2>2 DEF Replaces, WroteFile
  <2>4. FileInv(after, Replaces(r, l, after))
    BY <1>1, <2>2, <2>3 DEF FileInv, lines
  <2>5. QED
    BY <2>2, <2>4 DEF after
<1>5. CASE ~(n > Len(mods))
  <2>1. after = [l EXCEPT !.pending = FALSE,
                          !.file = IF content = l.written THEN l.file ELSE content,
                          !.written = content]
    BY <1>1, <1>2, <1>5 DEF DoWriteModlist, status, content
  <2> HIDE DEF after
  <2>2. content \in lines /\ OwnFile(content) /\ content # Nothing
    BY <1>2, <1>3, <1>5
  <2>3. /\ after \in [file : lines, profile : {l.profile}, pending : BOOLEAN,
                      written : lines \cup {Nothing}]
        /\ after.file = (IF content = l.written THEN l.file ELSE content)
        /\ after.profile = l.profile /\ after.written = content /\ ~after.pending
    BY <1>1, <2>1, <2>2
  <2>4. ~Replaces(r, l, after) => after.written \in {Nothing, after.file}
    BY <1>1, <2>2, <2>3 DEF Replaces, WroteFile
  <2>5. FirstListsOwn => OwnFile(after.file)
    BY <1>1, <2>2, <2>3
  <2>6. FileInv(after, Replaces(r, l, after))
    BY <2>3, <2>4, <2>5 DEF FileInv, lines
  <2>7. QED
    BY <2>3, <2>6 DEF after
<1>6. QED
  BY <1>4, <1>5

\* Writing the list of the collection saves it.
LEMMA DoWriteSaves ==
  ASSUME NEW mods, IsCollection(mods), NEW r \in BOOLEAN, NEW l, ListInv(l, mods, r)
  PROVE  LET after == DoWriteModlist(l, mods)
         IN  /\ ListInv(after, mods, Replaces(r, l, after))
             /\ after.profile = l.profile /\ ~after.pending
<1> DEFINE after == DoWriteModlist(l, mods)
           content == Written(l.profile.status, mods)
<1>1. FileInv(l, r) /\ ListInOrder(l.profile, mods)
  BY DEF ListInv
<1>2. /\ Statuses(l.profile.status, Len(mods)) /\ Len(l.profile.status) = Len(mods)
      /\ Len(mods) \in Nat
  BY <1>1, InOrderStatuses, CollectionFacts
<1>3. /\ FileInv(after, Replaces(r, l, after))
      /\ after.profile = l.profile /\ ~after.pending
  BY <1>1, <1>2, DoWriteKeepsFile
<1>4. content # Nothing
  <2>1. Len(mods) <= Len(mods)
    BY <1>2
  <2>2. QED
    BY <1>2, <2>1, WrittenLines
<1>5. RefreshModStatus(content, mods).profile = l.profile
  BY <1>1, WrittenReads
<1>6. /\ DOMAIN l = {"file", "profile", "pending", "written"}
      /\ ~r => l.written \in {Nothing, l.file}
  BY <1>1 DEF FileInv
<1>7. after = [l EXCEPT !.pending = FALSE,
                        !.file = IF content = l.written THEN l.file ELSE content,
                        !.written = content]
  BY <1>2, <1>6 DEF DoWriteModlist
<1> HIDE DEF after, content
<1>8. after.file = (IF content = l.written THEN l.file ELSE content) /\ after.written = content
  BY <1>6, <1>7
<1>9. ~Replaces(r, l, after) => after.file = content
  BY <1>4, <1>6, <1>8 DEF Replaces, WroteFile
<1>10. ~Replaces(r, l, after) => Saved(after, mods)
  BY <1>3, <1>5, <1>9 DEF Saved, content
<1>11. QED
  BY <1>1, <1>3, <1>10 DEF ListInv, after

\* What stays true of the file when fewer files count as replaced.
LEMMA ReplacedSince ==
  ASSUME NEW mods, NEW l, NEW r \in BOOLEAN, NEW s \in BOOLEAN, r => s
  PROVE  /\ FileInv(l, r) => FileInv(l, s)
         /\ ListInv(l, mods, r) => ListInv(l, mods, s)
BY DEF FileInv, ListInv

\* The same for Profile::writeModlistNow.
LEMMA WriteNowSaves ==
  ASSUME NEW mods, IsCollection(mods), NEW r \in BOOLEAN, NEW l, ListInv(l, mods, r),
         NEW only \in BOOLEAN
  PROVE  LET after == WriteModlistNow(l, mods, only)
         IN  /\ ListInv(after, mods, Replaces(r, l, after))
             /\ after.profile = l.profile /\ ~after.pending
<1> DEFINE after == WriteModlistNow(l, mods, only)
<1>1. CASE only /\ ~l.pending
  <2>1. after = l
    BY <1>1 DEF WriteModlistNow
  <2>2. Replaces(r, l, after) = r
    BY <2>1 DEF Replaces, WroteFile
  <2>3. QED
    BY <1>1, <2>1, <2>2
<1>2. CASE ~(only /\ ~l.pending)
  <2>1. after = DoWriteModlist(l, mods)
    BY <1>2 DEF WriteModlistNow
  <2>2. QED
    BY <2>1, DoWriteSaves
<1>3. QED
  BY <1>1, <1>2

\* The same with the states of an earlier collection.
LEMMA WritePendingKeepsFile ==
  ASSUME NEW mods, IsCollection(mods), NEW r \in BOOLEAN, NEW l, FileInv(l, r),
         NEW n, l.pending => Statuses(l.profile.status, n)
  PROVE  LET after == WriteModlistNow(l, mods, TRUE)
         IN  /\ FileInv(after, Replaces(r, l, after))
             /\ after.profile = l.profile /\ ~after.pending
<1> DEFINE after == WriteModlistNow(l, mods, TRUE)
<1>1. CASE ~l.pending
  <2>1. after = l
    BY <1>1 DEF WriteModlistNow
  <2>2. Replaces(r, l, after) = r
    BY <2>1 DEF Replaces, WroteFile
  <2>3. QED
    BY <1>1, <2>1, <2>2
<1>2. CASE l.pending
  <2>1. after = DoWriteModlist(l, mods)
    BY <1>2 DEF WriteModlistNow
  <2>2. QED
    BY <1>2, <2>1, DoWriteKeepsFile
<1>3. QED
  BY <1>1, <1>2

\* What refreshModStatus has read is saved, if it need not be written again.
LEMMA ReadSaved ==
  ASSUME NEW mods, IsCollection(mods), NEW l, l.file \in Seq(Lines),
         FirstListsOwn => OwnFile(l.file),
         l.profile = RefreshModStatus(l.file, mods).profile,
         ~RefreshModStatus(l.file, mods).modified
  PROVE  Saved(l, mods)
<1>1. ~MustWrite(l.file, mods)
  BY ReadInOrder
<1>2. OwnFile(l.file) => l.file = Written(RefreshModStatus(l.file, mods).profile.status, mods)
  BY <1>1, ReadIsWritten
<1>3. QED
  BY <1>2 DEF Saved

\* refreshModStatus leaves a list that is saved, or about to be.
LEMMA ReadKeeps ==
  ASSUME NEW mods, IsCollection(mods), NEW r \in BOOLEAN, NEW l, FileInv(l, r),
         NEW n, l.pending => Statuses(l.profile.status, n)
  PROVE  LET after == ReadModStatus(l, mods)
         IN  ListInv(after, mods, Replaces(r, l, after))
<1> DEFINE saved == WriteModlistNow(l, mods, TRUE)
           read == RefreshModStatus(saved.file, mods)
           after == ReadModStatus(l, mods)
           lines == Seq(Lines)
<1>1. FileInv(saved, Replaces(r, l, saved))
  BY WritePendingKeepsFile
<1>2. /\ saved \in [file : lines, profile : {saved.profile}, pending : BOOLEAN,
                    written : lines \cup {Nothing}]
      /\ ~Replaces(r, l, saved) => saved.written \in {Nothing, saved.file}
      /\ FirstListsOwn => OwnFile(saved.file)
  BY <1>1 DEF FileInv
<1>3. ListInOrder(read.profile, mods) /\ read.modified \in BOOLEAN
  BY <1>2, ReadInOrder
<1>4. after = [saved EXCEPT !.profile = read.profile, !.pending = read.modified]
  BY Zenon DEF ReadModStatus
<1> HIDE DEF saved, after, read, lines
<1>5. /\ after \in [file : lines, profile : {after.profile}, pending : BOOLEAN,
                    written : lines \cup {Nothing}]
      /\ after.file = saved.file /\ after.written = saved.written
      /\ after.profile = read.profile /\ after.pending = read.modified
  BY <1>2, <1>3, <1>4
<1>6. Replaces(r, l, after) = Replaces(r, l, saved)
  BY <1>5 DEF Replaces, WroteFile
<1>7. FileInv(after, Replaces(r, l, after))
  BY <1>2, <1>5, <1>6 DEF FileInv, lines
<1>8. ~after.pending => Saved(after, mods)
  <2>1. after.file \in Seq(Lines) /\ (FirstListsOwn => OwnFile(after.file))
    BY <1>2, <1>5 DEF lines
  <2>2. /\ after.profile = RefreshModStatus(after.file, mods).profile
        /\ after.pending = RefreshModStatus(after.file, mods).modified
    BY <1>5 DEF read
  <2>3. QED
    BY <2>1, <2>2, ReadSaved
<1>9. QED
  BY <1>3, <1>5, <1>7, <1>8 DEF ListInv, after

\* So does opening the profile.
LEMMA OpenKeeps ==
  ASSUME NEW mods, IsCollection(mods), NEW file \in Seq(Lines), FirstListsOwn => OwnFile(file)
  PROVE  LET opened == OpenProfile(file, mods)
         IN  /\ ListInv(opened, mods, FALSE)
             /\ opened.file = file /\ opened.profile = RefreshModStatus(file, mods).profile
<1> DEFINE read == RefreshModStatus(file, mods)
           opened == OpenProfile(file, mods)
           lines == Seq(Lines)
<1>1. ListInOrder(read.profile, mods) /\ read.modified \in BOOLEAN
  BY ReadInOrder
<1>2. opened = [file |-> file, profile |-> read.profile, pending |-> read.modified,
                written |-> Nothing]
  BY Zenon DEF OpenProfile
<1> HIDE DEF opened, read, lines
<1>3. /\ opened \in [file : lines, profile : {opened.profile}, pending : BOOLEAN,
                     written : lines \cup {Nothing}]
      /\ opened.file = file /\ opened.written = Nothing
      /\ opened.profile = read.profile /\ opened.pending = read.modified
  BY <1>1, <1>2 DEF lines
<1>4. FileInv(opened, FALSE)
  BY <1>3 DEF FileInv, lines
<1>5. ~opened.pending => Saved(opened, mods)
  BY <1>3, ReadSaved DEF read
<1>6. QED
  BY <1>1, <1>3, <1>4, <1>5 DEF ListInv, opened, read

\* A profile that is about to be written.
Restated(l, profile) == [l EXCEPT !.profile = profile, !.pending = TRUE]

\* Any list in order may be about to be written.
LEMMA PendingKeeps ==
  ASSUME NEW mods, NEW r \in BOOLEAN, NEW l, ListInv(l, mods, r), NEW profile, ListInOrder(profile, mods)
  PROVE  /\ ListInv(Restated(l, profile), mods, r)
         /\ Restated(l, profile).profile = profile /\ Restated(l, profile).pending
         /\ Restated(l, profile).written = l.written /\ Restated(l, profile).file = l.file
<1> DEFINE lines == Seq(Lines)
           after == Restated(l, profile)
<1>1. /\ l \in [file : lines, profile : {l.profile}, pending : BOOLEAN,
                written : lines \cup {Nothing}]
      /\ ~r => l.written \in {Nothing, l.file}
      /\ FirstListsOwn => OwnFile(l.file)
  BY DEF ListInv, FileInv
<1> HIDE DEF lines
<1>2. /\ after \in [file : lines, profile : {after.profile}, pending : BOOLEAN,
                    written : lines \cup {Nothing}]
      /\ after.file = l.file /\ after.written = l.written /\ after.pending
      /\ after.profile = profile
  BY <1>1 DEF Restated
<1> HIDE DEF after
<1>3. QED
  BY <1>1, <1>2 DEF ListInv, FileInv, lines, after

-----------------------------------------------------------------------------
(* The structure and what it is made of *)

\* What getActiveMods hands to the refresher.
LEMMA ActiveModsGive ==
  ASSUME NEW mods, IsCollection(mods), ToSet(mods) \in SUBSET All,
         NEW profile, ListInOrder(profile, mods)
  PROVE  LET given == ActiveMods(profile.status, mods)
             order == ActiveOrder(profile.status, mods)
         IN  given \in Seq(Mod(All)) /\ Gives(given, order)
<1> DEFINE status == profile.status
           E == EnabledMods(status, mods)
           P(m) == PriorityOf(status, mods, m)
           order == ActiveOrder(status, mods)
           given == ActiveMods(status, mods)
           n == Cardinality(E)
<1>1. /\ E \in SUBSET ToSet(mods)
      /\ \A m \in ToSet(mods) : P(m) \in 0..(Len(mods) - 1)
      /\ n \in Nat /\ DOMAIN order = 1..n
      /\ \A k \in 1..n : order[k] \in E
      /\ \A j, k \in 1..n : j < k <=> P(order[j]) < P(order[k])
  BY ActiveFacts
<1>2. given = [k \in DOMAIN order |-> [mod |-> order[k], priority |-> P(order[k])]]
  BY Zenon DEF ActiveMods
<1> HIDE DEF given, order, E, P, n
<1>3. /\ DOMAIN given = 1..n
      /\ \A k \in 1..n : given[k].mod = order[k] /\ given[k].priority = P(order[k])
  BY <1>1, <1>2
<1>4. given = [k \in 1..n |-> [mod |-> order[k], priority |-> P(order[k])]]
  BY <1>1, <1>2
<1>5. \A k \in 1..n : order[k] \in All /\ P(order[k]) \in Nat
  BY <1>1
<1>6. given \in Seq(Mod(All))
  BY <1>1, <1>4, <1>5 DEF Mod
<1>7. Gives(given, order)
  BY <1>1, <1>3 DEF Gives
<1>8. QED
  BY <1>6, <1>7 DEF given, order

\* A structure that shows the enabled mods with the priorities of the list.
LEMMA PrioritiesShow ==
  ASSUME NEW mods, IsCollection(mods), NEW profile, ListInOrder(profile, mods), NEW structure,
         Shown(structure) = EnabledMods(profile.status, mods),
         \A m \in EnabledMods(profile.status, mods) :
           structure[m].priority = PriorityOf(profile.status, mods, m) + 1
  PROVE  Shows(structure, ActiveOrder(profile.status, mods))
<1> DEFINE status == profile.status
           E == EnabledMods(status, mods)
           P(m) == PriorityOf(status, mods, m)
           order == ActiveOrder(status, mods)
           n == Cardinality(E)
<1>1. /\ E \in SUBSET ToSet(mods)
      /\ \A m \in ToSet(mods) : P(m) \in 0..(Len(mods) - 1)
      /\ n \in Nat /\ DOMAIN order = 1..n
      /\ \A k \in 1..n : order[k] \in E
      /\ \A m \in E : \E k \in 1..n : order[k] = m
      /\ \A j, k \in 1..n : j < k <=> P(order[j]) < P(order[k])
  BY ActiveFacts
<1>2. \A m \in E : structure[m].priority = P(m) + 1
  OBVIOUS
<1>3. Shown(structure) = E
  OBVIOUS
<1> HIDE DEF E, P, order, n
<1>4. ToSet(order) = E
  BY <1>1 DEF ToSet
<1>5. ASSUME NEW j \in 1..n, NEW k \in 1..n, j < k
      PROVE  structure[order[j]].priority < structure[order[k]].priority
  <2>1. /\ structure[order[j]].priority = P(order[j]) + 1
        /\ structure[order[k]].priority = P(order[k]) + 1
    BY <1>1, <1>2
  <2>2. P(order[j]) \in Int /\ P(order[k]) \in Int /\ P(order[j]) < P(order[k])
    BY <1>1, <1>5
  <2>3. P(order[j]) + 1 < P(order[k]) + 1
    BY <2>2
  <2>4. QED
    BY <2>1, <2>3, Zenon
<1>6. QED
  BY <1>1, <1>3, <1>4, <1>5 DEF Shows, order

\* The structure that the refresher builds.
LEMMA BuiltShows ==
  ASSUME NEW given \in Seq(Mod(All))
  PROVE  /\ IsStructure(Built(given))
         /\ \A order : /\ Gives(given, order)
                       /\ \A j, k \in DOMAIN order : order[j] = order[k] => j = k
                       => Shows(Built(given), order)
<1> DEFINE at(m) == CHOOSE j \in DOMAIN given : given[j].mod = m
           named == {given[k].mod : k \in DOMAIN given}
           built == Built(given)
<1>1. built = [m \in named |-> [enabled |-> TRUE, priority |-> given[at(m)].priority + 1]]
  BY Zenon DEF Built
<1>2. \A m \in named : at(m) \in DOMAIN given /\ given[at(m)].mod = m
  OBVIOUS
<1>3. \A k \in DOMAIN given : given[k].priority \in Nat /\ given[k].mod \in named
  <2>1. \A k \in DOMAIN given : given[k] \in Mod(All)
    OBVIOUS
  <2>2. QED
    BY <2>1 DEF Mod
<1> HIDE DEF at, named, built
<1>4. /\ DOMAIN built = named
      /\ \A m \in named : /\ built[m].enabled = TRUE
                          /\ built[m].priority = given[at(m)].priority + 1
  BY <1>1
<1>5. \A m \in named : built[m] \in ModStatus
  BY <1>1, <1>2, <1>3 DEF ModStatus
<1>6. IsStructure(built)
  BY <1>4, <1>5 DEF IsStructure
<1>7. Shown(built) = named
  BY <1>4 DEF Shown
<1>8. ASSUME NEW order, Gives(given, order),
             \A j, k \in DOMAIN order : order[j] = order[k] => j = k
      PROVE  Shows(built, order)
  <2>1. /\ DOMAIN given = DOMAIN order
        /\ \A k \in DOMAIN order : given[k].mod = order[k]
        /\ \A j, k \in DOMAIN order : j < k => given[j].priority < given[k].priority
    BY <1>8 DEF Gives
  <2>2. ToSet(order) = named
    BY <2>1 DEF ToSet, named
  <2>3. \A k \in DOMAIN order : at(order[k]) = k
    BY <1>2, <1>3, <1>8, <2>1
  <2>4. ASSUME NEW j \in DOMAIN order, NEW k \in DOMAIN order, j < k
        PROVE  built[order[j]].priority < built[order[k]].priority
    <3>1. order[j] \in named /\ order[k] \in named
      BY <1>3, <2>1
    <3>2. /\ built[order[j]].priority = given[j].priority + 1
          /\ built[order[k]].priority = given[k].priority + 1
      BY <1>4, <2>3, <3>1
    <3>3. given[j].priority \in Nat /\ given[k].priority \in Nat /\ given[j].priority < given[k].priority
      BY <1>3, <2>1, <2>4
    <3>4. given[j].priority + 1 < given[k].priority + 1
      BY <3>3
    <3>5. QED
      BY <3>2, <3>4, Zenon
  <2>5. QED
    BY <1>7, <2>2, <2>4 DEF Shows
<1>9. QED
  BY <1>6, <1>8 DEF built

\* refreshESPList: the plugins follow the structure, nothing else changes.
LEMMA ESPListRefreshed ==
  ASSUME NEW l, NEW c, CoreInv(c)
  PROVE  LET after == RefreshESPList(l, c)
         IN  /\ CoreInv(after.core) /\ PluginsFollow(after.core)
             /\ after.core.update = c.update /\ after.core.refresher = c.refresher
             /\ after.core.mods = c.mods /\ after.core.root = c.root
             /\ after.core.structure = c.structure
             /\ \A order : Follows(after.core, order) <=> Follows(c, order)
             /\ after.list = IF c.update THEN l ELSE [l EXCEPT !.pending = TRUE]
<1> DEFINE after == RefreshESPList(l, c)
           fields == {"update", "refresher", "mods", "root", "structure", "plugins", "postRefresh"}
<1>1. /\ DOMAIN c = {"update", "refresher", "mods", "root", "structure", "plugins", "postRefresh"}
      /\ c.refresher \in {"idle", "queued", "done"}
      /\ c.update = (c.refresher # "idle")
      /\ c.mods \in Seq(Mod(All))
      /\ IsStructure(c.root) /\ IsStructure(c.structure)
      /\ c.postRefresh \in BOOLEAN
      /\ c.postRefresh => c.update
  BY DEF CoreInv
<1>2. CASE c.update
  <2>1. after = [list |-> l, core |-> [c EXCEPT !.postRefresh = TRUE]]
    BY <1>2 DEF RefreshESPList
  <2>2. /\ DOMAIN after.core = DOMAIN c /\ after.core.postRefresh = TRUE
        /\ after.core.update = c.update /\ after.core.refresher = c.refresher
        /\ after.core.mods = c.mods /\ after.core.root = c.root
        /\ after.core.structure = c.structure
    BY <1>1, <2>1
  <2> HIDE DEF after
  <2>3. after.list = l
    BY <2>1
  <2>4. CoreInv(after.core) /\ PluginsFollow(after.core)
    BY <1>1, <1>2, <2>2 DEF CoreInv, PluginsFollow
  <2>5. \A order : Follows(after.core, order) <=> Follows(c, order)
    BY <2>2 DEF Follows
  <2>6. QED
    BY <1>2, <2>2, <2>3, <2>4, <2>5 DEF after
<1>3. CASE ~c.update
  <2>1. after = [list |-> [l EXCEPT !.pending = TRUE], core |-> [c EXCEPT !.plugins = Shown(c.structure)]]
    BY <1>3 DEF RefreshESPList
  <2>2. /\ DOMAIN after.core = DOMAIN c /\ after.core.plugins = Shown(c.structure)
        /\ after.core.update = c.update /\ after.core.refresher = c.refresher
        /\ after.core.mods = c.mods /\ after.core.root = c.root
        /\ after.core.structure = c.structure /\ after.core.postRefresh = c.postRefresh
    BY <1>1, <2>1
  <2> HIDE DEF after
  <2>3. after.list = [l EXCEPT !.pending = TRUE]
    BY <2>1
  <2>4. CoreInv(after.core) /\ PluginsFollow(after.core)
    BY <1>1, <1>3, <2>2 DEF CoreInv, PluginsFollow
  <2>5. \A order : Follows(after.core, order) <=> Follows(c, order)
    BY <2>2 DEF Follows
  <2>6. QED
    BY <1>3, <2>2, <2>3, <2>4, <2>5 DEF after
<1>4. QED
  BY <1>2, <1>3

\* refreshDirectoryStructure: the list is saved and the refresher has its mods.
LEMMA StructureRefreshed ==
  ASSUME NEW mods, IsCollection(mods), ToSet(mods) \in SUBSET All,
         NEW r \in BOOLEAN, NEW l, ListInv(l, mods, r), NEW c, CoreInv(c)
  PROVE  LET after == RefreshStructure(l, mods, c)
         IN  /\ ListInv(after.list, mods, Replaces(r, l, after.list))
             /\ after.list.profile = l.profile
             /\ CoreInv(after.core) /\ PluginsFollow(after.core) /\ after.core.update
             /\ ~c.update => Follows(after.core, Active(l, mods))
             /\ c.update => after.list = l /\ after.core = c
<1> DEFINE after == RefreshStructure(l, mods, c)
           saved == WriteModlistNow(l, mods, TRUE)
           given == ActiveMods(saved.profile.status, mods)
<1>1. /\ DOMAIN c = {"update", "refresher", "mods", "root", "structure", "plugins", "postRefresh"}
      /\ c.refresher \in {"idle", "queued", "done"}
      /\ c.update = (c.refresher # "idle")
      /\ c.mods \in Seq(Mod(All))
      /\ IsStructure(c.root) /\ IsStructure(c.structure)
      /\ c.postRefresh \in BOOLEAN
      /\ c.postRefresh => c.update
  BY DEF CoreInv
<1>2. CASE c.update
  <2>1. after = [list |-> l, core |-> c]
    BY <1>2 DEF RefreshStructure
  <2>2. Replaces(r, l, after.list) = r
    BY <2>1 DEF Replaces, WroteFile
  <2>3. QED
    BY <1>2, <2>1, <2>2 DEF PluginsFollow
<1>3. CASE ~c.update
  <2>1. after = [list |-> saved,
                 core |-> [c EXCEPT !.update = TRUE, !.refresher = "queued", !.mods = given]]
    BY <1>3, Zenon DEF RefreshStructure
  <2>2. /\ ListInv(saved, mods, Replaces(r, l, saved))
        /\ saved.profile = l.profile
    BY WriteNowSaves
  <2>3. ListInOrder(l.profile, mods)
    BY DEF ListInv
  <2>4. given \in Seq(Mod(All)) /\ Gives(given, Active(l, mods))
    BY <2>2, <2>3, ActiveModsGive DEF Active
  <2> HIDE DEF given, saved
  <2>5. /\ DOMAIN after.core = DOMAIN c /\ after.core.update = TRUE
        /\ after.core.refresher = "queued" /\ after.core.mods = given
        /\ after.core.root = c.root /\ after.core.structure = c.structure
        /\ after.core.postRefresh = c.postRefresh
    <3> HIDE DEF after
    <3>1. after.core = [c EXCEPT !.update = TRUE, !.refresher = "queued", !.mods = given]
      BY <2>1
    <3> DEFINE d == after.core
    <3> HIDE DEF d
    <3>2. d = [c EXCEPT !.update = TRUE, !.refresher = "queued", !.mods = given]
      BY <3>1 DEF d
    <3>3. /\ DOMAIN d = DOMAIN c /\ d.update = TRUE
          /\ d.refresher = "queued" /\ d.mods = given
          /\ d.root = c.root /\ d.structure = c.structure
          /\ d.postRefresh = c.postRefresh
      BY <1>1, <3>2
    <3>4. QED
      BY <3>3 DEF d
  <2>6. after.list = saved
    BY <2>1
  <2> HIDE DEF after
  <2>7. CoreInv(after.core)
    BY <1>1, <2>4, <2>5 DEF CoreInv
  <2>8. /\ PluginsFollow(after.core) /\ after.core.update
        /\ Follows(after.core, Active(l, mods))
    BY <2>4, <2>5 DEF PluginsFollow, Follows
  <2>9. QED
    BY <1>3, <2>2, <2>6, <2>7, <2>8 DEF after
<1>4. QED
  BY <1>2, <1>3

\* The structure with other priorities.
LEMMA PrioritiesSet ==
  ASSUME NEW mods, IsCollection(mods), NEW l, ListInOrder(l.profile, mods),
         NEW structure, IsStructure(structure), NEW changed \in SUBSET ToSet(mods)
  PROVE  LET after == WithPriorities(structure, l, mods, changed)
         IN  /\ IsStructure(after) /\ Shown(after) = Shown(structure)
             /\ DOMAIN after = DOMAIN structure
             /\ \A m \in DOMAIN structure \cap changed :
                  after[m].priority = PriorityOf(l.profile.status, mods, m) + 1
<1> DEFINE after == WithPriorities(structure, l, mods, changed)
           status == l.profile.status
           entry(m) == IF m \in changed
                       THEN [structure[m] EXCEPT !.priority = status[Index(mods, m)].priority + 1]
                       ELSE structure[m]
<1>1. \A m \in DOMAIN structure : structure[m] \in ModStatus
  BY DEF IsStructure
<1>2. \A m \in ToSet(mods) : status[Index(mods, m)].priority \in Int
  <2>1. \A m \in ToSet(mods) : Index(mods, m) \in DOMAIN mods
    BY CollectionFacts
  <2>2. QED
    BY <2>1 DEF ListInOrder, ProfilesOf, ModStatus
<1>3. after = [m \in DOMAIN structure |-> entry(m)]
  BY Zenon DEF WithPriorities
<1>4. ASSUME NEW m \in DOMAIN structure
      PROVE  /\ entry(m) \in ModStatus /\ entry(m).enabled = structure[m].enabled
             /\ m \in changed => entry(m).priority = status[Index(mods, m)].priority + 1
  BY <1>1, <1>2 DEF ModStatus
<1> HIDE DEF after, entry, status
<1>5. DOMAIN after = DOMAIN structure /\ \A m \in DOMAIN structure : after[m] = entry(m)
  BY <1>3
<1>6. IsStructure(after) /\ Shown(after) = Shown(structure)
  BY <1>4, <1>5 DEF IsStructure, Shown
<1>7. \A m \in DOMAIN structure \cap changed : after[m].priority = PriorityOf(l.profile.status, mods, m) + 1
  BY <1>4, <1>5 DEF PriorityOf, status
<1>8. QED
  BY <1>5, <1>6, <1>7 DEF after

ListFields == {"file", "profile", "pending", "written"}

\* What modStatusChanged is called with, and what it leaves.
CanChange(l, mods, changed, c) ==
  /\ IsCollection(mods) /\ ToSet(mods) \in SUBSET All
  /\ DOMAIN l = ListFields /\ ListInOrder(l.profile, mods)
  /\ changed \in SUBSET ToSet(mods) /\ CoreInv(c)

IsChanged(l, mods, changed, on, c, after) ==
  /\ after.list = [l EXCEPT !.pending = TRUE]
  /\ CoreInv(after.core) /\ PluginsFollow(after.core)
  /\ after.core.update = c.update /\ after.core.refresher = c.refresher
  /\ after.core.root = c.root
  /\ on = TRUE =>
       /\ after.core.mods = ActiveMods(l.profile.status, mods)
       /\ Shown(after.core.structure) = Shown(c.structure) \cup changed
  /\ on = FALSE =>
       /\ after.core.mods = c.mods
       /\ Shown(after.core.structure) = Shown(c.structure) \ changed
  /\ \A m \in Shown(after.core.structure) \cap ToSet(mods) :
       after.core.structure[m].priority = PriorityOf(l.profile.status, mods, m) + 1
\* modStatusChanged, for the list as it is after the change.
LEMMA StatusChanged ==
  ASSUME NEW l, NEW mods, NEW changed, NEW c, CanChange(l, mods, changed, c), NEW on \in BOOLEAN
  PROVE  IsChanged(l, mods, changed, on, c, ModStatusChanged(l, mods, changed, on, c))
<1> DEFINE enabling == [m \in changed \cup DOMAIN c.structure |->
                          IF m \in changed THEN [enabled |-> TRUE, priority |-> 0]
                          ELSE c.structure[m]]
           disabling == [m \in DOMAIN c.structure |->
                           [c.structure[m] EXCEPT !.enabled = @ /\ m \notin changed]]
           shown == IF on THEN enabling ELSE disabling
           structure == WithPriorities(shown, l, mods, ToSet(mods))
           given == IF on THEN ActiveMods(l.profile.status, mods) ELSE c.mods
           next == [c EXCEPT !.structure = structure, !.mods = given]
           listed == RefreshESPList(l, next)
           after == ModStatusChanged(l, mods, changed, on, c)
<1>0. /\ IsCollection(mods) /\ ToSet(mods) \in SUBSET All
      /\ DOMAIN l = {"file", "profile", "pending", "written"} /\ ListInOrder(l.profile, mods)
      /\ changed \in SUBSET ToSet(mods) /\ CoreInv(c)
  BY DEF CanChange, ListFields
<1>1. /\ DOMAIN c = {"update", "refresher", "mods", "root", "structure", "plugins", "postRefresh"}
      /\ c.refresher \in {"idle", "queued", "done"}
      /\ c.update = (c.refresher # "idle")
      /\ c.mods \in Seq(Mod(All))
      /\ IsStructure(c.root) /\ IsStructure(c.structure)
      /\ c.postRefresh \in BOOLEAN
      /\ c.postRefresh => c.update
  BY <1>0 DEF CoreInv
<1>2. IsStructure(enabling) /\ Shown(enabling) = Shown(c.structure) \cup changed
  <2>1. DOMAIN enabling = changed \cup DOMAIN c.structure
    OBVIOUS
  <2>2. \A m \in DOMAIN enabling : enabling[m] = IF m \in changed THEN [enabled |-> TRUE, priority |-> 0]
                                                 ELSE c.structure[m]
    OBVIOUS
  <2> HIDE DEF enabling
  <2>3. \A m \in DOMAIN enabling : enabling[m] \in ModStatus
    <3>1. [enabled |-> TRUE, priority |-> 0] \in ModStatus
      BY DEF ModStatus
    <3>2. QED
      BY <1>1, <2>1, <2>2, <3>1 DEF IsStructure
  <2>4. \A m \in DOMAIN enabling : enabling[m].enabled <=> (m \in changed \/ c.structure[m].enabled)
    BY <2>2
  <2>5. QED
    BY <2>1, <2>3, <2>4 DEF IsStructure, Shown
<1>3. IsStructure(disabling) /\ Shown(disabling) = Shown(c.structure) \ changed
  <2>1. \A m \in DOMAIN c.structure : c.structure[m] \in ModStatus
    BY <1>1 DEF IsStructure
  <2>2. \A m \in DOMAIN c.structure :
          /\ disabling[m] \in ModStatus
          /\ disabling[m].enabled <=> (c.structure[m].enabled /\ m \notin changed)
    BY <2>1 DEF ModStatus
  <2>3. DOMAIN disabling = DOMAIN c.structure
    OBVIOUS
  <2> HIDE DEF disabling
  <2>4. QED
    BY <2>2, <2>3 DEF IsStructure, Shown
<1> HIDE DEF enabling, disabling
<1>4. /\ IsStructure(shown)
      /\ Shown(shown) = IF on THEN Shown(c.structure) \cup changed ELSE Shown(c.structure) \ changed
  BY <1>2, <1>3
<1>5. /\ IsStructure(structure) /\ Shown(structure) = Shown(shown)
      /\ DOMAIN structure = DOMAIN shown
      /\ \A m \in DOMAIN shown \cap ToSet(mods) :
           structure[m].priority = PriorityOf(l.profile.status, mods, m) + 1
  BY <1>0, <1>4, PrioritiesSet
<1>6. given \in Seq(Mod(All))
  BY <1>0, <1>1, ActiveModsGive
<1>7. /\ after.core = listed.core
      /\ after.list = [listed.list EXCEPT !.pending = TRUE]
  BY Zenon DEF ModStatusChanged, enabling, disabling
<1> HIDE DEF structure, given, shown
<1>8. /\ DOMAIN next = DOMAIN c /\ next.mods = given /\ next.structure = structure
      /\ next.update = c.update /\ next.refresher = c.refresher
      /\ next.root = c.root /\ next.postRefresh = c.postRefresh
  BY <1>1
<1> HIDE DEF next
<1>9. CoreInv(next)
  BY <1>1, <1>5, <1>6, <1>8 DEF CoreInv
<1>10. /\ CoreInv(listed.core) /\ PluginsFollow(listed.core)
       /\ listed.core.update = next.update /\ listed.core.refresher = next.refresher
       /\ listed.core.mods = next.mods /\ listed.core.root = next.root
       /\ listed.core.structure = next.structure
       /\ listed.list = IF next.update THEN l ELSE [l EXCEPT !.pending = TRUE]
  BY <1>9, ESPListRefreshed
<1> HIDE DEF listed, after
<1>11. after.list = [l EXCEPT !.pending = TRUE]
  BY <1>7, <1>10
<1>12. /\ after.core.update = c.update /\ after.core.refresher = c.refresher
       /\ after.core.mods = given /\ after.core.root = c.root
       /\ after.core.structure = structure
  BY <1>7, <1>8, <1>10
<1>13. \A m \in Shown(structure) : m \in DOMAIN shown
  BY <1>5 DEF Shown
<1>14. \A m \in Shown(structure) \cap ToSet(mods) :
         structure[m].priority = PriorityOf(l.profile.status, mods, m) + 1
  BY <1>5, <1>13
<1>15. QED
  BY <1>4, <1>5, <1>7, <1>10, <1>11, <1>12, <1>14 DEF after, given, IsChanged

\* A list that is written soon.
LEMMA PendingStays ==
  ASSUME NEW mods, NEW r \in BOOLEAN, NEW l, ListInv(l, mods, r)
  PROVE  LET after == [l EXCEPT !.pending = TRUE]
         IN  /\ ListInv(after, mods, r) /\ after.profile = l.profile /\ after.pending
             /\ after.written = l.written /\ after.file = l.file
             /\ l.pending => after = l
<1> DEFINE lines == Seq(Lines)
           after == [l EXCEPT !.pending = TRUE]
<1>1. /\ l \in [file : lines, profile : {l.profile}, pending : BOOLEAN,
                written : lines \cup {Nothing}]
      /\ ~r => l.written \in {Nothing, l.file}
      /\ FirstListsOwn => OwnFile(l.file)
  BY DEF ListInv, FileInv
<1> HIDE DEF lines
<1>2. /\ after \in [file : lines, profile : {after.profile}, pending : BOOLEAN,
                    written : lines \cup {Nothing}]
      /\ after.file = l.file /\ after.written = l.written /\ after.pending
      /\ after.profile = l.profile /\ (l.pending => after = l)
  BY <1>1
<1> HIDE DEF after
<1>3. QED
  BY <1>1, <1>2 DEF ListInv, FileInv, lines, after

\* The fields of the list.
LEMMA ListFieldsAre ==
  ASSUME NEW mods, NEW r \in BOOLEAN, NEW l, ListInv(l, mods, r)
  PROVE  /\ DOMAIN l = ListFields /\ l.pending \in BOOLEAN /\ l.file \in Seq(Lines)
         /\ FirstListsOwn => OwnFile(l.file)
         /\ FileInv(l, r) /\ ListInOrder(l.profile, mods)
BY DEF ListInv, FileInv, ListFields

\* Lists with the same enabled mods in the same order have them active alike.
LEMMA SameActive ==
  ASSUME NEW mods, IsCollection(mods), NEW p, ListInOrder(p, mods), NEW q, ListInOrder(q, mods),
         \A i \in DOMAIN mods : q.status[i].enabled = p.status[i].enabled,
         \A i, j \in DOMAIN mods : p.status[i].enabled /\ p.status[j].enabled
                                     /\ p.status[i].priority < p.status[j].priority
                                     => q.status[i].priority < q.status[j].priority
  PROVE  ActiveOrder(q.status, mods) = ActiveOrder(p.status, mods)
<1> DEFINE E == EnabledMods(p.status, mods)
           P(m) == PriorityOf(p.status, mods, m)
           Q(m) == PriorityOf(q.status, mods, m)
           a == [m \in E |-> P(m)]
           b == [m \in E |-> Q(m)]
<1>1. EnabledMods(q.status, mods) = E
  BY DEF EnabledMods
<1>2. /\ ActiveOrder(p.status, mods) = SortedBy(E, a) /\ Keys(E, a)
      /\ E \in SUBSET ToSet(mods)
      /\ \A i \in DOMAIN mods : p.status[i].enabled <=> mods[i] \in E
  BY ActiveFacts
<1>3. ActiveOrder(q.status, mods) = SortedBy(E, b) /\ Keys(E, b)
  <2> DEFINE F == EnabledMods(q.status, mods)
  <2>1. ActiveOrder(q.status, mods) = SortedBy(F, [m \in F |-> Q(m)]) /\ Keys(F, [m \in F |-> Q(m)])
    BY ActiveFacts
  <2>2. QED
    BY <1>1, <2>1, Zenon
<1>4. /\ \A m \in ToSet(mods) : Index(mods, m) \in DOMAIN mods /\ mods[Index(mods, m)] = m
  BY CollectionFacts
<1>5. /\ \A m \in ToSet(mods) : P(m) = p.status[Index(mods, m)].priority
      /\ \A m \in ToSet(mods) : Q(m) = q.status[Index(mods, m)].priority
  BY DEF PriorityOf
<1> HIDE DEF E, P, Q
<1>6. \A m, n \in E : P(m) < P(n) => Q(m) < Q(n)
  <2>1. SUFFICES ASSUME NEW m \in E, NEW n \in E, P(m) < P(n) PROVE Q(m) < Q(n)
    OBVIOUS
  <2>2. /\ Index(mods, m) \in DOMAIN mods /\ Index(mods, n) \in DOMAIN mods
        /\ mods[Index(mods, m)] \in E /\ mods[Index(mods, n)] \in E
    BY <1>2, <1>4
  <2>3. p.status[Index(mods, m)].priority < p.status[Index(mods, n)].priority
    BY <1>2, <1>5, <2>1
  <2>4. QED
    BY <1>2, <1>5, <2>2, <2>3
<1>7. \A m, n \in E : a[m] < a[n] => b[m] < b[n]
  BY <1>6
<1> HIDE DEF a, b
<1>8. \A m \in E : b[m] \in Int
  BY <1>3 DEF Keys
<1>9. SortedBy(E, a) = SortedBy(E, b)
  BY <1>2, <1>7, <1>8, SortedAlike
<1>10. QED
  BY <1>2, <1>3, <1>9

\* What modPrioritiesChanged leaves.
IsMoved(l, mods, c, after) ==
  LET missing == Enabled(l, mods) \ DOMAIN c.structure
  IN /\ after.list = IF missing = {} THEN [l EXCEPT !.pending = TRUE] ELSE l
     /\ CoreInv(after.core) /\ (PluginsFollow(c) => PluginsFollow(after.core))
     /\ after.core.update = c.update /\ after.core.refresher = c.refresher
     /\ after.core.mods = c.mods /\ after.core.root = c.root
     /\ Shown(after.core.structure) = Shown(c.structure)
     /\ missing = {} => \A m \in Enabled(l, mods) :
          after.core.structure[m].priority = PriorityOf(l.profile.status, mods, m) + 1

\* modPrioritiesChanged, for the list as it is after the change.
LEMMA PrioritiesChanged ==
  ASSUME NEW mods, IsCollection(mods), NEW l, ListInOrder(l.profile, mods), NEW c, CoreInv(c)
  PROVE  IsMoved(l, mods, c, ModPrioritiesChanged(l, mods, c))
<1> DEFINE after == ModPrioritiesChanged(l, mods, c)
           enabled == Enabled(l, mods)
           missing == enabled \ DOMAIN c.structure
           reached == {m \in enabled : \A n \in missing : m < n}
           structure == WithPriorities(c.structure, l, mods, reached)
<1>1. /\ DOMAIN c = {"update", "refresher", "mods", "root", "structure", "plugins", "postRefresh"}
      /\ c.refresher \in {"idle", "queued", "done"}
      /\ c.update = (c.refresher # "idle")
      /\ c.mods \in Seq(Mod(All))
      /\ IsStructure(c.root) /\ IsStructure(c.structure)
      /\ c.postRefresh \in BOOLEAN
      /\ c.postRefresh => c.update
  BY DEF CoreInv
<1>2. enabled \in SUBSET ToSet(mods)
  BY ActiveFacts DEF Enabled
<1>3. /\ IsStructure(structure) /\ Shown(structure) = Shown(c.structure)
      /\ \A m \in DOMAIN c.structure \cap reached :
           structure[m].priority = PriorityOf(l.profile.status, mods, m) + 1
  <2>1. reached \in SUBSET ToSet(mods)
    BY <1>2
  <2> HIDE DEF reached
  <2>2. QED
    BY <1>1, <2>1, PrioritiesSet
<1>4. after = [list |-> IF missing = {} THEN [l EXCEPT !.pending = TRUE] ELSE l,
               core |-> [c EXCEPT !.structure = structure]]
  BY Zenon DEF ModPrioritiesChanged
<1>5. missing = {} => enabled \in SUBSET (DOMAIN c.structure \cap reached)
  OBVIOUS
<1> HIDE DEF after, structure, enabled, missing, reached
<1> DEFINE d == after.core
<1> HIDE DEF d
<1>6. d = [c EXCEPT !.structure = structure]
  BY <1>4 DEF d
<1>7. /\ DOMAIN d = DOMAIN c /\ d.structure = structure /\ d.plugins = c.plugins
      /\ d.update = c.update /\ d.refresher = c.refresher
      /\ d.mods = c.mods /\ d.root = c.root /\ d.postRefresh = c.postRefresh
  BY <1>1, <1>6
<1>8. CoreInv(d) /\ (PluginsFollow(c) => PluginsFollow(d))
  BY <1>1, <1>3, <1>7 DEF CoreInv, PluginsFollow
<1>9. missing = {} => \A m \in enabled : d.structure[m].priority = PriorityOf(l.profile.status, mods, m) + 1
  BY <1>3, <1>5, <1>7
<1>10. after.list = IF missing = {} THEN [l EXCEPT !.pending = TRUE] ELSE l
  BY <1>4
<1>11. QED
  BY <1>3, <1>7, <1>8, <1>9, <1>10 DEF d, after, missing, enabled, IsMoved

\* What OrganizerCore::refresh leaves behind.
LEMMA RefreshedKeeps ==
  ASSUME CoreInv(core), NEW before, IsCollection(before), NEW mods, IsCollection(mods),
         ToSet(mods) \in SUBSET All, NEW r \in BOOLEAN, NEW l, FileInv(l, r),
         ListInOrder(l.profile, before), NEW save \in BOOLEAN, save => ListInv(l, before, r)
  PROVE  LET after == Refreshed(l, before, mods, save)
         IN  /\ ListInv(after.list, mods, Replaces(r, l, after.list))
             /\ CoreInv(after.core) /\ PluginsFollow(after.core) /\ after.core.update
             /\ ~core.update => Follows(after.core, Active(after.list, mods))
             /\ core.update => after.core = core
<1> DEFINE saved == IF save THEN WriteModlistNow(l, before, TRUE) ELSE l
           read == ReadModStatus(saved, mods)
           built == RefreshStructure(read, mods, core)
           after == Refreshed(l, before, mods, save)
           n == Len(before)
<1>1. Statuses(l.profile.status, n)
  BY InOrderStatuses
<1>2. FileInv(saved, Replaces(r, l, saved)) /\ saved.profile = l.profile
  <2>1. CASE save
    BY <2>1, WriteNowSaves DEF ListInv
  <2>2. CASE ~save
    <3>1. Replaces(r, l, saved) = r
      BY <2>2 DEF Replaces, WroteFile
    <3>2. QED
      BY <2>2, <3>1
  <2>3. QED
    BY <2>1, <2>2
<1>3. Replaces(r, l, saved) \in BOOLEAN
  BY DEF Replaces
<1>4. after = built
  BY DEF Refreshed
<1> HIDE DEF saved, n
<1>5. ListInv(read, mods, Replaces(Replaces(r, l, saved), saved, read))
  BY <1>1, <1>2, <1>3, ReadKeeps
<1> HIDE DEF read
<1> DEFINE s == Replaces(Replaces(r, l, saved), saved, read)
<1>6. s \in BOOLEAN /\ ListInv(read, mods, s)
  BY <1>3, <1>5 DEF Replaces
<1> HIDE DEF s
<1>7. /\ ListInv(built.list, mods, Replaces(s, read, built.list))
      /\ built.list.profile = read.profile
      /\ CoreInv(built.core) /\ PluginsFollow(built.core) /\ built.core.update
      /\ ~core.update => Follows(built.core, Active(read, mods))
      /\ core.update => built.list = read /\ built.core = core
  BY <1>6, StructureRefreshed
<1> HIDE DEF built, after
<1>8. Replaces(s, read, built.list) => Replaces(r, l, built.list)
  BY DEF Replaces, WroteFile, s
<1>9. ListInv(built.list, mods, Replaces(r, l, built.list))
  BY <1>6, <1>7, <1>8, ReplacedSince DEF Replaces
<1>10. Active(built.list, mods) = Active(read, mods)
  BY <1>7 DEF Active
<1>11. QED
  BY <1>4, <1>7, <1>9, <1>10 DEF after

-----------------------------------------------------------------------------
(* The commands on the list keep the invariant *)

\* The parts of the invariant by name.
DiskInv    == Overwrite \in disk /\ disk \subseteq All
ModsInv    == ToSet(collection) \subseteq All /\ IsCollection(collection)
BackupInv  == /\ backup \in Seq(Lines) \cup {Nothing}
              /\ backup # Nothing /\ FirstListsOwn => OwnFile(backup)
ViewInv    == ~missed => Follows(core, Active(list, collection))
ProgramInv == program \in {"none", "waiting", "ready", "saved", "running"}
FlagsInv   == missed \in BOOLEAN /\ replaced \in BOOLEAN
CountInv   == commands \in 0..MaxCommands

\* getActiveMods lists all enabled mods and no other.
LEMMA ActiveLists ==
  ASSUME NEW mods, IsCollection(mods), NEW profile, ListInOrder(profile, mods)
  PROVE  /\ ToSet(ActiveOrder(profile.status, mods)) = EnabledMods(profile.status, mods)
         /\ EnabledMods(profile.status, mods) \in SUBSET ToSet(mods)
<1> DEFINE E == EnabledMods(profile.status, mods)
           order == ActiveOrder(profile.status, mods)
           n == Cardinality(E)
<1>1. /\ DOMAIN order = 1..n /\ E \in SUBSET ToSet(mods)
      /\ \A k \in 1..n : order[k] \in E
      /\ \A m \in E : \E k \in 1..n : order[k] = m
  BY ActiveFacts
<1> HIDE DEF E, order, n
<1>2. ToSet(order) = E
  BY <1>1 DEF ToSet
<1>3. QED
  BY <1>1, <1>2 DEF E, order

\* The invariant in named parts.
LEMMA IInvParts ==
  IInv <=> /\ DiskInv /\ ModsInv /\ ListInv(list, collection, replaced) /\ BackupInv
           /\ CoreInv(core) /\ PluginsFollow(core) /\ ViewInv
           /\ ProgramInv /\ FlagsInv /\ CountInv
BY DEF IInv, DiskInv, ModsInv, BackupInv, ViewInv, ProgramInv, FlagsInv, CountInv

\* A command is counted.
LEMMA Counted ==
  ASSUME CountInv, Command PROVE CountInv'
BY FirstAssumption DEF CountInv, Command

\* Profile::setModsEnabled.
WithEnabled(p, mods, changed, on) ==
  [p EXCEPT !.status = [i \in DOMAIN @ |-> IF mods[i] \in changed
                                          THEN [@[i] EXCEPT !.enabled = on] ELSE @[i]]]

\* What setModsEnabled is called with, and what it leaves.
CanSwitch(p, mods, changed) ==
  /\ IsCollection(mods) /\ ListInOrder(p, mods) /\ changed \in SUBSET ToSet(mods)
  /\ \A m \in changed : ~AlwaysEnabled(m) /\ ~AlwaysDisabled(m)

IsSwitched(p, mods, changed, on, q) ==
  /\ ListInOrder(q, mods)
  /\ \A i \in DOMAIN mods : q.status[i].priority = p.status[i].priority
  /\ on = TRUE => EnabledMods(q.status, mods) = EnabledMods(p.status, mods) \cup changed
  /\ on = FALSE => EnabledMods(q.status, mods) = EnabledMods(p.status, mods) \ changed

\* Mods that can be moved are enabled or disabled.
LEMMA StatusSet ==
  ASSUME NEW mods, NEW p, NEW changed, CanSwitch(p, mods, changed), NEW on \in BOOLEAN
  PROVE  IsSwitched(p, mods, changed, on, WithEnabled(p, mods, changed, on))
<1> DEFINE old == p.status
           new == [i \in DOMAIN old |-> IF mods[i] \in changed
                                        THEN [old[i] EXCEPT !.enabled = on] ELSE old[i]]
           q == [p EXCEPT !.status = new]
<1>0. /\ IsCollection(mods) /\ ListInOrder(p, mods) /\ changed \in SUBSET ToSet(mods)
      /\ \A m \in changed : ~AlwaysEnabled(m) /\ ~AlwaysDisabled(m)
  BY DEF CanSwitch
<1>1. /\ p \in [status : [DOMAIN mods -> ModStatus], managed : Nat]
      /\ p.managed = Cardinality(Managed(mods))
      /\ \A i \in DOMAIN mods : old[i].priority \in 0..(Len(mods) - 1)
      /\ \A i \in DOMAIN mods : ~HasAutomaticPriority(mods[i]) <=> old[i].priority \in 0..(p.managed - 1)
      /\ \A i, j \in DOMAIN mods : i # j => old[i].priority # old[j].priority
      /\ \A x \in 0..(p.managed - 1) : \E i \in DOMAIN mods : old[i].priority = x
      /\ \A i \in DOMAIN mods :
           /\ HasAutomaticPriority(mods[i]) => old[i].priority = AutomaticPriority(mods, mods[i])
           /\ AlwaysEnabled(mods[i]) => old[i].enabled
           /\ AlwaysDisabled(mods[i]) => ~old[i].enabled
  BY <1>0 DEF ListInOrder, ProfilesOf
<1>2. DOMAIN old = DOMAIN mods /\ \A i \in DOMAIN mods : old[i] \in ModStatus
  BY <1>1
<1>3. /\ new \in [DOMAIN mods -> ModStatus]
      /\ \A i \in DOMAIN mods : /\ new[i].priority = old[i].priority
                                /\ mods[i] \in changed => new[i].enabled = on
                                /\ mods[i] \notin changed => new[i].enabled = old[i].enabled
  BY <1>2 DEF ModStatus
<1>4. q \in [status : [DOMAIN mods -> ModStatus], managed : Nat]
  BY <1>1, <1>3
<1> HIDE DEF new
<1>5. q.status = new /\ q.managed = p.managed
  BY <1>1
<1>6. WithEnabled(p, mods, changed, on) = q
  BY DEF new, WithEnabled
<1> HIDE DEF q, old
<1>7. ListInOrder(q, mods)
  <2>1. /\ q \in ProfilesOf(mods) /\ q.managed = Cardinality(Managed(mods))
        /\ \A i \in DOMAIN mods : q.status[i].priority = old[i].priority
    BY <1>1, <1>3, <1>4, <1>5 DEF ProfilesOf
  <2>2. /\ \A i \in DOMAIN mods : q.status[i].priority \in 0..(Len(mods) - 1)
        /\ \A i \in DOMAIN mods : ~HasAutomaticPriority(mods[i])
                                    <=> q.status[i].priority \in 0..(q.managed - 1)
        /\ \A i, j \in DOMAIN mods : i # j => q.status[i].priority # q.status[j].priority
        /\ \A x \in 0..(q.managed - 1) : \E i \in DOMAIN mods : q.status[i].priority = x
    BY <1>1, <1>5, <2>1
  <2>3. \A i \in DOMAIN mods :
          /\ HasAutomaticPriority(mods[i]) => q.status[i].priority = AutomaticPriority(mods, mods[i])
          /\ AlwaysEnabled(mods[i]) => q.status[i].enabled
          /\ AlwaysDisabled(mods[i]) => ~q.status[i].enabled
    BY <1>0, <1>1, <1>3, <1>5, <2>1
  <2>4. QED
    BY <2>1, <2>2, <2>3 DEF ListInOrder
<1>8. /\ \A m \in ToSet(mods) : Index(mods, m) \in DOMAIN mods /\ mods[Index(mods, m)] = m
      /\ \A i, j \in DOMAIN mods : mods[i] = mods[j] => i = j
  BY <1>0, CollectionFacts
<1>9. /\ on = TRUE => EnabledMods(q.status, mods) = EnabledMods(old, mods) \cup changed
      /\ on = FALSE => EnabledMods(q.status, mods) = EnabledMods(old, mods) \ changed
  <2>1. /\ EnabledMods(q.status, mods) \in SUBSET ToSet(mods)
        /\ EnabledMods(old, mods) \in SUBSET ToSet(mods)
    <3>1. \A i \in DOMAIN mods : mods[i] \in ToSet(mods)
      BY <1>0, CollectionFacts
    <3>2. QED
      BY <3>1 DEF EnabledMods
  <2>2. ASSUME NEW m \in ToSet(mods)
        PROVE  /\ m \in EnabledMods(q.status, mods) <=> q.status[Index(mods, m)].enabled
               /\ m \in EnabledMods(old, mods) <=> old[Index(mods, m)].enabled
    BY <1>8 DEF EnabledMods
  <2>3. ASSUME NEW m \in ToSet(mods)
        PROVE  /\ m \in changed => q.status[Index(mods, m)].enabled = on
               /\ m \notin changed => q.status[Index(mods, m)].enabled = old[Index(mods, m)].enabled
    BY <1>3, <1>5, <1>8
  <2>4. ASSUME NEW m \in ToSet(mods)
        PROVE  /\ m \in changed => (m \in EnabledMods(q.status, mods) <=> on)
               /\ m \notin changed => (m \in EnabledMods(q.status, mods) <=> m \in EnabledMods(old, mods))
    BY <2>2, <2>3
  <2>5. QED
    BY <1>0, <2>1, <2>4
<1>10. IsSwitched(p, mods, changed, on, q)
  BY <1>3, <1>5, <1>7, <1>9 DEF old, IsSwitched
<1>11. QED
  BY <1>6, <1>10

\* Profile::setModsEnabled with what follows in modStatusChanged.
LEMMA SetModsEnabledKeeps ==
  ASSUME IInv, NEW mods \in SUBSET Movable, NEW on \in BOOLEAN, SetModsEnabled(mods, on)
  PROVE  IInv'
<1> DEFINE profile == WithEnabled(list.profile, collection, mods, on)
           changed == [list EXCEPT !.profile = profile]
           after == ModStatusChanged(changed, collection, mods, on, core)
           enabled == EnabledMods(profile.status, collection)
<1>1. /\ DiskInv /\ ModsInv /\ ListInv(list, collection, replaced) /\ BackupInv
      /\ CoreInv(core) /\ PluginsFollow(core) /\ ViewInv
      /\ ProgramInv /\ FlagsInv /\ CountInv
  BY IInvParts
<1>2. IsCollection(collection) /\ ToSet(collection) \in SUBSET All
  BY <1>1 DEF ModsInv
<1>3. /\ DOMAIN list = ListFields /\ ListInOrder(list.profile, collection)
      /\ replaced \in BOOLEAN /\ missed \in BOOLEAN
  BY <1>1, <1>2, ListFieldsAre DEF FlagsInv
<1>4. /\ mods \in SUBSET ToSet(collection)
      /\ \A m \in mods : ~AlwaysEnabled(m) /\ ~AlwaysDisabled(m)
  BY DEF SetModsEnabled, Movable
<1>5. /\ ListInOrder(profile, collection)
      /\ on = TRUE => enabled = Enabled(list, collection) \cup mods
      /\ on = FALSE => enabled = Enabled(list, collection) \ mods
  <2>1. CanSwitch(list.profile, collection, mods)
    BY <1>2, <1>3, <1>4 DEF CanSwitch
  <2>2. IsSwitched(list.profile, collection, mods, on, profile)
    BY <2>1, StatusSet, Zenon
  <2> HIDE DEF profile
  <2>3. QED
    BY <2>2, Zenon DEF IsSwitched, Enabled
<1>6. DOMAIN list.profile = {"status", "managed"}
  BY <1>3 DEF ListInOrder, ProfilesOf
<1>7. /\ list' = after.list /\ core' = after.core
      /\ missed' = IF on /\ core.refresher = "queued" THEN FALSE ELSE missed \/ core.update
      /\ UNCHANGED <<disk, collection, backup, program, mapping, replaced>>
      /\ Command
  BY Zenon DEF SetModsEnabled, Becomes, WithEnabled
<1> HIDE DEF profile
<1>8. /\ DOMAIN changed = ListFields /\ changed.profile = profile
      /\ [changed EXCEPT !.pending = TRUE] = [list EXCEPT !.profile = profile, !.pending = TRUE]
  BY <1>3 DEF ListFields
<1> HIDE DEF changed
<1>9. /\ after.list = [changed EXCEPT !.pending = TRUE]
      /\ CoreInv(after.core) /\ PluginsFollow(after.core)
      /\ after.core.update = core.update /\ after.core.refresher = core.refresher
      /\ after.core.root = core.root
      /\ on = TRUE => /\ after.core.mods = ActiveMods(changed.profile.status, collection)
               /\ Shown(after.core.structure) = Shown(core.structure) \cup mods
      /\ on = FALSE => /\ after.core.mods = core.mods
                /\ Shown(after.core.structure) = Shown(core.structure) \ mods
      /\ \A m \in Shown(after.core.structure) \cap ToSet(collection) :
           after.core.structure[m].priority = PriorityOf(changed.profile.status, collection, m) + 1
  <2>1. ListInOrder(changed.profile, collection)
    BY <1>5, <1>8
  <2>2. QED
    <3>1. IsChanged(changed, collection, mods, on, core, after)
      <4>1. CanChange(changed, collection, mods, core)
        BY <1>1, <1>2, <1>4, <1>8, <2>1 DEF CanChange
      <4>2. QED
        BY <4>1, StatusChanged, Zenon
    <3> HIDE DEF after
    <3>2. QED
      BY <3>1, Zenon DEF IsChanged
<1> HIDE DEF after, enabled
<1>10. ListInv(after.list, collection, replaced) /\ after.list.profile = profile
  <2> DEFINE kept == Restated(list, profile)
  <2>1. ListInv(kept, collection, replaced) /\ kept.profile = profile
    BY <1>1, <1>3, <1>5, PendingKeeps
  <2>2. after.list = kept
    BY <1>8, <1>9, Zenon DEF Restated
  <2> HIDE DEF kept
  <2>3. QED
    BY <2>1, <2>2
<1>11. CASE ~missed' /\ on /\ core.refresher = "queued"
  <2>1. Gives(after.core.mods, ActiveOrder(profile.status, collection))
    BY <1>2, <1>5, <1>8, <1>9, <1>11, ActiveModsGive
  <2>2. Follows(after.core, Active(after.list, collection))
    BY <1>9, <1>10, <1>11, <2>1 DEF Follows, Active
  <2>3. QED
    BY <2>2, <1>1, <1>7, <1>9, <1>10, IInvParts, Counted
    DEF IInv, DiskInv, ModsInv, BackupInv, ProgramInv, FlagsInv, CountInv
<1>12. CASE ~missed' /\ ~(on /\ core.refresher = "queued")
  <2>1. ~missed /\ ~core.update
    BY <1>7, <1>12
  <2>2. core.refresher = "idle" /\ Shown(core.structure) = Enabled(list, collection)
    <3>1. core.refresher = "idle"
      BY <1>1, <2>1 DEF CoreInv
    <3>2. Shows(core.structure, Active(list, collection))
      BY <1>1, <2>1, <3>1 DEF ViewInv, Follows
    <3> DEFINE order == Active(list, collection)
    <3>3. Shown(core.structure) = ToSet(order)
      BY <3>2 DEF Shows
    <3>4. ToSet(order) = EnabledMods(list.profile.status, collection)
      BY <1>2, <1>3, ActiveLists DEF Active
    <3>5. QED
      BY <3>1, <3>3, <3>4 DEF Enabled
  <2>3. Shown(after.core.structure) = enabled
    BY <1>5, <1>9, <2>2
  <2>4. enabled \in SUBSET ToSet(collection)
    BY <1>2, <1>5, ActiveFacts DEF enabled
  <2>5. \A m \in enabled : after.core.structure[m].priority = PriorityOf(profile.status, collection, m) + 1
    BY <1>8, <1>9, <2>3, <2>4
  <2>6. Shows(after.core.structure, ActiveOrder(profile.status, collection))
    BY <1>2, <1>5, <2>3, <2>5, PrioritiesShow DEF enabled
  <2>7. Follows(after.core, Active(after.list, collection))
    BY <1>9, <1>10, <2>2, <2>6 DEF Follows, Active
  <2>8. QED
    BY <2>7, <1>1, <1>7, <1>9, <1>10, IInvParts, Counted
    DEF IInv, DiskInv, ModsInv, BackupInv, ProgramInv, FlagsInv, CountInv
<1>13. CASE missed'
  <2>1. missed' \in BOOLEAN
    BY <1>1, <1>3, <1>7 DEF CoreInv
  <2>2. QED
    BY <1>13, <2>1, <1>1, <1>7, <1>9, <1>10, IInvParts, Counted
    DEF IInv, DiskInv, ModsInv, BackupInv, ProgramInv, FlagsInv, CountInv
<1>14. QED
  BY <1>11, <1>12, <1>13

\* ModList::changeModPriority of any mods.
LEMMA MoveModsKeeps ==
  ASSUME IInv, NEW mods \in SUBSET Movable, mods # {}, NEW target \in Int, MoveMods(mods, target)
  PROVE  IInv'
<1> DEFINE indices == {Index(collection, m) : m \in mods}
           profile == ChangeModsPriority(list.profile, collection, indices, target)
           moved == Restated(list, profile)
           after == ModPrioritiesChanged(moved, collection, core)
           missing == Enabled(moved, collection) \ DOMAIN core.structure
<1>1. /\ DiskInv /\ ModsInv /\ ListInv(list, collection, replaced) /\ BackupInv
      /\ CoreInv(core) /\ PluginsFollow(core) /\ ViewInv
      /\ ProgramInv /\ FlagsInv /\ CountInv
  BY IInvParts
<1>2. IsCollection(collection) /\ ToSet(collection) \in SUBSET All
  BY <1>1 DEF ModsInv
<1>3. /\ DOMAIN list = ListFields /\ ListInOrder(list.profile, collection)
      /\ replaced \in BOOLEAN /\ missed \in BOOLEAN
  BY <1>1, <1>2, ListFieldsAre DEF FlagsInv
<1>4. indices \in SUBSET DOMAIN collection /\ indices # {}
  <2>1. mods \in SUBSET ToSet(collection)
    BY DEF Movable
  <2>2. QED
    BY <1>2, <2>1, CollectionFacts
<1>5. Command
  BY DEF MoveMods
<1>6. /\ list' = after.list /\ core' = after.core
      /\ missed' = (missed \/ core.update \/ missing # {})
      /\ UNCHANGED <<disk, collection, backup, program, mapping, replaced>>
  BY Zenon DEF MoveMods, Becomes, Restated
<1> HIDE DEF indices
<1>7. /\ ListInOrder(profile, collection)
      /\ \A i \in DOMAIN collection : profile.status[i].enabled = list.profile.status[i].enabled
  BY <1>2, <1>3, <1>4, ManyModsMove
<1> HIDE DEF profile
<1>8. /\ ListInv(moved, collection, replaced) /\ moved.profile = profile /\ moved.pending
  BY <1>1, <1>3, <1>7, PendingKeeps
<1> HIDE DEF moved
<1>9. /\ after.list = IF missing = {} THEN [moved EXCEPT !.pending = TRUE] ELSE moved
      /\ CoreInv(after.core) /\ PluginsFollow(after.core)
      /\ after.core.update = core.update /\ after.core.refresher = core.refresher
      /\ after.core.mods = core.mods /\ after.core.root = core.root
      /\ Shown(after.core.structure) = Shown(core.structure)
      /\ missing = {} => \A m \in Enabled(moved, collection) :
           after.core.structure[m].priority = PriorityOf(moved.profile.status, collection, m) + 1
  <2>1. IsMoved(moved, collection, core, after)
    BY <1>1, <1>2, <1>7, <1>8, PrioritiesChanged
  <2> HIDE DEF after
  <2>2. QED
    BY <1>1, <2>1 DEF IsMoved
<1> HIDE DEF after, missing
<1>10. after.list = moved
  BY <1>3, <1>8, <1>9, PendingStays
<1>11. missed' \in BOOLEAN
  BY <1>1, <1>3, <1>6 DEF CoreInv
<1>12. ASSUME ~missed' PROVE Follows(core', Active(list', collection'))
  <2>1. ~missed /\ ~core.update /\ missing = {}
    BY <1>6, <1>12
  <2>2. core.refresher = "idle" /\ Shows(core.structure, Active(list, collection))
    BY <1>1, <2>1 DEF CoreInv, ViewInv, Follows
  <2>3. Shown(core.structure) = EnabledMods(list.profile.status, collection)
    BY <1>2, <1>3, <2>2, ActiveLists DEF Shows, Active
  <2>4. EnabledMods(profile.status, collection) = EnabledMods(list.profile.status, collection)
    BY <1>7 DEF EnabledMods
  <2>5. /\ Shown(after.core.structure) = EnabledMods(profile.status, collection)
        /\ \A m \in EnabledMods(profile.status, collection) :
             after.core.structure[m].priority = PriorityOf(profile.status, collection, m) + 1
    BY <1>8, <1>9, <2>1, <2>3, <2>4 DEF Enabled
  <2>6. Shows(after.core.structure, ActiveOrder(profile.status, collection))
    BY <1>2, <1>7, <2>5, PrioritiesShow
  <2>7. Follows(after.core, ActiveOrder(profile.status, collection))
    BY <1>9, <2>2, <2>6 DEF Follows
  <2>8. QED
    BY <1>6, <1>8, <1>10, <2>7 DEF Active
<1>13. QED
  BY <1>1, <1>5, <1>6, <1>8, <1>9, <1>10, <1>11, <1>12, Counted
  DEF IInv, DiskInv, ModsInv, BackupInv, ProgramInv, FlagsInv, CountInv

\* ModList::setPriority.
LEMMA SetPriorityKeeps ==
  ASSUME IInv, NEW m \in Movable, NEW target \in Int, SetPriority(m, target)
  PROVE  IInv'
<1> DEFINE i == Index(collection, m)
           profile == SetModPriority(list.profile, collection, i, target).profile
           moved == Restated(list, profile)
<1>1. /\ DiskInv /\ ModsInv /\ ListInv(list, collection, replaced) /\ BackupInv
      /\ CoreInv(core) /\ PluginsFollow(core) /\ ViewInv
      /\ ProgramInv /\ FlagsInv /\ CountInv
  BY IInvParts
<1>2. IsCollection(collection) /\ ToSet(collection) \in SUBSET All
  BY <1>1 DEF ModsInv
<1>3. ListInOrder(list.profile, collection) /\ replaced \in BOOLEAN
  BY <1>1, <1>2, ListFieldsAre DEF FlagsInv
<1>4. i \in DOMAIN collection
  BY <1>2, CollectionFacts DEF Movable
<1>5. Command
  BY DEF SetPriority
<1>6. /\ list' = moved /\ missed' = TRUE
      /\ UNCHANGED <<disk, collection, backup, core, program, mapping, replaced>>
  BY Zenon DEF SetPriority, Restated
<1> HIDE DEF i
<1>7. ListInOrder(profile, collection)
  BY <1>3, <1>4, OneModMoves
<1> HIDE DEF profile
<1>8. ListInv(moved, collection, replaced)
  BY <1>1, <1>3, <1>7, PendingKeeps
<1> HIDE DEF moved
<1>9. QED
  BY <1>1, <1>5, <1>6, <1>8, Counted
  DEF IInv, DiskInv, ModsInv, BackupInv, ProgramInv, FlagsInv, CountInv

\* A mod comes or goes behind the program.
LEMMA ChangeDiskKeeps ==
  ASSUME IInv, NEW m \in Arriving, ChangeDisk(m) PROVE IInv'
<1>1. /\ DiskInv /\ ModsInv /\ ListInv(list, collection, replaced) /\ BackupInv
      /\ CoreInv(core) /\ PluginsFollow(core) /\ ViewInv
      /\ ProgramInv /\ FlagsInv /\ CountInv
  BY IInvParts
<1>2. Command /\ UNCHANGED <<collection, list, backup, core, program, mapping, missed, replaced>>
  BY DEF ChangeDisk
<1>3. DiskInv'
  <2>1. m # Overwrite /\ m \in All
    BY FirstAssumption, KindsAssumption DEF All
  <2>2. QED
    BY <1>1, <2>1 DEF ChangeDisk, DiskInv
<1>4. QED
  BY <1>1, <1>2, <1>3, Counted
  DEF IInv, DiskInv, ModsInv, BackupInv, ViewInv, ProgramInv, FlagsInv, CountInv

\* The list is written and nothing that shows it changes.
LEMMA ListWritten ==
  ASSUME IInv, NEW only \in BOOLEAN, list' = WriteModlistNow(list, collection, only),
         replaced' = (replaced /\ ~WroteFile(list, list')),
         UNCHANGED <<disk, collection, core, missed>>, BackupInv', ProgramInv', CountInv'
  PROVE  IInv'
<1>1. /\ DiskInv /\ ModsInv /\ ListInv(list, collection, replaced) /\ BackupInv
      /\ CoreInv(core) /\ PluginsFollow(core) /\ ViewInv
      /\ ProgramInv /\ FlagsInv /\ CountInv
  BY IInvParts
<1> DEFINE saved == WriteModlistNow(list, collection, only)
<1>2. IsCollection(collection) /\ replaced \in BOOLEAN
  BY <1>1 DEF ModsInv, FlagsInv
<1>3. ListInv(saved, collection, Replaces(replaced, list, saved)) /\ saved.profile = list.profile
  BY <1>1, <1>2, WriteNowSaves
<1> HIDE DEF saved
<1>4. list' = saved
  BY DEF saved
<1>5. replaced' = Replaces(replaced, list, saved)
  BY <1>4 DEF Replaces
<1>6. ListInv(list', collection', replaced') /\ replaced' \in BOOLEAN
  BY <1>3, <1>4, <1>5 DEF Replaces
<1>7. Active(list', collection') = Active(list, collection)
  BY <1>3, <1>4 DEF Active
<1>8. QED
  BY <1>1, <1>6, <1>7
  DEF IInv, DiskInv, ModsInv, BackupInv, ViewInv, ProgramInv, FlagsInv, CountInv

\* MainWindow::on_saveModsButton_clicked.
LEMMA SaveBackupKeeps ==
  ASSUME IInv, SaveBackup PROVE IInv'
<1>1. /\ DiskInv /\ ModsInv /\ ListInv(list, collection, replaced) /\ BackupInv
      /\ CoreInv(core) /\ PluginsFollow(core) /\ ViewInv
      /\ ProgramInv /\ FlagsInv /\ CountInv
  BY IInvParts
<1> DEFINE saved == WriteModlistNow(list, collection, TRUE)
<1>2. /\ Command /\ list' = saved /\ backup' = saved.file
      /\ replaced' = (replaced /\ ~WroteFile(list, saved))
      /\ UNCHANGED <<disk, collection, core, program, mapping, missed>>
  BY DEF SaveBackup
<1>3. IsCollection(collection) /\ replaced \in BOOLEAN
  BY <1>1 DEF ModsInv, FlagsInv
<1>4. ListInv(saved, collection, Replaces(replaced, list, saved))
  BY <1>1, <1>3, WriteNowSaves
<1>5. saved.file \in Seq(Lines) /\ (FirstListsOwn => OwnFile(saved.file))
  <2> HIDE DEF saved
  <2>1. Replaces(replaced, list, saved) \in BOOLEAN
    BY <1>3 DEF Replaces
  <2>2. QED
    BY <1>4, <2>1, ListFieldsAre
<1>6. BackupInv'
  BY <1>2, <1>5 DEF BackupInv
<1>7. ProgramInv' /\ CountInv'
  BY <1>1, <1>2, Counted DEF ProgramInv
<1>8. QED
  BY <1>2, <1>6, <1>7, ListWritten

\* The delayed write.
LEMMA WriterFiresKeeps ==
  ASSUME IInv, WriterFires PROVE IInv'
<1>1. /\ list' = WriteModlistNow(list, collection, FALSE)
      /\ replaced' = (replaced /\ ~WroteFile(list, list'))
      /\ UNCHANGED <<disk, collection, backup, core, program, mapping, missed, commands>>
  BY DEF WriterFires
<1>2. BackupInv' /\ ProgramInv' /\ CountInv'
  BY <1>1, IInvParts DEF BackupInv, ProgramInv, CountInv
<1>3. QED
  BY <1>1, <1>2, ListWritten

\* The plugins that look at a program before it runs.
LEMMA AboutToRunKeeps ==
  ASSUME IInv, AboutToRun PROVE IInv'
<1>1. /\ list' = WriteModlistNow(list, collection, TRUE)
      /\ replaced' = (replaced /\ ~WroteFile(list, list'))
      /\ program' = "saved"
      /\ UNCHANGED <<disk, collection, backup, core, mapping, missed, commands>>
  BY DEF AboutToRun
<1>2. BackupInv' /\ ProgramInv' /\ CountInv'
  BY <1>1, IInvParts DEF BackupInv, ProgramInv, CountInv
<1>3. QED
  BY <1>1, <1>2, ListWritten

\* saveCurrentProfile, or the wait for the refresh, before a program runs.
LEMMA BeforeRunKeeps ==
  ASSUME IInv, BeforeRun PROVE IInv'
<1>1. /\ DiskInv /\ ModsInv /\ ListInv(list, collection, replaced) /\ BackupInv
      /\ CoreInv(core) /\ PluginsFollow(core) /\ ViewInv
      /\ ProgramInv /\ FlagsInv /\ CountInv
  BY IInvParts
<1> DEFINE kept == [list EXCEPT !.pending = TRUE]
<1>2. /\ Command /\ list' = kept
      /\ program' = IF core.update THEN "waiting" ELSE "ready"
      /\ UNCHANGED <<disk, collection, backup, core, mapping, missed, replaced>>
  BY DEF BeforeRun
<1>3. ListInv(kept, collection, replaced) /\ kept.profile = list.profile
  BY <1>1, PendingStays DEF FlagsInv
<1> HIDE DEF kept
<1>4. Active(list', collection') = Active(list, collection)
  BY <1>2, <1>3 DEF Active
<1>5. ListInv(list', collection', replaced')
  BY <1>2, <1>3
<1>6. QED
  BY <1>1, <1>2, <1>4, <1>5, Counted
  DEF IInv, DiskInv, ModsInv, BackupInv, ViewInv, ProgramInv, FlagsInv, CountInv

\* The refresher builds a structure of the mods it was given.
LEMMA ReadStructureKeeps ==
  ASSUME IInv, ReadStructure PROVE IInv'
<1>1. /\ DiskInv /\ ModsInv /\ ListInv(list, collection, replaced) /\ BackupInv
      /\ CoreInv(core) /\ PluginsFollow(core) /\ ViewInv
      /\ ProgramInv /\ FlagsInv /\ CountInv
  BY IInvParts
<1> DEFINE order == Active(list, collection)
           built == Built(core.mods)
<1>2. /\ core.refresher = "queued" /\ core' = [core EXCEPT !.refresher = "done", !.root = built]
      /\ UNCHANGED <<disk, collection, list, backup, program, mapping, missed, replaced, commands>>
  BY DEF ReadStructure
<1>3. /\ DOMAIN core = {"update", "refresher", "mods", "root", "structure", "plugins", "postRefresh"}
      /\ core.refresher \in {"idle", "queued", "done"}
      /\ core.update = (core.refresher # "idle")
      /\ core.mods \in Seq(Mod(All))
      /\ IsStructure(core.root) /\ IsStructure(core.structure)
      /\ core.postRefresh \in BOOLEAN
      /\ core.postRefresh => core.update
  BY <1>1 DEF CoreInv
<1>4. IsStructure(built) /\ (Gives(core.mods, order) => Shows(built, order))
  <2>1. \A j, k \in DOMAIN order : order[j] = order[k] => j = k
    <3>1. IsCollection(collection) /\ ListInOrder(list.profile, collection)
      BY <1>1 DEF ModsInv, ListInv
    <3> DEFINE n == Cardinality(EnabledMods(list.profile.status, collection))
    <3>2. DOMAIN order = 1..n /\ \A j, k \in 1..n : order[j] = order[k] => j = k
      BY <3>1, ActiveFacts DEF Active
    <3> HIDE DEF order, n
    <3>3. QED
      BY <3>2
  <2> HIDE DEF order
  <2>2. QED
    BY <1>3, <2>1, BuiltShows
<1> HIDE DEF built
<1>5. /\ DOMAIN core' = DOMAIN core /\ core'.refresher = "done" /\ core'.root = built
      /\ core'.update = core.update /\ core'.mods = core.mods
      /\ core'.structure = core.structure /\ core'.plugins = core.plugins
      /\ core'.postRefresh = core.postRefresh
  <2> DEFINE d == core'
  <2> HIDE DEF d
  <2>1. d = [core EXCEPT !.refresher = "done", !.root = built]
    BY <1>2 DEF d
  <2>2. /\ DOMAIN d = DOMAIN core /\ d.refresher = "done" /\ d.root = built
        /\ d.update = core.update /\ d.mods = core.mods
        /\ d.structure = core.structure /\ d.plugins = core.plugins
        /\ d.postRefresh = core.postRefresh
    BY <1>3, <2>1
  <2>3. QED
    BY <2>2 DEF d
<1>6. CoreInv(core') /\ PluginsFollow(core')
  BY <1>1, <1>2, <1>3, <1>4, <1>5 DEF CoreInv, PluginsFollow
<1>7. ~missed => Follows(core', order)
  BY <1>1, <1>2, <1>4, <1>5 DEF ViewInv, Follows
<1>8. QED
  BY <1>1, <1>2, <1>6, <1>7
  DEF IInv, DiskInv, ModsInv, BackupInv, ProgramInv, FlagsInv, CountInv

CoreFields ==
  {"update", "refresher", "mods", "root", "structure", "plugins", "postRefresh"}

\* directory_refreshed, whatever was put off.
LEMMA DirectoryRefreshedKeeps ==
  ASSUME IInv, DirectoryRefreshed PROVE IInv'
<1> DEFINE swapped == [core EXCEPT !.structure = core.root, !.root = <<>>, !.update = FALSE,
                                   !.refresher = "idle"]
           tasks == IF core.postRefresh THEN RefreshESPList(list, swapped)
                    ELSE [list |-> list, core |-> swapped]
           clean == [tasks.core EXCEPT !.postRefresh = FALSE]
           lists == RefreshESPList(tasks.list, clean)
           waits == [list EXCEPT !.pending = TRUE]
<1>1. /\ DiskInv /\ ModsInv /\ ListInv(list, collection, replaced) /\ BackupInv
      /\ CoreInv(core) /\ PluginsFollow(core) /\ ViewInv
      /\ ProgramInv /\ FlagsInv /\ CountInv
  BY IInvParts
<1>2. /\ core.refresher = "done" /\ list' = lists.list /\ core' = lists.core
      /\ program' = IF program = "waiting" THEN "ready" ELSE program
      /\ UNCHANGED <<disk, collection, backup, mapping, missed, replaced, commands>>
  BY Zenon DEF DirectoryRefreshed, Becomes
<1>3. /\ DOMAIN core = {"update", "refresher", "mods", "root", "structure", "plugins", "postRefresh"}
      /\ core.mods \in Seq(Mod(All))
      /\ IsStructure(core.root) /\ core.postRefresh \in BOOLEAN
  BY <1>1 DEF CoreInv
<1>4. /\ ListInv(list, collection, replaced) /\ replaced \in BOOLEAN
      /\ DOMAIN list = ListFields
  BY <1>1, ListFieldsAre DEF FlagsInv
<1>5. /\ DOMAIN swapped = DOMAIN core /\ swapped.structure = core.root
      /\ swapped.root = <<>> /\ swapped.update = FALSE /\ swapped.refresher = "idle"
      /\ swapped.mods = core.mods /\ swapped.postRefresh = core.postRefresh
  BY <1>3
<1> HIDE DEF swapped
<1>6. /\ tasks.list \in {list, waits}
      /\ DOMAIN tasks.core = DOMAIN core /\ tasks.core.structure = core.root
      /\ tasks.core.root = <<>> /\ tasks.core.update = FALSE /\ tasks.core.refresher = "idle"
      /\ tasks.core.mods = core.mods
  <2>1. CASE core.postRefresh
    <3>1. tasks = [list |-> waits, core |-> [swapped EXCEPT !.plugins = Shown(swapped.structure)]]
      BY <1>5, <2>1 DEF RefreshESPList
    <3>2. QED
      BY <1>3, <1>5, <3>1
  <2>2. CASE ~core.postRefresh
    BY <1>5, <2>2
  <2>3. QED
    BY <1>3, <2>1, <2>2
<1> HIDE DEF tasks
<1>7. /\ DOMAIN clean = DOMAIN core /\ clean.structure = core.root
      /\ clean.root = <<>> /\ clean.update = FALSE /\ clean.refresher = "idle"
      /\ clean.mods = core.mods /\ clean.postRefresh = FALSE
  <2> DEFINE d == tasks.core
  <2> HIDE DEF d
  <2>1. /\ DOMAIN d = DOMAIN core /\ d.structure = core.root
        /\ d.root = <<>> /\ d.update = FALSE /\ d.refresher = "idle"
        /\ d.mods = core.mods
    BY <1>6 DEF d
  <2>2. clean = [d EXCEPT !.postRefresh = FALSE]
    BY DEF d
  <2> HIDE DEF clean
  <2>3. QED
    BY <1>3, <2>1, <2>2
<1> HIDE DEF clean
<1>8. CoreInv(clean)
  <2>1. IsStructure(<<>>)
    BY DEF IsStructure
  <2>2. QED
    BY <1>3, <1>7, <2>1 DEF CoreInv
<1>9. /\ CoreInv(lists.core) /\ PluginsFollow(lists.core)
      /\ \A order : Follows(lists.core, order) <=> Follows(clean, order)
      /\ lists.list = IF clean.update THEN tasks.list ELSE [tasks.list EXCEPT !.pending = TRUE]
  BY <1>8, ESPListRefreshed
<1> HIDE DEF lists
<1>10. ListInv(lists.list, collection, replaced) /\ lists.list.profile = list.profile
  <2>1. /\ ListInv(waits, collection, replaced) /\ waits.profile = list.profile /\ waits.pending
    BY <1>4, PendingStays
  <2> HIDE DEF waits
  <2>2. ListInv(tasks.list, collection, replaced) /\ tasks.list.profile = list.profile
    BY <1>4, <1>6, <2>1
  <2> DEFINE l == tasks.list
  <2> HIDE DEF l
  <2>3. ListInv(l, collection, replaced) /\ l.profile = list.profile
    BY <2>2 DEF l
  <2>4. lists.list = [l EXCEPT !.pending = TRUE]
    BY <1>7, <1>9 DEF l
  <2>5. QED
    BY <1>4, <2>3, <2>4, PendingStays
<1>11. Active(list', collection') = Active(list, collection)
  BY <1>2, <1>10 DEF Active
<1>12. ASSUME ~missed PROVE Follows(core', Active(list', collection'))
  <2>1. Shows(core.root, Active(list, collection))
    BY <1>1, <1>2, <1>12 DEF ViewInv, Follows
  <2>2. Follows(clean, Active(list, collection))
    BY <1>7, <2>1 DEF Follows
  <2>3. QED
    BY <1>2, <1>9, <1>11, <2>2
<1>13. QED
  BY <1>1, <1>2, <1>9, <1>10, <1>12
  DEF IInv, DiskInv, ModsInv, BackupInv, ProgramInv, FlagsInv, CountInv

\* fileMapping reads the file into a profile of its own, which may write it back.
LEMMA FileMappingKeeps ==
  ASSUME IInv, FileMapping PROVE IInv'
<1> DEFINE own == OpenProfile(list.file, collection)
           put == WriteModlistNow(own, collection, TRUE)
           lines == Seq(Lines)
<1>1. /\ DiskInv /\ ModsInv /\ ListInv(list, collection, replaced) /\ BackupInv
      /\ CoreInv(core) /\ PluginsFollow(core) /\ ViewInv
      /\ ProgramInv /\ FlagsInv /\ CountInv
  BY IInvParts
<1>2. /\ program' = "running" /\ list' = [list EXCEPT !.file = put.file]
      /\ replaced' = (replaced \/ put.file # list.file)
      /\ UNCHANGED <<disk, collection, backup, core, missed, commands>>
  BY DEF FileMapping
<1>3. IsCollection(collection) /\ replaced \in BOOLEAN
  BY <1>1 DEF ModsInv, FlagsInv
<1>4. list.file \in Seq(Lines) /\ (FirstListsOwn => OwnFile(list.file))
  BY <1>1, <1>3, ListFieldsAre
<1>5. ListInv(own, collection, FALSE)
  BY <1>3, <1>4, OpenKeeps
<1> HIDE DEF own
<1>6. ListInv(put, collection, Replaces(FALSE, own, put))
  BY <1>3, <1>5, WriteNowSaves
<1> HIDE DEF put
<1>7. put.file \in Seq(Lines) /\ (FirstListsOwn => OwnFile(put.file))
  <2>1. Replaces(FALSE, own, put) \in BOOLEAN
    BY DEF Replaces
  <2>2. QED
    BY <1>6, <2>1, ListFieldsAre
<1>8. /\ list \in [file : lines, profile : {list.profile}, pending : BOOLEAN,
                   written : lines \cup {Nothing}]
      /\ ListInOrder(list.profile, collection)
  BY <1>1 DEF ListInv, FileInv
<1>9. put.file \in lines
  BY <1>7
<1> HIDE DEF lines
<1>10. /\ list' \in [file : lines, profile : {(list').profile}, pending : BOOLEAN,
                     written : lines \cup {Nothing}]
       /\ (list').file = put.file /\ (list').profile = list.profile
       /\ put.file = list.file => list' = list
  <2> DEFINE d == list'
  <2> HIDE DEF d
  <2>1. d = [list EXCEPT !.file = put.file]
    BY <1>2 DEF d
  <2>2. /\ d \in [file : lines, profile : {d.profile}, pending : BOOLEAN,
                  written : lines \cup {Nothing}]
        /\ d.file = put.file /\ d.profile = list.profile
        /\ put.file = list.file => d = list
    BY <1>8, <1>9, <2>1
  <2>3. QED
    BY <2>2 DEF d
<1>11. CASE put.file = list.file
  <2>1. list' = list /\ replaced' = replaced
    BY <1>2, <1>3, <1>10, <1>11
  <2>2. QED
    BY <1>1, <1>2, <2>1
    DEF IInv, DiskInv, ModsInv, BackupInv, ViewInv, ProgramInv, FlagsInv, CountInv
<1>12. CASE put.file # list.file
  <2>1. replaced' = TRUE
    BY <1>2, <1>12
  <2>2. ListInv(list', collection', replaced')
    BY <1>2, <1>7, <1>8, <1>10, <2>1 DEF ListInv, FileInv, lines
  <2>3. Active(list', collection') = Active(list, collection)
    BY <1>2, <1>10 DEF Active
  <2>4. QED
    BY <1>1, <1>2, <2>1, <2>2, <2>3
    DEF IInv, DiskInv, ModsInv, BackupInv, ViewInv, ProgramInv, FlagsInv, CountInv
<1>13. QED
  BY <1>11, <1>12

\* OrganizerCore::afterRun.
LEMMA ProgramEndsKeeps ==
  ASSUME IInv, NEW refresh \in BOOLEAN, ProgramEnds(refresh) PROVE IInv'
<1> DEFINE again == RefreshStructure(list, collection, core)
           after == RefreshESPList(again.list, again.core)
<1>1. /\ DiskInv /\ ModsInv /\ ListInv(list, collection, replaced) /\ BackupInv
      /\ CoreInv(core) /\ PluginsFollow(core) /\ ViewInv
      /\ ProgramInv /\ FlagsInv /\ CountInv
  BY IInvParts
<1>2. /\ program' = "none" /\ UNCHANGED <<disk, collection, backup, commands>>
      /\ \/ /\ list' = after.list /\ core' = after.core
            /\ missed' = (missed /\ core.update)
            /\ replaced' = (replaced /\ ~WroteFile(list, again.list))
         \/ UNCHANGED <<list, core, missed, replaced>>
  BY Zenon DEF ProgramEnds, Becomes
<1>3. CASE UNCHANGED <<list, core, missed, replaced>>
  BY <1>1, <1>2, <1>3
  DEF IInv, DiskInv, ModsInv, BackupInv, ViewInv, ProgramInv, FlagsInv, CountInv
<1>4. CASE /\ list' = after.list /\ core' = after.core
           /\ missed' = (missed /\ core.update)
           /\ replaced' = (replaced /\ ~WroteFile(list, again.list))
  <2>1. /\ IsCollection(collection) /\ ToSet(collection) \in SUBSET All
        /\ replaced \in BOOLEAN /\ missed \in BOOLEAN
    BY <1>1 DEF ModsInv, FlagsInv
  <2>2. /\ ListInv(again.list, collection, Replaces(replaced, list, again.list))
        /\ again.list.profile = list.profile
        /\ CoreInv(again.core) /\ PluginsFollow(again.core) /\ again.core.update
        /\ ~core.update => Follows(again.core, Active(list, collection))
        /\ core.update => again.list = list /\ again.core = core
    BY <1>1, <2>1, StructureRefreshed
  <2> HIDE DEF again
  <2>3. /\ CoreInv(after.core) /\ PluginsFollow(after.core)
        /\ \A order : Follows(after.core, order) <=> Follows(again.core, order)
        /\ after.list = IF again.core.update THEN again.list
                        ELSE [again.list EXCEPT !.pending = TRUE]
    <3>1. CoreInv(again.core)
      BY <2>2
    <3>2. QED
      BY <3>1, ESPListRefreshed
  <2> HIDE DEF after
  <2>4. after.list = again.list
    BY <2>2, <2>3
  <2>5. replaced' = Replaces(replaced, list, again.list)
    BY <1>4 DEF Replaces
  <2>6. ListInv(list', collection', replaced') /\ replaced' \in BOOLEAN /\ missed' \in BOOLEAN
    BY <1>2, <1>4, <2>1, <2>2, <2>4, <2>5 DEF Replaces
  <2>7. Active(list', collection') = Active(list, collection)
    BY <1>2, <1>4, <2>2, <2>4 DEF Active
  <2>8. ~missed' => Follows(core', Active(list', collection'))
    BY <1>1, <1>4, <2>2, <2>3, <2>7 DEF ViewInv
  <2>9. QED
    BY <1>1, <1>2, <1>4, <2>3, <2>6, <2>8
    DEF IInv, DiskInv, ModsInv, BackupInv, ProgramInv, FlagsInv, CountInv
<1>5. QED
  BY <1>2, <1>3, <1>4

\* The program starts and asks for a structure at once.
LEMMA Starts ==
  ASSUME NEW mods, IsCollection(mods), ToSet(mods) \in SUBSET All,
         NEW file \in Seq(Lines), FirstListsOwn => OwnFile(file)
  PROVE  LET started == StartUp(file, mods)
         IN  /\ ListInv(started.list, mods, FALSE) /\ CoreInv(started.core)
             /\ PluginsFollow(started.core)
             /\ Follows(started.core, Active(started.list, mods))
<1> DEFINE opened == OpenProfile(file, mods)
           started == RefreshStructure(opened, mods, NewCore)
<1>1. ListInv(opened, mods, FALSE)
  BY OpenKeeps
<1>2. CoreInv(NewCore) /\ ~NewCore.update
  <2>1. IsStructure(<<>>)
    BY DEF IsStructure
  <2>2. QED
    <3>1. /\ DOMAIN NewCore = {"update", "refresher", "mods", "root", "structure", "plugins",
                               "postRefresh"}
          /\ NewCore.refresher = "idle" /\ NewCore.update = FALSE /\ NewCore.mods = <<>>
          /\ NewCore.root = <<>> /\ NewCore.structure = <<>> /\ NewCore.postRefresh = FALSE
      BY DEF NewCore
    <3>2. <<>> \in Seq(Mod(All))
      OBVIOUS
    <3>3. QED
      BY <2>1, <3>1, <3>2 DEF CoreInv
<1> HIDE DEF opened
<1>3. /\ ListInv(started.list, mods, Replaces(FALSE, opened, started.list))
      /\ started.list.profile = opened.profile
      /\ CoreInv(started.core) /\ PluginsFollow(started.core) /\ started.core.update
      /\ ~NewCore.update => Follows(started.core, Active(opened, mods))
  <2> DEFINE c == NewCore
             r == FALSE
  <2>1. CoreInv(c) /\ r \in BOOLEAN /\ ListInv(opened, mods, r)
    BY <1>1, <1>2
  <2> HIDE DEF c, r
  <2>2. LET built == RefreshStructure(opened, mods, c)
        IN  /\ ListInv(built.list, mods, Replaces(r, opened, built.list))
            /\ built.list.profile = opened.profile
            /\ CoreInv(built.core) /\ PluginsFollow(built.core) /\ built.core.update
            /\ ~c.update => Follows(built.core, Active(opened, mods))
    BY <2>1, StructureRefreshed
  <2>3. QED
    BY <2>2 DEF c, r
<1>4. StartUp(file, mods) = started
  BY DEF StartUp, opened
<1> HIDE DEF started
<1>5. Replaces(FALSE, opened, started.list) = FALSE
  BY DEF Replaces
<1>6. Active(started.list, mods) = Active(opened, mods)
  BY <1>3 DEF Active
<1>7. QED
  BY <1>2, <1>3, <1>4, <1>5, <1>6

\* The end of the program, or a crash, and the next start.
LEMMA RestartKeeps ==
  ASSUME IInv, NEW crash \in BOOLEAN, Restart(crash) PROVE IInv'
<1> DEFINE waits == [list EXCEPT !.pending = TRUE]
           put == WriteModlistNow(waits, collection, TRUE)
           saved == IF crash THEN list ELSE put
           mods == Collection(disk)
           started == StartUp(saved.file, mods)
<1>1. /\ DiskInv /\ ModsInv /\ ListInv(list, collection, replaced) /\ BackupInv
      /\ CoreInv(core) /\ PluginsFollow(core) /\ ViewInv
      /\ ProgramInv /\ FlagsInv /\ CountInv
  BY IInvParts
<1>2. IsCollection(collection) /\ replaced \in BOOLEAN
  BY <1>1 DEF ModsInv, FlagsInv
<1>3. IsCollection(mods) /\ ToSet(mods) = disk
  BY <1>1, CollectionIs DEF DiskInv
<1>4. saved.file \in Seq(Lines) /\ (FirstListsOwn => OwnFile(saved.file))
  <2>1. list.file \in Seq(Lines) /\ (FirstListsOwn => OwnFile(list.file))
    BY <1>1, <1>2, ListFieldsAre
  <2>2. ListInv(waits, collection, replaced)
    BY <1>1, <1>2, PendingStays
  <2> HIDE DEF waits
  <2>3. ListInv(put, collection, Replaces(replaced, waits, put))
    BY <1>2, <2>2, WriteNowSaves
  <2> HIDE DEF put
  <2>4. Replaces(replaced, waits, put) \in BOOLEAN
    BY <1>2 DEF Replaces
  <2>5. put.file \in Seq(Lines) /\ (FirstListsOwn => OwnFile(put.file))
    BY <2>3, <2>4, ListFieldsAre
  <2>6. QED
    BY <2>1, <2>5
<1>5. /\ Command /\ collection' = mods /\ list' = started.list /\ core' = started.core
      /\ program' = "none" /\ missed' = FALSE /\ replaced' = FALSE /\ UNCHANGED <<disk, backup>>
  <2>1. /\ Command /\ collection' = mods
        /\ Becomes(StartUp(saved.file, collection'))
        /\ program' = "none" /\ missed' = FALSE /\ replaced' = FALSE /\ UNCHANGED <<disk, backup>>
    BY Zenon DEF Restart
  <2> HIDE DEF saved, mods
  <2>2. QED
    BY <2>1 DEF Becomes
<1> HIDE DEF saved, mods
<1>6. /\ ListInv(started.list, mods, FALSE) /\ CoreInv(started.core)
      /\ PluginsFollow(started.core)
      /\ Follows(started.core, Active(started.list, mods))
  BY <1>1, <1>3, <1>4, Starts DEF DiskInv
<1> HIDE DEF started
<1>7. QED
  BY <1>1, <1>3, <1>5, <1>6, Counted
  DEF IInv, DiskInv, ModsInv, BackupInv, ProgramInv, FlagsInv, CountInv

\* The first start.
LEMMA InitHolds ==
  ASSUME Init PROVE IInv
<1> DEFINE mods == Collection(FirstMods)
<1>1. IsCollection(mods) /\ ToSet(mods) = FirstMods
  BY FirstAssumption, CollectionIs DEF All
<1>2. PICK file \in FirstLists : LET started == StartUp(file, mods)
                                 IN list = started.list /\ core = started.core
  BY Zenon DEF Init
<1>3. /\ disk = FirstMods /\ collection = mods /\ backup = Nothing /\ program = "none"
      /\ missed = FALSE /\ replaced = FALSE /\ commands = 0
  BY DEF Init
<1>4. file \in Seq(Lines) /\ (FirstListsOwn => OwnFile(file))
  BY FirstAssumption DEF FirstListsOwn
<1>5. ToSet(mods) \in SUBSET All
  BY <1>1 DEF All
<1> DEFINE started == StartUp(file, mods)
<1> HIDE DEF mods
<1>6. /\ ListInv(started.list, mods, FALSE) /\ CoreInv(started.core)
      /\ PluginsFollow(started.core)
      /\ Follows(started.core, Active(started.list, mods))
  BY <1>1, <1>4, <1>5, Starts
<1>7. list = started.list /\ core = started.core
  BY <1>2
<1> HIDE DEF started
<1>8. 0 \in 0..MaxCommands
  BY FirstAssumption
<1>9. DiskInv
  BY <1>3, FirstAssumption DEF DiskInv, All
<1>10. QED
  BY <1>1, <1>3, <1>5, <1>6, <1>7, <1>8, <1>9 DEF IInv, DiskInv

\* What AfterRefresh makes of a list and a core that keep their parts.
LEMMA AfterRefreshKeeps ==
  ASSUME IInv, NEW after, NEW changed \in BOOLEAN, AfterRefresh(after, changed),
         ToSet(collection') \subseteq All, IsCollection(collection'),
         ListInv(after.list, collection', Replaces(replaced, list, after.list)),
         CoreInv(after.core), PluginsFollow(after.core),
         ~core.update /\ ~changed => Follows(after.core, Active(after.list, collection')),
         core.update => \A order : Follows(core, order) => Follows(after.core, order),
         DiskInv', BackupInv', ProgramInv', CountInv'
  PROVE  IInv'
<1>1. CoreInv(core) /\ ViewInv /\ FlagsInv
  BY IInvParts
<1>2. /\ list' = after.list /\ core' = after.core
      /\ missed' = (changed \/ (core.update /\ (missed \/ Active(after.list, collection') #
                                                         Active(list, collection))))
      /\ replaced' = Replaces(replaced, list, after.list)
  BY DEF AfterRefresh, Becomes, Replaces
<1>3. missed' \in BOOLEAN /\ replaced' \in BOOLEAN
  BY <1>1, <1>2 DEF FlagsInv, CoreInv, Replaces
<1>4. ASSUME ~missed' PROVE Follows(core', Active(list', collection'))
  <2>1. CASE ~core.update
    BY <1>2, <1>4, <2>1
  <2>2. CASE core.update
    <3>1. ~missed /\ Active(after.list, collection') = Active(list, collection)
      BY <1>2, <1>4, <2>2
    <3>2. Follows(core, Active(list, collection))
      BY <1>1, <3>1 DEF ViewInv
    <3>3. QED
      BY <1>2, <2>2, <3>1, <3>2
  <2>3. QED
    BY <2>1, <2>2
<1>5. QED
  BY <1>2, <1>3, <1>4 DEF IInv, DiskInv, BackupInv, ProgramInv, CountInv

\* OrganizerCore::refresh.
LEMMA RefreshKeeps ==
  ASSUME IInv, NEW save \in BOOLEAN, Refresh(save) PROVE IInv'
<1> DEFINE mods == Collection(disk)
           after == Refreshed(list, collection, mods, save)
           r == FALSE
<1>1. /\ DiskInv /\ ModsInv /\ ListInv(list, collection, replaced) /\ BackupInv
      /\ CoreInv(core) /\ PluginsFollow(core) /\ ViewInv
      /\ ProgramInv /\ FlagsInv /\ CountInv
  BY IInvParts
<1>2. /\ IsCollection(collection) /\ replaced \in BOOLEAN
      /\ FileInv(list, replaced) /\ ListInOrder(list.profile, collection)
  BY <1>1 DEF ModsInv, FlagsInv, ListInv
<1>3. IsCollection(mods) /\ ToSet(mods) = disk /\ ToSet(mods) \in SUBSET All
  BY <1>1, CollectionIs DEF DiskInv
<1>4. /\ Command /\ collection' = mods /\ AfterRefresh(after, r)
      /\ UNCHANGED <<disk, backup, program, mapping>>
  <2>1. /\ Command /\ collection' = mods
        /\ AfterRefresh(Refreshed(list, collection, collection', save), FALSE)
        /\ UNCHANGED <<disk, backup, program, mapping>>
    BY Zenon DEF Refresh
  <2> HIDE DEF mods
  <2>2. QED
    BY <2>1, Zenon
<1>5. r \in BOOLEAN
  OBVIOUS
<1> HIDE DEF mods, r
<1>6. /\ ListInv(after.list, mods, Replaces(replaced, list, after.list))
      /\ CoreInv(after.core) /\ PluginsFollow(after.core) /\ after.core.update
      /\ ~core.update => Follows(after.core, Active(after.list, mods))
      /\ core.update => after.core = core
  BY <1>1, <1>2, <1>3, RefreshedKeeps
<1> HIDE DEF after
<1>7. DiskInv' /\ BackupInv' /\ ProgramInv' /\ CountInv'
  BY <1>1, <1>4, Counted DEF DiskInv, BackupInv, ProgramInv
<1>8. /\ ToSet(collection') \subseteq All /\ IsCollection(collection')
      /\ ListInv(after.list, collection', Replaces(replaced, list, after.list))
      /\ ~core.update => Follows(after.core, Active(after.list, collection'))
      /\ core.update => \A order : Follows(core, order) => Follows(after.core, order)
  BY <1>3, <1>4, <1>6
<1>9. QED
  BY <1>4, <1>5, <1>6, <1>7, <1>8, AfterRefreshKeeps

\* MainWindow::on_restoreModsButton_clicked.
LEMMA RestoreBackupKeeps ==
  ASSUME IInv, RestoreBackup PROVE IInv'
<1> DEFINE mods == Collection(disk)
           restored == [list EXCEPT !.file = backup]
           after == Refreshed(restored, collection, mods, FALSE)
           lines == Seq(Lines)
           r == TRUE
           save == FALSE
<1>1. /\ DiskInv /\ ModsInv /\ ListInv(list, collection, replaced) /\ BackupInv
      /\ CoreInv(core) /\ PluginsFollow(core) /\ ViewInv
      /\ ProgramInv /\ FlagsInv /\ CountInv
  BY IInvParts
<1>2. /\ IsCollection(collection) /\ replaced \in BOOLEAN /\ missed \in BOOLEAN
      /\ FileInv(list, replaced) /\ ListInOrder(list.profile, collection)
  BY <1>1 DEF ModsInv, FlagsInv, ListInv
<1>3. IsCollection(mods) /\ ToSet(mods) = disk /\ ToSet(mods) \in SUBSET All
  BY <1>1, CollectionIs DEF DiskInv
<1>4. /\ Command /\ collection' = mods /\ backup # Nothing
      /\ list' = after.list /\ core' = after.core
      /\ missed' = (core.update /\ (missed \/ Active(after.list, collection') #
                                              Active(list, collection)))
      /\ replaced' = ~WroteFile(list, after.list)
      /\ UNCHANGED <<disk, backup, program, mapping>>
  <2>1. LET again == Refreshed(restored, collection, collection', FALSE)
        IN  /\ Command /\ backup # Nothing /\ collection' = mods
            /\ list' = again.list /\ core' = again.core
            /\ missed' = (core.update /\ (missed \/ Active(again.list, collection') #
                                                    Active(list, collection)))
            /\ replaced' = ~WroteFile(list, again.list)
            /\ UNCHANGED <<disk, backup, program, mapping>>
    BY Zenon DEF RestoreBackup, Becomes
  <2> HIDE DEF mods, restored
  <2>2. Refreshed(restored, collection, collection', FALSE) = after
    BY <2>1, Zenon
  <2> HIDE DEF after
  <2>3. QED
    BY <2>1, <2>2
<1>5. backup \in Seq(Lines) /\ (FirstListsOwn => OwnFile(backup))
  BY <1>1, <1>4 DEF BackupInv
<1>6. /\ restored \in [file : lines, profile : {restored.profile}, pending : BOOLEAN,
                       written : lines \cup {Nothing}]
      /\ restored.file = backup /\ restored.profile = list.profile
      /\ restored.written = list.written
  <2>1. /\ list \in [file : lines, profile : {list.profile}, pending : BOOLEAN,
                     written : lines \cup {Nothing}]
        /\ backup \in lines
    BY <1>2, <1>5 DEF FileInv
  <2> HIDE DEF lines
  <2>2. QED
    BY <2>1
<1> HIDE DEF restored
<1>7. FileInv(restored, r) /\ r \in BOOLEAN /\ save \in BOOLEAN /\ ~save
  BY <1>5, <1>6 DEF FileInv, lines
<1>8. Refreshed(restored, collection, mods, save) = after
  BY DEF after, save
<1> HIDE DEF mods, lines, r, save, after
<1>9. /\ ListInv(after.list, mods, Replaces(r, restored, after.list))
      /\ CoreInv(after.core) /\ PluginsFollow(after.core)
      /\ ~core.update => Follows(after.core, Active(after.list, mods))
      /\ core.update => after.core = core
  <2> DEFINE again == Refreshed(restored, collection, mods, save)
  <2>1. /\ ListInv(again.list, mods, Replaces(r, restored, again.list))
        /\ CoreInv(again.core) /\ PluginsFollow(again.core) /\ again.core.update
        /\ ~core.update => Follows(again.core, Active(again.list, mods))
        /\ core.update => again.core = core
    BY <1>1, <1>2, <1>3, <1>6, <1>7, RefreshedKeeps
  <2> HIDE DEF again
  <2>2. again = after
    BY <1>8 DEF again
  <2>3. QED
    BY <2>1, <2>2
<1>10. Replaces(r, restored, after.list) = replaced' /\ replaced' \in BOOLEAN
  BY <1>4, <1>6 DEF Replaces, WroteFile, r
<1>11. missed' \in BOOLEAN
  BY <1>1, <1>2, <1>4 DEF CoreInv
<1>12. ASSUME ~missed' PROVE Follows(core', Active(list', collection'))
  <2>1. CASE ~core.update
    BY <1>4, <1>9, <2>1
  <2>2. CASE core.update
    <3>1. ~missed /\ Active(after.list, collection') = Active(list, collection)
      BY <1>4, <1>12, <2>2
    <3>2. Follows(core, Active(list, collection))
      BY <1>1, <3>1 DEF ViewInv
    <3>3. QED
      BY <1>4, <1>9, <2>2, <3>1, <3>2
  <2>3. QED
    BY <2>1, <2>2
<1>13. ListInv(list', collection', replaced')
  BY <1>4, <1>9, <1>10
<1>14. QED
  BY <1>1, <1>3, <1>4, <1>9, <1>10, <1>11, <1>12, <1>13, Counted
  DEF IInv, DiskInv, BackupInv, ProgramInv, CountInv

\* A profile that is written if it is another one.
Changed(l, profile) ==
  [l EXCEPT !.profile = profile, !.pending = @ \/ profile # l.profile]

\* A profile that is written only if it is another one.
LEMMA ChangedKeeps ==
  ASSUME NEW mods, NEW r \in BOOLEAN, NEW l, ListInv(l, mods, r), NEW profile, ListInOrder(profile, mods)
  PROVE  /\ ListInv(Changed(l, profile), mods, r)
         /\ Changed(l, profile).profile = profile /\ Changed(l, profile).written = l.written
<1>1. DOMAIN l = {"file", "profile", "pending", "written"} /\ l.pending \in BOOLEAN
  BY ListFieldsAre DEF ListFields
<1>2. l = [file |-> l.file, profile |-> l.profile, pending |-> l.pending, written |-> l.written]
  BY DEF ListInv, FileInv
<1>3. CASE profile # l.profile
  <2>1. Changed(l, profile) = Restated(l, profile)
    BY <1>1, <1>2, <1>3 DEF Changed, Restated
  <2>2. QED
    BY <2>1, PendingKeeps
<1>4. CASE profile = l.profile
  <2>1. Changed(l, profile) = l
    BY <1>1, <1>2, <1>4 DEF Changed
  <2>2. QED
    BY <1>4, <2>1
<1>5. QED
  BY <1>3, <1>4

\* modPrioritiesChanged while the structure is read: who reads it is not told.
LEMMA PrioritiesWhileRead ==
  ASSUME NEW mods, IsCollection(mods), NEW r \in BOOLEAN, NEW l, ListInv(l, mods, r),
         NEW c, CoreInv(c), PluginsFollow(c), c.update
  PROVE  LET after == ModPrioritiesChanged(l, mods, c)
         IN  /\ ListInv(after.list, mods, r) /\ after.list.profile = l.profile
             /\ after.list.written = l.written
             /\ CoreInv(after.core) /\ PluginsFollow(after.core)
             /\ \A order : Follows(after.core, order) <=> Follows(c, order)
<1> DEFINE after == ModPrioritiesChanged(l, mods, c)
           missing == Enabled(l, mods) \ DOMAIN c.structure
<1>1. ListInOrder(l.profile, mods)
  BY DEF ListInv
<1>2. /\ after.list = IF missing = {} THEN [l EXCEPT !.pending = TRUE] ELSE l
      /\ CoreInv(after.core) /\ PluginsFollow(after.core)
      /\ after.core.update = c.update /\ after.core.refresher = c.refresher
      /\ after.core.mods = c.mods /\ after.core.root = c.root
  <2>1. IsMoved(l, mods, c, after)
    BY <1>1, PrioritiesChanged
  <2> HIDE DEF after
  <2>2. QED
    BY <2>1 DEF IsMoved
<1> DEFINE waits == [l EXCEPT !.pending = TRUE]
<1>3. ListInv(waits, mods, r) /\ waits.profile = l.profile /\ waits.written = l.written
  BY PendingStays
<1> HIDE DEF after, missing, waits
<1>4. after.list \in {l, waits}
  BY <1>2 DEF waits
<1>5. /\ ListInv(after.list, mods, r) /\ after.list.profile = l.profile
      /\ after.list.written = l.written
  BY <1>3, <1>4
<1>6. c.refresher # "idle"
  BY DEF CoreInv
<1>7. \A order : Follows(after.core, order) <=> Follows(c, order)
  BY <1>2, <1>6 DEF Follows
<1>8. QED
  BY <1>2, <1>5, <1>7 DEF after

\* A mod is installed and given a priority.
LEMMA InstallKeeps ==
  ASSUME IInv, NEW m \in Arriving, NEW target \in {-1, 0}, Install(m, target) PROVE IInv'
<1> DEFINE before == WriteModlistNow(list, collection, FALSE)
           mods   == Collection(disk \cup {m})
           after  == Refreshed(before, collection, mods, TRUE)
           i      == Index(mods, m)
           placed == SetModPriority(after.list.profile, mods, i, target).profile
           middle == Changed(after.list, placed)
           moved  == ModPrioritiesChanged(middle, mods, after.core)
           result == IF target = -1 THEN after ELSE moved
           seen   == target # -1 /\ m \in Enabled(after.list, mods) /\ placed # after.list.profile
<1>1. /\ DiskInv /\ ModsInv /\ ListInv(list, collection, replaced) /\ BackupInv
      /\ CoreInv(core) /\ PluginsFollow(core) /\ ViewInv
      /\ ProgramInv /\ FlagsInv /\ CountInv
  BY IInvParts
<1>2. IsCollection(collection) /\ replaced \in BOOLEAN
  BY <1>1 DEF ModsInv, FlagsInv
<1>3. /\ Command /\ disk' = disk \cup {m} /\ collection' = mods
      /\ AfterRefresh(result, seen)
      /\ UNCHANGED <<backup, program, mapping>>
  BY Zenon DEF Install, Changed
<1>4. DiskInv' /\ BackupInv' /\ ProgramInv' /\ CountInv'
  BY <1>1, <1>3, Counted DEF DiskInv, BackupInv, ProgramInv, All
<1>5. IsCollection(mods) /\ ToSet(mods) = disk \cup {m} /\ ToSet(mods) \in SUBSET All
  <2>1. (disk \cup {m}) \in SUBSET All /\ Overwrite \in disk \cup {m}
    BY <1>1 DEF DiskInv, All
  <2>2. QED
    BY <2>1, CollectionIs
<1> DEFINE save == TRUE
           r == Replaces(replaced, list, before)
<1>6. /\ ListInv(before, collection, r) /\ before.profile = list.profile
  BY <1>1, <1>2, WriteNowSaves
<1>7. save \in BOOLEAN /\ save /\ r \in BOOLEAN
  BY <1>2 DEF Replaces
<1>8. Refreshed(before, collection, mods, save) = after
  BY DEF save, after
<1>9. i \in DOMAIN mods /\ mods[i] = m
  BY <1>5, CollectionFacts
<1>10. seen \in BOOLEAN
  OBVIOUS
<1> HIDE DEF before, mods, after, i, placed, middle, moved, result, seen, save, r
<1> DEFINE s == Replaces(r, before, after.list)
<1>11. /\ ListInv(after.list, mods, s)
       /\ CoreInv(after.core) /\ PluginsFollow(after.core) /\ after.core.update
       /\ ~core.update => Follows(after.core, Active(after.list, mods))
       /\ core.update => after.core = core
  <2> DEFINE again == Refreshed(before, collection, mods, save)
  <2>1. /\ FileInv(before, r) /\ ListInOrder(before.profile, collection)
        /\ save => ListInv(before, collection, r)
        /\ save \in BOOLEAN /\ r \in BOOLEAN
    BY <1>6, <1>7 DEF ListInv
  <2>2. /\ ListInv(again.list, mods, Replaces(r, before, again.list))
        /\ CoreInv(again.core) /\ PluginsFollow(again.core) /\ again.core.update
        /\ ~core.update => Follows(again.core, Active(again.list, mods))
        /\ core.update => again.core = core
    BY <1>1, <1>2, <1>5, <2>1, RefreshedKeeps
  <2> HIDE DEF again
  <2>3. again = after
    BY <1>8 DEF again
  <2>4. QED
    BY <2>2, <2>3
<1>12. s \in BOOLEAN
  BY <1>7 DEF Replaces
<1>13. \A l : l.written = after.list.written => (s => Replaces(replaced, list, l))
  BY DEF s, r, Replaces, WroteFile
<1> HIDE DEF s
<1>14. CASE target = -1
  <2>1. result = after
    BY <1>14 DEF result
  <2>2. s => Replaces(replaced, list, after.list)
    BY <1>13
  <2>3. ListInv(after.list, mods, Replaces(replaced, list, after.list))
    <3>1. Replaces(replaced, list, after.list) \in BOOLEAN
      BY <1>2 DEF Replaces
    <3>2. QED
      BY <1>11, <1>12, <2>2, <3>1, ReplacedSince
  <2>4. AfterRefresh(after, seen)
    BY <1>3, <2>1
  <2>5. core.update => \A order : Follows(core, order) => Follows(after.core, order)
    BY <1>11
  <2>6. ~core.update /\ ~seen => Follows(after.core, Active(after.list, collection'))
    BY <1>3, <1>11
  <2>7. QED
    BY <1>3, <1>4, <1>5, <1>10, <1>11, <2>3, <2>4, <2>5, <2>6, AfterRefreshKeeps
<1>15. CASE target = 0
  <2>1. result = moved /\ (seen <=> m \in Enabled(after.list, mods) /\ placed # after.list.profile)
    BY <1>15 DEF result, seen
  <2>2. ListInOrder(after.list.profile, mods)
    BY <1>11 DEF ListInv
  <2> DEFINE profile == after.list.profile
  <2> HIDE DEF profile
  <2>3. /\ ListInOrder(placed, mods)
        /\ \A j \in DOMAIN mods : placed.status[j].enabled = profile.status[j].enabled
        /\ \A j, k \in DOMAIN mods \ {i} : profile.status[j].priority < profile.status[k].priority
                                           <=> placed.status[j].priority < placed.status[k].priority
    <3>1. ListInOrder(profile, mods) /\ target \in Int /\ i \in DOMAIN mods
      BY <1>9, <1>15, <2>2 DEF profile
    <3>2. placed = SetModPriority(profile, mods, i, target).profile
      BY DEF placed, profile
    <3> HIDE DEF placed, i, mods
    <3>3. PlacedAs(placed, profile, mods, i)
      BY <3>1, <3>2, OneModPlaced
    <3>4. QED
      BY <3>3, Zenon DEF PlacedAs
  <2>4. /\ ListInv(middle, mods, s) /\ middle.profile = placed
        /\ middle.written = after.list.written
    <3> DEFINE l == after.list
    <3>1. ListInv(l, mods, s)
      BY <1>11
    <3> HIDE DEF l
    <3>2. /\ ListInv(Changed(l, placed), mods, s) /\ Changed(l, placed).profile = placed
          /\ Changed(l, placed).written = l.written
      BY <1>12, <2>3, <3>1, ChangedKeeps
    <3>3. middle = Changed(l, placed)
      BY DEF middle, l
    <3>4. QED
      BY <3>2, <3>3 DEF l
  <2>5. /\ ListInv(moved.list, mods, s) /\ moved.list.profile = placed
        /\ moved.list.written = after.list.written
        /\ CoreInv(moved.core) /\ PluginsFollow(moved.core)
        /\ \A order : Follows(moved.core, order) <=> Follows(after.core, order)
    <3> DEFINE c == after.core
               changed == ModPrioritiesChanged(middle, mods, c)
    <3>1. CoreInv(c) /\ PluginsFollow(c) /\ c.update
      BY <1>11
    <3> HIDE DEF c
    <3>2. /\ ListInv(changed.list, mods, s) /\ changed.list.profile = middle.profile
          /\ changed.list.written = middle.written
          /\ CoreInv(changed.core) /\ PluginsFollow(changed.core)
          /\ \A order : Follows(changed.core, order) <=> Follows(c, order)
      BY <1>5, <1>12, <2>4, <3>1, PrioritiesWhileRead
    <3>3. changed = moved
      BY DEF moved, c
    <3> HIDE DEF changed
    <3>4. QED
      BY <2>4, <3>2, <3>3 DEF c
  <2>6. ListInv(moved.list, mods, Replaces(replaced, list, moved.list))
    <3>1. s => Replaces(replaced, list, moved.list)
      BY <1>13, <2>5
    <3>2. Replaces(replaced, list, moved.list) \in BOOLEAN
      BY <1>2 DEF Replaces
    <3>3. QED
      BY <1>12, <2>5, <3>1, <3>2, ReplacedSince
  <2>7. ASSUME ~seen PROVE ActiveOrder(placed.status, mods) = ActiveOrder(profile.status, mods)
    <3>1. CASE placed = profile
      BY <3>1
    <3>2. CASE m \notin EnabledMods(profile.status, mods)
      <4>1. ~profile.status[i].enabled
        BY <1>9, <3>2 DEF EnabledMods
      <4>2. \A j, k \in DOMAIN mods : profile.status[j].enabled /\ profile.status[k].enabled
                                        /\ profile.status[j].priority < profile.status[k].priority
                                        => placed.status[j].priority < placed.status[k].priority
        BY <2>3, <4>1
      <4>3. ListInOrder(profile, mods)
        BY <2>2 DEF profile
      <4>4. QED
        BY <1>5, <2>3, <4>2, <4>3, SameActive
    <3>3. QED
      BY <2>1, <2>7, <3>1, <3>2 DEF Enabled, profile
  <2>8. ~core.update /\ ~seen => Follows(moved.core, Active(moved.list, collection'))
    BY <1>3, <1>11, <2>5, <2>7 DEF Active, profile
  <2>9. core.update => \A order : Follows(core, order) => Follows(moved.core, order)
    BY <1>11, <2>5
  <2>10. AfterRefresh(moved, seen)
    BY <1>3, <2>1
  <2>11. QED
    BY <1>3, <1>4, <1>5, <1>10, <2>5, <2>6, <2>8, <2>9, <2>10, AfterRefreshKeeps
<1>16. QED
  BY <1>14, <1>15

\* The enabled mods are sorted by their priorities.
LEMMA ActiveSorted ==
  ASSUME NEW mods, IsCollection(mods), NEW q, ListInOrder(q, mods)
  PROVE  LET F == EnabledMods(q.status, mods)
             b == [m \in F |-> PriorityOf(q.status, mods, m)]
         IN  ActiveOrder(q.status, mods) = SortedBy(F, b) /\ Keys(F, b)
BY ActiveFacts

\* Without a mod the others stay active in their order.
LEMMA ActiveWithout ==
  ASSUME NEW mods, IsCollection(mods), NEW p, ListInOrder(p, mods), NEW q, ListInOrder(q, mods),
         NEW x, EnabledMods(q.status, mods) = EnabledMods(p.status, mods) \ {x},
         \A i \in DOMAIN mods : q.status[i].priority = p.status[i].priority
  PROVE  ActiveOrder(q.status, mods) = Among(ActiveOrder(p.status, mods), Mods \ {x})
<1> DEFINE E == EnabledMods(p.status, mods)
           F == EnabledMods(q.status, mods)
           R == Mods \ {x}
           P(m) == PriorityOf(p.status, mods, m)
           Q(m) == PriorityOf(q.status, mods, m)
           a == [m \in E |-> P(m)]
           b == [m \in F |-> Q(m)]
<1>1. /\ ActiveOrder(p.status, mods) = SortedBy(E, a) /\ Keys(E, a)
      /\ E \in SUBSET ToSet(mods)
  BY ActiveFacts
<1>2. ActiveOrder(q.status, mods) = SortedBy(F, b) /\ Keys(F, b)
  BY ActiveSorted, Zenon
<1>3. /\ ToSet(mods) \in SUBSET Mods
      /\ \A m \in ToSet(mods) : Index(mods, m) \in DOMAIN mods
  BY CollectionFacts
<1>4. F = E \cap R
  BY <1>1, <1>3
<1>5. \A m \in F : Q(m) = P(m)
  BY <1>1, <1>3, <1>4 DEF PriorityOf
<1> HIDE DEF E, F, R, P, Q
<1>6. \A m \in F : a[m] = P(m) /\ b[m] = P(m)
  BY <1>4, <1>5
<1> HIDE DEF a, b
<1>7. Among(SortedBy(E, a), R) = SortedBy(F, a) /\ Keys(F, a)
  BY <1>1, <1>4, AmongSorted
<1>8. /\ \A m \in F : b[m] \in Int
      /\ \A m, n \in F : a[m] < a[n] => b[m] < b[n]
  BY <1>2, <1>6 DEF Keys
<1>9. SortedBy(F, a) = SortedBy(F, b)
  BY <1>7, <1>8, SortedAlike
<1>10. QED
  BY <1>1, <1>2, <1>7, <1>9 DEF R

\* refreshModStatus writes nothing if nothing is pending.
LEMMA ReadUnsaved ==
  ASSUME NEW mods, IsCollection(mods), NEW r \in BOOLEAN, NEW l, FileInv(l, r), l.pending = FALSE
  PROVE  ListInv(ReadModStatus(l, mods), mods, r) /\ ReadModStatus(l, mods).written = l.written
<1> DEFINE read == RefreshModStatus(l.file, mods)
           after == ReadModStatus(l, mods)
<1>1. after = [l EXCEPT !.profile = read.profile, !.pending = read.modified]
  BY DEF ReadModStatus, WriteModlistNow
<1>2. DOMAIN l = {"file", "profile", "pending", "written"}
  BY DEF FileInv
<1> HIDE DEF read
<1>3. after.written = l.written
  BY <1>1, <1>2
<1>4. ListInv(after, mods, Replaces(r, l, after))
  BY ReadKeeps
<1> HIDE DEF after
<1>5. Replaces(r, l, after) = r
  BY <1>3 DEF Replaces, WroteFile
<1>6. QED
  BY <1>3, <1>4, <1>5 DEF after

\* A list whose changes are given up.
GivenUp(l, profile) == [l EXCEPT !.profile = profile, !.pending = FALSE]

\* The file stays what it is when changes are given up.
LEMMA GivenUpKeeps ==
  ASSUME NEW r \in BOOLEAN, NEW l, FileInv(l, r), NEW profile
  PROVE  /\ FileInv(GivenUp(l, profile), r) /\ GivenUp(l, profile).pending = FALSE
         /\ GivenUp(l, profile).written = l.written
<1> DEFINE lines == Seq(Lines)
           after == GivenUp(l, profile)
<1>1. /\ l \in [file : lines, profile : {l.profile}, pending : BOOLEAN,
                written : lines \cup {Nothing}]
      /\ ~r => l.written \in {Nothing, l.file}
      /\ FirstListsOwn => OwnFile(l.file)
  BY DEF FileInv
<1> HIDE DEF lines
<1>2. /\ after \in [file : lines, profile : {after.profile}, pending : BOOLEAN,
                    written : lines \cup {Nothing}]
      /\ after.file = l.file /\ after.written = l.written /\ after.pending = FALSE
  BY <1>1 DEF GivenUp
<1> HIDE DEF after
<1>3. QED
  BY <1>1, <1>2 DEF FileInv, lines, after

\* ModList::removeRowForce.
LEMMA RemoveModKeeps ==
  ASSUME IInv, NEW m \in Arriving, RemoveMod(m) PROVE IInv'
<1> DEFINE on == m \in Enabled(list, collection)
           i == Index(collection, m)
           status == list.profile.status
           off == [list EXCEPT !.profile.status[i].enabled = FALSE]
           profile == WithEnabled(list.profile, collection, {m}, FALSE)
           disabled == IF on THEN ModStatusChanged(off, collection, {m}, FALSE, core)
                       ELSE [list |-> list, core |-> core]
           mods == Collection(ToSet(collection) \ {m})
           dropped == [disabled.list EXCEPT !.pending = FALSE]
           read == ReadModStatus(dropped, mods)
           after == IF on /\ m \in DOMAIN core.structure THEN RefreshESPList(read, disabled.core)
                    ELSE [list |-> read, core |-> disabled.core]
           without == Among(Active(list, collection), Mods \ {m})
<1>1. /\ DiskInv /\ ModsInv /\ ListInv(list, collection, replaced) /\ BackupInv
      /\ CoreInv(core) /\ PluginsFollow(core) /\ ViewInv
      /\ ProgramInv /\ FlagsInv /\ CountInv
  BY IInvParts
<1>2. /\ IsCollection(collection) /\ ToSet(collection) \in SUBSET All
      /\ replaced \in BOOLEAN /\ missed \in BOOLEAN
      /\ FileInv(list, replaced) /\ ListInOrder(list.profile, collection)
  BY <1>1 DEF ModsInv, FlagsInv, ListInv
<1>3. DOMAIN list = {"file", "profile", "pending", "written"}
  BY <1>2 DEF FileInv
<1>4. m \in ToSet(collection) /\ m # Overwrite /\ ~AlwaysEnabled(m) /\ ~AlwaysDisabled(m)
  BY KindsAssumption, FirstAssumption DEF RemoveMod, AlwaysEnabled, AlwaysDisabled
<1>5. /\ Command /\ disk' = disk \ {m} /\ collection' = mods
      /\ Becomes([after EXCEPT !.list.pending = TRUE])
      /\ missed' = \/ missed
                   \/ on /\ core.update
                   \/ Active(after.list, mods) # without
      /\ UNCHANGED <<backup, program, mapping, replaced>>
  BY Zenon DEF RemoveMod
<1>6. DiskInv' /\ BackupInv' /\ ProgramInv' /\ CountInv'
  BY <1>1, <1>4, <1>5, Counted DEF DiskInv, BackupInv, ProgramInv
<1>7. IsCollection(mods) /\ ToSet(mods) \in SUBSET All
  <2>1. (ToSet(collection) \ {m}) \in SUBSET All /\ Overwrite \in ToSet(collection) \ {m}
    BY <1>2, <1>4, CollectionFacts
  <2>2. QED
    BY <2>1, CollectionIs
<1>8. off = [list EXCEPT !.profile = profile]
  <2> DEFINE p == list.profile
             one == [status EXCEPT ![i].enabled = FALSE]
             all == [j \in DOMAIN status |-> IF collection[j] \in {m}
                                             THEN [status[j] EXCEPT !.enabled = FALSE] ELSE status[j]]
  <2>1. /\ DOMAIN status = DOMAIN collection /\ i \in DOMAIN collection
        /\ \A j \in DOMAIN collection : collection[j] = m <=> j = i
    BY <1>2, <1>4, InOrderStatuses, CollectionFacts
  <2>2. off = [list EXCEPT !.profile = [p EXCEPT !.status = one]]
    OBVIOUS
  <2>3. profile = [p EXCEPT !.status = all]
    BY DEF WithEnabled
  <2>4. one = all
    <3> HIDE DEF status, i
    <3>1. one = [j \in DOMAIN status |-> IF j = i THEN [status[j] EXCEPT !.enabled = FALSE] ELSE status[j]]
      OBVIOUS
    <3>2. QED
      BY <2>1, <3>1
  <2> HIDE DEF p, one, all, off, profile
  <2>5. QED
    BY <2>2, <2>3, <2>4 DEF p
<1>9. IsSwitched(list.profile, collection, {m}, FALSE, profile)
  <2>1. CanSwitch(list.profile, collection, {m})
    BY <1>2, <1>4 DEF CanSwitch
  <2>2. QED
    BY <2>1, StatusSet, Zenon
<1> HIDE DEF profile
<1>10. /\ ListInOrder(profile, collection)
       /\ \A j \in DOMAIN collection : profile.status[j].priority = list.profile.status[j].priority
       /\ EnabledMods(profile.status, collection) = Enabled(list, collection) \ {m}
  BY <1>9, Zenon DEF IsSwitched, Enabled
<1>11. DOMAIN off = ListFields /\ off.profile = profile
  BY <1>3, <1>8 DEF ListFields
<1>12. ActiveOrder(profile.status, collection) = without
  BY <1>2, <1>10, ActiveWithout DEF Enabled, Active
<1> HIDE DEF off, without
<1>13. /\ ListInv(read, mods, replaced)
       /\ CoreInv(disabled.core) /\ PluginsFollow(disabled.core)
       /\ ~missed /\ ~(on /\ core.update) => Follows(disabled.core, without)
  <2>1. CASE on
    <3> DEFINE told == ModStatusChanged(off, collection, {m}, FALSE, core)
    <3>1. IsChanged(off, collection, {m}, FALSE, core, told)
      <4>1. CanChange(off, collection, {m}, core)
        BY <1>1, <1>2, <1>4, <1>10, <1>11 DEF CanChange
      <4>2. QED
        BY <4>1, StatusChanged, Zenon
    <3>2. disabled = told
      BY <2>1
    <3> HIDE DEF told
    <3>3. /\ disabled.list = [off EXCEPT !.pending = TRUE]
          /\ CoreInv(disabled.core) /\ PluginsFollow(disabled.core)
          /\ disabled.core.update = core.update /\ disabled.core.refresher = core.refresher
          /\ Shown(disabled.core.structure) = Shown(core.structure) \ {m}
          /\ \A x \in Shown(disabled.core.structure) \cap ToSet(collection) :
               disabled.core.structure[x].priority = PriorityOf(off.profile.status, collection, x) + 1
      BY <3>1, <3>2, Zenon DEF IsChanged
    <3> HIDE DEF disabled
    <3>4. dropped = GivenUp(list, profile)
      BY <1>3, <1>8, <3>3 DEF GivenUp
    <3> HIDE DEF dropped
    <3>5. FileInv(dropped, replaced) /\ dropped.pending = FALSE
      BY <1>2, <3>4, GivenUpKeeps
    <3>6. ListInv(read, mods, replaced)
      BY <1>2, <1>7, <3>5, ReadUnsaved
    <3> HIDE DEF read
    <3>7. ASSUME ~missed, ~core.update PROVE Follows(disabled.core, without)
      <4>1. core.refresher = "idle" /\ Shows(core.structure, Active(list, collection))
        BY <1>1, <3>7 DEF CoreInv, ViewInv, Follows
      <4>2. Shown(core.structure) = Enabled(list, collection)
        BY <1>2, <4>1, ActiveLists DEF Shows, Active, Enabled
      <4>3. /\ Shown(disabled.core.structure) = EnabledMods(profile.status, collection)
            /\ EnabledMods(profile.status, collection) \in SUBSET ToSet(collection)
        BY <1>2, <1>10, <3>3, <4>2, ActiveLists
      <4>4. \A x \in EnabledMods(profile.status, collection) :
              disabled.core.structure[x].priority = PriorityOf(profile.status, collection, x) + 1
        BY <1>11, <3>3, <4>3
      <4>5. Shows(disabled.core.structure, ActiveOrder(profile.status, collection))
        BY <1>2, <1>10, <4>3, <4>4, PrioritiesShow
      <4>6. QED
        BY <1>12, <3>3, <4>1, <4>5 DEF Follows
    <3>8. QED
      BY <2>1, <3>3, <3>6, <3>7
  <2>2. CASE ~on
    <3>1. disabled = [list |-> list, core |-> core]
      BY <2>2
    <3>2. dropped = GivenUp(list, list.profile)
      <4> HIDE DEF disabled
      <4>1. disabled.list = list
        BY <3>1
      <4>2. QED
        BY <1>2, <1>3, <4>1 DEF GivenUp
    <3> HIDE DEF dropped, disabled
    <3>3. FileInv(dropped, replaced) /\ dropped.pending = FALSE
      <4> DEFINE p == list.profile
      <4>1. dropped = GivenUp(list, p)
        BY <3>2
      <4> HIDE DEF p
      <4>2. QED
        BY <1>2, <4>1, GivenUpKeeps
    <3>4. ListInv(read, mods, replaced)
      BY <1>2, <1>7, <3>3, ReadUnsaved
    <3>5. Active(list, collection) = without
      <4>1. EnabledMods(list.profile.status, collection)
              = EnabledMods(list.profile.status, collection) \ {m}
        BY <2>2 DEF Enabled
      <4>2. \A j \in DOMAIN collection : list.profile.status[j].priority = list.profile.status[j].priority
        OBVIOUS
      <4> DEFINE p == list.profile
      <4>3. ListInOrder(p, collection) /\ EnabledMods(p.status, collection) = EnabledMods(p.status, collection) \ {m}
        BY <1>2, <4>1
      <4> HIDE DEF p
      <4>4. ActiveOrder(p.status, collection) = Among(ActiveOrder(p.status, collection), Mods \ {m})
        BY <1>2, <4>3, ActiveWithout
      <4>5. QED
        BY <4>4 DEF Active, p, without
    <3>6. QED
      BY <1>1, <3>1, <3>4, <3>5 DEF ViewInv
  <2>3. QED
    BY <2>1, <2>2
<1> HIDE DEF disabled, dropped, read
<1> DEFINE told == RefreshESPList(read, disabled.core)
           waits == [read EXCEPT !.pending = TRUE]
           kept == [after.list EXCEPT !.pending = TRUE]
<1>14. /\ CoreInv(told.core) /\ PluginsFollow(told.core)
       /\ \A order : Follows(told.core, order) <=> Follows(disabled.core, order)
       /\ told.list = IF disabled.core.update THEN read ELSE [read EXCEPT !.pending = TRUE]
  <2>1. CoreInv(disabled.core)
    BY <1>13
  <2>2. QED
    BY <2>1, ESPListRefreshed
<1>15. ListInv(waits, mods, replaced) /\ waits.profile = read.profile
  <2>1. ListInv(read, mods, replaced) /\ replaced \in BOOLEAN
    BY <1>2, <1>13
  <2>2. QED
    BY <2>1, PendingStays
<1>16. told.list \in {read, waits}
  BY <1>14
<1> HIDE DEF told, waits, on
<1>17. /\ after.list \in {read, waits} /\ CoreInv(after.core) /\ PluginsFollow(after.core)
       /\ \A order : Follows(after.core, order) <=> Follows(disabled.core, order)
  BY <1>13, <1>14, <1>16 DEF told
<1>18. list' = kept /\ core' = after.core
  BY <1>5 DEF Becomes
<1> HIDE DEF after
<1>19. ListInv(after.list, mods, replaced) /\ after.list.profile = read.profile
  BY <1>13, <1>15, <1>17
<1>20. ListInv(kept, mods, replaced) /\ kept.profile = after.list.profile
  <2> DEFINE l == after.list
  <2>1. ListInv(l, mods, replaced) /\ replaced \in BOOLEAN
    BY <1>2, <1>19
  <2> HIDE DEF l
  <2> DEFINE put == [l EXCEPT !.pending = TRUE]
  <2>2. ListInv(put, mods, replaced) /\ put.profile = l.profile
    BY <2>1, PendingStays
  <2>3. QED
    BY <2>2 DEF l
<1> HIDE DEF kept
<1>21. missed' \in BOOLEAN
  BY <1>1, <1>2, <1>5 DEF CoreInv
<1>22. ~missed' => Follows(core', Active(list', collection'))
  <2>1. Active(list', collection') = Active(after.list, mods)
    BY <1>5, <1>18, <1>20 DEF Active
  <2>2. ~missed' => ~missed /\ ~(on /\ core.update) /\ Active(after.list, mods) = without
    BY <1>5
  <2>3. QED
    BY <1>13, <1>17, <1>18, <2>1, <2>2
<1>23. QED
  BY <1>2, <1>5, <1>6, <1>7, <1>17, <1>18, <1>20, <1>21, <1>22
  DEF IInv, DiskInv, BackupInv, ProgramInv, CountInv

-----------------------------------------------------------------------------
(* The specification *)

\* Nothing happens.
LEMMA StutterKeeps ==
  ASSUME IInv, UNCHANGED vars PROVE IInv'
BY DEF IInv, vars

\* Every step of the user keeps the invariant.
LEMMA UserStepKeeps ==
  ASSUME IInv, UserStep PROVE IInv'
<1>1. Len(collection) \in Nat
  <2>1. IsCollection(collection)
    BY DEF IInv
  <2>2. QED
    BY <2>1, CollectionFacts
<1>2. \A p \in 0..Len(collection) : p \in Int
  BY <1>1
<1>3. CASE \E mods \in (SUBSET Movable) \ {{}}, on \in BOOLEAN : SetModsEnabled(mods, on)
  BY <1>3, SetModsEnabledKeeps
<1>4. CASE \E mods \in (SUBSET Movable) \ {{}}, p \in 0..Len(collection) : MoveMods(mods, p)
  <2>1. PICK mods \in (SUBSET Movable) \ {{}}, p \in 0..Len(collection) : MoveMods(mods, p)
    BY <1>4
  <2>2. mods \in SUBSET Movable /\ mods # {}
    BY <2>1
  <2>3. p \in Int
    BY <1>2, <2>1
  <2>4. QED
    BY <2>1, <2>2, <2>3, MoveModsKeeps
<1>5. CASE \E m \in Movable, p \in 0..Len(collection) : SetPriority(m, p)
  BY <1>2, <1>5, SetPriorityKeeps
<1>6. CASE \E save \in BOOLEAN : Refresh(save)
  BY <1>6, RefreshKeeps
<1>7. CASE \E m \in Arriving, p \in {-1, 0} : Install(m, p)
  BY <1>7, InstallKeeps
<1>8. CASE \E m \in Arriving : ChangeDisk(m) \/ RemoveMod(m)
  BY <1>8, ChangeDiskKeeps, RemoveModKeeps
<1>9. CASE SaveBackup \/ RestoreBackup \/ BeforeRun
  BY <1>9, SaveBackupKeeps, RestoreBackupKeeps, BeforeRunKeeps
<1>10. CASE \E crash \in BOOLEAN : Restart(crash)
  BY <1>10, RestartKeeps
<1>11. QED
  BY <1>3, <1>4, <1>5, <1>6, <1>7, <1>8, <1>9, <1>10 DEF UserStep

\* Every other step keeps it.
LEMMA SystemStepKeeps ==
  ASSUME IInv, SystemStep PROVE IInv'
<1>1. CASE WriterFires \/ ReadStructure \/ DirectoryRefreshed
  BY <1>1, WriterFiresKeeps, ReadStructureKeeps, DirectoryRefreshedKeeps
<1>2. CASE AboutToRun \/ FileMapping
  BY <1>2, AboutToRunKeeps, FileMappingKeeps
<1>3. CASE \E refresh \in BOOLEAN : ProgramEnds(refresh)
  BY <1>3, ProgramEndsKeeps
<1>4. QED
  BY <1>1, <1>2, <1>3 DEF SystemStep

\* The inductive invariant holds in every state of every behavior.
THEOREM OrganizerInvariant == Spec => []IInv
<1>1. Init => IInv
  BY InitHolds
<1>2. IInv /\ [Next]_vars => IInv'
  BY StutterKeeps, UserStepKeeps, SystemStepKeeps DEF Next
<1>3. QED
  BY <1>1, <1>2, PTL DEF Spec

\* The priorities are the numbers from 0 without a gap.
LEMMA PrioritiesFromZero ==
  ASSUME NEW mods, IsCollection(mods), NEW profile, ListInOrder(profile, mods)
  PROVE  {profile.status[i].priority : i \in DOMAIN mods} = 0..(Len(mods) - 1)
<1> DEFINE n == Len(mods)
           at == [i \in 1..n |-> profile.status[i].priority]
           places == {profile.status[i].priority : i \in DOMAIN mods}
<1>1. n \in Nat /\ DOMAIN mods = 1..n
  BY CollectionFacts
<1>2. /\ \A i \in DOMAIN mods : profile.status[i].priority \in 0..(n - 1)
      /\ \A i, j \in DOMAIN mods : i # j => profile.status[i].priority # profile.status[j].priority
  BY DEF ListInOrder
<1>3. places \in SUBSET (0..(n - 1))
  BY <1>2
<1> HIDE DEF n
<1>4. IsFiniteSet(1..n) /\ Cardinality(1..n) = n
  <2>1. 1 \in Int /\ n \in Int
    BY <1>1
  <2>2. /\ IsFiniteSet(1..n)
        /\ Cardinality(1..n) = IF 1 > n THEN 0 ELSE n - 1 + 1
    BY <2>1, FS_Interval
  <2>3. QED
    BY <1>1, <2>2
<1>5. IsFiniteSet(0..(n - 1)) /\ Cardinality(0..(n - 1)) = n
  <2>1. 0 \in Int /\ n - 1 \in Int
    BY <1>1
  <2>2. /\ IsFiniteSet(0..(n - 1))
        /\ Cardinality(0..(n - 1)) = IF 0 > n - 1 THEN 0 ELSE (n - 1) - 0 + 1
    BY <2>1, FS_Interval
  <2>3. QED
    BY <1>1, <2>2
<1>6. ExistsBijection(1..n, places)
  <2>1. at \in [1..n -> places]
    BY <1>1
  <2>2. ASSUME NEW i \in 1..n, NEW j \in 1..n, at[i] = at[j] PROVE i = j
    BY <1>1, <1>2, <2>2
  <2>3. \A p \in places : \E i \in 1..n : at[i] = p
    BY <1>1
  <2> HIDE DEF at, places
  <2>4. at \in Bijection(1..n, places)
    BY <2>1, <2>2, <2>3, Zenon DEF Bijection, Injection, Surjection, IsInjective
  <2>5. QED
    BY <2>4 DEF ExistsBijection
<1>7. IsFiniteSet(places) /\ Cardinality(places) = n
  BY <1>4, <1>6, FS_Bijection
<1> HIDE DEF places
<1>8. places = 0..(n - 1)
  BY <1>3, <1>5, <1>7, FS_Subset
<1>9. QED
  BY <1>8 DEF places, n

\* The types follow from the invariant.
LEMMA TypeFollows == IInv => TypeOK
<1> SUFFICES ASSUME IInv PROVE TypeOK
  OBVIOUS
<1>1. /\ DiskInv /\ ModsInv /\ ListInv(list, collection, replaced) /\ CoreInv(core)
      /\ ProgramInv /\ FlagsInv /\ CountInv
  BY IInvParts
<1>2. IsCollection(collection) /\ ListInOrder(list.profile, collection)
  BY <1>1 DEF ModsInv, ListInv
<1>3. collection = Collection(ToSet(collection)) /\ Overwrite \in ToSet(collection)
  BY <1>2, CollectionFacts
<1>4. DOMAIN list.profile.status = DOMAIN collection
  BY <1>2, InOrderStatuses
<1>5. {list.profile.status[i].priority : i \in DOMAIN collection} = 0..(Len(collection) - 1)
  <2> DEFINE p == list.profile
  <2>1. ListInOrder(p, collection)
    BY <1>2
  <2> HIDE DEF p
  <2>2. {p.status[i].priority : i \in DOMAIN collection} = 0..(Len(collection) - 1)
    BY <1>2, <2>1, PrioritiesFromZero
  <2>3. QED
    BY <2>2 DEF p
<1>6. list.profile.managed = Cardinality(Movable)
  BY <1>2 DEF ListInOrder, Managed, Movable
<1>7. list.file \in Seq(Lines) /\ list.pending \in BOOLEAN
  BY <1>1, <1>2, ListFieldsAre DEF FlagsInv
<1>8. ToSet(core.mods) \subseteq Mod(FirstMods \cup Arriving)
  <2>1. core.mods \in Seq(Mod(All))
    BY <1>1 DEF CoreInv
  <2>2. \A k \in DOMAIN core.mods : core.mods[k] \in Mod(All)
    BY <2>1
  <2>3. QED
    BY <2>2 DEF ToSet, All
<1>9. /\ core.update = (core.refresher # "idle") /\ core.refresher \in {"idle", "queued", "done"}
      /\ core.postRefresh => core.update
  BY <1>1 DEF CoreInv
<1>10. QED
  BY <1>1, <1>3, <1>4, <1>5, <1>6, <1>7, <1>8, <1>9 DEF TypeOK, DiskInv, ProgramInv, CountInv, All

\* The variables of the organizer keep their types: whatever is read, moved,
\* installed and removed, the profile has a status for each mod there is, and
\* their priorities are the numbers from 0 (profile.cpp:369 to 534).
THEOREM OrganizerTypeCorrect == Spec => []TypeOK
BY OrganizerInvariant, TypeFollows, PTL

\* Once no write is under way, modlist.txt is what would be written of the list
\* (profile.cpp:279 to 366), if the first file is one that the program has
\* written, with no name twice and the mods enabled that cannot be disabled:
\* refreshModStatus does not correct either in the file.
THEOREM ListSaved ==
  ASSUME FirstListsOwn
  PROVE  Spec => []ListIsSaved
<1>1. IInv => ListIsSaved
  BY DEF IInv, ListInv, Saved, ListIsSaved
<1>2. QED
  BY <1>1, OrganizerInvariant, PTL

\* The structure shows the list and the plugins follow the structure whenever no
\* update is under way and no change was missed (organizercore.cpp:1209 to 1590).
THEOREM ViewsFollow == Spec => []ViewsFollowList
<1>1. ASSUME IInv PROVE ViewsFollowList
  <2>1. /\ ModsInv /\ ListInv(list, collection, replaced) /\ CoreInv(core)
        /\ PluginsFollow(core) /\ ViewInv
    BY <1>1, IInvParts
  <2>2. IsCollection(collection) /\ ListInOrder(list.profile, collection)
    BY <2>1 DEF ModsInv, ListInv
  <2>3. PluginListFollowsStructure
    BY <2>1 DEF PluginsFollow, PluginListFollowsStructure
  <2>4. StructureFollowsList
    <3>1. SUFFICES ASSUME ~core.update, ~missed
                   PROVE  /\ Shown(core.structure) = Enabled(list, collection)
                          /\ \A i, j \in DOMAIN collection :
                               LET s == list.profile.status
                               IN s[i].enabled /\ s[j].enabled /\ s[i].priority < s[j].priority =>
                                    core.structure[collection[i]].priority
                                      < core.structure[collection[j]].priority
      BY DEF StructureFollowsList
    <3> DEFINE p == list.profile
               E == EnabledMods(p.status, collection)
               P(m) == PriorityOf(p.status, collection, m)
               order == ActiveOrder(p.status, collection)
               n == Cardinality(E)
    <3>2. Shows(core.structure, order)
      BY <2>1, <3>1 DEF CoreInv, ViewInv, Follows, Active
    <3>3. ListInOrder(p, collection)
      BY <2>2
    <3>4. p = list.profile
      OBVIOUS
    <3> HIDE DEF p
    <3>5. /\ \A i \in DOMAIN collection : /\ p.status[i].enabled <=> collection[i] \in E
                                          /\ P(collection[i]) = p.status[i].priority
          /\ DOMAIN order = 1..n
          /\ \A m \in E : \E k \in 1..n : order[k] = m
          /\ \A j, k \in 1..n : j < k <=> P(order[j]) < P(order[k])
      BY <2>2, <3>3, ActiveFacts
    <3>6. ToSet(order) = E
      BY <2>2, <3>3, ActiveLists
    <3> HIDE DEF E, P, order, n
    <3>7. Shown(core.structure) = E
      BY <3>2, <3>6 DEF Shows
    <3>8. ASSUME NEW i \in DOMAIN collection, NEW j \in DOMAIN collection,
                 p.status[i].enabled, p.status[j].enabled, p.status[i].priority < p.status[j].priority
          PROVE  core.structure[collection[i]].priority < core.structure[collection[j]].priority
      <4>1. collection[i] \in E /\ collection[j] \in E
        BY <3>5, <3>8
      <4>2. PICK k \in 1..n : order[k] = collection[i]
        BY <3>5, <4>1
      <4>3. PICK l \in 1..n : order[l] = collection[j]
        BY <3>5, <4>1
      <4>4. P(order[k]) < P(order[l])
        BY <3>5, <3>8, <4>2, <4>3
      <4>5. k < l
        BY <3>5, <4>4
      <4>6. QED
        BY <3>2, <3>5, <4>2, <4>3, <4>5 DEF Shows
    <3>9. Shown(core.structure) = Enabled(list, collection)
      BY <3>4, <3>7 DEF Enabled, E
    <3>10. QED
      BY <3>4, <3>8, <3>9
  <2>5. QED
    BY <2>3, <2>4 DEF ViewsFollowList
<1>2. QED
  BY <1>1, OrganizerInvariant, PTL

\* Only fileMapping lets a saved program run.
LEMMA OnlyFileMapping ==
  ASSUME Next, program = "saved", program' = "running" PROVE FileMapping
<1>1. CASE UserStep
  BY <1>1 DEF UserStep, SetModsEnabled, MoveMods, SetPriority, Refresh, Install, ChangeDisk,
              RemoveMod, SaveBackup, RestoreBackup, BeforeRun, Restart
<1>2. CASE SystemStep
  BY <1>2 DEF SystemStep, WriterFires, ReadStructure, DirectoryRefreshed, AboutToRun, ProgramEnds
<1>3. QED
  BY <1>1, <1>2 DEF Next

\* A program is started with the enabled mods in the order the list shows
\* (fileMapping, organizercore.cpp:2070 to 2150), unless the list was changed
\* after it was saved or the file is not the profile's.
THEOREM RunsListed == Spec => RunsWhatIsListed
<1>1. ASSUME IInv, [Next]_vars
      PROVE  [(program = "saved" /\ program' = "running" /\ ~list.pending /\ ~replaced) =>
                mapping' = Among(Active(list, collection), Regular)]_vars
  <2>1. SUFFICES ASSUME Next, program = "saved", program' = "running", ~list.pending, ~replaced
                 PROVE  mapping' = Among(Active(list, collection), Regular)
    BY <1>1
  <2>2. mapping' = Among(Active(OpenProfile(list.file, collection), collection), Regular)
    BY <2>1, OnlyFileMapping DEF FileMapping
  <2>3. /\ IsCollection(collection) /\ list.file \in Seq(Lines)
        /\ FirstListsOwn => OwnFile(list.file)
        /\ Saved(list, collection)
    BY <1>1, <2>1, ListFieldsAre DEF IInv, ListInv
  <2>4. OpenProfile(list.file, collection).profile = list.profile
    BY <2>3, OpenKeeps DEF Saved
  <2>5. QED
    BY <2>2, <2>4 DEF Active
<1>2. QED
  BY <1>1, OrganizerInvariant, PTL DEF Spec, RunsWhatIsListed

-----------------------------------------------------------------------------
(* What is promised of modlist.txt *)

\* The groups are those of refreshModStatus, and a name is read from one line.
LEMMA GroupsAre ==
  ASSUME NEW mods, IsCollection(mods), NEW file \in Seq(Lines)
  PROVE  LET F == New(file, mods, Foreign)
             I == InFile(file, mods)
             R == New(file, mods, Regular)
             B == BackupsOf(mods)
         IN  /\ \A m \in F : Group(file, m) = 1
             /\ \A m \in I : Group(file, m) = 2
             /\ \A m \in R : Group(file, m) = 3
             /\ \A m \in B : Group(file, m) = 4
             /\ Group(file, Overwrite) = 5
             /\ \A m \in I : LineFor(file, m) = {LineOf(file, mods, m)}
<1> DEFINE F == New(file, mods, Foreign)
           I == InFile(file, mods)
           R == New(file, mods, Regular)
           B == BackupsOf(mods)
           K == Known(file, mods)
           A == ToSet(mods)
<1>1. A \in SUBSET Mods
  BY CollectionFacts
<1>2. /\ \A m \in I : LineOf(file, mods, m) \in K /\ file[LineOf(file, mods, m)].mod = m
      /\ \A k \in K : file[k].mod \in I
      /\ F \in SUBSET Mods /\ R \in SUBSET Mods
  BY ReadKinds
<1>3. ASSUME NEW m \in I PROVE LineFor(file, m) = {LineOf(file, mods, m)}
  <2>1. LineOf(file, mods, m) \in NamesRead(file) /\ file[LineOf(file, mods, m)].mod = m
    BY <1>2 DEF Known
  <2>2. ASSUME NEW j \in NamesRead(file), NEW k \in NamesRead(file), file[j].mod = file[k].mod
        PROVE  j = k
    <3>1. j \in Nat \ {0} /\ k \in Nat \ {0}
      BY DEF NamesRead
    <3>2. ~(j < k) /\ ~(k < j)
      BY <2>2, <3>1 DEF NamesRead
    <3>3. QED
      BY <3>1, <3>2
  <2>3. QED
    BY <2>1, <2>2 DEF LineFor
<1>4. ASSUME NEW m \in A, m \in Foreign \cup Regular, m \notin I PROVE LineFor(file, m) = {}
  BY <1>2, <1>4, KindsAssumption DEF LineFor, Known, HasAutomaticPriority
<1>5. \A m \in I : m \in Foreign \cup Regular
  BY <1>1 DEF InFile, Known, HasAutomaticPriority, Mods
<1>6. ASSUME NEW m \in F PROVE Group(file, m) = 1
  <2>1. m \in Foreign /\ LineFor(file, m) = {}
    BY <1>4 DEF New
  <2>2. QED
    BY <2>1, KindsAssumption DEF Group
<1>7. ASSUME NEW m \in I PROVE Group(file, m) = 2
  <2>1. m \in Foreign \cup Regular /\ LineFor(file, m) # {}
    BY <1>3, <1>5
  <2>2. QED
    BY <2>1, KindsAssumption DEF Group
<1>8. ASSUME NEW m \in R PROVE Group(file, m) = 3
  <2>1. m \in Regular /\ LineFor(file, m) = {}
    BY <1>4 DEF New
  <2>2. QED
    BY <2>1, KindsAssumption DEF Group
<1>9. ASSUME NEW m \in B PROVE Group(file, m) = 4
  BY KindsAssumption DEF Group, BackupsOf
<1>10. Group(file, Overwrite) = 5
  BY KindsAssumption DEF Group
<1>11. QED
  BY <1>3, <1>6, <1>7, <1>8, <1>9, <1>10

\* The priorities are in the order of the groups, and in the file's within the
\* second one.
LEMMA GroupsInOrder ==
  ASSUME NEW mods, IsCollection(mods), NEW file \in Seq(Lines),
         NEW m \in ToSet(mods), NEW q \in ToSet(mods)
  PROVE  /\ Group(file, m) < Group(file, q) => PriorityRead(file, mods, m) < PriorityRead(file, mods, q)
         /\ Group(file, m) = 2 /\ Group(file, q) = 2 =>
              (PriorityRead(file, mods, m) < PriorityRead(file, mods, q)
                 <=> \E j \in LineFor(file, m), k \in LineFor(file, q) : k < j)
<1> DEFINE F == New(file, mods, Foreign)
           I == InFile(file, mods)
           R == New(file, mods, Regular)
           B == BackupsOf(mods)
           K == Known(file, mods)
           P(x) == PriorityRead(file, mods, x)
           L(x) == LineOf(file, mods, x)
           G(x) == Group(file, x)
           f == Cardinality(F)
           a == Above(file, mods)
           n == ManagedOf(file, mods)
           l == Len(mods)
<1>1. /\ K \in SUBSET Nat /\ IsFiniteSet(K)
      /\ ToSet(mods) = F \cup I \cup R \cup B \cup {Overwrite}
      /\ \A x \in I : L(x) \in K
      /\ Cardinality(B) \in Nat
  BY ReadKinds
<1>2. /\ f \in Nat /\ a \in Nat /\ n \in Nat /\ f <= a /\ a <= n /\ n + Cardinality(B) = l - 1
      /\ \A x \in F : P(x) \in 0..(f - 1)
      /\ \A x \in I : P(x) \in f..(a - 1) /\ P(x) = f + After(K, L(x))
      /\ \A x \in R : P(x) \in a..(n - 1)
      /\ \A x \in B : P(x) \in n..(l - 2)
      /\ P(Overwrite) = l - 1
  BY ReadPlaces
<1>3. l \in Nat
  BY CollectionFacts
<1>4. /\ \A x \in F : G(x) = 1
      /\ \A x \in I : G(x) = 2 /\ LineFor(file, x) = {L(x)}
      /\ \A x \in R : G(x) = 3
      /\ \A x \in B : G(x) = 4
      /\ G(Overwrite) = 5
  BY GroupsAre
<1>5. /\ \A j \in K : After(K, j) \in Int
      /\ \A j, k \in K : j < k <=> After(K, k) < After(K, j)
  BY <1>1, AfterRanks
<1> HIDE DEF F, I, R, B, K, P, L, G, f, a, n, l
<1>6. G(m) < G(q) => P(m) < P(q)
  <2>1. ASSUME NEW x \in ToSet(mods)
        PROVE  \/ G(x) = 1 /\ P(x) \in 0..(f - 1)
               \/ G(x) = 2 /\ P(x) \in f..(a - 1)
               \/ G(x) = 3 /\ P(x) \in a..(n - 1)
               \/ G(x) = 4 /\ P(x) \in n..(l - 2)
               \/ G(x) = 5 /\ P(x) = l - 1
    <3>1. x \in F \/ x \in I \/ x \in R \/ x \in B \/ x = Overwrite
      BY <1>1
    <3>2. QED
      BY <1>2, <1>4, <3>1, Zenon
  <2>2. f \in Nat /\ a \in Nat /\ n \in Nat /\ f <= a /\ a <= n /\ n <= l - 1
    BY <1>1, <1>2, <1>3
  <2>3. QED
    BY <1>3, <2>1, <2>2
<1>7. ASSUME G(m) = 2, G(q) = 2
      PROVE  P(m) < P(q) <=> \E j \in LineFor(file, m), k \in LineFor(file, q) : k < j
  <2>1. m \in I /\ q \in I
    BY <1>1, <1>4, <1>7
  <2>2. P(m) = f + After(K, L(m)) /\ P(q) = f + After(K, L(q)) /\ L(m) \in K /\ L(q) \in K
    BY <1>1, <1>2, <2>1
  <2>3. After(K, L(m)) \in Int /\ After(K, L(q)) \in Int
    BY <1>5, <2>2
  <2>4. L(q) < L(m) <=> After(K, L(m)) < After(K, L(q))
    BY <1>5, <2>2
  <2>5. P(m) < P(q) <=> L(q) < L(m)
    BY <1>2, <2>2, <2>3, <2>4
  <2>6. LineFor(file, m) = {L(m)} /\ LineFor(file, q) = {L(q)}
    BY <1>4, <2>1
  <2>7. QED
    BY <2>5, <2>6
<1>8. QED
  BY <1>6, <1>7 DEF G, P

-----------------------------------------------------------------------------

\* A file that need not be written again names the mods in their order.
LEMMA NamesInOrder ==
  ASSUME NEW mods, IsCollection(mods), NEW file \in Seq(Lines), ~MustWrite(file, mods)
  PROVE  LET names == NamesRead(file)
             lines == SortedBy(names, [k \in names |-> k])
             read  == RefreshModStatus(file, mods).profile
         IN  [k \in DOMAIN lines |-> file[lines[k]].mod] = Reverse(Order(read, mods))
<1> DEFINE K == Known(file, mods)
           I == InFile(file, mods)
           A == ToSet(mods)
           M == Managed(mods)
           L(m) == LineOf(file, mods, m)
           id == [k \in K |-> k]
           lines == SortedBy(K, id)
           n == Cardinality(K)
           read == RefreshModStatus(file, mods).profile
           key == [m \in M |-> Place(read, mods, m)]
           names == [k \in 1..n |-> file[lines[k]].mod]
           t == [k \in 1..n |-> file[lines[n - k + 1]].mod]
<1>1. NamesRead(file) = K
  BY DEF MustWrite, Known, NamesRead
<1>2. /\ K \in SUBSET Nat /\ IsFiniteSet(K) /\ n \in Nat
      /\ M = New(file, mods, Foreign) \cup I \cup New(file, mods, Regular)
      /\ \A k \in K : file[k].mod \in I /\ L(file[k].mod) = k
      /\ \A m \in I : L(m) \in K /\ file[L(m)].mod = m
  BY ReadKinds
<1>3. M = I
  BY <1>2 DEF MustWrite
<1>4. \A m \in I : PriorityRead(file, mods, m) = Cardinality(New(file, mods, Foreign)) + After(K, L(m))
  BY ReadPlaces
<1>5. Cardinality(New(file, mods, Foreign)) = 0
  BY FS_EmptySet DEF MustWrite
<1>6. /\ \A k \in K : After(K, k) \in Int
      /\ \A j, k \in K : j < k <=> After(K, k) < After(K, j)
  BY <1>2, AfterRanks
<1>7. \A m \in M : m \in A /\ Place(read, mods, m) = PriorityRead(file, mods, m)
  <2>1. \A i \in DOMAIN mods : read.status[i].priority = PriorityRead(file, mods, mods[i])
    BY ReadInOrder
  <2>2. \A m \in A : Index(mods, m) \in DOMAIN mods /\ mods[Index(mods, m)] = m
    BY CollectionFacts
  <2> HIDE DEF read
  <2>3. QED
    BY <2>1, <2>2 DEF Place, PriorityOf, Managed
<1>8. \A k \in K : id[k] = k
  OBVIOUS
<1>9. Keys(K, id)
  BY <1>2, <1>8 DEF Keys
<1>10. /\ DOMAIN lines = 1..n
       /\ \A k \in 1..n : lines[k] \in K
       /\ \A k \in K : \E j \in 1..n : lines[j] = k
       /\ \A j, k \in 1..n : j < k <=> id[lines[j]] < id[lines[k]]
  BY <1>9, SortedLists
<1> HIDE DEF K, I, A, M, L, id, lines, n, read
<1>11. \A m \in M : key[m] = After(K, L(m))
  <2>1. SUFFICES ASSUME NEW m \in M PROVE key[m] = After(K, L(m))
    OBVIOUS
  <2>2. m \in I /\ L(m) \in K
    BY <1>2, <1>3
  <2>3. PriorityRead(file, mods, m) = 0 + After(K, L(m))
    BY <1>4, <1>5, <2>2
  <2>4. After(K, L(m)) \in Int
    BY <1>6, <2>2
  <2>5. key[m] = Place(read, mods, m)
    OBVIOUS
  <2>6. Place(read, mods, m) = PriorityRead(file, mods, m)
    BY <1>7
  <2> HIDE DEF key
  <2>7. QED
    BY <2>3, <2>4, <2>5, <2>6
<1>12. ASSUME NEW k \in 1..n
       PROVE  /\ n - k + 1 \in 1..n /\ lines[n - k + 1] \in K
              /\ t[k] \in M /\ key[t[k]] = After(K, lines[n - k + 1]) /\ key[t[k]] \in Int
  <2>1. n - k + 1 \in 1..n
    BY <1>2
  <2>2. lines[n - k + 1] \in K
    BY <1>10, <2>1
  <2>3. t[k] \in M /\ L(t[k]) = lines[n - k + 1]
    BY <1>2, <1>3, <2>2
  <2>4. key[t[k]] = After(K, lines[n - k + 1])
    BY <1>11, <2>3
  <2>5. QED
    BY <1>6, <2>1, <2>2, <2>3, <2>4
<1>13. ASSUME NEW j \in 1..n, NEW k \in 1..n, j < k PROVE key[t[j]] < key[t[k]]
  <2>1. /\ n - j + 1 \in 1..n /\ n - k + 1 \in 1..n
        /\ lines[n - j + 1] \in K /\ lines[n - k + 1] \in K
    BY <1>12
  <2>2. n - k + 1 < n - j + 1
    BY <1>2, <1>13
  <2>3. lines[n - k + 1] < lines[n - j + 1]
    BY <1>8, <1>10, <2>1, <2>2
  <2>4. After(K, lines[n - j + 1]) < After(K, lines[n - k + 1])
    BY <1>6, <2>1, <2>3
  <2>5. QED
    BY <1>12, <2>4
<1>14. ASSUME NEW m \in M PROVE \E k \in 1..n : t[k] = m
  <2>1. L(m) \in K /\ file[L(m)].mod = m
    BY <1>2, <1>3
  <2>2. PICK j \in 1..n : lines[j] = L(m)
    BY <1>10, <2>1
  <2>3. n - j + 1 \in 1..n /\ n - (n - j + 1) + 1 = j
    BY <1>2
  <2>4. t[n - j + 1] = m
    BY <2>1, <2>2, <2>3
  <2>5. QED
    BY <2>3, <2>4
<1>15. t = [k \in 1..n |-> t[k]] /\ n \in Nat
  BY <1>2
<1> HIDE DEF t
<1>16. Ascends(t, n, M, key)
  BY <1>12, <1>13, <1>14, <1>15 DEF Ascends
<1>17. SortedBy(M, key) = t
  <2> HIDE DEF key
  <2>1. QED
    BY <1>16, SortedIs
<1>18. Order(read, mods) = t
  BY <1>17 DEF Order, M
<1>19. Len(t) = n /\ n \in Nat
  BY <1>15
<1>20. Reverse(t) = [k \in 1..n |-> t[n - k + 1]]
  BY <1>19 DEF Reverse
<1>21. \A k \in 1..n : t[n - k + 1] = file[lines[k]].mod
  <2>1. SUFFICES ASSUME NEW k \in 1..n PROVE t[n - k + 1] = file[lines[k]].mod
    OBVIOUS
  <2>2. n - k + 1 \in 1..n /\ n - (n - k + 1) + 1 = k
    BY <1>2
  <2>3. QED
    BY <2>2 DEF t
<1>22. names = Reverse(t)
  BY <1>20, <1>21
<1>23. [k \in DOMAIN lines |-> file[lines[k]].mod] = Reverse(Order(read, mods))
  BY <1>10, <1>18, <1>22
<1>24. QED
  BY <1>1, <1>23 DEF lines, id, read

\* Whatever is in modlist.txt and whatever mods there are, refreshModStatus makes
\* one order of them with no gap: new DLC mods, the mods of the file as they are
\* there, other new mods, backups, the overwrite directory. What doWriteModlist
\* writes of it reads back the same (profile.cpp:279 to 534).
THEOREM AnyFileLaidOut ==
  ASSUME NEW mods, IsCollection(mods), NEW file \in Seq(Lines)
  PROVE  LaidOut(file, mods)
<1> DEFINE refreshed == RefreshModStatus(file, mods)
           read == refreshed.profile
           again == RefreshModStatus(Written(read.status, mods), mods)
           A == ToSet(mods)
<1>1. /\ ListInOrder(read, mods) /\ refreshed.modified = MustWrite(file, mods)
      /\ \A i \in DOMAIN mods : read.status[i].priority = PriorityRead(file, mods, mods[i])
      /\ \A i \in DOMAIN mods : read.status[i].enabled = EnabledRead(file, mods, mods[i])
  BY ReadInOrder
<1>2. /\ \A m \in A : Index(mods, m) \in DOMAIN mods /\ mods[Index(mods, m)] = m
      /\ \A i \in DOMAIN mods : mods[i] \in A /\ mods[i] \in Mods
  BY CollectionFacts
<1>3. ~refreshed.modified =>
        LET names == NamesRead(file)
            lines == SortedBy(names, [k \in names |-> k])
        IN  [k \in DOMAIN lines |-> file[lines[k]].mod] = Reverse(Order(read, mods))
  <2>1. ASSUME ~MustWrite(file, mods)
        PROVE  LET names == NamesRead(file)
                   lines == SortedBy(names, [k \in names |-> k])
               IN  [k \in DOMAIN lines |-> file[lines[k]].mod] = Reverse(Order(read, mods))
    BY <2>1, NamesInOrder
  <2>2. QED
    BY <1>1, <2>1
<1>4. again.profile = read /\ (again.modified <=> BackupsOf(mods) # {})
  <2> HIDE DEF refreshed
  <2>1. ListInOrder(refreshed.profile, mods)
    BY <1>1
  <2> DEFINE p == refreshed.profile
  <2>2. ListInOrder(p, mods)
    BY <2>1
  <2> HIDE DEF p
  <2>3. LET after == RefreshModStatus(Written(p.status, mods), mods)
        IN  after.profile = p /\ (after.modified <=> BackupsOf(mods) # {})
    BY <2>2, WrittenReads
  <2>4. QED
    BY <2>3 DEF p
<1>5. \A m \in A : Place(read, mods, m) = PriorityRead(file, mods, m)
  <2> HIDE DEF read
  <2>1. QED
    BY <1>1, <1>2 DEF Place, PriorityOf
<1>6. {read.status[i].priority : i \in DOMAIN mods} = 0..(Len(mods) - 1)
  <2> HIDE DEF read
  <2>1. QED
    BY <1>1, PrioritiesFromZero
<1>7. ASSUME NEW i \in DOMAIN mods
      PROVE  read.status[i].enabled <=>
               \/ AlwaysEnabled(mods[i])
               \/ mods[i] \in Regular /\ \E k \in LineFor(file, mods[i]) : file[k].on
  <2>1. read.status[i].enabled = EnabledRead(file, mods, mods[i])
    BY <1>1
  <2>2. CASE mods[i] \in InFile(file, mods)
    <3>1. LineFor(file, mods[i]) = {LineOf(file, mods, mods[i])}
      BY <2>2, GroupsAre
    <3>2. mods[i] \in Regular \/ mods[i] \in Foreign
      BY <1>2, <2>2 DEF InFile, Known, HasAutomaticPriority, Mods
    <3>3. QED
      BY <2>1, <2>2, <3>1, <3>2 DEF EnabledRead, AlwaysEnabled
  <2>3. CASE mods[i] \notin InFile(file, mods)
    <3>1. EnabledRead(file, mods, mods[i]) <=> AlwaysEnabled(mods[i])
      BY <2>3 DEF EnabledRead, AlwaysEnabled
    <3>2. ASSUME mods[i] \in Regular PROVE LineFor(file, mods[i]) = {}
      BY <1>2, <2>3, <3>2, KindsAssumption DEF LineFor, InFile, Known, HasAutomaticPriority
    <3>3. QED
      BY <2>1, <3>1, <3>2
  <2>4. QED
    BY <2>2, <2>3
<1>8. ASSUME NEW m \in A, NEW q \in A
      PROVE  /\ Group(file, m) < Group(file, q) => Place(read, mods, m) < Place(read, mods, q)
             /\ Group(file, m) = 2 /\ Group(file, q) = 2 /\ m # q =>
                  (Place(read, mods, m) < Place(read, mods, q)
                     <=> \E j \in LineFor(file, m), k \in LineFor(file, q) : k < j)
  <2> HIDE DEF read
  <2>1. /\ Group(file, m) < Group(file, q) =>
             PriorityRead(file, mods, m) < PriorityRead(file, mods, q)
        /\ Group(file, m) = 2 /\ Group(file, q) = 2 =>
              (PriorityRead(file, mods, m) < PriorityRead(file, mods, q)
                 <=> \E j \in LineFor(file, m), k \in LineFor(file, q) : k < j)
    BY GroupsInOrder
  <2>2. QED
    BY <1>5, <2>1
<1>9. again.modified <=> A \cap Backups # {}
  BY <1>4 DEF BackupsOf
<1>10. again.profile.status = read.status
  BY <1>4
<1>11. QED
  <2> HIDE DEF A, read, again, refreshed
  <2>1. QED
    BY <1>3, <1>6, <1>7, <1>8, <1>9, <1>10, Zenon DEF LaidOut, A, read, again, refreshed

-----------------------------------------------------------------------------
(* What moving mods one after the other does to the places *)

\* How far a mod is while mods are taken down to t, and then up to e: behind the
\* others (0), where it was asked to go (1), before the others (2).
DownStage(p, done, t, a) == IF p[a] < t THEN 0 ELSE IF a \in done THEN 1 ELSE 2
UpStage(p, done, e, a)   == IF p[a] > e THEN 2 ELSE IF a \in done THEN 1 ELSE 0

\* The places q come from p by taking the ones of done down to t, or up to e.
Lowering(I, p, q, done, t) ==
  /\ \A a \in I : IF p[a] < t THEN q[a] = p[a] ELSE q[a] >= t
  /\ \A a, b \in I :
       q[a] < q[b] <=> \/ DownStage(p, done, t, a) < DownStage(p, done, t, b)
                       \/ /\ DownStage(p, done, t, a) = DownStage(p, done, t, b)
                          /\ p[a] < p[b]
Raising(I, p, q, done, e) ==
  /\ \A a \in I : IF p[a] > e THEN q[a] = p[a] ELSE q[a] <= e
  /\ \A a, b \in I :
       q[a] < q[b] <=> \/ UpStage(p, done, e, a) < UpStage(p, done, e, b)
                       \/ /\ UpStage(p, done, e, a) = UpStage(p, done, e, b)
                          /\ p[a] < p[b]

\* Places of their own.
Places(I, p) == p \in [I -> Int] /\ \A a, b \in I : p[a] = p[b] => a = b

\* One more of the mods is taken down to t.
LEMMA LoweredOne ==
  ASSUME NEW I, NEW p, NEW q, NEW r, NEW t \in Int, NEW done, NEW i \in I,
         Places(I, p), Places(I, q), Lowering(I, p, q, done, t),
         p[i] >= t, i \notin done, \A x \in done \cap I : p[i] < p[x],
         \A a \in I : r[a] = Shifted(q[a], q[i], t)
  PROVE  Lowering(I, p, r, done \cup {i}, t)
<1> DEFINE new == done \cup {i}
           s(a) == DownStage(p, done, t, a)
           z(a) == DownStage(p, new, t, a)
<1>1. /\ \A a \in I : p[a] \in Int /\ q[a] \in Int
      /\ \A a \in I \ {i} : p[a] # p[i] /\ q[a] # q[i]
      /\ \A a \in I : IF p[a] < t THEN q[a] = p[a] ELSE q[a] >= t
      /\ \A a, b \in I : q[a] < q[b] <=> s(a) < s(b) \/ (s(a) = s(b) /\ p[a] < p[b])
  BY DEF Places, Lowering
<1>2. /\ r[i] = t
      /\ \A a \in I \ {i} : /\ r[a] \in Int
                            /\ IF q[a] < t THEN r[a] = q[a] ELSE r[a] > t
  BY <1>1 DEF Shifted
<1>3. \A a, b \in I \ {i} : q[a] < q[b] <=> r[a] < r[b]
  BY <1>1 DEF Shifted
<1>4. /\ z(i) = 1
      /\ \A a \in I \ {i} : z(a) = s(a)
      /\ \A a \in I \ {i} : s(a) \in {0, 1, 2} /\ (s(a) = 0 <=> p[a] < t)
      /\ \A a \in I \ {i} : s(a) = 1 => p[i] < p[a]
  BY <1>1 DEF DownStage
<1> HIDE DEF s, z
<1>5. \A a \in I : IF p[a] < t THEN r[a] = p[a] ELSE r[a] >= t
  BY <1>1, <1>2
<1>6. ASSUME NEW a \in I, NEW b \in I
      PROVE  r[a] < r[b] <=> z(a) < z(b) \/ (z(a) = z(b) /\ p[a] < p[b])
  <2>1. CASE a = i /\ b = i
    BY <1>1, <1>2, <2>1, <1>4
  <2>2. CASE a = i /\ b # i
    BY <1>1, <1>2, <1>4, <2>2
  <2>3. CASE a # i /\ b = i
    BY <1>1, <1>2, <1>4, <2>3
  <2>4. CASE a # i /\ b # i
    BY <1>1, <1>3, <1>4, <2>4
  <2>5. QED
    BY <2>1, <2>2, <2>3, <2>4
<1>7. QED
  BY <1>5, <1>6 DEF Lowering, z

\* One more of the mods is taken up to e.
LEMMA RaisedOne ==
  ASSUME NEW I, NEW p, NEW q, NEW r, NEW e \in Int, NEW done, NEW i \in I,
         Places(I, p), Places(I, q), Raising(I, p, q, done, e),
         p[i] <= e, i \notin done, \A x \in done \cap I : p[x] < p[i],
         \A a \in I : r[a] = Shifted(q[a], q[i], e)
  PROVE  Raising(I, p, r, done \cup {i}, e)
<1> DEFINE new == done \cup {i}
           s(a) == UpStage(p, done, e, a)
           z(a) == UpStage(p, new, e, a)
<1>1. /\ \A a \in I : p[a] \in Int /\ q[a] \in Int
      /\ \A a \in I \ {i} : p[a] # p[i] /\ q[a] # q[i]
      /\ \A a \in I : IF p[a] > e THEN q[a] = p[a] ELSE q[a] <= e
      /\ \A a, b \in I : q[a] < q[b] <=> s(a) < s(b) \/ (s(a) = s(b) /\ p[a] < p[b])
  BY DEF Places, Raising
<1>2. /\ r[i] = e
      /\ \A a \in I \ {i} : /\ r[a] \in Int
                            /\ IF q[a] > e THEN r[a] = q[a] ELSE r[a] < e
  BY <1>1 DEF Shifted
<1>3. \A a, b \in I \ {i} : q[a] < q[b] <=> r[a] < r[b]
  BY <1>1 DEF Shifted
<1>4. /\ z(i) = 1
      /\ \A a \in I \ {i} : z(a) = s(a)
      /\ \A a \in I \ {i} : s(a) \in {0, 1, 2} /\ (s(a) = 2 <=> p[a] > e)
      /\ \A a \in I \ {i} : s(a) = 1 => p[a] < p[i]
  BY <1>1 DEF UpStage
<1> HIDE DEF s, z
<1>5. \A a \in I : IF p[a] > e THEN r[a] = p[a] ELSE r[a] <= e
  BY <1>1, <1>2
<1>6. ASSUME NEW a \in I, NEW b \in I
      PROVE  r[a] < r[b] <=> z(a) < z(b) \/ (z(a) = z(b) /\ p[a] < p[b])
  <2>1. CASE a = i /\ b = i
    BY <1>1, <1>2, <2>1, <1>4
  <2>2. CASE a = i /\ b # i
    BY <1>1, <1>2, <1>4, <2>2
  <2>3. CASE a # i /\ b = i
    BY <1>1, <1>2, <1>4, <2>3
  <2>4. CASE a # i /\ b # i
    BY <1>1, <1>3, <1>4, <2>4
  <2>5. QED
    BY <2>1, <2>2, <2>3, <2>4
<1>7. QED
  BY <1>5, <1>6 DEF Raising, z

-----------------------------------------------------------------------------
(* The places of the mods in a list *)

\* The mods that can be moved, and their places in a list.
CanMove(mods) == {i \in DOMAIN mods : ~HasAutomaticPriority(mods[i])}
PlacesOf(profile, mods) == [i \in CanMove(mods) |-> profile.status[i].priority]

\* In a list in order the mods that can be moved have the places from 0 on.
LEMMA MovablePlaces ==
  ASSUME NEW mods, NEW profile, ListInOrder(profile, mods)
  PROVE  /\ profile.managed \in Nat /\ profile.managed = Cardinality(Managed(mods))
         /\ Places(CanMove(mods), PlacesOf(profile, mods))
         /\ \A i \in CanMove(mods) :
              /\ i \in DOMAIN mods
              /\ PlacesOf(profile, mods)[i] = profile.status[i].priority
              /\ PlacesOf(profile, mods)[i] \in 0..(profile.managed - 1)
<1>1. /\ profile.managed \in Nat /\ profile.managed = Cardinality(Managed(mods))
      /\ \A i \in DOMAIN mods :
           ~HasAutomaticPriority(mods[i]) <=> profile.status[i].priority \in 0..(profile.managed - 1)
      /\ \A i, j \in DOMAIN mods :
           i # j => profile.status[i].priority # profile.status[j].priority
  BY DEF ListInOrder, ProfilesOf
<1>2. \A i \in CanMove(mods) : i \in DOMAIN mods /\ ~HasAutomaticPriority(mods[i])
  BY DEF CanMove
<1>3. \A i \in CanMove(mods) : PlacesOf(profile, mods)[i] = profile.status[i].priority
  BY DEF PlacesOf
<1>4. \A i \in CanMove(mods) : PlacesOf(profile, mods)[i] \in 0..(profile.managed - 1)
  BY <1>1, <1>2, <1>3
<1>5. PlacesOf(profile, mods) \in [CanMove(mods) -> Int]
  <2>1. PlacesOf(profile, mods) = [i \in CanMove(mods) |-> PlacesOf(profile, mods)[i]]
    BY DEF PlacesOf
  <2>2. \A i \in CanMove(mods) : PlacesOf(profile, mods)[i] \in Int
    BY <1>1, <1>4
  <2>3. QED
    BY <2>1, <2>2
<1>6. \A a, b \in CanMove(mods) :
        PlacesOf(profile, mods)[a] = PlacesOf(profile, mods)[b] => a = b
  BY <1>1, <1>2, <1>3
<1>7. QED
  BY <1>1, <1>2, <1>3, <1>4, <1>5, <1>6 DEF Places

\* after comes from state by taking mod i to the priority that is asked for, when it
\* is on the side that is moved.
MovesOn(mods, state, after, i, down) ==
  LET q == PlacesOf(state.profile, mods)
      r == PlacesOf(after.profile, mods)
      e == Clamp(state.to, 0, state.profile.managed - 1)
  IN  IF IF down THEN q[i] > state.to ELSE q[i] < state.to
      THEN /\ after.to = e
           /\ \A a \in CanMove(mods) : r[a] = Shifted(q[a], q[i], e)
      ELSE after = state

\* What MoveEach does to a single mod.
LEMMA MoveOneShifts ==
  ASSUME NEW mods, NEW profile, NEW state, state \in Moved(profile, mods), NEW i,
         i \in CanMove(mods), NEW down, down \in BOOLEAN, NEW after,
         after = MoveOne(state, mods, i, down)
  PROVE  MovesOn(mods, state, after, i, down)
<1> DEFINE q == PlacesOf(state.profile, mods)
           r == PlacesOf(after.profile, mods)
           e == Clamp(state.to, 0, state.profile.managed - 1)
           moves == IF down THEN q[i] > state.to ELSE q[i] < state.to
           done == SetModPriority(state.profile, mods, i, state.to)
<1>1. ListInOrder(state.profile, mods) /\ state.to \in Int
  BY DEF Moved
<1>2. \A a \in CanMove(mods) : a \in DOMAIN mods /\ q[a] = state.profile.status[a].priority
  BY <1>1, MovablePlaces
<1>3. ~HasAutomaticPriority(mods[i])
  BY DEF CanMove
<1>4. /\ done.to = e
      /\ \A a \in DOMAIN mods : done.profile.status[a].priority
           = Shifted(state.profile.status[a].priority, state.profile.status[i].priority, done.to)
  BY <1>1, <1>2, <1>3, SetModPriorityShifts
<1>5. after = IF moves THEN done ELSE state
  BY <1>2 DEF MoveOne
<1>6. ASSUME moves PROVE \A a \in CanMove(mods) : r[a] = done.profile.status[a].priority
  BY <1>5, <1>6 DEF PlacesOf
<1> HIDE DEF q, r, e, done
<1>7. QED
  <2>1. CASE moves
    <3>1. after.to = e
      BY <1>4, <1>5, <2>1
    <3>2. \A a \in CanMove(mods) : r[a] = Shifted(q[a], q[i], e)
      BY <1>2, <1>4, <1>6, <2>1
    <3>3. QED
      BY <2>1, <3>1, <3>2 DEF q, r, e, MovesOn
  <2>2. CASE ~moves
    BY <1>5, <2>2 DEF q, r, e, MovesOn
  <2>3. QED
    BY <2>1, <2>2

\* Mods that can be moved.
Selected(D, mods) == D \subseteq CanMove(mods)

\* The mods in the order in which they are moved down, and up.
DownOrder(state, D) == SortedBy(D, [i \in D |-> -state.profile.status[i].priority])
UpOrder(state, D)   == SortedBy(D, [i \in D |-> state.profile.status[i].priority])

\* o has the indices D, one with a high priority first or one with a low priority first.
ListsDown(o, D, q, all) ==
  /\ Cardinality(D) \in Nat /\ Len(o) = Cardinality(D) /\ o \in Seq(all)
  /\ \A k \in 1..Cardinality(D) : o[k] \in D
  /\ \A d \in D : \E k \in 1..Cardinality(D) : o[k] = d
  /\ \A j, k \in 1..Cardinality(D) : j < k <=> q[o[j]] > q[o[k]]
ListsUp(o, D, q, all) ==
  /\ Cardinality(D) \in Nat /\ Len(o) = Cardinality(D) /\ o \in Seq(all)
  /\ \A k \in 1..Cardinality(D) : o[k] \in D
  /\ \A d \in D : \E k \in 1..Cardinality(D) : o[k] = d
  /\ \A j, k \in 1..Cardinality(D) : j < k <=> q[o[j]] < q[o[k]]

\* The mods that are moved come one after the other in the order of their places.
LEMMA OrdersList ==
  ASSUME NEW mods, IsCollection(mods), NEW profile, NEW state, state \in Moved(profile, mods),
         NEW D, Selected(D, mods)
  PROVE  /\ ListsDown(DownOrder(state, D), D, PlacesOf(state.profile, mods), DOMAIN mods)
         /\ ListsUp(UpOrder(state, D), D, PlacesOf(state.profile, mods), DOMAIN mods)
<1> DEFINE q == PlacesOf(state.profile, mods)
           n == Cardinality(D)
           low == [i \in D |-> -state.profile.status[i].priority]
           high == [i \in D |-> state.profile.status[i].priority]
<1>1. ListInOrder(state.profile, mods) /\ D \subseteq CanMove(mods)
  BY DEF Moved, Selected
<1>2. /\ \A i \in CanMove(mods) : /\ i \in DOMAIN mods /\ q[i] = state.profile.status[i].priority
                                  /\ q[i] \in Int
      /\ \A i, j \in CanMove(mods) : q[i] = q[j] => i = j
  BY <1>1, MovablePlaces DEF Places
<1>3. IsFiniteSet(D)
  <2>1. DOMAIN mods = 1..Len(mods) /\ Len(mods) \in Nat
    BY CollectionFacts
  <2>2. IsFiniteSet(1..Len(mods))
    BY <2>1, FS_Interval
  <2>3. D \subseteq 1..Len(mods)
    BY <1>1, <1>2, <2>1
  <2>4. QED
    BY <2>2, <2>3, FS_Subset
<1>4. /\ \A i \in D : low[i] = -q[i] /\ high[i] = q[i] /\ q[i] \in Int /\ i \in DOMAIN mods
      /\ \A i, j \in D : q[i] = q[j] => i = j
  BY <1>1, <1>2
<1> HIDE DEF q, low, high
<1>5. Keys(D, low) /\ Keys(D, high)
  BY <1>3, <1>4 DEF Keys
<1> DEFINE down == SortedBy(D, low)
           up == SortedBy(D, high)
<1>6. /\ n \in Nat /\ down \in Seq(D) /\ Len(down) = n
      /\ \A k \in 1..n : down[k] \in D
      /\ \A d \in D : \E k \in 1..n : down[k] = d
      /\ \A j, k \in 1..n : j < k <=> low[down[j]] < low[down[k]]
  BY <1>5, SortedLists
<1>7. /\ up \in Seq(D) /\ Len(up) = n
      /\ \A k \in 1..n : up[k] \in D
      /\ \A d \in D : \E k \in 1..n : up[k] = d
      /\ \A j, k \in 1..n : j < k <=> high[up[j]] < high[up[k]]
  BY <1>5, SortedLists
<1>8. DownOrder(state, D) = down /\ UpOrder(state, D) = up
  BY DEF DownOrder, UpOrder, low, high
<1> HIDE DEF down, up, n
<1>9. \A j, k \in 1..n : j < k <=> q[down[j]] > q[down[k]]
  <2>1. SUFFICES ASSUME NEW j \in 1..n, NEW k \in 1..n PROVE j < k <=> q[down[j]] > q[down[k]]
    OBVIOUS
  <2>2. /\ low[down[j]] = -q[down[j]] /\ low[down[k]] = -q[down[k]]
        /\ q[down[j]] \in Int /\ q[down[k]] \in Int
    BY <1>4, <1>6
  <2>3. QED
    BY <1>6, <2>2
<1>10. \A j, k \in 1..n : j < k <=> q[up[j]] < q[up[k]]
  BY <1>4, <1>7
<1>11. D \subseteq DOMAIN mods
  BY <1>4
<1>12. down \in Seq(DOMAIN mods) /\ up \in Seq(DOMAIN mods)
  BY <1>6, <1>7, <1>11
<1>13. QED
  BY <1>6, <1>7, <1>8, <1>9, <1>10, <1>12 DEF q, n, ListsDown, ListsUp

\* The places of the ones of D that are at t or above it, once taken down to t.
LEMMA LoweredMods ==
  ASSUME NEW mods, IsCollection(mods), NEW profile, NEW start \in Moved(profile, mods),
         NEW D, Selected(D, mods), start.to \in Nat
  PROVE  LET p == PlacesOf(start.profile, mods)
             low == MoveEach(start, mods, DownOrder(start, D), TRUE)
         IN  /\ low \in Moved(profile, mods) /\ low.to = start.to
             /\ Lowering(CanMove(mods), p, PlacesOf(low.profile, mods),
                         {d \in D : p[d] >= start.to}, start.to)
<1> DEFINE I == CanMove(mods)
           p == PlacesOf(start.profile, mods)
           t == start.to
           o == DownOrder(start, D)
           n == Cardinality(D)
           done(k) == {d \in D : p[d] >= t /\ \E j \in 1..k : o[j] = d}
<1>1. /\ n \in Nat /\ Len(o) = n /\ o \in Seq(DOMAIN mods)
      /\ \A k \in 1..n : o[k] \in D
      /\ \A d \in D : \E k \in 1..n : o[k] = d
      /\ \A j, k \in 1..n : j < k <=> p[o[j]] > p[o[k]]
  <2>1. ListsDown(o, D, p, DOMAIN mods)
    BY OrdersList
  <2> HIDE DEF o, p
  <2>2. QED
    BY <2>1 DEF ListsDown
<1>2. Places(I, p) /\ (\A i \in I : p[i] \in Int) /\ D \subseteq I
  <2>1. ListInOrder(start.profile, mods)
    BY DEF Moved
  <2>2. Places(I, p)
    BY <2>1, MovablePlaces
  <2>3. QED
    BY <2>2 DEF Places, Selected
<1> HIDE DEF o, n, p
<1>10. \E f : Takes(f, start, mods, profile, o, TRUE)
  <2>1. start \in Moved(profile, mods) /\ TRUE \in BOOLEAN
    OBVIOUS
  <2>2. o \in Seq(DOMAIN mods)
    BY <1>1
  <2>3. QED
    BY <2>1, <2>2, MovesTaken, Zenon
<1>11. PICK f : Takes(f, start, mods, profile, o, TRUE)
  BY <1>10
<1>3. /\ MoveEach(start, mods, o, TRUE) = f[n]
      /\ f[0] = start
      /\ \A k \in 0..n : f[k] \in Moved(profile, mods)
      /\ \A k \in 1..n : f[k] = MoveOne(f[k - 1], mods, o[k], TRUE)
  BY <1>1, <1>11 DEF Takes
<1> DEFINE q(k) == PlacesOf(f[k].profile, mods)
           Done(k) == f[k].to = t /\ Lowering(I, p, q(k), done(k), t)
           S == {k \in Nat : k <= n => Done(k)}
<1>4. 0 \in S
  <2>1. q(0) = p /\ f[0].to = t
    BY <1>3 DEF p
  <2>2. done(0) = {}
    OBVIOUS
  <2>3. Lowering(I, p, p, {}, t)
    BY <1>2 DEF Lowering, DownStage
  <2>4. QED
    BY <2>1, <2>2, <2>3
<1>5. ASSUME NEW k \in Nat, k \in S PROVE k + 1 \in S
  <2>1. SUFFICES ASSUME k + 1 <= n PROVE Done(k + 1)
    OBVIOUS
  <2>2. /\ k + 1 \in 1..n /\ (k + 1) - 1 = k /\ k \in 0..n /\ k + 1 \in 0..n
        /\ Done(k)
    BY <1>1, <1>5, <2>1
  <2> DEFINE i == o[k + 1]
  <2>3. /\ i \in D /\ i \in I
        /\ f[k] \in Moved(profile, mods) /\ f[k + 1] = MoveOne(f[k], mods, i, TRUE)
    BY <1>1, <1>2, <1>3, <2>2
  <2>20. MovesOn(mods, f[k], f[k + 1], i, TRUE)
    <3>1. f[k] \in Moved(profile, mods)
      BY <2>3
    <3>2. i \in CanMove(mods)
      BY <2>3
    <3>3. f[k + 1] = MoveOne(f[k], mods, i, TRUE)
      BY <2>3
    <3>4. TRUE \in BOOLEAN
      OBVIOUS
    <3> HIDE DEF i
    <3>5. QED
      BY <3>1, <3>2, <3>3, <3>4, MoveOneShifts, Zenon
  <2>4. ListInOrder(f[k].profile, mods)
    BY <2>3 DEF Moved
  <2> DEFINE N == f[k].profile.managed
             Q == q(k)
             R == q(k + 1)
             e == Clamp(f[k].to, 0, N - 1)
  <2>5. N \in Nat /\ Places(I, Q) /\ \A a \in I : Q[a] \in 0..(N - 1)
    BY <2>4, MovablePlaces
  <2>6. IF Q[i] > f[k].to
        THEN f[k + 1].to = e /\ \A a \in I : R[a] = Shifted(Q[a], Q[i], e)
        ELSE f[k + 1] = f[k]
    BY <2>20 DEF MovesOn
  <2>7. /\ f[k].to = t /\ Lowering(I, p, Q, done(k), t)
        /\ IF p[i] < t THEN Q[i] = p[i] ELSE Q[i] >= t
    BY <2>2, <2>3 DEF Lowering
  <2>8. p[i] \in Int /\ Q[i] \in 0..(N - 1)
    BY <1>2, <2>3, <2>5
  <2>9. \A j \in 1..(k + 1) : j \in 1..k \/ j = k + 1
    BY <2>2
  <2>10. \A j \in 1..k : j \in 1..(k + 1) /\ j \in 1..n /\ j < k + 1
    BY <1>1, <2>1
  <2> HIDE DEF Q, R, e, N, q, i
  <2>11. CASE p[i] < t
    <3>1. f[k + 1] = f[k]
      BY <2>6, <2>7, <2>8, <2>11
    <3>2. R = Q
      BY <3>1 DEF R, Q, q
    <3>3. done(k + 1) = done(k)
      BY <2>8, <2>9, <2>10, <2>11 DEF i
    <3>4. Lowering(I, p, R, done(k + 1), t)
      BY <2>7, <3>2, <3>3
    <3>5. QED
      BY <2>7, <3>1, <3>4 DEF R
  <2>12. CASE p[i] >= t
    <3>1. done(k + 1) = done(k) \cup {i}
      BY <2>2, <2>3, <2>9, <2>10, <2>12 DEF i
    <3>2. i \notin done(k) /\ \A x \in done(k) \cap I : p[i] < p[x]
      <4>1. ASSUME NEW x \in done(k) PROVE p[i] < p[x]
        <5>1. PICK j \in 1..k : o[j] = x
          OBVIOUS
        <5>2. p[o[j]] > p[o[k + 1]]
          BY <1>1, <2>2, <2>10
        <5>3. p[o[j]] \in Int /\ p[o[k + 1]] \in Int
          BY <1>1, <1>2, <2>2, <2>10
        <5>4. QED
          BY <5>1, <5>2, <5>3 DEF i
      <4>2. QED
        BY <2>8, <4>1
    <3> HIDE DEF done
    <3>3. f[k + 1].to = t /\ \A a \in I : R[a] = Shifted(Q[a], Q[i], t)
      <4>1. CASE Q[i] > t
        <5>1. e = t
          BY <2>5, <2>7, <2>8, <4>1 DEF Clamp, e
        <5>2. QED
          BY <2>6, <2>7, <4>1, <5>1
      <4>2. CASE ~(Q[i] > t)
        <5>1. Q[i] = t /\ f[k + 1] = f[k]
          BY <2>6, <2>7, <2>8, <2>12, <4>2
        <5>2. R = Q
          BY <5>1 DEF R, Q, q
        <5>3. \A a \in I : Q[a] = Shifted(Q[a], t, t)
          BY <2>5, <2>7, <2>8 DEF Shifted
        <5>4. QED
          BY <2>7, <5>1, <5>2, <5>3
      <4>3. QED
        BY <4>1, <4>2
    <3>4. Lowering(I, p, R, done(k) \cup {i}, t)
      <4>1. t \in Int
        OBVIOUS
      <4>2. QED
        BY <1>2, <2>3, <2>5, <2>7, <2>12, <3>2, <3>3, <4>1, LoweredOne
    <3>5. QED
      BY <3>1, <3>3, <3>4 DEF R
  <2>13. QED
    BY <2>8, <2>11, <2>12
<1> HIDE DEF S
<1>6. n \in S
  BY <1>1, <1>4, <1>5, EachNatural
<1>7. done(n) = {d \in D : p[d] >= t}
  BY <1>1
<1>12. Done(n)
  BY <1>1, <1>6 DEF S
<1>8. Lowering(I, p, q(n), {d \in D : p[d] >= t}, t) /\ f[n].to = t /\ f[n] \in Moved(profile, mods)
  <2>1. n \in 0..n
    BY <1>1
  <2>2. f[n] \in Moved(profile, mods)
    BY <1>3, <2>1
  <2> HIDE DEF done, q
  <2>3. QED
    BY <1>7, <1>12, <2>2
<1>9. QED
  BY <1>3, <1>8 DEF p, o

\* The places of the ones of D that are below where they are asked to go. When
\* there is no priority like that, they go to the highest one.
LEMMA RaisedMods ==
  ASSUME NEW mods, IsCollection(mods), NEW profile, NEW start \in Moved(profile, mods),
         NEW D, Selected(D, mods), start.to \in Nat,
         NEW e, e = Clamp(start.to, 0, start.profile.managed - 1)
  PROVE  LET p == PlacesOf(start.profile, mods)
             high == MoveEach(start, mods, UpOrder(start, D), FALSE)
         IN  /\ high \in Moved(profile, mods)
             /\ Raising(CanMove(mods), p, PlacesOf(high.profile, mods),
                        {d \in D : p[d] <= e}, e)
<1> DEFINE I == CanMove(mods)
           p == PlacesOf(start.profile, mods)
           t == start.to
           m == start.profile.managed
           o == UpOrder(start, D)
           n == Cardinality(D)
           done(k) == {d \in D : p[d] <= e /\ \E j \in 1..k : o[j] = d}
<1>1. /\ n \in Nat /\ Len(o) = n /\ o \in Seq(DOMAIN mods)
      /\ \A k \in 1..n : o[k] \in D
      /\ \A d \in D : \E k \in 1..n : o[k] = d
      /\ \A j, k \in 1..n : j < k <=> p[o[j]] < p[o[k]]
  <2>1. ListsUp(o, D, p, DOMAIN mods)
    BY OrdersList
  <2> HIDE DEF o, p
  <2>2. QED
    BY <2>1 DEF ListsUp
<1>2. /\ Places(I, p) /\ \A i \in I : p[i] \in 0..(m - 1)
      /\ m \in Nat /\ m = Cardinality(Managed(mods)) /\ D \subseteq I
  <2>1. ListInOrder(start.profile, mods)
    BY DEF Moved
  <2>2. /\ Places(I, p) /\ (\A i \in I : p[i] \in 0..(m - 1))
        /\ m \in Nat /\ m = Cardinality(Managed(mods))
    BY <2>1, MovablePlaces
  <2>3. QED
    BY <2>2 DEF Selected
<1>0. e \in Int /\ t \in Int /\ e <= t /\ e <= m - 1 /\ (e < t => e = m - 1) /\ t >= 0
  BY <1>2 DEF Clamp
<1> HIDE DEF o, n, p, m, t
<1>10. \E f : Takes(f, start, mods, profile, o, FALSE)
  <2>1. start \in Moved(profile, mods) /\ FALSE \in BOOLEAN
    OBVIOUS
  <2>2. o \in Seq(DOMAIN mods)
    BY <1>1
  <2>3. QED
    BY <2>1, <2>2, MovesTaken, Zenon
<1>11. PICK f : Takes(f, start, mods, profile, o, FALSE)
  BY <1>10
<1>3. /\ MoveEach(start, mods, o, FALSE) = f[n]
      /\ f[0] = start
      /\ \A k \in 0..n : f[k] \in Moved(profile, mods)
      /\ \A k \in 1..n : f[k] = MoveOne(f[k - 1], mods, o[k], FALSE)
  BY <1>1, <1>11 DEF Takes
<1> DEFINE q(k) == PlacesOf(f[k].profile, mods)
           Done(k) == f[k].to \in {t, e} /\ Raising(I, p, q(k), done(k), e)
           S == {k \in Nat : k <= n => Done(k)}
<1>4. 0 \in S
  <2>1. q(0) = p /\ f[0].to = t
    BY <1>3 DEF p, t
  <2>2. done(0) = {}
    OBVIOUS
  <2>3. Raising(I, p, p, {}, e)
    BY <1>0, <1>2 DEF Raising, UpStage
  <2>4. QED
    BY <2>1, <2>2, <2>3
<1>5. ASSUME NEW k \in Nat, k \in S PROVE k + 1 \in S
  <2>1. SUFFICES ASSUME k + 1 <= n PROVE Done(k + 1)
    OBVIOUS
  <2>2. /\ k + 1 \in 1..n /\ (k + 1) - 1 = k /\ k \in 0..n /\ k + 1 \in 0..n
        /\ Done(k)
    BY <1>1, <1>5, <2>1
  <2> DEFINE i == o[k + 1]
  <2>3. /\ i \in D /\ i \in I
        /\ f[k] \in Moved(profile, mods) /\ f[k + 1] = MoveOne(f[k], mods, i, FALSE)
    BY <1>1, <1>2, <1>3, <2>2
  <2>20. MovesOn(mods, f[k], f[k + 1], i, FALSE)
    <3>1. f[k] \in Moved(profile, mods)
      BY <2>3
    <3>2. i \in CanMove(mods)
      BY <2>3
    <3>3. f[k + 1] = MoveOne(f[k], mods, i, FALSE)
      BY <2>3
    <3>4. FALSE \in BOOLEAN
      OBVIOUS
    <3> HIDE DEF i
    <3>5. QED
      BY <3>1, <3>2, <3>3, <3>4, MoveOneShifts, Zenon
  <2>4. ListInOrder(f[k].profile, mods)
    BY <2>3 DEF Moved
  <2> DEFINE N == f[k].profile.managed
             Q == q(k)
             R == q(k + 1)
             c == Clamp(f[k].to, 0, N - 1)
  <2>5. N = m /\ Places(I, Q) /\ \A a \in I : Q[a] \in 0..(m - 1)
    BY <1>2, <2>4, MovablePlaces
  <2>6. IF Q[i] < f[k].to
        THEN f[k + 1].to = c /\ \A a \in I : R[a] = Shifted(Q[a], Q[i], c)
        ELSE f[k + 1] = f[k]
    BY <2>20 DEF MovesOn
  <2>7. /\ f[k].to \in {t, e} /\ Raising(I, p, Q, done(k), e)
        /\ IF p[i] > e THEN Q[i] = p[i] ELSE Q[i] <= e
    BY <2>2, <2>3 DEF Raising
  <2>8. p[i] \in 0..(m - 1) /\ Q[i] \in 0..(m - 1)
    BY <1>2, <2>3, <2>5
  <2>9. \A j \in 1..(k + 1) : j \in 1..k \/ j = k + 1
    BY <2>2
  <2>10. \A j \in 1..k : j \in 1..(k + 1) /\ j \in 1..n /\ j < k + 1
    BY <1>1, <2>1
  <2> HIDE DEF Q, R, c, N, q, i
  <2>11. CASE p[i] > e
    <3>0. t = e
      BY <1>0, <1>2, <2>8, <2>11
    <3>1. f[k + 1] = f[k]
      BY <1>0, <2>6, <2>7, <2>8, <2>11, <3>0
    <3>2. R = Q
      BY <3>1 DEF R, Q, q
    <3>3. done(k + 1) = done(k)
      BY <1>0, <2>8, <2>9, <2>10, <2>11 DEF i
    <3>4. Raising(I, p, R, done(k + 1), e)
      BY <2>7, <3>2, <3>3
    <3>5. QED
      BY <2>7, <3>1, <3>4 DEF R
  <2>12. CASE p[i] <= e
    <3>1. done(k + 1) = done(k) \cup {i}
      BY <2>2, <2>3, <2>9, <2>10, <2>12 DEF i
    <3>2. i \notin done(k) /\ \A x \in done(k) \cap I : p[x] < p[i]
      <4>1. ASSUME NEW x \in done(k) PROVE p[x] < p[i]
        <5>1. PICK j \in 1..k : o[j] = x
          OBVIOUS
        <5>2. p[o[j]] < p[o[k + 1]]
          BY <1>1, <2>2, <2>10
        <5>3. QED
          BY <5>1, <5>2 DEF i
      <4>2. QED
        BY <2>8, <4>1
    <3> HIDE DEF done
    <3>3. f[k + 1].to \in {t, e} /\ \A a \in I : R[a] = Shifted(Q[a], Q[i], e)
      <4>1. CASE Q[i] < f[k].to
        <5>1. c = e
          BY <1>0, <1>2, <2>5, <2>7, <2>8, <2>12, <4>1 DEF Clamp, c
        <5>2. QED
          BY <2>6, <2>7, <4>1, <5>1
      <4>2. CASE ~(Q[i] < f[k].to)
        <5>1. Q[i] = e /\ f[k + 1] = f[k]
          BY <1>0, <2>6, <2>7, <2>8, <2>12, <4>2
        <5>2. R = Q
          BY <5>1 DEF R, Q, q
        <5>3. \A a \in I : Q[a] = Shifted(Q[a], e, e)
          BY <1>0, <2>5, <2>7, <2>8 DEF Shifted
        <5>4. QED
          BY <2>7, <5>1, <5>2, <5>3
      <4>3. QED
        BY <4>1, <4>2
    <3>4. Raising(I, p, R, done(k) \cup {i}, e)
      BY <1>0, <1>2, <2>3, <2>5, <2>7, <2>12, <3>2, <3>3, RaisedOne
    <3>5. QED
      BY <3>1, <3>3, <3>4 DEF R
  <2>13. QED
    BY <1>0, <2>8, <2>11, <2>12
<1> HIDE DEF S
<1>6. n \in S
  BY <1>1, <1>4, <1>5, EachNatural
<1>7. done(n) = {d \in D : p[d] <= e}
  BY <1>1
<1>12. Done(n)
  BY <1>1, <1>6 DEF S
<1>8. Raising(I, p, q(n), {d \in D : p[d] <= e}, e) /\ f[n] \in Moved(profile, mods)
  <2>1. n \in 0..n
    BY <1>1
  <2>2. f[n] \in Moved(profile, mods)
    BY <1>3, <2>1
  <2> HIDE DEF done, q
  <2>3. QED
    BY <1>7, <1>12, <2>2
<1>9. QED
  BY <1>3, <1>8 DEF p, o

\* Where a mod belongs when those of D are dropped on the priority t: with the ones
\* below t, with the ones that are dropped, or with the others.
DropStage(p, D, t, a) == IF a \in D THEN 1 ELSE IF p[a] < t THEN 0 ELSE 2

\* The places r come from p by dropping D on t; within a stage the order is kept.
Dropped(I, p, r, D, t) ==
  \A a, b \in I :
    r[a] < r[b] <=> \/ DropStage(p, D, t, a) < DropStage(p, D, t, b)
                    \/ DropStage(p, D, t, a) = DropStage(p, D, t, b) /\ p[a] < p[b]

\* Going down first and then up drops the mods, whichever of them are below t.
LEMMA LoweredThenRaised ==
  ASSUME NEW I, NEW p, NEW q, NEW r, NEW D, D \subseteq I, NEW t \in Nat, NEW m \in Nat,
         Places(I, p), Places(I, q), \A a \in I : p[a] \in 0..(m - 1) /\ q[a] \in 0..(m - 1),
         NEW u, u = IF \E d \in D : q[d] < t THEN t - 1 ELSE t,
         NEW e, e = Clamp(u, 0, m - 1),
         Lowering(I, p, q, {d \in D : p[d] >= t}, t),
         Raising(I, q, r, {d \in D : q[d] <= e}, e)
  PROVE  Dropped(I, p, r, D, t)
<1> DEFINE low(a) == DownStage(p, {d \in D : p[d] >= t}, t, a)
           up(a) == UpStage(q, {d \in D : q[d] <= e}, e, a)
           z(a) == DropStage(p, D, t, a)
<1>1. /\ \A a \in I : IF p[a] < t THEN q[a] = p[a] ELSE q[a] >= t
      /\ \A a, b \in I : q[a] < q[b] <=> low(a) < low(b) \/ (low(a) = low(b) /\ p[a] < p[b])
      /\ \A a, b \in I : r[a] < r[b] <=> up(a) < up(b) \/ (up(a) = up(b) /\ q[a] < q[b])
  BY DEF Lowering, Raising
<1>2. \A a, b \in I : p[a] = p[b] => a = b
  BY DEF Places
<1>3. \A a, b \in I : q[a] = q[b] => a = b
  BY DEF Places
<1>4. \A a \in I : /\ low(a) = IF p[a] < t THEN 0 ELSE IF a \in D THEN 1 ELSE 2
                   /\ up(a) = IF q[a] > e THEN 2 ELSE IF a \in D THEN 1 ELSE 0
                   /\ z(a) = IF a \in D THEN 1 ELSE IF p[a] < t THEN 0 ELSE 2
  <2>1. SUFFICES ASSUME NEW a \in I
                 PROVE  /\ low(a) = IF p[a] < t THEN 0 ELSE IF a \in D THEN 1 ELSE 2
                        /\ up(a) = IF q[a] > e THEN 2 ELSE IF a \in D THEN 1 ELSE 0
    BY DEF DropStage
  <2>2. e \in Int
    BY DEF Clamp
  <2>3. /\ ~(p[a] < t) <=> p[a] >= t
        /\ ~(q[a] > e) <=> q[a] <= e
    <3>1. p[a] \in Int /\ q[a] \in Int
      OBVIOUS
    <3>2. QED
      BY <2>2, <3>1
  <2>4. QED
    BY <2>3 DEF DownStage, UpStage
<1> HIDE DEF low, up, z
<1>5. CASE \E d \in D : q[d] < t
  <2>1. u = t - 1 /\ t - 1 >= 0 /\ m - 1 >= 0
    BY <1>5
  <2>2. e <= t - 1 /\ e <= m - 1 /\ (e = t - 1 \/ e = m - 1) /\ e \in Int
    BY <2>1 DEF Clamp
  <2>3. \A a \in I : q[a] > e <=> p[a] >= t
    <3>1. SUFFICES ASSUME NEW a \in I PROVE q[a] > e <=> p[a] >= t
      OBVIOUS
    <3>2. p[a] \in 0..(m - 1) /\ q[a] \in 0..(m - 1) /\ IF p[a] < t THEN q[a] = p[a] ELSE q[a] >= t
      BY <1>1
    <3>3. QED
      BY <2>2, <3>2
  <2>4. ASSUME NEW a \in I, NEW b \in I
        PROVE  r[a] < r[b] <=> z(a) < z(b) \/ (z(a) = z(b) /\ p[a] < p[b])
    <3>1. p[a] \in Int /\ p[b] \in Int /\ q[a] \in Int /\ q[b] \in Int
      OBVIOUS
    <3>2. q[a] < q[b] <=> low(a) < low(b) \/ (low(a) = low(b) /\ p[a] < p[b])
      BY <1>1
    <3>3. r[a] < r[b] <=> up(a) < up(b) \/ (up(a) = up(b) /\ q[a] < q[b])
      BY <1>1
    <3>4. /\ low(a) = IF p[a] < t THEN 0 ELSE IF a \in D THEN 1 ELSE 2
          /\ low(b) = IF p[b] < t THEN 0 ELSE IF b \in D THEN 1 ELSE 2
          /\ up(a) = IF p[a] >= t THEN 2 ELSE IF a \in D THEN 1 ELSE 0
          /\ up(b) = IF p[b] >= t THEN 2 ELSE IF b \in D THEN 1 ELSE 0
          /\ z(a) = IF a \in D THEN 1 ELSE IF p[a] < t THEN 0 ELSE 2
          /\ z(b) = IF b \in D THEN 1 ELSE IF p[b] < t THEN 0 ELSE 2
      BY <1>4, <2>3
    <3>5. QED
      BY <3>1, <3>2, <3>3, <3>4
  <2>5. QED
    BY <2>4 DEF Dropped, z
<1>6. CASE \A d \in D : ~(q[d] < t)
  <2>1. u = t
    BY <1>6
  <2>2. e <= t /\ e <= m - 1 /\ (e = t \/ e = m - 1) /\ e \in Int
    BY <2>1 DEF Clamp
  <2>3. \A d \in D : q[d] >= e /\ p[d] >= t
    <3>1. SUFFICES ASSUME NEW d \in D PROVE q[d] >= e /\ p[d] >= t
      OBVIOUS
    <3>2. /\ p[d] \in 0..(m - 1) /\ q[d] \in 0..(m - 1)
          /\ IF p[d] < t THEN q[d] = p[d] ELSE q[d] >= t
      BY <1>1
    <3>3. QED
      BY <1>6, <2>2, <3>2
  <2>4. ASSUME NEW a \in I, NEW b \in I
        PROVE  r[a] < r[b] <=> z(a) < z(b) \/ (z(a) = z(b) /\ p[a] < p[b])
    <3>1. p[a] \in Int /\ p[b] \in Int /\ q[a] \in Int /\ q[b] \in Int
      OBVIOUS
    <3>2. q[a] < q[b] <=> low(a) < low(b) \/ (low(a) = low(b) /\ p[a] < p[b])
      BY <1>1
    <3>3. r[a] < r[b] <=> up(a) < up(b) \/ (up(a) = up(b) /\ q[a] < q[b])
      BY <1>1
    <3>4. /\ low(a) = z(a) /\ low(b) = z(b)
          /\ up(a) = IF q[a] > e THEN 2 ELSE IF a \in D THEN 1 ELSE 0
          /\ up(b) = IF q[b] > e THEN 2 ELSE IF b \in D THEN 1 ELSE 0
          /\ a \in D => q[a] >= e
          /\ b \in D => q[b] >= e
      BY <1>4, <2>3
    <3>5. q[a] = q[b] => a = b
      BY <1>3
    <3>6. r[a] < r[b] <=> q[a] < q[b]
      BY <2>2, <3>1, <3>3, <3>4, <3>5
    <3>7. QED
      BY <3>2, <3>4, <3>6
  <2>5. QED
    BY <2>4 DEF Dropped, z
<1>7. QED
  BY <1>5, <1>6

\* ModList::changeModPriority drops the mods, whatever their order is.
LEMMA ManyAreDropped ==
  ASSUME NEW mods, IsCollection(mods), NEW profile, ListInOrder(profile, mods),
         NEW D, Selected(D, mods), NEW target \in Nat,
         NEW after, after = ChangeModPriority(profile, mods, D, target)
  PROVE  /\ ListInOrder(after, mods)
         /\ Dropped(CanMove(mods), PlacesOf(profile, mods), PlacesOf(after, mods), D, target)
<1> DEFINE I == CanMove(mods)
           start == [profile |-> profile, to |-> target]
           low == MoveEach(start, mods, DownOrder(start, D), TRUE)
           found == \E i \in D : low.profile.status[i].priority < low.to
           below == IF found THEN [low EXCEPT !.to = @ - 1] ELSE low
           high == MoveEach(below, mods, UpOrder(below, D), FALSE)
           p == PlacesOf(profile, mods)
           q == PlacesOf(low.profile, mods)
           r == PlacesOf(after, mods)
<1>1. after = high.profile
  BY Zenon DEF ChangeModPriority, DownOrder, UpOrder
<1>2. start \in Moved(profile, mods) /\ start.to \in Nat /\ start.profile = profile /\ start.to = target
  BY DEF Moved, ListInOrder
<1> HIDE DEF start
<1>3. /\ low \in Moved(profile, mods) /\ low.to = target
      /\ Lowering(I, p, q, {d \in D : p[d] >= target}, target)
  BY <1>2, LoweredMods
<1>4. ListInOrder(low.profile, mods)
  BY <1>3 DEF Moved
<1>5. /\ profile.managed \in Nat /\ low.profile.managed = profile.managed
      /\ Places(I, p) /\ \A a \in I : p[a] \in 0..(profile.managed - 1)
  BY <1>4, MovablePlaces
<1>6. /\ Places(I, q) /\ \A a \in I : q[a] \in 0..(profile.managed - 1)
      /\ \A a \in I : q[a] = low.profile.status[a].priority
  BY <1>4, <1>5, MovablePlaces
<1>7. D \subseteq I
  BY DEF Selected
<1> HIDE DEF low
<1> DEFINE u == IF found THEN target - 1 ELSE target
<1>8. below \in Moved(profile, mods) /\ below.profile = low.profile /\ below.to = u
  <2>1. low \in [profile : ProfilesOf(mods), to : Int] /\ target \in Int
    BY <1>3 DEF Moved
  <2>2. below.profile = low.profile /\ below.to = u /\ below \in [profile : ProfilesOf(mods), to : Int]
    BY <1>3, <2>1
  <2> HIDE DEF below
  <2>3. QED
    BY <1>3, <2>2 DEF Moved
<1> DEFINE e == Clamp(u, 0, profile.managed - 1)
<1>9. found <=> \E d \in D : q[d] < target
  BY <1>3, <1>6, <1>7
<1> HIDE DEF found, below
<1>10. u \in Nat
  <2>1. CASE found
    <3>1. PICK d \in D : q[d] < target
      BY <1>9, <2>1
    <3>2. q[d] \in 0..(profile.managed - 1)
      BY <1>6, <1>7
    <3>3. QED
      BY <2>1, <3>1, <3>2
  <2>2. QED
    BY <2>1
<1> HIDE DEF u
<1>11. /\ high \in Moved(profile, mods)
       /\ Raising(I, q, PlacesOf(high.profile, mods), {d \in D : q[d] <= e}, e)
  <2>1. below \in Moved(profile, mods) /\ below.to \in Nat
    BY <1>8, <1>10
  <2>2. e = Clamp(below.to, 0, below.profile.managed - 1)
    BY <1>5, <1>8
  <2> HIDE DEF e
  <2>3. /\ high \in Moved(profile, mods)
        /\ Raising(CanMove(mods), PlacesOf(below.profile, mods), PlacesOf(high.profile, mods),
                   {d \in D : PlacesOf(below.profile, mods)[d] <= e}, e)
    BY <2>1, <2>2, RaisedMods
  <2>4. QED
    BY <1>8, <2>3
<1>12. ListInOrder(after, mods)
  BY <1>1, <1>11 DEF Moved
<1>13. u = IF \E d \in D : q[d] < target THEN target - 1 ELSE target
  BY <1>9 DEF u
<1> HIDE DEF high, p, q
<1>14. Dropped(I, p, r, D, target)
  BY <1>1, <1>3, <1>5, <1>6, <1>7, <1>11, <1>13, LoweredThenRaised
<1>15. QED
  BY <1>12, <1>14 DEF p

-----------------------------------------------------------------------------
(* Dropping mods *)

\* The priorities of the managed mods.
OrderKey(profile, mods) == [m \in Managed(mods) |-> Place(profile, mods, m)]

\* The places of the managed mods, by name and by index.
LEMMA ManagedPlaces ==
  ASSUME NEW mods, IsCollection(mods), NEW profile, ListInOrder(profile, mods)
  PROVE  LET p == PlacesOf(profile, mods)
             key == OrderKey(profile, mods)
         IN  /\ Order(profile, mods) = SortedBy(Managed(mods), key)
             /\ Keys(Managed(mods), key)
             /\ \A m \in Managed(mods) :
                  /\ m \in ToSet(mods) /\ m \in Mods /\ Index(mods, m) \in CanMove(mods)
                  /\ Index(mods, m) \in DOMAIN mods
                  /\ mods[Index(mods, m)] = m
                  /\ key[m] = Place(profile, mods, m) /\ key[m] = p[Index(mods, m)]
                  /\ key[m] \in 0..(profile.managed - 1)
             /\ \A i \in CanMove(mods) : mods[i] \in Managed(mods) /\ Index(mods, mods[i]) = i
<1> DEFINE p == PlacesOf(profile, mods)
           M == Managed(mods)
           key == OrderKey(profile, mods)
<1>1. /\ IsFiniteSet(ToSet(mods)) /\ ToSet(mods) \in SUBSET Mods
      /\ \A i \in DOMAIN mods : mods[i] \in ToSet(mods)
      /\ \A m \in ToSet(mods) : Index(mods, m) \in DOMAIN mods /\ mods[Index(mods, m)] = m
      /\ \A i \in DOMAIN mods : Index(mods, mods[i]) = i
  BY CollectionFacts
<1>2. /\ \A i \in CanMove(mods) : /\ i \in DOMAIN mods /\ p[i] = profile.status[i].priority
                                  /\ p[i] \in 0..(profile.managed - 1)
      /\ Places(CanMove(mods), p) /\ profile.managed \in Nat
  BY MovablePlaces
<1>3. \A m \in M : m \in ToSet(mods) /\ ~HasAutomaticPriority(m)
  BY DEF Managed
<1>4. \A m \in M : Index(mods, m) \in CanMove(mods)
  BY <1>1, <1>3 DEF CanMove
<1>5. \A i \in CanMove(mods) : mods[i] \in M
  BY <1>1 DEF CanMove, Managed
<1>6. \A m \in M : Place(profile, mods, m) = profile.status[Index(mods, m)].priority
  BY DEF Place, PriorityOf
<1>7. \A m \in M : key[m] = Place(profile, mods, m)
  BY DEF OrderKey
<1> HIDE DEF p, key, M
<1>8. \A m \in M : key[m] = p[Index(mods, m)] /\ key[m] \in 0..(profile.managed - 1)
  BY <1>2, <1>4, <1>6, <1>7
<1>9. \A i \in CanMove(mods) : i \in DOMAIN mods
  BY <1>2
<1>10. Keys(M, key)
  <2>1. IsFiniteSet(M)
    <3>1. M \subseteq ToSet(mods)
      BY <1>3
    <3>2. QED
      BY <1>1, <3>1, FS_Subset
  <2>2. \A i, j \in CanMove(mods) : p[i] = p[j] => i = j
    BY <1>2 DEF Places
  <2>3. \A m, n \in M : key[m] = key[n] => m = n
    <3>1. SUFFICES ASSUME NEW m \in M, NEW n \in M, key[m] = key[n] PROVE m = n
      OBVIOUS
    <3>2. Index(mods, m) = Index(mods, n)
      BY <1>4, <1>8, <2>2, <3>1
    <3>3. QED
      BY <1>1, <1>3, <3>2
  <2>4. \A m \in M : key[m] \in Int
    BY <1>2, <1>8
  <2>5. QED
    BY <2>1, <2>3, <2>4 DEF Keys
<1>11. Order(profile, mods) = SortedBy(M, key)
  BY DEF Order, OrderKey, key, M
<1>12. \A i \in CanMove(mods) : Index(mods, mods[i]) = i
  BY <1>1, <1>9
<1>13. \A m \in M : m \in ToSet(mods) /\ m \in Mods /\ Index(mods, m) \in DOMAIN mods
                    /\ mods[Index(mods, m)] = m
  BY <1>1, <1>3
<1>14. QED
  BY <1>4, <1>5, <1>7, <1>8, <1>10, <1>11, <1>12, <1>13 DEF p, key, M

\* The indices of mods.
IndicesOf(mods, chosen) == {Index(mods, m) : m \in chosen}

\* Managed mods have indices that can be moved.
LEMMA ChosenIndices ==
  ASSUME NEW mods, IsCollection(mods), NEW profile, ListInOrder(profile, mods),
         NEW chosen, chosen \subseteq Managed(mods)
  PROVE  /\ Selected(IndicesOf(mods, chosen), mods)
         /\ \A m \in Managed(mods) : Index(mods, m) \in IndicesOf(mods, chosen) <=> m \in chosen
<1>1. \A m \in Managed(mods) : Index(mods, m) \in CanMove(mods) /\ mods[Index(mods, m)] = m
  BY ManagedPlaces
<1>2. \A m \in chosen : m \in Managed(mods)
  OBVIOUS
<1>3. QED
  BY <1>1, <1>2 DEF Selected, IndicesOf

\* Mods that are dropped come together where they are dropped and keep their order
\* (ModList::changeModPriority), for every list, any of its mods and every priority.
THEOREM DroppedTogether ==
  ASSUME NEW mods, IsCollection(mods), NEW profile, ListInOrder(profile, mods),
         NEW dropped, dropped \subseteq Managed(mods), NEW target \in Nat
  PROVE  Order(ChangeModPriority(profile, mods, IndicesOf(mods, dropped), target), mods)
           = DroppedOrder(profile, mods, dropped, target)
<1> DEFINE after == ChangeModPriority(profile, mods, IndicesOf(mods, dropped), target)
           M == Managed(mods)
           old == OrderKey(profile, mods)
           new == OrderKey(after, mods)
           p == PlacesOf(profile, mods)
           r == PlacesOf(after, mods)
           ix(m) == Index(mods, m)
           below == {m \in M : Place(profile, mods, m) < target}
           A == below \ dropped
           B == M \ (below \cup dropped)
           z(m) == DropStage(p, IndicesOf(mods, dropped), target, ix(m))
<1>1. /\ Selected(IndicesOf(mods, dropped), mods)
      /\ \A m \in M : ix(m) \in IndicesOf(mods, dropped) <=> m \in dropped
  BY ChosenIndices
<1>2. ListInOrder(after, mods) /\ Dropped(CanMove(mods), p, r, IndicesOf(mods, dropped), target)
  BY <1>1, ManyAreDropped
<1>3. /\ Order(profile, mods) = SortedBy(M, old) /\ Keys(M, old)
      /\ \A m \in M : /\ ix(m) \in CanMove(mods)
                      /\ old[m] = Place(profile, mods, m) /\ old[m] = p[ix(m)]
                      /\ old[m] \in Int
  BY ManagedPlaces DEF Keys
<1>4. /\ Order(after, mods) = SortedBy(M, new) /\ Keys(M, new)
      /\ \A m \in M : new[m] = r[ix(m)] /\ new[m] \in Int
  BY <1>2, ManagedPlaces DEF Keys
<1>5. \A m \in M : z(m) = IF m \in dropped THEN 1 ELSE IF old[m] < target THEN 0 ELSE 2
  BY <1>1, <1>3 DEF DropStage
<1>6. \A m, n \in M : new[m] < new[n] <=> z(m) < z(n) \/ (z(m) = z(n) /\ old[m] < old[n])
  <2>1. \A a, b \in CanMove(mods) :
          r[a] < r[b] <=> \/ DropStage(p, IndicesOf(mods, dropped), target, a)
                               < DropStage(p, IndicesOf(mods, dropped), target, b)
                          \/ /\ DropStage(p, IndicesOf(mods, dropped), target, a)
                                  = DropStage(p, IndicesOf(mods, dropped), target, b)
                             /\ p[a] < p[b]
    BY <1>2 DEF Dropped
  <2>2. QED
    BY <1>3, <1>4, <2>1
<1>7. DroppedOrder(profile, mods, dropped, target)
        = Among(Order(profile, mods), A) \o Among(Order(profile, mods), dropped)
            \o Among(Order(profile, mods), B)
  BY DEF DroppedOrder
<1>8. /\ A \cup dropped \cup B = M /\ A \cup dropped \subseteq M
      /\ \A m \in A : m \in M /\ z(m) = 0
      /\ \A m \in dropped : m \in M /\ z(m) = 1
      /\ \A m \in B : m \in M /\ z(m) = 2
  BY <1>3, <1>5
<1> HIDE DEF z, A, B, below, old, new, M, after
<1>9. Parted(A \cup dropped, A, dropped, new) /\ Parted(M, A \cup dropped, B, new)
  <2>1. \A a \in A, d \in dropped : new[a] < new[d]
    BY <1>6, <1>8
  <2>2. \A a \in A \cup dropped, b \in B : new[a] < new[b]
    BY <1>6, <1>8
  <2>3. QED
    BY <1>8, <2>1, <2>2 DEF Parted
<1>10. Kept(A, old, new) /\ Kept(dropped, old, new) /\ Kept(B, old, new)
  BY <1>6, <1>8 DEF Kept
<1>11. SortedBy(M, new) = Among(SortedBy(M, old), A) \o Among(SortedBy(M, old), dropped)
                            \o Among(SortedBy(M, old), B)
  <2>1. Keys(M, old)
    BY <1>3
  <2>2. Keys(M, new)
    BY <1>4
  <2>3. QED
    BY <1>9, <1>10, <2>1, <2>2, SortedTogether
<1>12. QED
  BY <1>3, <1>4, <1>7, <1>11 DEF after

-----------------------------------------------------------------------------
(* Placing a mod *)

\* The mod with the lowest priority, 0, comes first, and no priority is left out.
LEMMA OrderedPlaces ==
  ASSUME NEW mods, IsCollection(mods), NEW profile, ListInOrder(profile, mods)
  PROVE  LET o == Order(profile, mods)
             n == profile.managed
             key == OrderKey(profile, mods)
         IN  /\ n \in Nat /\ o \in Seq(Managed(mods)) /\ Len(o) = n
             /\ n = Cardinality(Managed(mods))
             /\ \A j \in 1..n : o[j] \in Managed(mods) /\ key[o[j]] = j - 1
             /\ \A m \in Managed(mods) : key[m] + 1 \in 1..n /\ o[key[m] + 1] = m
<1> DEFINE M == Managed(mods)
           n == profile.managed
           key == OrderKey(profile, mods)
           t == [j \in 1..n |-> CHOOSE m \in M : key[m] = j - 1]
<1>1. /\ Order(profile, mods) = SortedBy(M, key) /\ Keys(M, key)
      /\ \A m \in M : /\ Index(mods, m) \in DOMAIN mods
                      /\ key[m] = profile.status[Index(mods, m)].priority
                      /\ key[m] \in 0..(n - 1)
  <2>1. \A m \in M : Place(profile, mods, m) = profile.status[Index(mods, m)].priority
    BY DEF Place, PriorityOf
  <2>2. QED
    BY <2>1, ManagedPlaces
<1>2. /\ n \in Nat /\ n = Cardinality(M)
      /\ \A p \in 0..(n - 1) : \E i \in DOMAIN mods : profile.status[i].priority = p
      /\ \A i \in DOMAIN mods :
           ~HasAutomaticPriority(mods[i]) <=> profile.status[i].priority \in 0..(n - 1)
  BY DEF ListInOrder, ProfilesOf
<1>3. \A i \in DOMAIN mods : mods[i] \in ToSet(mods) /\ Index(mods, mods[i]) = i
  BY CollectionFacts
<1> HIDE DEF key, n, M
<1>4. ASSUME NEW j \in 1..n PROVE \E m \in M : key[m] = j - 1
  <2>1. j - 1 \in 0..(n - 1)
    BY <1>2
  <2>2. PICK i \in DOMAIN mods : profile.status[i].priority = j - 1
    BY <1>2, <2>1
  <2>3. mods[i] \in M
    BY <1>2, <1>3, <2>1, <2>2 DEF M, Managed
  <2>4. key[mods[i]] = j - 1
    BY <1>1, <1>3, <2>2, <2>3
  <2>5. QED
    BY <2>3, <2>4
<1>5. \A j \in 1..n : t[j] \in M /\ key[t[j]] = j - 1
  BY <1>4
<1>6. t = [j \in 1..n |-> t[j]]
  OBVIOUS
<1> HIDE DEF t
<1>7. \A x, y \in M : key[x] = key[y] => x = y
  BY <1>1 DEF Keys
<1>8. \A m \in M : key[m] + 1 \in 1..n /\ t[key[m] + 1] = m
  <2>1. SUFFICES ASSUME NEW m \in M PROVE key[m] + 1 \in 1..n /\ t[key[m] + 1] = m
    OBVIOUS
  <2>2. key[m] \in 0..(n - 1)
    BY <1>1
  <2>3. key[m] + 1 \in 1..n /\ (key[m] + 1) - 1 = key[m]
    BY <1>2, <2>2
  <2>4. QED
    BY <1>5, <1>7, <2>3
<1>9. Ascends(t, n, M, key)
  <2>1. \A j, k \in 1..n : j < k => key[t[j]] < key[t[k]]
    BY <1>2, <1>5
  <2>2. \A j \in 1..n : key[t[j]] \in Int
    BY <1>1, <1>2, <1>5
  <2>3. \A m \in M : \E k \in 1..n : t[k] = m
    BY <1>8
  <2>4. QED
    BY <1>2, <1>5, <1>6, <2>1, <2>2, <2>3 DEF Ascends
<1>10. Order(profile, mods) = t
  BY <1>1, <1>9, SortedIs
<1>11. t \in Seq(M) /\ Len(t) = n
  BY <1>2, <1>5, <1>6
<1>12. QED
  BY <1>2, <1>5, <1>8, <1>10, <1>11 DEF key, n, M

\* An element is taken out of a sequence and put back.
LEMMA PutBack ==
  ASSUME NEW S, NEW o, o \in Seq(S), NEW k, k \in 0..(Len(o) - 1), NEW t,
         t = [j \in 1..(Len(o) - 1) |-> IF j <= k THEN o[j] ELSE o[j + 1]]
  PROVE  SubSeq(t, 1, k) \o <<o[k + 1]>> \o SubSeq(t, k + 1, Len(t)) = o
<1> DEFINE n == Len(o)
           a == SubSeq(t, 1, k)
           b == <<o[k + 1]>>
           c == SubSeq(t, k + 1, Len(t))
<1>1. n \in Nat /\ k \in Nat /\ k <= n - 1 /\ n - 1 \in Nat
  OBVIOUS
<1>2. /\ \A j \in 1..n : o[j] \in S
      /\ \A j \in 1..(n - 1) : j \in 1..n /\ j + 1 \in 1..n
  BY <1>1
<1>3. t \in Seq(S) /\ Len(t) = n - 1
  BY <1>1, <1>2
<1>4. \A j \in 1..(n - 1) : t[j] \in S
  BY <1>2
<1>5. a \in Seq(S) /\ Len(a) = k /\ \A i \in 1..k : a[i] = t[i]
  <2>1. \A i \in 1..k : t[i] \in S
    BY <1>1, <1>4
  <2>2. 1 \in Int /\ k \in Int
    BY <1>1
  <2>3. /\ a \in Seq(S) /\ Len(a) = IF 1 <= k THEN k - 1 + 1 ELSE 0
        /\ \A i \in 1..(k - 1 + 1) : a[i] = t[1 + i - 1]
    BY <2>1, <2>2, SubSeqProperties
  <2> HIDE DEF a
  <2>4. /\ k - 1 + 1 = k /\ k = IF 1 <= k THEN k - 1 + 1 ELSE 0
        /\ \A i \in 1..k : 1 + i - 1 = i
    BY <1>1
  <2>5. QED
    BY <2>3, <2>4
<1>6. /\ c \in Seq(S) /\ Len(c) = n - 1 - k
      /\ \A i \in 1..(n - 1 - k) : c[i] = t[k + i]
  <2>1. \A i \in (k + 1)..(n - 1) : t[i] \in S
    BY <1>1, <1>4
  <2>2. k + 1 \in Int /\ n - 1 \in Int
    BY <1>1
  <2>3. /\ SubSeq(t, k + 1, n - 1) \in Seq(S)
        /\ Len(SubSeq(t, k + 1, n - 1)) = IF k + 1 <= n - 1 THEN (n - 1) - (k + 1) + 1 ELSE 0
        /\ \A i \in 1..((n - 1) - (k + 1) + 1) :
             SubSeq(t, k + 1, n - 1)[i] = t[(k + 1) + i - 1]
    BY <2>1, <2>2, SubSeqProperties
  <2>4. c = SubSeq(t, k + 1, n - 1)
    BY <1>3
  <2> HIDE DEF c
  <2>5. QED
    BY <1>1, <2>3, <2>4
<1>7. b \in Seq(S) /\ Len(b) = 1 /\ b[1] = o[k + 1]
  BY <1>1, <1>2
<1> HIDE DEF a, b, c
<1>8. /\ a \o b \in Seq(S) /\ Len(a \o b) = k + 1
      /\ \A i \in 1..(k + 1) : (a \o b)[i] = IF i <= k THEN a[i] ELSE b[i - k]
  <2>1. /\ a \o b \in Seq(S) /\ Len(a \o b) = Len(a) + Len(b)
        /\ \A i \in 1..(Len(a) + Len(b)) : (a \o b)[i] = IF i <= Len(a) THEN a[i] ELSE b[i - Len(a)]
    BY <1>5, <1>7, ConcatProperties
  <2>2. QED
    BY <1>5, <1>7, <2>1
<1> DEFINE d == a \o b
           e == d \o c
<1> HIDE DEF d
<1>9. /\ d \in Seq(S) /\ Len(d) = k + 1
      /\ \A i \in 1..(k + 1) : d[i] = o[i]
  <2>1. d \in Seq(S) /\ Len(d) = k + 1
    BY <1>8 DEF d
  <2>2. ASSUME NEW i \in 1..(k + 1) PROVE d[i] = o[i]
    <3>1. CASE i <= k
      <4>1. i \in 1..k /\ i \in 1..(n - 1)
        BY <1>1, <3>1
      <4>2. d[i] = t[i]
        BY <1>5, <1>8, <3>1, <4>1 DEF d
      <4>3. QED
        BY <3>1, <4>1, <4>2
    <3>2. CASE ~(i <= k)
      <4>1. i = k + 1 /\ i - k = 1
        BY <1>1, <3>2
      <4>2. QED
        BY <1>7, <1>8, <3>2, <4>1 DEF d
    <3>3. QED
      BY <3>1, <3>2
  <2>3. QED
    BY <2>1, <2>2
<1>10. /\ e \in Seq(S) /\ Len(e) = (k + 1) + (n - 1 - k)
       /\ \A i \in 1..((k + 1) + (n - 1 - k)) : e[i] = IF i <= k + 1 THEN d[i] ELSE c[i - (k + 1)]
  <2>1. /\ e \in Seq(S) /\ Len(e) = Len(d) + Len(c)
        /\ \A i \in 1..(Len(d) + Len(c)) : e[i] = IF i <= Len(d) THEN d[i] ELSE c[i - Len(d)]
    BY <1>6, <1>9, ConcatProperties
  <2>2. QED
    BY <1>6, <1>9, <2>1
<1> HIDE DEF e
<1>11. Len(e) = n
  BY <1>1, <1>10
<1>12. ASSUME NEW i \in 1..n PROVE e[i] = o[i]
  <2>0. e[i] = IF i <= k + 1 THEN d[i] ELSE c[i - (k + 1)]
    BY <1>1, <1>10
  <2>1. CASE i <= k + 1
    BY <1>1, <1>9, <2>0, <2>1
  <2>2. CASE ~(i <= k + 1)
    <3>1. i - (k + 1) \in 1..(n - 1 - k) /\ i - 1 \in 1..(n - 1) /\ ~(i - 1 <= k)
          /\ k + (i - (k + 1)) = i - 1 /\ (i - 1) + 1 = i
      BY <1>1, <2>2
    <3>2. e[i] = t[i - 1]
      BY <1>6, <2>0, <2>2, <3>1
    <3>3. QED
      BY <3>1, <3>2
  <2>3. QED
    BY <2>1, <2>2
<1>13. e = o
  BY <1>10, <1>11, <1>12, SeqEqual
<1>14. QED
  BY <1>13 DEF e, d, a, b, c

\* What Profile::setModPriority does to the priorities of the managed mods.
LEMMA PlacedShifts ==
  ASSUME NEW mods, IsCollection(mods), NEW profile, ListInOrder(profile, mods),
         NEW m, m \in Managed(mods), NEW target, target \in Int,
         NEW after, after = SetModPriority(profile, mods, Index(mods, m), target).profile
  PROVE  LET old == OrderKey(profile, mods)
             new == OrderKey(after, mods)
             to == Clamp(target, 0, profile.managed - 1)
         IN  /\ ListInOrder(after, mods) /\ after.managed = profile.managed
             /\ profile.managed \in Nat /\ to \in 0..(profile.managed - 1)
             /\ \A x \in Managed(mods) : /\ old[x] \in Int /\ new[x] \in Int
                                         /\ new[x] = Shifted(old[x], old[m], to)
             /\ \A x, y \in Managed(mods) : old[x] = old[y] => x = y
             /\ \A x, y \in Managed(mods) : new[x] = new[y] => x = y
<1> DEFINE i == Index(mods, m)
           done == SetModPriority(profile, mods, i, target)
           old == OrderKey(profile, mods)
           new == OrderKey(after, mods)
           to == Clamp(target, 0, profile.managed - 1)
           M == Managed(mods)
           ix(x) == Index(mods, x)
<1>1. /\ Keys(M, old)
      /\ \A x \in M : /\ ix(x) \in CanMove(mods) /\ ix(x) \in DOMAIN mods
                      /\ old[x] = Place(profile, mods, x)
  BY ManagedPlaces
<1>2. i \in DOMAIN mods /\ ~HasAutomaticPriority(mods[i])
  BY <1>1 DEF CanMove
<1>3. /\ done.to = to /\ done.to \in 0..(profile.managed - 1)
      /\ done.profile.managed = profile.managed
      /\ \A j \in DOMAIN mods :
           done.profile.status[j].priority
             = Shifted(profile.status[j].priority, profile.status[i].priority, done.to)
  BY <1>2, SetModPriorityShifts
<1>4. ListInOrder(after, mods)
  BY <1>2, OneModMoves
<1>5. /\ Keys(M, new)
      /\ \A x \in M : new[x] = Place(after, mods, x)
  BY <1>4, ManagedPlaces
<1>6. \A x \in M : /\ Place(profile, mods, x) = profile.status[ix(x)].priority
                   /\ Place(after, mods, x) = after.status[ix(x)].priority
  BY DEF Place, PriorityOf
<1>7. profile.managed \in Nat
  BY DEF ListInOrder, ProfilesOf
<1> HIDE DEF done, to, old, new, M
<1>8. \A x \in M : new[x] = Shifted(old[x], old[m], to)
  BY <1>1, <1>3, <1>5, <1>6 DEF M, done
<1>9. QED
  BY <1>1, <1>3, <1>4, <1>5, <1>7, <1>8 DEF Keys, to, old, new, M, done

\* A mod that is given a priority takes that place, or the nearest there is, and the
\* others stay as they are among each other (Profile::setModPriority), for every list,
\* any of its mods and every priority, negative ones too.
THEOREM PlacedAmongOthers ==
  ASSUME NEW mods, IsCollection(mods), NEW profile, ListInOrder(profile, mods),
         NEW m, m \in Managed(mods), NEW target, target \in Int
  PROVE  Order(SetModPriority(profile, mods, Index(mods, m), target).profile, mods)
           = PlacedOrder(profile, mods, m, target)
<1> DEFINE after == SetModPriority(profile, mods, Index(mods, m), target).profile
           old == OrderKey(profile, mods)
           new == OrderKey(after, mods)
           n == profile.managed
           k == Clamp(target, 0, n - 1)
           M == Managed(mods)
           O == M \ {m}
           o == Order(after, mods)
           t == [j \in 1..(Len(o) - 1) |-> IF j <= k THEN o[j] ELSE o[j + 1]]
           others == Among(Order(profile, mods), O)
<1>1. /\ ListInOrder(after, mods) /\ after.managed = n
      /\ n \in Nat /\ k \in 0..(n - 1)
      /\ \A x \in M : /\ old[x] \in Int /\ new[x] \in Int
                      /\ new[x] = Shifted(old[x], old[m], k)
      /\ \A x, y \in M : old[x] = old[y] => x = y
      /\ \A x, y \in M : new[x] = new[y] => x = y
  BY PlacedShifts
<1>2. Order(profile, mods) = SortedBy(M, old) /\ Keys(M, old)
  BY ManagedPlaces
<1>3. /\ o \in Seq(M) /\ Len(o) = n
      /\ \A j \in 1..n : o[j] \in M /\ new[o[j]] = j - 1
      /\ \A x \in M : new[x] + 1 \in 1..n /\ o[new[x] + 1] = x
  BY <1>1, OrderedPlaces
<1> HIDE DEF old, new, after, o, n, k, M
<1>4. new[m] = k /\ m \in M /\ m = o[k + 1]
  <2>1. m \in M
    BY DEF M
  <2>2. QED
    BY <1>1, <1>3, <2>1 DEF Shifted
<1>5. others = SortedBy(O, new)
  <2>1. Among(SortedBy(M, old), O) = SortedBy(M \cap O, old) /\ Keys(M \cap O, old)
    BY <1>2, AmongSorted
  <2>2. M \cap O = O
    OBVIOUS
  <2>3. \A x, y \in O : old[x] < old[y] => new[x] < new[y]
    <3>1. \A x \in O : x \in M /\ old[x] # old[m]
      BY <1>1, <1>4
    <3>2. QED
      BY <1>1, <1>4, <3>1 DEF Shifted
  <2>4. \A x \in O : new[x] \in Int
    BY <1>1
  <2> HIDE DEF O
  <2>5. SortedBy(O, old) = SortedBy(O, new)
    BY <2>1, <2>2, <2>3, <2>4, SortedAlike
  <2>6. QED
    BY <1>2, <2>1, <2>2, <2>5
<1>6. Ascends(t, n - 1, O, new)
  <2>1. n \in Nat /\ n - 1 \in Nat /\ k \in Nat /\ k <= n - 1 /\ t = [j \in 1..(n - 1) |-> t[j]]
    BY <1>1, <1>3
  <2>2. ASSUME NEW j \in 1..(n - 1)
        PROVE  t[j] \in O /\ new[t[j]] = IF j <= k THEN j - 1 ELSE j
    <3>1. j \in 1..n /\ j + 1 \in 1..n /\ t[j] = IF j <= k THEN o[j] ELSE o[j + 1]
      BY <1>3, <2>1
    <3>2. t[j] \in M /\ new[t[j]] = IF j <= k THEN j - 1 ELSE j
      BY <1>3, <2>1, <3>1
    <3>3. new[t[j]] # k
      BY <2>1, <3>2
    <3>4. QED
      BY <1>4, <3>2, <3>3
  <2>3. ASSUME NEW x \in O PROVE \E j \in 1..(n - 1) : t[j] = x
    <3>1. /\ x \in M /\ new[x] # k /\ new[x] + 1 \in 1..n /\ o[new[x] + 1] = x
          /\ new[x] \in Int
      BY <1>1, <1>3, <1>4
    <3>2. CASE new[x] < k
      <4>1. new[x] + 1 \in 1..(n - 1) /\ new[x] + 1 <= k
        BY <2>1, <3>1, <3>2
      <4>2. t[new[x] + 1] = x
        BY <1>3, <3>1, <4>1
      <4>3. QED
        BY <4>1, <4>2
    <3>3. CASE new[x] > k
      <4>1. new[x] \in 1..(n - 1) /\ ~(new[x] <= k)
        BY <2>1, <3>1, <3>3
      <4>2. t[new[x]] = x
        BY <1>3, <3>1, <4>1
      <4>3. QED
        BY <4>1, <4>2
    <3>4. new[x] < k \/ new[x] > k
      BY <2>1, <3>1
    <3>5. QED
      BY <3>2, <3>3, <3>4
  <2> HIDE DEF t, O
  <2>4. \A i, j \in 1..(n - 1) : i < j => new[t[i]] < new[t[j]]
    BY <2>1, <2>2
  <2>5. \A j \in 1..(n - 1) : new[t[j]] \in Int
    BY <2>1, <2>2
  <2>6. QED
    BY <2>1, <2>2, <2>3, <2>4, <2>5 DEF Ascends
<1>7. others = t
  BY <1>5, <1>6, SortedIs
<1>8. Len(t) = n - 1
  BY <1>1, <1>3
<1>9. SubSeq(t, 1, k) \o <<o[k + 1]>> \o SubSeq(t, k + 1, Len(t)) = o
  <2>1. k \in 0..(Len(o) - 1)
    BY <1>1, <1>3
  <2>2. o \in Seq(M)
    BY <1>3
  <2>3. QED
    BY <2>1, <2>2, PutBack
<1>10. PlacedOrder(profile, mods, m, target)
         = SubSeq(others, 1, Clamp(target, 0, Len(others))) \o <<m>>
             \o SubSeq(others, Clamp(target, 0, Len(others)) + 1, Len(others))
  BY DEF PlacedOrder, M
<1> HIDE DEF others, t
<1>11. Clamp(target, 0, Len(others)) = k
  BY <1>7, <1>8 DEF k
<1>12. PlacedOrder(profile, mods, m, target) = o
  BY <1>4, <1>7, <1>9, <1>10, <1>11
<1>13. QED
  BY <1>12 DEF o, after

-----------------------------------------------------------------------------
(* Shifting mods *)

\* One mod of ShiftModsPriority.
ShiftOne(profile, mods, i, by) ==
  SetModPriority(profile, mods, i, profile.status[i].priority + by).profile

\* ModList::shiftModsPriority goes through the mods in this order.
ShiftOrder(profile, D, by) == SortedBy(D, [i \in D |-> -by * profile.status[i].priority])

\* f shifts the mods of order one after the other.
Shifts(f, profile, mods, D, by, order) ==
  /\ ShiftModsPriority(profile, mods, D, by) = f[Len(order)]
  /\ f[0] = profile
  /\ \A k \in 0..Len(order) : ListInOrder(f[k], mods)
  /\ \A k \in 1..Len(order) : f[k] = ShiftOne(f[k - 1], mods, order[k], by)

\* Shifting mods one after the other keeps the list in order.
LEMMA ShiftsTaken ==
  ASSUME NEW mods, NEW profile, ListInOrder(profile, mods), NEW by, by \in Int, NEW D,
         NEW order, order = ShiftOrder(profile, D, by), order \in Seq(DOMAIN mods)
  PROVE  \E f : Shifts(f, profile, mods, D, by, order)
<1> DEFINE P == {q \in ProfilesOf(mods) : ListInOrder(q, mods)}
           n == Len(order)
           at(q, i) == q.status[i].priority
           step(q, i) == SetModPriority(q, mods, i, at(q, i) + by).profile
           g == [x \in P \X DOMAIN mods |-> step(x[1], x[2])]
           Steps(f) == f = [k \in 0..n |-> IF k = 0 THEN profile ELSE step(f[k - 1], order[k])]
           f == CHOOSE f : Steps(f)
<1>1. ShiftModsPriority(profile, mods, D, by) = f[n]
  BY Zenon DEF ShiftModsPriority, Through, ShiftOrder
<1>2. ASSUME NEW q \in P, NEW i \in DOMAIN mods PROVE step(q, i) \in P
  <2>1. ListInOrder(q, mods) /\ q \in ProfilesOf(mods)
    OBVIOUS
  <2>2. at(q, i) + by \in Int
    BY <2>1 DEF ProfilesOf, ModStatus
  <2>3. ListInOrder(step(q, i), mods)
    BY <2>1, <2>2, OneModMoves
  <2>4. step(q, i) \in ProfilesOf(mods)
    BY <2>3 DEF ListInOrder
  <2>5. QED
    BY <2>3, <2>4
<1>3. n \in Nat /\ \A k \in 1..n : order[k] \in DOMAIN mods
  OBVIOUS
<1>4. \A q \in P, i \in DOMAIN mods : /\ g[<<q, i>>] = step(q, i)
                                      /\ step(q, i) = ShiftOne(q, mods, i, by)
  <2>1. \A q \in P, i \in DOMAIN mods : step(q, i) = ShiftOne(q, mods, i, by)
    BY Zenon DEF ShiftOne
  <2> HIDE DEF step
  <2>2. QED
    BY <2>1
<1>5. profile \in P
  BY DEF ListInOrder
<1>6. \A q \in P : ListInOrder(q, mods)
  OBVIOUS
<1> HIDE DEF P, g, n, step
<1>7. StepsIn(P, DOMAIN mods, g, profile, order, n)
  <2>1. g \in [P \X DOMAIN mods -> P]
    BY <1>2 DEF g
  <2>2. QED
    BY <1>3, <1>5, <2>1 DEF StepsIn
<1>8. PICK h : Stepwise(h, P, g, profile, order, n)
  BY <1>7, StepsTaken
<1>9. /\ h = [k \in 0..n |-> h[k]] /\ h[0] = profile
      /\ \A k \in 1..n : h[k] = g[<<h[k - 1], order[k]>>]
      /\ \A k \in 0..n : h[k] \in P
  BY <1>8 DEF Stepwise
<1>10. \A k \in 0..n : h[k] = IF k = 0 THEN profile ELSE step(h[k - 1], order[k])
  <2>1. SUFFICES ASSUME NEW k \in 0..n, k # 0 PROVE h[k] = step(h[k - 1], order[k])
    BY <1>9
  <2>2. k \in 1..n /\ k - 1 \in 0..n
    BY <1>3, <2>1
  <2>3. QED
    BY <1>3, <1>4, <1>9, <2>2
<1>11. Steps(h)
  BY <1>9, <1>10
<1> HIDE DEF Steps
<1>12. Steps(f)
  BY <1>11, Zenon
<1> HIDE DEF f
<1>13. f = [k \in 0..n |-> IF k = 0 THEN profile ELSE step(f[k - 1], order[k])]
  BY <1>12 DEF Steps
<1>14. f[0] = profile /\ \A k \in 1..n : f[k] = step(f[k - 1], order[k])
  BY <1>3, <1>13
<1>15. ASSUME NEW m \in 0..n PROVE f[m] \in P
  <2>1. ASSUME NEW k \in 1..m, f[k - 1] \in P PROVE f[k] \in P
    <3>1. k \in 1..n
      BY <1>3
    <3>2. QED
      BY <1>2, <1>3, <1>14, <2>1, <3>1
  <2>2. m \in Nat /\ f[0] \in P
    BY <1>3, <1>5, <1>14
  <2>3. QED
    BY <2>1, <2>2, StepsStay
<1>16. \A k \in 1..n : f[k] = ShiftOne(f[k - 1], mods, order[k], by)
  <2>1. \A k \in 1..n : k - 1 \in 0..n
    BY <1>3
  <2>2. QED
    BY <1>3, <1>4, <1>14, <1>15, <2>1
<1>17. Shifts(f, profile, mods, D, by, order)
  BY <1>1, <1>6, <1>14, <1>15, <1>16 DEF n, Shifts
<1>18. QED
  BY <1>17

\* o has the indices D in an order in which none runs into another.
ShiftLists(o, D, p, by, all) ==
  /\ Cardinality(D) \in Nat /\ Len(o) = Cardinality(D) /\ o \in Seq(all)
  /\ \A k \in 1..Cardinality(D) : o[k] \in D
  /\ \A d \in D : \E k \in 1..Cardinality(D) : o[k] = d
  /\ \A j, k \in 1..Cardinality(D) :
       j < k => IF by = 1 THEN p[o[j]] > p[o[k]] ELSE p[o[j]] < p[o[k]]

\* The order in which mods are shifted: the ones go first that others could run into.
LEMMA ShiftOrders ==
  ASSUME NEW mods, IsCollection(mods), NEW profile, ListInOrder(profile, mods),
         NEW D, Selected(D, mods), NEW by, by \in {-1, 1}
  PROVE  ShiftLists(ShiftOrder(profile, D, by), D, PlacesOf(profile, mods), by, DOMAIN mods)
<1> DEFINE o == ShiftOrder(profile, D, by)
<1>1. PICK state : state \in Moved(profile, mods) /\ state.profile = profile
  <2> DEFINE s == [profile |-> profile, to |-> 0]
  <2>1. s \in Moved(profile, mods) /\ s.profile = profile
    BY DEF Moved, ListInOrder
  <2> HIDE DEF s
  <2>2. QED
    BY <2>1
<1>2. D \subseteq DOMAIN mods /\ \A i \in D : profile.status[i].priority \in Int
  BY DEF Selected, CanMove, ListInOrder, ProfilesOf, ModStatus
<1>3. CASE by = 1
  <2>1. \A i \in D : -by * profile.status[i].priority = -profile.status[i].priority
    BY <1>2, <1>3
  <2>2. [i \in D |-> -by * profile.status[i].priority] = [i \in D |-> -profile.status[i].priority]
    BY <2>1
  <2>3. o = DownOrder(state, D)
    BY <1>1, <2>2 DEF ShiftOrder, DownOrder
  <2>4. ListsDown(DownOrder(state, D), D, PlacesOf(state.profile, mods), DOMAIN mods)
    BY <1>1, OrdersList
  <2> HIDE DEF o
  <2>5. QED
    BY <1>1, <1>3, <2>3, <2>4 DEF o, ListsDown, ShiftLists
<1>4. CASE by = -1
  <2>1. \A i \in D : -by * profile.status[i].priority = profile.status[i].priority
    BY <1>2, <1>4
  <2>2. [i \in D |-> -by * profile.status[i].priority] = [i \in D |-> profile.status[i].priority]
    BY <2>1
  <2>3. o = UpOrder(state, D)
    BY <1>1, <2>2 DEF ShiftOrder, UpOrder
  <2>4. ListsUp(UpOrder(state, D), D, PlacesOf(state.profile, mods), DOMAIN mods)
    BY <1>1, OrdersList
  <2> HIDE DEF o
  <2>5. QED
    BY <1>1, <1>4, <2>3, <2>4 DEF o, ListsUp, ShiftLists
<1>5. QED
  BY <1>3, <1>4

\* One mod of ShiftModsPriority changes places with its neighbour.
LEMMA ShiftOneShifts ==
  ASSUME NEW mods, NEW profile, ListInOrder(profile, mods), NEW i, i \in CanMove(mods),
         NEW by, by \in Int, NEW after, after = ShiftOne(profile, mods, i, by)
  PROVE  \A a \in CanMove(mods) :
           PlacesOf(after, mods)[a]
             = Shifted(PlacesOf(profile, mods)[a], PlacesOf(profile, mods)[i],
                       Clamp(PlacesOf(profile, mods)[i] + by, 0, profile.managed - 1))
<1> DEFINE p == PlacesOf(profile, mods)
           done == SetModPriority(profile, mods, i, profile.status[i].priority + by)
<1>1. \A a \in CanMove(mods) : a \in DOMAIN mods /\ p[a] = profile.status[a].priority /\ p[a] \in Int
  BY MovablePlaces DEF Places
<1>2. i \in DOMAIN mods /\ ~HasAutomaticPriority(mods[i])
  BY DEF CanMove
<1>3. profile.status[i].priority + by \in Int
  BY <1>1
<1>4. /\ done.to = Clamp(profile.status[i].priority + by, 0, profile.managed - 1)
      /\ \A j \in DOMAIN mods : done.profile.status[j].priority
           = Shifted(profile.status[j].priority, profile.status[i].priority, done.to)
  BY <1>2, <1>3, SetModPriorityShifts
<1>5. after = done.profile
  BY DEF ShiftOne
<1> HIDE DEF done, p
<1>6. \A a \in CanMove(mods) : PlacesOf(after, mods)[a] = done.profile.status[a].priority
  BY <1>5 DEF PlacesOf
<1>7. p[i] = profile.status[i].priority
  BY <1>1
<1>8. QED
  BY <1>1, <1>4, <1>6, <1>7 DEF p

\* Mods that are shifted do not run into each other.
LEMMA IndicesShift ==
  ASSUME NEW mods, IsCollection(mods), NEW profile, ListInOrder(profile, mods),
         NEW D, Selected(D, mods), NEW by, by \in {-1, 1},
         NEW limit, limit = IF by > 0 THEN profile.managed - 1 ELSE 0,
         \A d \in D : PlacesOf(profile, mods)[d] # limit,
         NEW after, after = ShiftModsPriority(profile, mods, D, by)
  PROVE  /\ ListInOrder(after, mods)
         /\ \A d \in D : PlacesOf(after, mods)[d] = PlacesOf(profile, mods)[d] + by
<1> DEFINE I == CanMove(mods)
           p == PlacesOf(profile, mods)
           m == profile.managed
           o == ShiftOrder(profile, D, by)
           n == Cardinality(D)
<1>1. /\ n \in Nat /\ Len(o) = n /\ o \in Seq(DOMAIN mods)
      /\ \A k \in 1..n : o[k] \in D
      /\ \A d \in D : \E k \in 1..n : o[k] = d
      /\ \A j, k \in 1..n :
           j < k => IF by = 1 THEN p[o[j]] > p[o[k]] ELSE p[o[j]] < p[o[k]]
  <2>1. ShiftLists(o, D, p, by, DOMAIN mods)
    BY ShiftOrders
  <2> HIDE DEF o, p
  <2>2. QED
    BY <2>1 DEF ShiftLists
<1>2. /\ Places(I, p) /\ (\A i \in I : p[i] \in 0..(m - 1))
      /\ m \in Nat /\ m = Cardinality(Managed(mods))
  BY MovablePlaces
<1>3. D \subseteq I /\ by \in Int /\ \A d \in D : d \in I
  BY DEF Selected
<1> HIDE DEF o, n, p, m
<1>4. PICK f : Shifts(f, profile, mods, D, by, o)
  <2>1. o = ShiftOrder(profile, D, by)
    BY DEF o
  <2>2. o \in Seq(DOMAIN mods)
    BY <1>1
  <2>3. by \in Int
    BY <1>3
  <2>4. QED
    BY <2>1, <2>2, <2>3, ShiftsTaken, Zenon
<1>5. /\ f[0] = profile /\ after = f[n]
      /\ \A k \in 0..n : ListInOrder(f[k], mods)
      /\ \A k \in 1..n : f[k] = ShiftOne(f[k - 1], mods, o[k], by)
  BY <1>1, <1>4 DEF Shifts
<1> DEFINE q(k) == PlacesOf(f[k], mods)
           Done(k) == \A j \in 1..n : q(k)[o[j]] = IF j <= k THEN p[o[j]] + by ELSE p[o[j]]
           S == {k \in Nat : k <= n => Done(k)}
<1>6. 0 \in S
  BY <1>1, <1>5 DEF p
<1>7. ASSUME NEW k \in Nat, k \in S PROVE k + 1 \in S
  <2>1. SUFFICES ASSUME k + 1 <= n PROVE Done(k + 1)
    OBVIOUS
  <2>2. /\ k + 1 \in 1..n /\ (k + 1) - 1 = k /\ k \in 0..n /\ Done(k)
    BY <1>1, <1>7, <2>1
  <2> DEFINE i == o[k + 1]
             Q == q(k)
             R == q(k + 1)
             N == f[k].managed
  <2>3. ListInOrder(f[k], mods) /\ i \in D /\ i \in I /\ f[k + 1] = ShiftOne(f[k], mods, i, by)
    BY <1>1, <1>3, <1>5, <2>2
  <2>4. \A a \in I : R[a] = Shifted(Q[a], Q[i], Clamp(Q[i] + by, 0, N - 1))
    <3>1. i \in CanMove(mods) /\ by \in Int
      BY <1>3, <2>3
    <3> HIDE DEF i
    <3>2. \A a \in CanMove(mods) :
            PlacesOf(f[k + 1], mods)[a]
              = Shifted(PlacesOf(f[k], mods)[a], PlacesOf(f[k], mods)[i],
                        Clamp(PlacesOf(f[k], mods)[i] + by, 0, f[k].managed - 1))
      BY <2>3, <3>1, ShiftOneShifts
    <3>3. QED
      BY <3>2
  <2>5. N = m
    BY <1>2, <2>3, MovablePlaces
  <2>6. Q[i] = p[i] /\ p[i] \in 0..(m - 1) /\ p[i] # limit
    <3>1. ~(k + 1 <= k)
      OBVIOUS
    <3>2. Q[o[k + 1]] = p[o[k + 1]]
      BY <2>2, <3>1
    <3>3. QED
      BY <1>2, <2>3, <3>2 DEF p
  <2>7. Clamp(Q[i] + by, 0, N - 1) = p[i] + by
    <3>1. limit = IF by > 0 THEN m - 1 ELSE 0
      BY DEF m
    <3>2. QED
      BY <1>2, <2>5, <2>6, <3>1 DEF Clamp
  <2>8. ASSUME NEW j \in 1..n
        PROVE  R[o[j]] = IF j <= k + 1 THEN p[o[j]] + by ELSE p[o[j]]
    <3>1. /\ o[j] \in I /\ p[o[j]] \in 0..(m - 1) /\ j \in Int
          /\ Q[o[j]] = IF j <= k THEN p[o[j]] + by ELSE p[o[j]]
          /\ R[o[j]] = Shifted(Q[o[j]], p[i], p[i] + by)
      BY <1>1, <1>2, <1>3, <2>2, <2>4, <2>6, <2>7
    <3> HIDE DEF R, Q, i
    <3>2. CASE j = k + 1
      <4>1. o[j] = i
        BY <3>2 DEF i
      <4>2. Q[o[j]] = p[i]
        BY <2>6, <4>1
      <4>3. R[o[j]] = p[i] + by
        BY <3>1, <4>2 DEF Shifted
      <4>4. QED
        BY <3>2, <4>1, <4>3
    <3>3. CASE j < k + 1
      <4>1. IF by = 1 THEN p[o[j]] > p[i] ELSE p[o[j]] < p[i]
        BY <1>1, <2>2, <3>3 DEF i
      <4>2. j <= k /\ j <= k + 1
        BY <3>1, <3>3
      <4>3. p[i] \in Int /\ p[o[j]] \in Int
        BY <1>2, <2>6, <3>1
      <4>4. QED
        BY <3>1, <4>1, <4>2, <4>3 DEF Shifted
    <3>4. CASE j > k + 1
      <4>1. IF by = 1 THEN p[i] > p[o[j]] ELSE p[i] < p[o[j]]
        BY <1>1, <2>2, <3>4 DEF i
      <4>2. ~(j <= k) /\ ~(j <= k + 1)
        BY <3>1, <3>4
      <4>3. p[i] \in Int /\ p[o[j]] \in Int
        BY <1>2, <2>6, <3>1
      <4>4. QED
        BY <3>1, <4>1, <4>2, <4>3 DEF Shifted
    <3>5. QED
      BY <3>1, <3>2, <3>3, <3>4
  <2>9. QED
    BY <2>8
<1> HIDE DEF S
<1>8. n \in S
  BY <1>1, <1>6, <1>7, EachNatural
<1>9. Done(n)
  BY <1>1, <1>8 DEF S
<1>10. ASSUME NEW d \in D PROVE PlacesOf(after, mods)[d] = p[d] + by
  <2>1. PICK j \in 1..n : o[j] = d
    BY <1>1
  <2>2. j <= n
    OBVIOUS
  <2>3. QED
    BY <1>5, <1>9, <2>1, <2>2
<1>11. ListInOrder(after, mods)
  BY <1>1, <1>5
<1>12. QED
  BY <1>10, <1>11 DEF p

\* Mods that are shifted by one all move by one, unless one of them is at the end of
\* the list (ModList::shiftModsPriority), for every list and any of its mods.
THEOREM ShiftedByOne ==
  ASSUME NEW mods, IsCollection(mods), NEW profile, ListInOrder(profile, mods),
         NEW shifted, shifted \subseteq Managed(mods), NEW by, by \in {-1, 1},
         NEW limit, limit = IF by > 0 THEN Cardinality(Managed(mods)) - 1 ELSE 0,
         \A m \in shifted : Place(profile, mods, m) # limit
  PROVE  \A m \in shifted :
           Place(ShiftModsPriority(profile, mods, IndicesOf(mods, shifted), by), mods, m)
             = Place(profile, mods, m) + by
<1> DEFINE D == IndicesOf(mods, shifted)
           after == ShiftModsPriority(profile, mods, D, by)
<1>1. Selected(D, mods) /\ \A m \in Managed(mods) : Index(mods, m) \in D <=> m \in shifted
  BY ChosenIndices
<1>2. \A m \in Managed(mods) :
        /\ mods[Index(mods, m)] = m
        /\ Place(profile, mods, m) = PlacesOf(profile, mods)[Index(mods, m)]
  BY ManagedPlaces
<1>3. profile.managed = Cardinality(Managed(mods))
  BY MovablePlaces
<1>4. \A d \in D : PlacesOf(profile, mods)[d] # limit
  BY <1>2 DEF IndicesOf
<1> HIDE DEF D
<1>5. limit = IF by > 0 THEN profile.managed - 1 ELSE 0
  BY <1>3
<1>6. /\ ListInOrder(after, mods)
      /\ \A d \in D : PlacesOf(after, mods)[d] = PlacesOf(profile, mods)[d] + by
  BY <1>1, <1>4, <1>5, IndicesShift
<1>7. \A m \in Managed(mods) : Place(after, mods, m) = PlacesOf(after, mods)[Index(mods, m)]
  BY <1>6, ManagedPlaces
<1>8. QED
  BY <1>1, <1>2, <1>6, <1>7 DEF D

-----------------------------------------------------------------------------
(* Sending mods to a separator *)

\* The separators in a collection.
Heads(mods) == ToSet(mods) \cap Separators

\* Separators are mods of the user, so they have no automatic priority.
LEMMA HeadsAreManaged ==
  ASSUME NEW mods
  PROVE  Heads(mods) \subseteq Managed(mods)
  BY KindsAssumption DEF Heads, Managed, HasAutomaticPriority

\* The mods that are sent are between the ones below the priority and the others, which
\* stay in order.
PutAt(M, sent, old, new, T) ==
  /\ \A x \in M \ sent, m \in sent : new[x] < new[m] <=> old[x] < T
  /\ \A x, y \in M \ sent : new[x] < new[y] <=> old[x] < old[y]

\* T is where the section of the separator s ends: above it in ascending order, below it
\* in descending order.
EndsAt(mods, key, s, T, ascending) ==
  IF ascending THEN key[s] < T /\ \A x \in Heads(mods) : key[x] > key[s] => key[x] >= T
  ELSE T <= key[s] /\ \A x \in Heads(mods) : key[x] < key[s] => key[x] < T

\* Mods that are put at the end of a section are in it.
LEMMA PutInSection ==
  ASSUME NEW mods, IsCollection(mods), NEW profile, ListInOrder(profile, mods),
         NEW after, ListInOrder(after, mods), NEW sent, sent \subseteq Managed(mods) \ Separators,
         NEW s, s \in Heads(mods), NEW ascending, ascending \in BOOLEAN, NEW T, T \in Int,
         EndsAt(mods, OrderKey(profile, mods), s, T, ascending),
         PutAt(Managed(mods), sent, OrderKey(profile, mods), OrderKey(after, mods), T),
         NEW m, m \in sent
  PROVE  Section(after, mods, m, ascending) = {s}
<1> DEFINE M == Managed(mods)
           H == Heads(mods)
           old == OrderKey(profile, mods)
           new == OrderKey(after, mods)
           at(x) == Place(after, mods, x)
<1>1. /\ \A x \in M : old[x] \in Int
      /\ \A x, y \in M : old[x] = old[y] => x = y
  BY ManagedPlaces DEF Keys
<1>2. /\ \A x \in M : new[x] \in Int /\ new[x] = at(x)
      /\ \A x, y \in M : new[x] = new[y] => x = y
  BY ManagedPlaces DEF Keys
<1>3. /\ H \subseteq M /\ m \in M /\ s \in M
      /\ \A x \in H : x \in M \ sent
  BY HeadsAreManaged DEF Heads
<1>4. /\ \A x \in H : at(x) < at(m) <=> old[x] < T
      /\ \A x, y \in H : at(x) < at(y) <=> old[x] < old[y]
      /\ \A x \in H : x \in M /\ at(x) \in Int /\ at(x) # at(m) /\ old[x] \in Int
      /\ at(m) \in Int
      /\ \A x, y \in H : at(x) = at(y) => x = y
  <2>1. \A x \in H : new[x] = at(x) /\ new[x] \in Int /\ x \in M /\ x # m /\ old[x] \in Int
    BY <1>1, <1>2, <1>3
  <2>2. new[m] = at(m) /\ new[m] \in Int
    BY <1>2, <1>3
  <2> HIDE DEF at, new, old, H
  <2>3. \A x \in H : new[x] < new[m] <=> old[x] < T
    BY <1>3 DEF PutAt, new, old
  <2>4. \A x, y \in H : new[x] < new[y] <=> old[x] < old[y]
    BY <1>3 DEF PutAt, new, old
  <2>5. \A x \in H : new[x] # new[m]
    BY <1>2, <1>3, <2>1
  <2>6. \A x, y \in H : new[x] = new[y] => x = y
    BY <1>2, <1>3
  <2>7. QED
    BY <2>1, <2>2, <2>3, <2>4, <2>5, <2>6
<1>5. Section(after, mods, m, ascending)
        = {x \in {h \in H : IF ascending THEN at(h) < at(m) ELSE at(h) > at(m)} :
             \A t \in {h \in H : IF ascending THEN at(h) < at(m) ELSE at(h) > at(m)} :
               IF ascending THEN at(t) <= at(x) ELSE at(t) >= at(x)}
  BY Zenon DEF Section, Heads
<1>6. s \in H /\ EndsAt(mods, old, s, T, ascending)
  OBVIOUS
<1> HIDE DEF H, at, old, new
<1>7. CASE ascending
  <2>1. old[s] < T /\ \A x \in H : old[x] > old[s] => old[x] >= T
    BY <1>6, <1>7 DEF EndsAt, H
  <2>2. \A x \in H : at(x) < at(m) <=> ~(old[x] > old[s])
    BY <1>4, <1>6, <2>1
  <2>3. \A x \in H : at(x) < at(m) => at(x) <= at(s)
    BY <1>4, <1>6, <2>2
  <2>4. at(s) < at(m)
    BY <1>4, <1>6, <2>1
  <2>5. Section(after, mods, m, ascending)
          = {x \in H : at(x) < at(m) /\ \A t \in H : at(t) < at(m) => at(t) <= at(x)}
    BY <1>5, <1>7
  <2>6. ASSUME NEW x \in H, at(x) < at(m), \A t \in H : at(t) < at(m) => at(t) <= at(x)
        PROVE  x = s
    BY <1>4, <1>6, <2>3, <2>4, <2>6
  <2>7. QED
    BY <1>6, <2>3, <2>4, <2>5, <2>6
<1>8. CASE ~ascending
  <2>1. T <= old[s] /\ \A x \in H : old[x] < old[s] => old[x] < T
    BY <1>6, <1>8 DEF EndsAt, H
  <2>2. \A x \in H : at(x) > at(m) <=> ~(old[x] < old[s])
    BY <1>4, <1>6, <2>1
  <2>3. \A x \in H : at(x) > at(m) => at(x) >= at(s)
    BY <1>4, <1>6, <2>2
  <2>4. at(s) > at(m)
    BY <1>4, <1>6, <2>1
  <2>5. Section(after, mods, m, ascending)
          = {x \in H : at(x) > at(m) /\ \A t \in H : at(t) > at(m) => at(t) >= at(x)}
    BY <1>5, <1>8
  <2>6. ASSUME NEW x \in H, at(x) > at(m), \A t \in H : at(t) > at(m) => at(t) >= at(x)
        PROVE  x = s
    BY <1>4, <1>6, <2>3, <2>4, <2>6
  <2>7. QED
    BY <1>6, <2>3, <2>4, <2>5, <2>6
<1>9. QED
  BY <1>7, <1>8

\* Several mods that are dropped are put where they are dropped.
LEMMA DroppedArePut ==
  ASSUME NEW mods, IsCollection(mods), NEW profile, ListInOrder(profile, mods),
         NEW sent, sent \subseteq Managed(mods), NEW T, T \in Nat,
         NEW after, after = ChangeModPriority(profile, mods, IndicesOf(mods, sent), T)
  PROVE  /\ ListInOrder(after, mods)
         /\ PutAt(Managed(mods), sent, OrderKey(profile, mods), OrderKey(after, mods), T)
<1> DEFINE D == IndicesOf(mods, sent)
           p == PlacesOf(profile, mods)
           r == PlacesOf(after, mods)
           ix(x) == Index(mods, x)
           old == OrderKey(profile, mods)
           new == OrderKey(after, mods)
           M == Managed(mods)
<1>1. Selected(D, mods) /\ \A x \in M : ix(x) \in D <=> x \in sent
  BY ChosenIndices
<1> HIDE DEF D
<1>2. ListInOrder(after, mods) /\ Dropped(CanMove(mods), p, r, D, T)
  BY <1>1, ManyAreDropped DEF D
<1>3. \A x \in M : ix(x) \in CanMove(mods) /\ old[x] = p[ix(x)] /\ old[x] \in Int
  BY ManagedPlaces DEF Keys
<1>4. \A x \in M : new[x] = r[ix(x)] /\ new[x] \in Int
  BY <1>2, ManagedPlaces DEF Keys
<1> HIDE DEF p, r, old, new, M
<1>5. \A x, y \in M :
        new[x] < new[y] <=> \/ DropStage(p, D, T, ix(x)) < DropStage(p, D, T, ix(y))
                            \/ DropStage(p, D, T, ix(x)) = DropStage(p, D, T, ix(y))
                               /\ old[x] < old[y]
  BY <1>2, <1>3, <1>4 DEF Dropped
<1>6. \A x \in M : DropStage(p, D, T, ix(x)) = IF x \in sent THEN 1 ELSE IF old[x] < T THEN 0 ELSE 2
  BY <1>1, <1>3 DEF DropStage
<1>7. sent \subseteq M
  BY DEF M
<1>8. \A x \in M \ sent, m \in sent : new[x] < new[m] <=> old[x] < T
  BY <1>5, <1>6, <1>7
<1>9. \A x, y \in M \ sent : new[x] < new[y] <=> old[x] < old[y]
  BY <1>3, <1>5, <1>6
<1>10. QED
  BY <1>2, <1>8, <1>9 DEF PutAt, old, new, M

\* A single mod is put where it is asked to go, which is a priority less when it comes
\* from below: then it must have to move.
LEMMA PlacedIsPut ==
  ASSUME NEW mods, IsCollection(mods), NEW profile, ListInOrder(profile, mods),
         NEW m, m \in Managed(mods), NEW T, T \in Nat, NEW target, target \in Int,
         \/ target = T - 1 /\ OrderKey(profile, mods)[m] < T - 1
         \/ target = T /\ T < OrderKey(profile, mods)[m],
         NEW after, after = SetModPriority(profile, mods, Index(mods, m), target).profile
  PROVE  /\ ListInOrder(after, mods)
         /\ PutAt(Managed(mods), {m}, OrderKey(profile, mods), OrderKey(after, mods), T)
<1> DEFINE old == OrderKey(profile, mods)
           new == OrderKey(after, mods)
           n == profile.managed
           to == Clamp(target, 0, n - 1)
           M == Managed(mods)
<1>1. /\ ListInOrder(after, mods)
      /\ n \in Nat /\ to \in 0..(n - 1)
      /\ \A x \in M : /\ old[x] \in Int /\ new[x] \in Int
                      /\ new[x] = Shifted(old[x], old[m], to)
      /\ \A x, y \in M : old[x] = old[y] => x = y
  BY PlacedShifts
<1>2. \A x \in M : old[x] \in 0..(n - 1)
  BY ManagedPlaces
<1>3. \/ target = T - 1 /\ old[m] < T - 1
      \/ target = T /\ T < old[m]
  OBVIOUS
<1>4. m \in M
  OBVIOUS
<1> HIDE DEF old, new, n, M
<1>5. CASE target = T - 1 /\ old[m] < T - 1
  <2>1. to > old[m] \/ (to = n - 1 /\ old[m] = n - 1)
    BY <1>1, <1>2, <1>4, <1>5 DEF Clamp
  <2>2. \A x \in M : x # m => old[x] # old[m] /\ (old[x] <= to <=> old[x] < T)
    <3>1. SUFFICES ASSUME NEW x \in M, x # m PROVE old[x] # old[m] /\ (old[x] <= to <=> old[x] < T)
      OBVIOUS
    <3>2. old[x] \in 0..(n - 1) /\ old[x] # old[m]
      BY <1>1, <1>2, <1>4, <3>1
    <3>3. to = IF T - 1 > n - 1 THEN n - 1 ELSE T - 1
      BY <1>2, <1>4, <1>5 DEF Clamp
    <3> HIDE DEF to
    <3>4. QED
      BY <1>1, <3>2, <3>3
  <2> HIDE DEF to
  <2>3. \A x \in M : x # m => (new[x] < new[m] <=> old[x] < T)
    <3>1. SUFFICES ASSUME NEW x \in M, x # m PROVE new[x] < new[m] <=> old[x] <= to
      BY <2>2
    <3>2. new[m] = to
      BY <1>1, <1>4 DEF Shifted
    <3>3. old[x] # old[m] /\ old[x] \in 0..(n - 1) /\ old[m] \in 0..(n - 1)
      BY <1>2, <1>4, <2>2, <3>1
    <3>4. QED
      BY <1>1, <2>1, <3>2, <3>3 DEF Shifted
  <2>4. \A x, y \in M \ {m} : new[x] < new[y] <=> old[x] < old[y]
    BY <1>1, <1>4, <2>2 DEF Shifted
  <2>5. QED
    BY <1>1, <2>3, <2>4 DEF PutAt, old, new, M
<1>6. CASE target = T /\ T < old[m]
  <2>1. to = T
    BY <1>1, <1>2, <1>4, <1>6 DEF Clamp
  <2>2. \A x \in M : x # m => old[x] # old[m]
    BY <1>1, <1>4
  <2> HIDE DEF to
  <2>3. \A x \in M : x # m => (new[x] < new[m] <=> old[x] < T)
    <3>1. SUFFICES ASSUME NEW x \in M, x # m PROVE new[x] < new[m] <=> old[x] < T
      OBVIOUS
    <3>2. new[m] = to
      BY <1>1, <1>4 DEF Shifted
    <3>3. old[x] # old[m] /\ old[x] \in 0..(n - 1) /\ old[m] \in 0..(n - 1)
      BY <1>2, <1>4, <2>2, <3>1
    <3>4. QED
      BY <1>1, <1>6, <2>1, <3>2, <3>3 DEF Shifted
  <2>4. \A x, y \in M \ {m} : new[x] < new[y] <=> old[x] < old[y]
    BY <1>1, <1>4, <2>2 DEF Shifted
  <2>5. QED
    BY <1>1, <2>3, <2>4 DEF PutAt, old, new, M
<1>7. QED
  BY <1>3, <1>5, <1>6

\* A set of numbers up to n has a greatest one.
LEMMA GreatestNatural ==
  ASSUME NEW S, NEW n, n \in Nat, S \subseteq 0..n, S # {}
  PROVE  \E x \in S : \A y \in S : x >= y
<1> DEFINE R == {n - x : x \in S}
<1>1. R \subseteq Nat /\ R # {}
  <2>1. \A x \in S : n - x \in Nat
    <3>1. SUFFICES ASSUME NEW x \in S PROVE n - x \in Nat
      OBVIOUS
    <3>2. x \in 0..n
      OBVIOUS
    <3>3. QED
      BY <3>2
  <2>2. QED
    BY <2>1
<1> HIDE DEF R
<1>2. PICK k \in R : \A l \in R : k <= l
  BY <1>1, LeastNatural
<1>3. PICK x \in S : k = n - x
  BY DEF R
<1>4. \A y \in S : n - y \in R
  BY DEF R
<1>5. \A y \in S : x >= y
  <2>1. SUFFICES ASSUME NEW y \in S PROVE x >= y
    OBVIOUS
  <2>2. n - x <= n - y /\ x \in 0..n /\ y \in 0..n
    BY <1>2, <1>3, <1>4
  <2>3. QED
    BY <2>2
<1>6. QED
  BY <1>5

\* The places of the separators.
HeadKeys(mods, key) == {key[x] : x \in Heads(mods)}

\* sendModsToSeparator asks for the priority where the section ends, or for one less when
\* it sends a single mod that is below the separator.
LEMMA SeparatorEnds ==
  ASSUME NEW mods, IsCollection(mods), NEW profile, ListInOrder(profile, mods),
         NEW D, NEW s, s \in Heads(mods), NEW ascending, ascending \in BOOLEAN,
         ascending \/ OrderKey(profile, mods)[s] > 0,
         NEW target, target \in SeparatorPriorities(profile, mods, D, Index(mods, s), ascending)
  PROVE  \E T \in Nat :
           /\ EndsAt(mods, OrderKey(profile, mods), s, T, ascending)
           /\ target = IF \E i \in D : D = {i} /\ profile.status[i].priority
                                                   < OrderKey(profile, mods)[s]
                       THEN T - 1 ELSE T
<1> DEFINE key == OrderKey(profile, mods)
           H == Heads(mods)
           n == Len(mods)
           at(i) == profile.status[i].priority
           others == {at(i) : i \in {j \in DOMAIN mods : mods[j] \in Separators}}
           above == {p \in others : p > at(Index(mods, s))}
           below == {p \in others : p < at(Index(mods, s))}
           next == IF above = {} THEN MaximumPriority(mods)
                   ELSE CHOOSE p \in above : \A q \in above : p <= q
           previous == IF below = {} THEN 0
                       ELSE 1 + CHOOSE p \in below : \A q \in below : p >= q
           found == IF ascending THEN {next}
                    ELSE IF at(Index(mods, s)) > 0 THEN {previous}
                    ELSE {0} \cup {p + 1 : p \in others}
           single == \E i \in D : D = {i} /\ at(i) < at(Index(mods, s))
<1>1. target \in {IF single THEN p - 1 ELSE p : p \in found}
  BY Zenon DEF SeparatorPriorities
<1>2. /\ \A x \in Managed(mods) : /\ Index(mods, x) \in DOMAIN mods /\ mods[Index(mods, x)] = x
                                  /\ key[x] = at(Index(mods, x))
                                  /\ key[x] \in 0..(profile.managed - 1)
      /\ profile.managed \in Nat
  <2>1. \A x \in Managed(mods) : Place(profile, mods, x) = at(Index(mods, x))
    BY DEF Place, PriorityOf
  <2>2. QED
    BY <2>1, ManagedPlaces, MovablePlaces
<1>3. H \subseteq Managed(mods)
  BY HeadsAreManaged
<1>4. /\ n \in Nat \ {0}
      /\ \A i \in DOMAIN mods : mods[i] \in ToSet(mods) /\ Index(mods, mods[i]) = i
  BY CollectionFacts
<1>5. /\ \A i \in DOMAIN mods : at(i) \in 0..(n - 1)
  BY DEF ListInOrder
<1> HIDE DEF key, n
<1>6. /\ \A x \in H : key[x] \in others /\ key[x] \in 0..(n - 1)
      /\ \A p \in others : \E x \in H : key[x] = p
  <2>1. ASSUME NEW x \in H PROVE key[x] \in others /\ key[x] \in 0..(n - 1)
    <3>1. x \in Separators /\ x \in Managed(mods)
      BY <1>3 DEF Heads
    <3>2. QED
      BY <1>2, <1>5, <3>1
  <2>2. ASSUME NEW p \in others PROVE \E x \in H : key[x] = p
    <3>1. PICK i \in DOMAIN mods : mods[i] \in Separators /\ at(i) = p
      OBVIOUS
    <3>2. mods[i] \in H
      BY <1>4, <3>1 DEF Heads
    <3>3. key[mods[i]] = p
      BY <1>2, <1>3, <1>4, <3>1, <3>2
    <3>4. QED
      BY <3>2, <3>3
  <2>3. QED
    BY <2>1, <2>2
<1>7. s \in H /\ at(Index(mods, s)) = key[s]
  BY <1>2, <1>3
<1> HIDE DEF others, H, at
<1>8. others \subseteq 0..(n - 1)
  BY <1>6
<1>9. PICK T \in found : target = IF single THEN T - 1 ELSE T
  BY <1>1
<1> HIDE DEF found, single
<1>10. CASE ascending
  <2>1. T = next
    BY <1>9, <1>10 DEF found
  <2>2. CASE above = {}
    <3>1. T = n + 1
      BY <2>1, <2>2 DEF MaximumPriority, n
    <3>2. \A x \in H : key[x] <= key[s]
      BY <1>6, <1>7, <2>2
    <3>3. T \in Nat /\ key[s] < T
      BY <1>4, <1>6, <1>7, <3>1
    <3>4. EndsAt(mods, key, s, T, ascending)
      BY <1>6, <1>7, <1>10, <3>2, <3>3 DEF EndsAt, H
    <3>5. QED
      BY <1>7, <1>9, <1>10, <3>3, <3>4 DEF key, single, at
  <2>3. CASE above # {}
    <3>0. n - 1 \in Nat
      BY <1>4
    <3>9. ASSUME NEW x \in above PROVE x \in 0..(n - 1)
      <4>1. x \in others
        OBVIOUS
      <4>2. QED
        BY <1>8, <4>1
    <3>1. above \subseteq Nat
      <4> HIDE DEF above
      <4>1. \A x \in 0..(n - 1) : x \in Nat
        BY <3>0
      <4>2. QED
        BY <3>0, <3>9, <4>1
    <3>2. PICK p \in above : \A q \in above : p <= q
      BY <2>3, <3>1, LeastNatural
    <3>3. T \in above /\ \A q \in above : T <= q
      BY <2>1, <2>3, <3>2
    <3>4. T \in Nat /\ key[s] < T /\ T \in others
      BY <1>6, <1>7, <3>1, <3>3
    <3>5. \A x \in H : key[x] > key[s] => key[x] >= T
      BY <1>6, <1>7, <3>3
    <3>6. EndsAt(mods, key, s, T, ascending)
      BY <1>10, <3>4, <3>5 DEF EndsAt, H
    <3>7. QED
      BY <1>7, <1>9, <1>10, <3>4, <3>6 DEF key, single, at
  <2>4. QED
    BY <2>2, <2>3
<1>11. CASE ~ascending
  <2>1. T = previous
    BY <1>7, <1>9, <1>11 DEF found, key
  <2>2. CASE below = {}
    <3>1. T = 0
      BY <2>1, <2>2
    <3>2. T \in Nat /\ T <= key[s]
      BY <1>6, <1>7, <3>1
    <3>3. \A x \in H : ~(key[x] < key[s])
      BY <1>6, <1>7, <2>2
    <3>4. EndsAt(mods, key, s, T, ascending)
      BY <1>11, <3>2, <3>3 DEF EndsAt, H
    <3>5. QED
      BY <1>7, <1>9, <1>11, <3>2, <3>4 DEF key, single, at
  <2>3. CASE below # {}
    <3>0. n - 1 \in Nat
      BY <1>4
    <3>9. ASSUME NEW x \in below PROVE x \in 0..(n - 1)
      <4>1. x \in others
        OBVIOUS
      <4>2. QED
        BY <1>8, <4>1
    <3>1. below \subseteq 0..(n - 1) /\ n - 1 \in Nat
      <4> HIDE DEF below
      <4>1. \A x \in 0..(n - 1) : x \in Nat
        BY <3>0
      <4>2. QED
        BY <3>0, <3>9, <4>1
    <3>2. PICK p \in below : \A q \in below : p >= q
      BY <2>3, <3>1, GreatestNatural
    <3>3. PICK b \in below : T = 1 + b /\ \A q \in below : b >= q
      BY <2>1, <2>3, <3>2
    <3>4. b \in Nat /\ b < key[s] /\ key[s] \in Int
      BY <1>6, <1>7, <3>1
    <3>5. T \in Nat /\ T <= key[s]
      BY <3>3, <3>4
    <3>6. \A x \in H : key[x] < key[s] => key[x] < T
      BY <1>6, <1>7, <3>3, <3>4
    <3>7. EndsAt(mods, key, s, T, ascending)
      BY <1>11, <3>5, <3>6 DEF EndsAt, H
    <3>8. QED
      BY <1>7, <1>9, <1>11, <3>5, <3>7 DEF key, single, at
  <2>4. QED
    BY <2>2, <2>3
<1>12. QED
  BY <1>10, <1>11

\* A mod is in the section of a separator when no other separator is between them.
LEMMA OutOfSection ==
  ASSUME NEW mods, IsCollection(mods), NEW profile, ListInOrder(profile, mods),
         NEW s, s \in Heads(mods), NEW m, m \in Managed(mods), m \notin Separators,
         NEW ascending, ascending \in BOOLEAN, Section(profile, mods, m, ascending) # {s},
         IF ascending THEN OrderKey(profile, mods)[s] < OrderKey(profile, mods)[m]
         ELSE OrderKey(profile, mods)[s] > OrderKey(profile, mods)[m]
  PROVE  \E x \in Heads(mods) :
           IF ascending THEN /\ OrderKey(profile, mods)[s] < OrderKey(profile, mods)[x]
                             /\ OrderKey(profile, mods)[x] < OrderKey(profile, mods)[m]
           ELSE /\ OrderKey(profile, mods)[s] > OrderKey(profile, mods)[x]
                /\ OrderKey(profile, mods)[x] > OrderKey(profile, mods)[m]
<1> DEFINE H == Heads(mods)
           key == OrderKey(profile, mods)
           at(x) == Place(profile, mods, x)
<1>1. /\ \A x \in Managed(mods) : key[x] \in Int /\ key[x] = at(x)
      /\ \A x, y \in Managed(mods) : key[x] = key[y] => x = y
  BY ManagedPlaces DEF Keys
<1>2. \A x \in H : x \in Managed(mods) /\ x \in Separators
  BY HeadsAreManaged DEF Heads
<1>3. /\ \A x \in H : key[x] \in Int /\ key[x] = at(x)
      /\ \A x, y \in H : key[x] = key[y] => x = y
      /\ key[m] \in Int /\ key[m] = at(m) /\ s \in H
  BY <1>1, <1>2
<1>4. Section(profile, mods, m, ascending)
        = {x \in {h \in H : IF ascending THEN at(h) < at(m) ELSE at(h) > at(m)} :
             \A t \in {h \in H : IF ascending THEN at(h) < at(m) ELSE at(h) > at(m)} :
               IF ascending THEN at(t) <= at(x) ELSE at(t) >= at(x)}
  BY Zenon DEF Section, Heads
<1> HIDE DEF H, at, key
<1>5. CASE ascending
  <2>1. SUFFICES ASSUME \A x \in H : ~(key[s] < key[x] /\ key[x] < key[m]) PROVE FALSE
    BY <1>5 DEF H, key
  <2>2. Section(profile, mods, m, ascending)
          = {x \in H : at(x) < at(m) /\ \A t \in H : at(t) < at(m) => at(t) <= at(x)}
    BY <1>4, <1>5
  <2>3. key[s] < key[m]
    BY <1>5 DEF key
  <2>4. at(s) < at(m) /\ \A t \in H : at(t) < at(m) => at(t) <= at(s)
    BY <1>3, <2>1, <2>3
  <2>5. ASSUME NEW x \in H, at(x) < at(m), \A t \in H : at(t) < at(m) => at(t) <= at(x)
        PROVE  x = s
    BY <1>3, <2>4, <2>5
  <2>6. QED
    BY <1>3, <2>2, <2>4, <2>5
<1>6. CASE ~ascending
  <2>1. SUFFICES ASSUME \A x \in H : ~(key[s] > key[x] /\ key[x] > key[m]) PROVE FALSE
    BY <1>6 DEF H, key
  <2>2. Section(profile, mods, m, ascending)
          = {x \in H : at(x) > at(m) /\ \A t \in H : at(t) > at(m) => at(t) >= at(x)}
    BY <1>4, <1>6
  <2>3. key[s] > key[m]
    BY <1>6 DEF key
  <2>4. at(s) > at(m) /\ \A t \in H : at(t) > at(m) => at(t) >= at(s)
    BY <1>3, <2>1, <2>3
  <2>5. ASSUME NEW x \in H, at(x) > at(m), \A t \in H : at(t) > at(m) => at(t) >= at(x)
        PROVE  x = s
    BY <1>3, <2>4, <2>5
  <2>6. QED
    BY <1>3, <2>2, <2>4, <2>5
<1>7. QED
  BY <1>5, <1>6

\* Mods that are sent to a separator are in its section then (ModListViewActions::
\* sendModsToSeparator), for every list, any mods that are no separators and both orders
\* in which the list is shown. Two cases are left out, in which the code does otherwise: a
\* single mod that is in the section already, and in descending order a separator with
\* priority 0.
THEOREM SentToSection ==
  ASSUME NEW mods, IsCollection(mods), NEW profile, ListInOrder(profile, mods),
         NEW sent, sent \subseteq Managed(mods) \ Separators,
         NEW s, s \in Heads(mods), NEW ascending, ascending \in BOOLEAN,
         ascending \/ Place(profile, mods, s) # 0,
         \A x \in sent : ~(sent = {x} /\ Section(profile, mods, x, ascending) = {s}),
         NEW after, after \in SendModsToSeparator(profile, mods, IndicesOf(mods, sent),
                                                  Index(mods, s), ascending),
         NEW m, m \in sent
  PROVE  Section(after, mods, m, ascending) = {s}
<1> DEFINE D == IndicesOf(mods, sent)
           key == OrderKey(profile, mods)
           M == Managed(mods)
           single == \E i \in D : D = {i}
<1>1. PICK target \in SeparatorPriorities(profile, mods, D, Index(mods, s), ascending) :
             after = ChangeModsPriority(profile, mods, D, target)
  BY DEF SendModsToSeparator
<1>2. /\ \A x \in M : /\ mods[Index(mods, x)] = x /\ Index(mods, x) \in DOMAIN mods
                      /\ key[x] = profile.status[Index(mods, x)].priority
                      /\ key[x] \in Nat /\ key[x] = Place(profile, mods, x)
      /\ \A x, y \in M : key[x] = key[y] => x = y
  <2>1. \A x \in M : Place(profile, mods, x) = profile.status[Index(mods, x)].priority
    BY DEF Place, PriorityOf
  <2>2. \A x \in M : key[x] \in 0..(profile.managed - 1) /\ profile.managed \in Nat
    BY ManagedPlaces, MovablePlaces
  <2>3. QED
    BY <2>1, <2>2, ManagedPlaces DEF Keys
<1>3. /\ s \in M /\ s \in Separators /\ s \in Heads(mods) /\ m \in M /\ m \notin Separators
      /\ sent \subseteq M
  BY HeadsAreManaged DEF Heads
<1>4. Selected(D, mods) /\ \A x \in M : Index(mods, x) \in D <=> x \in sent
  BY <1>3, ChosenIndices
<1>5. ascending \/ key[s] > 0
  BY <1>2, <1>3
<1>6. PICK T \in Nat : /\ EndsAt(mods, key, s, T, ascending)
                       /\ target = IF \E i \in D : D = {i} /\ profile.status[i].priority < key[s]
                                   THEN T - 1 ELSE T
  <2> HIDE DEF D
  <2>1. ascending \/ OrderKey(profile, mods)[s] > 0
    BY <1>5
  <2>2. QED
    BY <1>3, <2>1, SeparatorEnds
<1>7. CASE single
  <2>1. sent = {m} /\ D = {Index(mods, m)}
    <3>1. Index(mods, m) \in D
      BY <1>3, <1>4
    <3>2. D = {Index(mods, m)}
      BY <1>7, <3>1
    <3>3. \A x \in sent : Index(mods, x) \in D
      BY <1>3, <1>4
    <3>4. \A x \in sent : x = m
      BY <1>2, <1>3, <3>2, <3>3
    <3>5. QED
      BY <3>2, <3>4
  <2> HIDE DEF D
  <2>2. after = SetModPriority(profile, mods, Index(mods, m), target).profile
    <3>1. (CHOOSE i \in D : TRUE) = Index(mods, m)
      BY <2>1
    <3>2. after = IF single THEN SetModPriority(profile, mods, CHOOSE i \in D : TRUE, target).profile
                  ELSE ChangeModPriority(profile, mods, D, target)
      BY <1>1, Zenon DEF ChangeModsPriority
    <3>3. QED
      BY <1>7, <3>1, <3>2
  <2>3. target = IF key[m] < key[s] THEN T - 1 ELSE T
    BY <1>2, <1>3, <1>6, <2>1
  <2>4. Section(profile, mods, m, ascending) # {s}
    BY <2>1
  <2>5. \A x \in Heads(mods) : x \in M
    BY HeadsAreManaged
  <2>6. /\ key[m] # key[s] /\ key[m] \in Nat /\ key[s] \in Nat
        /\ \A x \in Heads(mods) : key[x] \in Nat
    BY <1>2, <1>3, <2>5
  <2> HIDE DEF key
  <2>7. (target = T - 1 /\ key[m] < T - 1) \/ (target = T /\ T < key[m])
    <3>1. CASE key[m] < key[s]
      <4>1. CASE ascending
        BY <1>6, <2>3, <2>6, <3>1, <4>1 DEF EndsAt
      <4>2. CASE ~ascending
        <5>1. PICK x \in Heads(mods) : key[s] > key[x] /\ key[x] > key[m]
          BY <1>3, <2>4, <2>6, <3>1, <4>2, OutOfSection DEF key
        <5>2. key[x] < T
          BY <1>6, <2>6, <4>2, <5>1 DEF EndsAt
        <5>3. QED
          BY <2>3, <2>6, <3>1, <5>1, <5>2
      <4>3. QED
        BY <4>1, <4>2
    <3>2. CASE key[m] > key[s]
      <4>1. CASE ascending
        <5>1. PICK x \in Heads(mods) : key[s] < key[x] /\ key[x] < key[m]
          BY <1>3, <2>4, <2>6, <3>2, <4>1, OutOfSection DEF key
        <5>2. key[x] >= T
          BY <1>6, <2>6, <4>1, <5>1 DEF EndsAt
        <5>3. QED
          BY <2>3, <2>6, <3>2, <5>1, <5>2
      <4>2. CASE ~ascending
        BY <1>6, <2>3, <2>6, <3>2, <4>2 DEF EndsAt
      <4>3. QED
        BY <4>1, <4>2
    <3>3. QED
      BY <2>6, <3>1, <3>2
  <2>8. target \in Int
    BY <2>3
  <2>9. /\ ListInOrder(after, mods)
        /\ PutAt(Managed(mods), {m}, OrderKey(profile, mods), OrderKey(after, mods), T)
    BY <1>3, <2>2, <2>7, <2>8, PlacedIsPut DEF key
  <2>10. QED
    <3>1. {m} \subseteq Managed(mods) \ Separators /\ m \in {m} /\ T \in Int
      BY <1>3
    <3>2. EndsAt(mods, OrderKey(profile, mods), s, T, ascending)
      BY <1>6 DEF key
    <3>3. QED
      BY <1>3, <2>9, <3>1, <3>2, PutInSection
<1>8. CASE ~single
  <2>1. after = ChangeModPriority(profile, mods, D, target)
    <3>1. after = IF single THEN SetModPriority(profile, mods, CHOOSE i \in D : TRUE, target).profile
                  ELSE ChangeModPriority(profile, mods, D, target)
      BY <1>1, Zenon DEF ChangeModsPriority
    <3>2. QED
      BY <1>8, <3>1
  <2>2. target = T
    BY <1>6, <1>8
  <2>3. /\ ListInOrder(after, mods)
        /\ PutAt(Managed(mods), sent, OrderKey(profile, mods), OrderKey(after, mods), T)
    BY <1>3, <2>1, <2>2, DroppedArePut
  <2>4. T \in Int /\ EndsAt(mods, OrderKey(profile, mods), s, T, ascending)
    BY <1>6
  <2>5. QED
    BY <2>3, <2>4, PutInSection
<1>9. QED
  BY <1>7, <1>8

-----------------------------------------------------------------------------
(* The instance *)

\* A finite set of mods with the overwrite directory makes a collection.
LEMMA CollectionOf ==
  ASSUME NEW all, all \subseteq Mods, IsFiniteSet(all), Overwrite \in all
  PROVE  IsCollection(Collection(all)) /\ ToSet(Collection(all)) = all
<1>1. IsCollection(Collection(all))
  BY DEF IsCollection
<1>2. ToSet(Collection(all)) = all
  BY CollectionLists
<1>3. QED
  BY <1>1, <1>2

\* A profile of an order of the mods is one that refreshModStatus makes of a file.
LEMMA ProfilesInOrder ==
  ASSUME NEW mods, IsCollection(mods), NEW profile, profile \in Profiles(mods)
  PROVE  ListInOrder(profile, mods)
<1> DEFINE managed == Managed(mods)
<1>1. PICK f \in [1..Cardinality(managed) -> managed] :
         profile = RefreshModStatus([k \in DOMAIN f |-> FileLine(f[k], TRUE)], mods).profile
  BY DEF Profiles
<1> DEFINE n == Cardinality(managed)
           file == [k \in 1..n |-> FileLine(f[k], TRUE)]
<1>2. managed \subseteq Nat
  BY CollectionFacts, KindsAssumption DEF Managed
<1>3. n \in Nat
  <2>1. IsFiniteSet(ToSet(mods)) /\ managed \subseteq ToSet(mods)
    BY CollectionFacts DEF Managed
  <2>2. QED
    BY <2>1, FS_Subset, FS_CardinalityType
<1>4. file = [k \in DOMAIN f |-> FileLine(f[k], TRUE)]
  OBVIOUS
<1>5. file = [k \in 1..n |-> file[k]] /\ \A k \in 1..n : file[k] \in Lines
  BY <1>2 DEF FileLine, Lines
<1> HIDE DEF n, file
<1>6. file \in Seq(Lines)
  BY <1>3, <1>5
<1>7. ListInOrder(RefreshModStatus(file, mods).profile, mods)
  BY <1>6, ReadInOrder
<1>8. QED
  BY <1>1, <1>4, <1>7

\* The files that are laid out are files.
LEMMA FilesHaveLines ==
  ASSUME NEW file, file \in Files
  PROVE  file \in Seq(Lines)
<1>1. LayoutMods \subseteq Nat /\ MaxLines \in 1..3
  BY InstanceAssumption, KindsAssumption
<1>2. CASE file \in BoundedSeq({FileLine(m, on) : m \in LayoutMods, on \in BOOLEAN}, MaxLines - 1)
  <2> DEFINE S == {FileLine(m, on) : m \in LayoutMods, on \in BOOLEAN}
  <2>1. S \subseteq Lines
    BY <1>1 DEF FileLine, Lines
  <2> HIDE DEF S
  <2>2. file \in UNION {[1..m -> S] : m \in 0..(MaxLines - 1)}
    BY <1>2 DEF BoundedSeq, SeqOf, S
  <2>3. PICK m \in 0..(MaxLines - 1) : file \in [1..m -> S]
    BY <2>2
  <2>4. m \in Nat
    BY <1>1
  <2>5. QED
    BY <2>1, <2>3, <2>4
<1>3. CASE \E mods \in [1..MaxLines -> LayoutMods] :
             file = [k \in DOMAIN mods |-> FileLine(mods[k], FileFlags[k])]
  <2>1. PICK mods \in [1..MaxLines -> LayoutMods] :
               file = [k \in DOMAIN mods |-> FileLine(mods[k], FileFlags[k])]
    BY <1>3
  <2>2. file = [k \in 1..MaxLines |-> FileLine(mods[k], FileFlags[k])]
    BY <2>1
  <2>3. \A k \in 1..MaxLines : FileFlags[k] \in BOOLEAN
    <3>1. 1..MaxLines \subseteq {1, 2, 3}
      BY <1>1
    <3>2. \A k \in {1, 2, 3} : FileFlags[k] \in BOOLEAN
      BY Zenon, FileFlags[1] = TRUE, FileFlags[2] = FALSE, FileFlags[3] = TRUE DEF FileFlags
    <3>3. QED
      BY <3>1, <3>2
  <2>4. \A k \in 1..MaxLines : FileLine(mods[k], FileFlags[k]) \in Lines
    BY <1>1, <2>3 DEF FileLine, Lines
  <2>5. MaxLines \in Nat
    BY <1>1
  <2>6. QED
    BY <2>2, <2>4, <2>5
<1>4. QED
  BY <1>2, <1>3 DEF Files

\* Every file of the instance is laid out, because every file is.
LEMMA AllLaidOut == LayingOut
<1>1. SUFFICES ASSUME NEW file \in Files, NEW mods \in Collections PROVE LaidOut(file, mods)
  BY DEF LayingOut
<1>2. PICK some \in SUBSET LayoutMods : mods = Collection(some \cup {Overwrite})
  BY DEF Collections
<1>3. /\ some \cup {Overwrite} \subseteq Mods /\ IsFiniteSet(some \cup {Overwrite})
      /\ Overwrite \in some \cup {Overwrite}
  <2>1. IsFiniteSet(some)
    BY InstanceAssumption, FS_Subset
  <2>2. IsFiniteSet(some \cup {Overwrite})
    BY <2>1, FS_AddElement
  <2>3. QED
    BY <2>2, InstanceAssumption DEF Mods
<1>4. IsCollection(mods)
  BY <1>2, <1>3, CollectionOf
<1>5. file \in Seq(Lines)
  BY FilesHaveLines
<1>6. QED
  BY <1>4, <1>5, AnyFileLaidOut

\* The lists of the instance are reordered as promised, because every list is.
LEMMA AllDropped == Dropping
<1> DEFINE mods == Collection(MovedMods)
<1>1. IsCollection(mods)
  BY InstanceAssumption, CollectionOf
<1> HIDE DEF mods
<1>2. ASSUME NEW profile \in Profiles(mods), NEW dropped \in (SUBSET Managed(mods)) \ {{}},
             NEW target \in 0..MaximumPriority(mods)
      PROVE  Order(ChangeModPriority(profile, mods, {Index(mods, m) : m \in dropped}, target), mods)
               = DroppedOrder(profile, mods, dropped, target)
  <2>1. ListInOrder(profile, mods)
    BY <1>1, ProfilesInOrder
  <2>2. dropped \subseteq Managed(mods) /\ target \in Nat
    BY <1>1, CollectionFacts DEF MaximumPriority
  <2>3. IndicesOf(mods, dropped) = {Index(mods, m) : m \in dropped}
    BY DEF IndicesOf
  <2>4. QED
    BY <1>1, <2>1, <2>2, <2>3, DroppedTogether
<1>3. QED
  BY <1>2 DEF Dropping, mods

\* As above, for a single mod.
LEMMA AllPlaced == Placing
<1> DEFINE mods == Collection(MovedMods)
<1>1. IsCollection(mods)
  BY InstanceAssumption, CollectionOf
<1> HIDE DEF mods
<1>2. ASSUME NEW profile \in Profiles(mods), NEW m \in Managed(mods),
             NEW target \in -1..MaximumPriority(mods)
      PROVE  Order(SetModPriority(profile, mods, Index(mods, m), target).profile, mods)
               = PlacedOrder(profile, mods, m, target)
  <2>1. ListInOrder(profile, mods)
    BY <1>1, ProfilesInOrder
  <2>2. target \in Int
    BY <1>1, CollectionFacts DEF MaximumPriority
  <2>3. QED
    BY <1>1, <2>1, <2>2, PlacedAmongOthers
<1>3. QED
  BY <1>2 DEF Placing, mods

\* As above, for mods sent to a separator.
LEMMA AllSent == Sending
<1> DEFINE mods == Collection(SectionMods)
           plain == Managed(mods) \ Separators
<1>1. IsCollection(mods) /\ ToSet(mods) = SectionMods
  BY InstanceAssumption, CollectionOf
<1> HIDE DEF mods
<1>2. ASSUME NEW profile \in Profiles(mods), NEW sent \in (SUBSET plain) \ {{}},
             NEW s \in Separators \cap SectionMods, NEW ascending \in BOOLEAN,
             ~(~ascending /\ Place(profile, mods, s) = 0),
             ~\E m \in sent : sent = {m} /\ Section(profile, mods, m, ascending) = {s},
             NEW after \in SendModsToSeparator(profile, mods, {Index(mods, m) : m \in sent},
                                               Index(mods, s), ascending),
             NEW m \in sent
      PROVE  Section(after, mods, m, ascending) = {s}
  <2>1. ListInOrder(profile, mods)
    BY <1>1, ProfilesInOrder
  <2>2. sent \subseteq Managed(mods) \ Separators /\ s \in Heads(mods)
    BY <1>1 DEF Heads
  <2>3. IndicesOf(mods, sent) = {Index(mods, x) : x \in sent}
    BY DEF IndicesOf
  <2>4. after \in SendModsToSeparator(profile, mods, IndicesOf(mods, sent), Index(mods, s), ascending)
    BY <2>3
  <2>5. ascending \/ Place(profile, mods, s) # 0
    BY <1>2
  <2>6. \A x \in sent : ~(sent = {x} /\ Section(profile, mods, x, ascending) = {s})
    BY <1>2
  <2>7. QED
    BY <1>1, <2>1, <2>2, <2>4, <2>5, <2>6, SentToSection
<1>3. QED
  BY <1>2 DEF Sending, mods

\* As above, for mods that are shifted.
LEMMA AllShifted == Shifting
<1> DEFINE mods == Collection(MovedMods)
<1>1. IsCollection(mods)
  BY InstanceAssumption, CollectionOf
<1> HIDE DEF mods
<1>2. ASSUME NEW profile \in Profiles(mods), NEW shifted \in (SUBSET Managed(mods)) \ {{}},
             NEW by \in {-1, 1},
             ~\E m \in shifted :
                Place(profile, mods, m) = IF by > 0 THEN Cardinality(Managed(mods)) - 1 ELSE 0,
             NEW m \in shifted
      PROVE  Place(ShiftModsPriority(profile, mods, {Index(mods, x) : x \in shifted}, by), mods, m)
               = Place(profile, mods, m) + by
  <2>1. ListInOrder(profile, mods)
    BY <1>1, ProfilesInOrder
  <2>2. shifted \subseteq Managed(mods)
    OBVIOUS
  <2>3. IndicesOf(mods, shifted) = {Index(mods, x) : x \in shifted}
    BY DEF IndicesOf
  <2>4. PICK limit : limit = IF by > 0 THEN Cardinality(Managed(mods)) - 1 ELSE 0
    OBVIOUS
  <2>5. \A x \in shifted : Place(profile, mods, x) # limit
    BY <1>2, <2>4
  <2>6. \A x \in shifted :
          Place(ShiftModsPriority(profile, mods, IndicesOf(mods, shifted), by), mods, x)
            = Place(profile, mods, x) + by
    BY <1>1, <2>1, <2>2, <2>4, <2>5, ShiftedByOne
  <2>7. QED
    BY <2>3, <2>6
<1>3. QED
  BY <1>2 DEF Shifting, mods

\* Whatever is in modlist.txt, refreshModStatus makes one order of it and what
\* doWriteModlist writes reads back the same: the invariant AnyFileIsLaidOut, whatever
\* mods and files the instance is about.
THEOREM InstanceLaidOut == Spec => []AnyFileIsLaidOut
<1>1. AnyFileIsLaidOut
  BY AllLaidOut DEF AnyFileIsLaidOut
<1>2. QED
  BY <1>1, PTL

\* Dropping, placing, sending and shifting mods do what the user means by them: the
\* invariant ReordersAsAsked, whatever mods the instance is about.
THEOREM ReorderedAsAsked == Spec => []ReordersAsAsked
<1>1. ReordersAsAsked
  BY AllDropped, AllPlaced, AllSent, AllShifted DEF ReordersAsAsked, Reordering
<1>2. QED
  BY <1>1, PTL
=============================================================================
