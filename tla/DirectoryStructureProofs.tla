----------------------- MODULE DirectoryStructureProofs -----------------------
(***************************************************************************)
(* The invariants of DirectoryStructure that hold for any mods, files,     *)
(* contents and load order, and for any number of workers and changes, and *)
(* the lemmas about FileEntry that they rest on; and that the structure    *)
(* keeps the promise of ConflictResolution as long as no mod ships a file  *)
(* twice.                                                                  *)
(***************************************************************************)
EXTENDS DirectoryStructure, SequenceTheorems, FiniteSetTheorems, TLAPS

-----------------------------------------------------------------------------
(* What the operations of FileEntry do to an entry, for any origins and any *)
(* priorities: which origins it lists afterwards, and which one it takes    *)
(* the file from.                                                           *)

\* A nonempty set of naturals has a least element.
LEMMA LeastNatural ==
  ASSUME NEW T \in SUBSET Nat, T # {}
  PROVE  \E n \in T : \A m \in T : n <= m
<1>1. IsWellFoundedOn(OpToRel(<, Nat), Nat)
  BY NatLessThanWellFounded
<1>2. \E n \in T : \A m \in T : ~(<<m, n>> \in OpToRel(<, Nat))
  BY <1>1, WFMin, Zenon
<1>3. ASSUME NEW n \in T, NEW m \in T, m < n
      PROVE  <<m, n>> \in OpToRel(<, Nat)
  BY <1>3, m \in Nat, n \in Nat DEF OpToRel
<1>4. PICK n \in T : \A m \in T : ~(<<m, n>> \in OpToRel(<, Nat))
  BY <1>2
<1>5. \A m \in T : ~(m < n)
  BY <1>3, <1>4, Zenon
<1>6. \A m \in T : n <= m
  BY <1>5, T \subseteq Nat
<1>7. QED
  BY <1>6

\* The first alternative the loop of addOrigin stops at is one it stops at.
LEMMA LeastIndexIn ==
  ASSUME NEW S \in SUBSET Nat, S # {}
  PROVE  LeastIndex(S) \in S
BY LeastNatural DEF LeastIndex

\* The positions of a sequence of n elements.
LEMMA PositionsCount ==
  ASSUME NEW n \in Nat
  PROVE  IsFiniteSet(1..n) /\ Cardinality(1..n) = n
BY FS_Interval

-----------------------------------------------------------------------------
(* Sequences of providers *)

\* A concatenation has the elements of both of its parts.
LEMMA ConcatRange ==
  ASSUME NEW T, NEW s \in Seq(T), NEW t \in Seq(T)
  PROVE  s \o t \in Seq(T) /\ Range(s \o t) = Range(s) \cup Range(t)
BY ConcatProperties, RangeConcatenation

\* Append adds its element to those of the sequence.
LEMMA AppendRange ==
  ASSUME NEW T, NEW s \in Seq(T), NEW p \in T
  PROVE  Append(s, p) \in Seq(T) /\ Range(Append(s, p)) = Range(s) \cup {p}
<1> DEFINE q == <<p>>
<1>1. q \in Seq(T) /\ Range(q) = {p}
  BY DEF Range
<1>2. Append(s, p) = s \o q
  BY AppendIsConcat
<1> HIDE DEF q
<1>3. QED
  BY <1>1, <1>2, ConcatRange

\* A sequence falls apart before and behind any of its elements.
LEMMA SplitRange ==
  ASSUME NEW T, NEW s \in Seq(T), NEW i \in 1..Len(s)
  PROVE  /\ SubSeq(s, 1, i - 1) \in Seq(T)
         /\ SubSeq(s, i, Len(s)) \in Seq(T)
         /\ SubSeq(s, i + 1, Len(s)) \in Seq(T)
         /\ Range(s) = Range(SubSeq(s, 1, i - 1)) \cup Range(SubSeq(s, i, Len(s)))
         /\ Range(SubSeq(s, i, Len(s))) = {s[i]} \cup Range(SubSeq(s, i + 1, Len(s)))
<1>1. Len(s) \in Nat /\ \A j \in 1..Len(s) : s[j] \in T
  BY LenProperties, ElementOfSeq
<1>2. SubSeq(s, 1, i - 1) \in Seq(T)
  BY <1>1, SubSeqProperties
<1>3. SubSeq(s, i, Len(s)) \in Seq(T)
  BY <1>1, SubSeqProperties
<1>4. SubSeq(s, i + 1, Len(s)) \in Seq(T)
  BY <1>1, SubSeqProperties
<1>5. SubSeq(s, 1, i - 1) \o SubSeq(s, i, Len(s)) = s
  <2>1. 1 \in 1..(Len(s) + 1) /\ i - 1 \in (1 - 1)..Len(s) /\ Len(s) \in (i - 1)..Len(s)
    BY <1>1
  <2>2. SubSeq(s, 1, i - 1) \o SubSeq(s, (i - 1) + 1, Len(s)) = SubSeq(s, 1, Len(s))
    BY <2>1, ConcatAdjacentSubSeq
  <2>3. QED
    BY <1>1, <2>2, SubSeqFull
<1> DEFINE h == <<s[i]>>
           r == SubSeq(s, i + 1, Len(s))
<1>6. SubSeq(s, i, Len(s)) = h \o r
  BY <1>1, SubSeqRecursiveFirst
<1>7. h \in Seq(T) /\ Range(h) = {s[i]}
  BY <1>1 DEF Range
<1>8. Range(s) = Range(SubSeq(s, 1, i - 1)) \cup Range(SubSeq(s, i, Len(s)))
  BY <1>2, <1>3, <1>5, ConcatRange
<1>9. Range(SubSeq(s, i, Len(s))) = {s[i]} \cup Range(r)
  <2>1. r \in Seq(T)
    BY <1>4
  <2> HIDE DEF h, r
  <2>2. QED
    BY <1>6, <1>7, <2>1, ConcatRange
<1>10. QED
  BY <1>2, <1>3, <1>4, <1>8, <1>9

\* Inserting an element keeps all others and adds nothing else.
LEMMA InsertionRange ==
  ASSUME NEW T, NEW s \in Seq(T), NEW p \in T, NEW i \in 1..Len(s)
  PROVE  LET t == SubSeq(s, 1, i - 1) \o <<p>> \o SubSeq(s, i, Len(s))
         IN  t \in Seq(T) /\ Range(t) = Range(s) \cup {p}
<1> DEFINE l  == SubSeq(s, 1, i - 1)
           m  == <<p>>
           lm == l \o m
           r  == SubSeq(s, i, Len(s))
<1>1. l \in Seq(T) /\ r \in Seq(T) /\ Range(s) = Range(l) \cup Range(r)
  BY SplitRange
<1>2. m \in Seq(T) /\ Range(m) = {p}
  BY DEF Range
<1>3. SUFFICES lm \o r \in Seq(T) /\ Range(lm \o r) = Range(s) \cup {p}
  OBVIOUS
<1> HIDE DEF l, m, r
<1>4. lm \in Seq(T) /\ Range(lm) = Range(l) \cup {p}
  BY <1>1, <1>2, ConcatRange
<1> HIDE DEF lm
<1>5. lm \o r \in Seq(T) /\ Range(lm \o r) = Range(lm) \cup Range(r)
  BY <1>1, <1>4, ConcatRange
<1>6. QED
  BY <1>1, <1>4, <1>5

\* Erasing one element keeps all others.
LEMMA RemovalRange ==
  ASSUME NEW T, NEW s \in Seq(T), NEW i \in 1..Len(s)
  PROVE  LET t == SubSeq(s, 1, i - 1) \o SubSeq(s, i + 1, Len(s))
         IN  t \in Seq(T) /\ Range(s) = Range(t) \cup {s[i]}
<1> DEFINE l == SubSeq(s, 1, i - 1)
           r == SubSeq(s, i + 1, Len(s))
<1>1. l \in Seq(T) /\ r \in Seq(T) /\ Range(s) = Range(l) \cup {s[i]} \cup Range(r)
  BY SplitRange
<1>2. SUFFICES l \o r \in Seq(T) /\ Range(s) = Range(l \o r) \cup {s[i]}
  OBVIOUS
<1> HIDE DEF l, r
<1>3. l \o r \in Seq(T) /\ Range(l \o r) = Range(l) \cup Range(r)
  BY <1>1, ConcatRange
<1>4. QED
  BY <1>1, <1>3

-----------------------------------------------------------------------------
(* Entries *)

\* The parts of an entry: every provider it names is one of the origins.
LEMMA EntryProviders ==
  ASSUME NEW Sources, NEW FileNames, NEW e \in Entry(Sources, FileNames), NoOrigin \notin Sources
  PROVE  /\ e.name \in FileNames
         /\ e.main \in Provider(Sources) \cup {NoProvider}
         /\ e.alternatives \in Seq(Provider(Sources))
         /\ Range(e.alternatives) \subseteq Provider(Sources)
         /\ ProvidersOf(e) \subseteq Provider(Sources)
         /\ NoProvider \notin Provider(Sources)
         /\ \A p \in Provider(Sources) : p.origin \in Sources
<1>1. /\ e.name \in FileNames
      /\ e.main \in Provider(Sources) \cup {NoProvider}
      /\ e.alternatives \in Seq(Provider(Sources))
  BY DEF Entry
<1>2. Range(e.alternatives) \subseteq Provider(Sources)
  BY <1>1, RangeOfSeq
<1>3. /\ NoProvider \notin Provider(Sources)
      /\ \A p \in Provider(Sources) : p.origin \in Sources
  BY DEF Provider, NoProvider
<1>4. QED
  BY <1>1, <1>2, <1>3 DEF ProvidersOf

\* A new entry is one without a provider.
LEMMA NewEntryProperties ==
  ASSUME NEW Sources, NEW FileNames, NEW f \in FileNames
  PROVE  NewEntry(f) \in Entry(Sources, FileNames) /\ NewEntry(f).name = f
BY DEF NewEntry, Entry

\* The alternatives after the loop of addOrigin.
LEMMA WithAlternativeProperties ==
  ASSUME NEW Sources, NEW prio, NEW alts \in Seq(Provider(Sources)), NEW p \in Provider(Sources)
  PROVE  LET after == WithAlternative(prio, alts, p)
         IN  /\ after \in Seq(Provider(Sources))
             /\ Range(alts) \subseteq Range(after)
             /\ Range(after) \subseteq Range(alts) \cup {p}
             /\ \E q \in Range(after) : q.origin = p.origin
<1> DEFINE stops == {i \in DOMAIN alts : \/ alts[i].origin = p.origin
                                         \/ prio[alts[i].origin] < prio[p.origin]}
           first == LeastIndex(stops)
           after == WithAlternative(prio, alts, p)
<1>1. Len(alts) \in Nat /\ DOMAIN alts = 1..Len(alts)
  BY LenProperties
<1>2. stops \in SUBSET Nat
  BY <1>1
<1>3. CASE stops = {}
  <2>1. after = Append(alts, p)
    BY <1>3 DEF WithAlternative
  <2>2. QED
    BY <2>1, AppendRange
<1>4. CASE stops # {}
  <2>1. first \in stops
    BY <1>2, <1>4, LeastIndexIn
  <2>2. CASE alts[first].origin = p.origin
    <3>1. after = alts
      BY <1>4, <2>2 DEF WithAlternative
    <3>2. alts[first] \in Range(alts)
      BY <2>1 DEF Range
    <3>3. QED
      BY <2>2, <3>1, <3>2
  <2>3. CASE alts[first].origin # p.origin
    <3>1. after = SubSeq(alts, 1, first - 1) \o <<p>> \o SubSeq(alts, first, Len(alts))
      BY <1>4, <2>3 DEF WithAlternative
    <3>2. first \in 1..Len(alts)
      BY <1>1, <2>1
    <3> HIDE DEF first
    <3>3. after \in Seq(Provider(Sources)) /\ Range(after) = Range(alts) \cup {p}
      BY <3>1, <3>2, InsertionRange
    <3>4. QED
      BY <3>3
  <2>4. QED
    BY <2>2, <2>3
<1>5. QED
  BY <1>3, <1>4

\* addOrigin loses no origin: the entry lists those it listed and the new one,
\* and has a main provider.
LEMMA AddOriginProperties ==
  ASSUME NEW Sources, NEW FileNames, NEW prio,
         NEW e \in Entry(Sources, FileNames), NEW p \in Provider(Sources),
         NoOrigin \notin Sources
  PROVE  LET after == AddOrigin(prio, e, p)
         IN  /\ after \in Entry(Sources, FileNames)
             /\ after.name = e.name
             /\ after.main # NoProvider
             /\ OriginsOf(after) = OriginsOf(e) \cup {p.origin}
             /\ ProvidersOf(after) \subseteq ProvidersOf(e) \cup {p}
<1> DEFINE after == AddOrigin(prio, e, p)
           alts  == e.alternatives
<1>1. /\ e \in [name : FileNames, main : Provider(Sources) \cup {NoProvider},
                alternatives : Seq(Provider(Sources))]
      /\ NoProvider \notin Provider(Sources)
  BY EntryProviders DEF Entry
<1>2. CASE e.main = NoProvider
  <2>1. after = [e EXCEPT !.main = p]
    BY <1>2 DEF AddOrigin
  <2>2. QED
    BY <1>1, <1>2, <2>1 DEF Entry, OriginsOf, ProvidersOf
<1>3. CASE e.main # NoProvider /\ TakesOver(prio, p, e.main)
  <2>1. CASE HasAlternative(e, e.main.origin)
    <3>1. after = [e EXCEPT !.main = p]
      BY <1>1, <1>3, <2>1 DEF AddOrigin, Displace
    <3>2. /\ after \in Entry(Sources, FileNames) /\ after.name = e.name
          /\ after.main = p /\ after.alternatives = alts
      BY <1>1, <3>1 DEF Entry
    <3>3. \E q \in Range(alts) : q.origin = e.main.origin
      BY <2>1 DEF HasAlternative
    <3>4. QED
      BY <1>1, <1>3, <3>2, <3>3 DEF OriginsOf, ProvidersOf
  <2>2. CASE ~HasAlternative(e, e.main.origin)
    <3>1. after = [e EXCEPT !.main = p, !.alternatives = Append(@, e.main)]
      BY <1>1, <1>3, <2>2 DEF AddOrigin, Displace
    <3>2. /\ Append(alts, e.main) \in Seq(Provider(Sources))
          /\ Range(Append(alts, e.main)) = Range(alts) \cup {e.main}
      BY <1>1, <1>3, AppendRange
    <3>3. /\ after \in Entry(Sources, FileNames) /\ after.name = e.name
          /\ after.main = p /\ after.alternatives = Append(alts, e.main)
      BY <1>1, <3>1, <3>2 DEF Entry
    <3>4. QED
      BY <1>1, <1>3, <3>2, <3>3 DEF OriginsOf, ProvidersOf
  <2>3. QED
    BY <2>1, <2>2
<1>4. CASE e.main # NoProvider /\ ~TakesOver(prio, p, e.main) /\ e.main.origin = p.origin
  <2>1. after = e
    BY <1>4 DEF AddOrigin
  <2>2. QED
    BY <1>1, <1>4, <2>1 DEF OriginsOf, ProvidersOf
<1>5. CASE e.main # NoProvider /\ ~TakesOver(prio, p, e.main) /\ e.main.origin # p.origin
  <2> DEFINE longer == WithAlternative(prio, alts, p)
  <2>1. after = [e EXCEPT !.alternatives = longer]
    BY <1>5 DEF AddOrigin
  <2>2. /\ longer \in Seq(Provider(Sources))
        /\ Range(alts) \subseteq Range(longer)
        /\ Range(longer) \subseteq Range(alts) \cup {p}
        /\ \E q \in Range(longer) : q.origin = p.origin
    BY <1>1, WithAlternativeProperties
  <2> HIDE DEF longer
  <2>3. /\ after \in Entry(Sources, FileNames) /\ after.name = e.name
        /\ after.main = e.main /\ after.alternatives = longer
    BY <1>1, <2>1, <2>2 DEF Entry
  <2>4. OriginsOf(after) = OriginsOf(e) \cup {p.origin}
    BY <1>1, <1>5, <2>2, <2>3 DEF OriginsOf, ProvidersOf
  <2>5. ProvidersOf(after) \subseteq ProvidersOf(e) \cup {p}
    BY <2>2, <2>3 DEF ProvidersOf
  <2>6. QED
    BY <1>5, <2>3, <2>4, <2>5
<1>6. QED
  BY <1>2, <1>3, <1>4, <1>5

\* What remains of the alternatives after std::remove_if are those kept.
LEMMA KeptProperties ==
  ASSUME NEW T, NEW s \in Seq(T), NEW keep \in SUBSET DOMAIN s, NEW k \in Kept(s, keep)
  PROVE  k \in Seq(T) /\ Range(k) = {s[i] : i \in keep}
<1>1. Len(s) \in Nat /\ DOMAIN s = 1..Len(s) /\ \A i \in 1..Len(s) : s[i] \in T
  BY LenProperties, ElementOfSeq
<1>2. Cardinality(keep) \in Nat
  <2>1. IsFiniteSet(1..Len(s))
    BY <1>1, FS_Interval
  <2>2. QED
    BY <1>1, <2>1, FS_Subset, FS_CardinalityType
<1> DEFINE n == Cardinality(keep)
<1>3. PICK g \in Surjection(1..n, keep) : k = [j \in DOMAIN g |-> s[g[j]]]
  BY DEF Kept
<1>4. g \in [1..n -> keep] /\ \A i \in keep : \E j \in 1..n : g[j] = i
  BY <1>3 DEF Surjection
<1> HIDE DEF n
<1>5. k \in [1..n -> T]
  BY <1>1, <1>3, <1>4
<1>6. n \in Nat
  BY <1>2 DEF n
<1>7. k \in Seq(T)
  BY <1>5, <1>6
<1>8. Range(k) = {s[i] : i \in keep}
  BY <1>3, <1>4 DEF Range
<1>9. QED
  BY <1>7, <1>8

\* removeOrigin takes no other origin out, adds none, and empties an entry
\* exactly when nobody is left.
LEMMA RemoveOriginProperties ==
  ASSUME NEW Sources, NEW FileNames, NEW prio, NEW o,
         NEW e \in Entry(Sources, FileNames), NEW after \in RemoveOrigin(prio, e, o),
         NoOrigin \notin Sources, e.main # NoProvider
  PROVE  /\ after \in Entry(Sources, FileNames)
         /\ after.name = e.name
         /\ OriginsOf(after) \subseteq OriginsOf(e)
         /\ OriginsOf(e) \ {o} \subseteq OriginsOf(after)
         /\ ProvidersOf(after) \subseteq ProvidersOf(e)
         /\ after.main = NoProvider => OriginsOf(after) = {}
<1> DEFINE alts == e.alternatives
<1>1. /\ e \in [name : FileNames, main : Provider(Sources) \cup {NoProvider},
                alternatives : Seq(Provider(Sources))]
      /\ NoProvider \notin Provider(Sources)
      /\ e.main \in Provider(Sources)
  BY EntryProviders DEF Entry
<1>2. Len(alts) \in Nat /\ DOMAIN alts = 1..Len(alts)
  BY <1>1, LenProperties
<1>3. CASE e.main.origin # o
  <2> DEFINE keep == {i \in DOMAIN alts : alts[i].origin # o}
  <2>1. PICK s \in Kept(alts, keep) : after = [e EXCEPT !.alternatives = s]
    BY <1>3 DEF RemoveOrigin
  <2>2. s \in Seq(Provider(Sources)) /\ Range(s) = {alts[i] : i \in keep}
    BY <1>1, KeptProperties
  <2>3. /\ after \in Entry(Sources, FileNames) /\ after.name = e.name
        /\ after.main = e.main /\ after.alternatives = s
    BY <1>1, <2>1, <2>2 DEF Entry
  <2>4. Range(s) \subseteq Range(alts) /\ \A q \in Range(alts) : q.origin # o => q \in Range(s)
    BY <2>2 DEF Range
  <2>5. QED
    BY <1>1, <2>3, <2>4 DEF OriginsOf, ProvidersOf
<1>4. CASE e.main.origin = o /\ alts = <<>>
  <2>1. after = [e EXCEPT !.main = NoProvider]
    BY <1>4 DEF RemoveOrigin
  <2>2. /\ after \in Entry(Sources, FileNames) /\ after.name = e.name
        /\ after.main = NoProvider /\ after.alternatives = alts
    BY <1>1, <2>1 DEF Entry
  <2>3. Range(alts) = {}
    BY <1>4 DEF Range
  <2>4. OriginsOf(after) = {} /\ OriginsOf(e) = {o} /\ ProvidersOf(after) = {}
    BY <1>1, <1>4, <2>2, <2>3 DEF OriginsOf, ProvidersOf
  <2>5. QED
    BY <2>2, <2>4
<1>5. CASE e.main.origin = o /\ alts # <<>>
  <2>1. PICK i \in Successors(prio, alts, o) :
          after = [e EXCEPT !.main = alts[i],
                            !.alternatives = SubSeq(alts, 1, i - 1)
                                               \o SubSeq(alts, i + 1, Len(alts))]
    BY <1>5 DEF RemoveOrigin
  <2>2. i \in 1..Len(alts)
    <3>1. Len(alts) # 0
      BY <1>1, <1>2, <1>5, EmptySeq
    <3>2. QED
      BY <1>2, <2>1, <3>1 DEF Successors
  <2> DEFINE rest == SubSeq(alts, 1, i - 1) \o SubSeq(alts, i + 1, Len(alts))
  <2>3. rest \in Seq(Provider(Sources)) /\ Range(alts) = Range(rest) \cup {alts[i]}
    BY <1>1, <2>2, RemovalRange
  <2>4. alts[i] \in Provider(Sources)
    BY <1>1, <2>2, ElementOfSeq
  <2>5. after = [e EXCEPT !.main = alts[i], !.alternatives = rest]
    BY <2>1
  <2> HIDE DEF rest
  <2>6. /\ after \in Entry(Sources, FileNames) /\ after.name = e.name
        /\ after.main = alts[i] /\ after.alternatives = rest
    BY <1>1, <2>3, <2>4, <2>5 DEF Entry
  <2>7. OriginsOf(e) = OriginsOf(after) \cup {o}
    BY <1>1, <1>5, <2>3, <2>4, <2>6 DEF OriginsOf, ProvidersOf
  <2>8. ProvidersOf(after) \subseteq ProvidersOf(e)
    BY <2>3, <2>6 DEF ProvidersOf
  <2>9. QED
    BY <1>1, <2>4, <2>6, <2>7, <2>8
<1>6. QED
  BY <1>3, <1>4, <1>5

\* Sorting an entry keeps its providers, and the one it takes the file from
\* afterwards is overridden by none of them.
LEMMA SortOriginsProperties ==
  ASSUME NEW Sources, NEW FileNames, NEW prio \in [Sources -> Int],
         NEW e \in Entry(Sources, FileNames), NEW after \in SortOrigins(prio, e),
         NoOrigin \notin Sources, e.main # NoProvider
  PROVE  /\ after \in Entry(Sources, FileNames)
         /\ after.name = e.name
         /\ after.main # NoProvider
         /\ ProvidersOf(after) = ProvidersOf(e)
         /\ \A q \in ProvidersOf(e) : ~SortsBelow(prio, after.main, q)
<1> DEFINE all == Append(e.alternatives, e.main)
           n   == Len(all)
<1>1. /\ e \in [name : FileNames, main : Provider(Sources) \cup {NoProvider},
                alternatives : Seq(Provider(Sources))]
      /\ NoProvider \notin Provider(Sources)
      /\ e.main \in Provider(Sources)
  BY EntryProviders DEF Entry
<1>2. all \in Seq(Provider(Sources)) /\ n = Len(e.alternatives) + 1
  BY <1>1, AppendProperties
<1>3. Range(all) = ProvidersOf(e)
  BY <1>1, AppendRange DEF ProvidersOf
<1>4. n \in Nat \ {0} /\ DOMAIN all = 1..n
  BY <1>1, <1>2, LenProperties
<1>5. PICK r \in Bijection(1..n, 1..n) :
        /\ \A i, j \in 1..n : i < j => ~SortsBelow(prio, all[r[j]], all[r[i]])
        /\ after = [e EXCEPT !.main = all[r[n]],
                             !.alternatives = [i \in 1..(n-1) |-> all[r[i]]]]
  BY DEF SortOrigins
<1>6. r \in [1..n -> 1..n] /\ \A i \in 1..n : \E j \in 1..n : r[j] = i
  BY <1>5 DEF Bijection, Surjection, Injection
<1> DEFINE others == [i \in 1..(n-1) |-> all[r[i]]]
<1>7. \A i \in 1..n : all[r[i]] \in Provider(Sources)
  BY <1>2, <1>6, ElementOfSeq
<1> HIDE DEF all, n
<1>8. others \in Seq(Provider(Sources))
  <2>1. others \in [1..(n-1) -> Provider(Sources)] /\ n - 1 \in Nat
    BY <1>4, <1>7
  <2>2. QED
    BY <2>1
<1>9. after = [e EXCEPT !.main = all[r[n]], !.alternatives = others]
  BY <1>5
<1>10. Range(others) = {all[r[i]] : i \in 1..(n-1)}
  BY DEF Range
<1>11. n \in 1..n /\ 1..n = 1..(n-1) \cup {n}
  BY <1>4
<1> HIDE DEF others
<1>12. /\ after \in Entry(Sources, FileNames) /\ after.name = e.name
       /\ after.main = all[r[n]] /\ after.alternatives = others
  BY <1>1, <1>7, <1>8, <1>9, <1>11 DEF Entry
<1>13. after.main # NoProvider
  BY <1>1, <1>7, <1>11, <1>12
<1>14. ProvidersOf(after) = {all[r[i]] : i \in 1..n}
  BY <1>10, <1>11, <1>12, <1>13 DEF ProvidersOf
<1>15. {all[r[i]] : i \in 1..n} = Range(all)
  <2>1. \A i \in 1..n : all[r[i]] \in Range(all)
    BY <1>4, <1>6 DEF Range
  <2>2. \A j \in 1..n : all[j] \in {all[r[i]] : i \in 1..n}
    BY <1>6
  <2>3. Range(all) = {all[j] : j \in 1..n}
    BY <1>4 DEF Range
  <2>4. QED
    BY <2>1, <2>2, <2>3
<1>16. \A q \in ProvidersOf(e) : ~SortsBelow(prio, after.main, q)
  <2>1. SUFFICES ASSUME NEW i \in 1..n
                 PROVE  ~SortsBelow(prio, all[r[n]], all[r[i]])
    BY <1>3, <1>12, <1>15
  <2>2. CASE i = n
    <3>1. \A p \in Provider(Sources) : ~SortsBelow(prio, p, p)
      <4>1. \A m \in Int : ~(Rank(m) < Rank(m))
        BY UnsetAssumption DEF Rank
      <4>2. \A p \in Provider(Sources) : prio[p.origin] \in Int /\ p.order \in Int
        BY DEF Provider
      <4>3. QED
        BY <4>1, <4>2, Zenon DEF SortsBelow
    <3>2. QED
      BY <1>7, <2>2, <3>1
  <2>3. CASE i # n
    BY <1>4, <1>5, <1>11, <2>3
  <2>4. QED
    BY <2>2, <2>3
<1>17. QED
  BY <1>3, <1>12, <1>13, <1>14, <1>15, <1>16

-----------------------------------------------------------------------------
(* Counting *)

\* An entry lists each of its origins once.
Counted(e) == Len(e.alternatives) + 1 = Cardinality(OriginsOf(e))

\* An entry lists at most as many origins as it has providers.
LEMMA OriginsCount ==
  ASSUME NEW Sources, NEW FileNames, NEW e \in Entry(Sources, FileNames), NoOrigin \notin Sources
  PROVE  /\ IsFiniteSet(OriginsOf(e))
         /\ Cardinality(OriginsOf(e)) \in Nat
         /\ Len(e.alternatives) \in Nat
         /\ e.main # NoProvider => Cardinality(OriginsOf(e)) <= Len(e.alternatives) + 1
<1> DEFINE alts == e.alternatives
           n    == Len(alts)
           all  == 1..(n + 1)
           f    == [i \in all |-> IF i <= n THEN alts[i].origin ELSE e.main.origin]
<1>1. /\ alts \in Seq(Provider(Sources)) /\ n \in Nat /\ DOMAIN alts = 1..n
      /\ all \in SUBSET Nat
  BY EntryProviders, LenProperties
<1>2. IsFiniteSet(all) /\ Cardinality(all) = n + 1
  BY <1>1, FS_Interval
<1>3. all = 1..n \cup {n + 1}
  BY <1>1
<1>4. Range(alts) = {alts[i] : i \in 1..n}
  BY <1>1 DEF Range
<1> DEFINE T == {f[i] : i \in all}
<1>5. f \in Surjection(all, T)
  BY DEF Surjection
<1>6. IsFiniteSet(T) /\ Cardinality(T) <= n + 1 /\ Cardinality(T) \in Nat
  <2> HIDE DEF f, T, all
  <2>1. QED
    BY <1>2, <1>5, FS_Surjection, FS_CardinalityType
<1>7. T = {alts[i].origin : i \in 1..n} \cup {e.main.origin}
  <2>1. \A i \in 1..n : i \in all /\ f[i] = alts[i].origin
    BY <1>1
  <2>2. n + 1 \in all /\ f[n + 1] = e.main.origin
    BY <1>1
  <2> HIDE DEF all, f
  <2>3. QED
    BY <1>3, <2>1, <2>2
<1>8. OriginsOf(e) \subseteq T /\ (e.main # NoProvider => OriginsOf(e) = T)
  <2>1. {q.origin : q \in Range(alts)} = {alts[i].origin : i \in 1..n}
    BY <1>4
  <2>2. /\ OriginsOf(e) \subseteq {q.origin : q \in Range(alts)} \cup {e.main.origin}
        /\ {q.origin : q \in Range(alts)} \subseteq OriginsOf(e)
        /\ e.main # NoProvider => e.main.origin \in OriginsOf(e)
    BY DEF OriginsOf, ProvidersOf
  <2> HIDE DEF T
  <2>3. QED
    BY <1>7, <2>1, <2>2
<1> HIDE DEF T
<1>9. IsFiniteSet(OriginsOf(e)) /\ Cardinality(OriginsOf(e)) \in Nat
  BY <1>6, <1>8, FS_Subset, FS_CardinalityType
<1>10. QED
  BY <1>1, <1>6, <1>8, <1>9

\* The length of a concatenation.
LEMMA ConcatLength ==
  ASSUME NEW T, NEW s \in Seq(T), NEW t \in Seq(T)
  PROVE  s \o t \in Seq(T) /\ Len(s \o t) = Len(s) + Len(t)
BY ConcatProperties

\* The loop of addOrigin adds one alternative for an origin that is not there.
LEMMA WithAlternativeLength ==
  ASSUME NEW T, NEW prio, NEW alts \in Seq(T), NEW p \in T,
         \A q \in Range(alts) : q.origin # p.origin
  PROVE  Len(WithAlternative(prio, alts, p)) = Len(alts) + 1
<1> DEFINE stops == {i \in DOMAIN alts : \/ alts[i].origin = p.origin
                                         \/ prio[alts[i].origin] < prio[p.origin]}
           first == LeastIndex(stops)
<1>1. Len(alts) \in Nat /\ DOMAIN alts = 1..Len(alts) /\ stops \in SUBSET Nat
  BY LenProperties
<1>2. CASE stops = {}
  BY <1>2, AppendProperties DEF WithAlternative
<1>3. CASE stops # {}
  <2>1. first \in stops
    BY <1>1, <1>3, LeastIndexIn
  <2>2. first \in 1..Len(alts) /\ alts[first].origin # p.origin
    BY <1>1, <2>1 DEF Range
  <2> DEFINE l  == SubSeq(alts, 1, first - 1)
             m  == <<p>>
             lm == l \o m
             r  == SubSeq(alts, first, Len(alts))
  <2>3. WithAlternative(prio, alts, p) = lm \o r
    BY <1>3, <2>2 DEF WithAlternative
  <2> HIDE DEF first
  <2>4. \A i \in 1..Len(alts) : alts[i] \in T
    BY ElementOfSeq
  <2>5. /\ l \in Seq(T) /\ Len(l) = first - 1
        /\ r \in Seq(T) /\ Len(r) = Len(alts) - first + 1
    BY <1>1, <2>2, <2>4, SubSeqProperties
  <2>6. m \in Seq(T) /\ Len(m) = 1
    OBVIOUS
  <2> HIDE DEF l, m, r
  <2>7. lm \in Seq(T) /\ Len(lm) = Len(l) + 1
    <3>1. lm \in Seq(T) /\ Len(lm) = Len(l) + Len(m)
      BY <2>5, <2>6, ConcatLength
    <3>2. QED
      BY <2>6, <3>1
  <2> HIDE DEF lm
  <2>8. Len(lm \o r) = Len(lm) + Len(r)
    BY <2>5, <2>7, ConcatLength
  <2>9. QED
    BY <1>1, <2>2, <2>3, <2>5, <2>7, <2>8
<1>4. QED
  BY <1>2, <1>3

\* The origins of an entry after addOrigin.
LEMMA AddedOrigin ==
  ASSUME NEW Sources, NEW FileNames, NEW prio,
         NEW e \in Entry(Sources, FileNames), NEW p \in Provider(Sources),
         NoOrigin \notin Sources
  PROVE  OriginsOf(AddOrigin(prio, e, p)) = OriginsOf(e) \cup {p.origin}
BY AddOriginProperties

\* addOrigin counts a new origin once.
LEMMA AddOriginCounts ==
  ASSUME NEW Sources, NEW FileNames, NEW prio,
         NEW e \in Entry(Sources, FileNames), NEW p \in Provider(Sources),
         NoOrigin \notin Sources, p.origin \notin OriginsOf(e),
         e.main = NoProvider => e.alternatives = <<>>,
         e.main # NoProvider => Counted(e)
  PROVE  Counted(AddOrigin(prio, e, p))
<1> DEFINE after == AddOrigin(prio, e, p)
           alts  == e.alternatives
<1>1. /\ e \in [name : FileNames, main : Provider(Sources) \cup {NoProvider},
                alternatives : Seq(Provider(Sources))]
      /\ NoProvider \notin Provider(Sources)
      /\ Range(alts) \subseteq Provider(Sources)
  BY EntryProviders DEF Entry
<1>2. /\ IsFiniteSet(OriginsOf(e)) /\ Cardinality(OriginsOf(e)) \in Nat
      /\ Len(alts) \in Nat
  BY OriginsCount
<1>3. Cardinality(OriginsOf(after)) = Cardinality(OriginsOf(e)) + 1
  <2>1. OriginsOf(after) = OriginsOf(e) \cup {p.origin}
    BY AddedOrigin
  <2>2. QED
    BY <1>2, <2>1, FS_AddElement
<1>4. \A q \in Range(alts) : q.origin # p.origin
  BY <1>1 DEF OriginsOf, ProvidersOf
<1>5. CASE e.main = NoProvider
  <2>1. after = [e EXCEPT !.main = p]
    BY <1>5 DEF AddOrigin
  <2>2. after.alternatives = alts /\ alts = <<>>
    BY <1>1, <1>5, <2>1
  <2>3. Len(alts) = 0 /\ Range(alts) = {}
    BY <2>2 DEF Range
  <2>4. OriginsOf(e) = {}
    BY <1>5, <2>3 DEF OriginsOf, ProvidersOf
  <2>5. QED
    BY <1>3, <2>2, <2>3, <2>4, FS_EmptySet DEF Counted
<1>6. CASE e.main # NoProvider /\ TakesOver(prio, p, e.main)
  <2>1. ~HasAlternative(e, e.main.origin)
    <3>1. SUFFICES ASSUME NEW q \in Range(alts), q.origin = e.main.origin
                   PROVE  FALSE
      BY DEF HasAlternative
    <3> DEFINE origins == {x.origin : x \in Range(alts)}
               n == Len(alts)
               f == [i \in 1..n |-> alts[i].origin]
    <3>2. OriginsOf(e) = origins
      BY <1>6, <3>1 DEF OriginsOf, ProvidersOf
    <3>3. DOMAIN alts = 1..n /\ n \in Nat
      BY <1>1, LenProperties
    <3>4. Range(alts) = {alts[i] : i \in 1..n}
      BY <3>3 DEF Range
    <3>5. f \in Surjection(1..n, origins)
      BY <3>4 DEF Surjection
    <3> HIDE DEF f, origins, n
    <3>6. IsFiniteSet(1..n) /\ Cardinality(1..n) = n
      BY <3>3, PositionsCount
    <3>7. Cardinality(origins) <= n
      BY <3>5, <3>6, FS_Surjection
    <3>8. QED
      BY <1>2, <1>6, <3>2, <3>7 DEF Counted, n
  <2>2. after = [e EXCEPT !.main = p, !.alternatives = Append(@, e.main)]
    BY <1>1, <1>6, <2>1 DEF AddOrigin, Displace
  <2>3. after.alternatives = Append(alts, e.main)
    BY <1>1, <2>2
  <2>4. Len(after.alternatives) = Len(alts) + 1
    BY <1>1, <1>6, <2>3, AppendProperties
  <2>5. QED
    BY <1>2, <1>3, <1>6, <2>4 DEF Counted
<1>7. CASE e.main # NoProvider /\ ~TakesOver(prio, p, e.main)
  <2>1. e.main.origin # p.origin
    BY <1>7 DEF OriginsOf, ProvidersOf
  <2>2. after = [e EXCEPT !.alternatives = WithAlternative(prio, alts, p)]
    BY <1>7, <2>1 DEF AddOrigin
  <2>3. after.alternatives = WithAlternative(prio, alts, p)
    BY <1>1, <2>2
  <2>4. Len(after.alternatives) = Len(alts) + 1
    BY <1>1, <1>4, <2>3, WithAlternativeLength
  <2>5. QED
    BY <1>2, <1>3, <1>7, <2>4 DEF Counted
<1>8. QED
  BY <1>5, <1>6, <1>7

\* An entry that lists each origin once does not list a removed one any more,
\* and lists each of the others once.
LEMMA RemoveOriginCounts ==
  ASSUME NEW Sources, NEW FileNames, NEW prio, NEW o,
         NEW e \in Entry(Sources, FileNames), NEW after \in RemoveOrigin(prio, e, o),
         NoOrigin \notin Sources, e.main # NoProvider, Counted(e), o \in OriginsOf(e)
  PROVE  /\ OriginsOf(after) = OriginsOf(e) \ {o}
         /\ after.main # NoProvider => Counted(after)
<1> DEFINE alts == e.alternatives
           n    == Len(alts)
<1>1. /\ e \in [name : FileNames, main : Provider(Sources) \cup {NoProvider},
                alternatives : Seq(Provider(Sources))]
      /\ NoProvider \notin Provider(Sources)
      /\ e.main \in Provider(Sources)
  BY EntryProviders DEF Entry
<1>2. n \in Nat /\ DOMAIN alts = 1..n
  BY <1>1, LenProperties
<1>3. /\ IsFiniteSet(OriginsOf(e)) /\ Cardinality(OriginsOf(e)) = n + 1
      /\ IsFiniteSet(OriginsOf(e) \ {o}) /\ Cardinality(OriginsOf(e) \ {o}) = n
  BY <1>2, OriginsCount, FS_RemoveElement DEF Counted
<1>4. /\ after \in Entry(Sources, FileNames)
      /\ OriginsOf(after) \subseteq OriginsOf(e)
      /\ OriginsOf(e) \ {o} \subseteq OriginsOf(after)
      /\ after.main = NoProvider => OriginsOf(after) = {}
  BY RemoveOriginProperties
<1>5. /\ IsFiniteSet(OriginsOf(after)) /\ Cardinality(OriginsOf(after)) \in Nat
      /\ Len(after.alternatives) \in Nat
      /\ after.main # NoProvider =>
           Cardinality(OriginsOf(after)) <= Len(after.alternatives) + 1
  BY <1>4, OriginsCount
<1>6. n <= Cardinality(OriginsOf(after))
  BY <1>3, <1>4, <1>5, FS_Subset
<1>7. after.main # NoProvider => Len(after.alternatives) <= n - 1
  <2>1. CASE e.main.origin # o
    <3> DEFINE keep == {i \in DOMAIN alts : alts[i].origin # o}
    <3>1. PICK s \in Kept(alts, keep) : after = [e EXCEPT !.alternatives = s]
      BY <2>1 DEF RemoveOrigin
    <3>2. after.alternatives = s
      BY <1>1, <3>1
    <3>3. PICK i \in 1..n : alts[i].origin = o
      BY <1>2, <2>1 DEF OriginsOf, ProvidersOf, Range
    <3>4. keep \in SUBSET ((1..n) \ {i})
      BY <1>2, <3>3
    <3>5. IsFiniteSet((1..n) \ {i}) /\ Cardinality((1..n) \ {i}) = n - 1
      <4>1. IsFiniteSet(1..n) /\ Cardinality(1..n) = n
        BY <1>2, PositionsCount
      <4>2. QED
        BY <3>3, <4>1, FS_RemoveElement
    <3>6. IsFiniteSet(keep) /\ Cardinality(keep) \in Nat /\ Cardinality(keep) <= n - 1
      BY <3>4, <3>5, FS_Subset, FS_CardinalityType
    <3>7. Len(s) = Cardinality(keep)
      <4> DEFINE k == Cardinality(keep)
      <4>1. PICK g \in Surjection(1..k, keep) : s = [j \in DOMAIN g |-> alts[g[j]]]
        BY <3>1 DEF Kept
      <4>2. DOMAIN s = 1..k
        BY <4>1 DEF Surjection
      <4>3. s \in Seq(Provider(Sources))
        BY <1>1, <3>1, KeptProperties
      <4> HIDE DEF k
      <4>4. QED
        BY <3>6, <4>2, <4>3, LenProperties DEF k
    <3>8. QED
      BY <3>2, <3>6, <3>7
  <2>2. CASE e.main.origin = o /\ alts = <<>>
    <3>1. after = [e EXCEPT !.main = NoProvider]
      BY <2>2 DEF RemoveOrigin
    <3>2. QED
      BY <1>1, <3>1
  <2>3. CASE e.main.origin = o /\ alts # <<>>
    <3>1. PICK i \in Successors(prio, alts, o) :
            after = [e EXCEPT !.main = alts[i],
                              !.alternatives = SubSeq(alts, 1, i - 1)
                                                 \o SubSeq(alts, i + 1, Len(alts))]
      BY <2>3 DEF RemoveOrigin
    <3>2. i \in 1..n
      <4>1. n # 0
        BY <1>1, <1>2, <2>3, EmptySeq
      <4>2. QED
        BY <1>2, <3>1, <4>1 DEF Successors
    <3> DEFINE l == SubSeq(alts, 1, i - 1)
               r == SubSeq(alts, i + 1, Len(alts))
    <3>3. after.alternatives = l \o r
      BY <1>1, <3>1
    <3>4. \A j \in 1..n : alts[j] \in Provider(Sources)
      BY <1>1, ElementOfSeq
    <3>5. /\ l \in Seq(Provider(Sources)) /\ Len(l) = i - 1
          /\ r \in Seq(Provider(Sources)) /\ Len(r) = n - i
      BY <1>2, <3>2, <3>4, SubSeqProperties
    <3> HIDE DEF l, r
    <3>6. Len(l \o r) = Len(l) + Len(r)
      BY <3>5, ConcatProperties
    <3>7. QED
      BY <1>2, <3>2, <3>3, <3>5, <3>6
  <2>4. QED
    BY <2>1, <2>2, <2>3
<1>8. CASE after.main = NoProvider
  BY <1>3, <1>4, <1>8
<1>9. CASE after.main # NoProvider
  <2>1. Cardinality(OriginsOf(after)) = n /\ Len(after.alternatives) + 1 = n
    BY <1>2, <1>5, <1>6, <1>7, <1>9
  <2>2. OriginsOf(e) \ {o} = OriginsOf(after)
    BY <1>3, <1>4, <1>5, <2>1, FS_Subset
  <2>3. QED
    BY <2>1, <2>2 DEF Counted
<1>10. QED
  BY <1>8, <1>9

\* sortOrigins keeps the count.
LEMMA SortOriginsCounts ==
  ASSUME NEW Sources, NEW FileNames, NEW prio \in [Sources -> Int],
         NEW e \in Entry(Sources, FileNames), NEW after \in SortOrigins(prio, e),
         NoOrigin \notin Sources, e.main # NoProvider, Counted(e)
  PROVE  Counted(after)
<1> DEFINE all == Append(e.alternatives, e.main)
           n   == Len(all)
<1>1. /\ e \in [name : FileNames, main : Provider(Sources) \cup {NoProvider},
                alternatives : Seq(Provider(Sources))]
      /\ e.main \in Provider(Sources)
  BY EntryProviders DEF Entry
<1>2. n = Len(e.alternatives) + 1 /\ Len(e.alternatives) \in Nat
  BY <1>1, AppendProperties, LenProperties
<1>3. PICK r \in Bijection(1..n, 1..n) :
        after = [e EXCEPT !.main = all[r[n]],
                          !.alternatives = [i \in 1..(n-1) |-> all[r[i]]]]
  BY DEF SortOrigins
<1>4. DOMAIN after.alternatives = 1..(n - 1)
  BY <1>1, <1>3
<1>5. OriginsOf(after) = OriginsOf(e) /\ after \in Entry(Sources, FileNames)
  BY SortOriginsProperties DEF OriginsOf
<1>6. Len(after.alternatives) = n - 1
  <2>1. after.alternatives \in Seq(Provider(Sources))
    BY <1>5 DEF Entry
  <2> HIDE DEF n
  <2>2. QED
    BY <1>2, <1>4, <2>1, LenProperties
<1> HIDE DEF n
<1>7. QED
  BY <1>2, <1>5, <1>6 DEF Counted

-----------------------------------------------------------------------------
(* The invariant of the structure *)

Entries == Entry(Origins, Files)

Loading == {"data", "load", "archives"}

PhaseNames == Loading \cup {"drop", "sort", "clean", "ready"}

-----------------------------------------------------------------------------
(* The changes of the whole structure *)

\* What the structure's own variables must satisfy.
StructureOK ==
  /\ register \in Seq(Entries \cup {NoEntry})
  /\ files \in [Files -> Nat]
  /\ originFiles \in [Origins -> SUBSET Nat]
  /\ NamesMatchRegister
  /\ NoDanglingFiles

\* The register has an entry or NoEntry in each slot, and NoEntry is no entry.
LEMMA RegisterSlots ==
  ASSUME register \in Seq(Entries \cup {NoEntry})
  PROVE  /\ Len(register) \in Nat
         /\ DOMAIN register = 1..Len(register)
         /\ \A i \in DOMAIN register : register[i] \in Entries \cup {NoEntry}
         /\ \A i \in Live : register[i] \in Entries
         /\ Live \subseteq DOMAIN register
         /\ NoEntry \notin Entries
BY LenProperties, ElementOfSeq, FileAssumption DEF Live, Entries

\* A register whose slots are all rewritten at once is a register again.
LEMMA RewrittenRegister ==
  ASSUME register \in Seq(Entries \cup {NoEntry}),
         NEW slots \in [DOMAIN register -> Entries \cup {NoEntry}]
  PROVE  slots \in Seq(Entries \cup {NoEntry})
<1>1. Len(register) \in Nat /\ DOMAIN register = 1..Len(register)
  BY LenProperties
<1>2. QED
  BY <1>1

\* cleanStructure takes entries out of the register, the lookup and the origins
\* alike, and leaves the others as they were.
LEMMA CleanStructureKeeps ==
  ASSUME StructureOK, CleanStructure
  PROVE  /\ StructureOK'
         /\ Live' \subseteq Live
         /\ \A i \in Live' : register'[i] = register[i]
<1> DEFINE noise == {files[f] : f \in Noise} \cap Live
<1>1. /\ Len(register) \in Nat
      /\ DOMAIN register = 1..Len(register)
      /\ \A i \in DOMAIN register : register[i] \in Entries \cup {NoEntry}
  BY RegisterSlots DEF StructureOK
<1>2. /\ register' = [i \in DOMAIN register |-> IF i \in noise THEN NoEntry ELSE register[i]]
      /\ originFiles' = [o \in Origins |->
                           {i \in originFiles[o] : ~(i \in noise /\ o \in OriginsOf(register[i]))}]
      /\ files' = [f \in Files |-> IF files[f] \in noise THEN 0 ELSE files[f]]
  BY DEF CleanStructure
<1>3. DOMAIN register' = DOMAIN register
  BY <1>2
<1>4. Live' = Live \ noise /\ \A i \in Live' : register'[i] = register[i]
  BY <1>2, <1>3 DEF Live
<1> HIDE DEF noise
<1>5. register' \in Seq(Entries \cup {NoEntry})
  BY <1>1, <1>2, RewrittenRegister DEF StructureOK
<1>6. files' \in [Files -> Nat] /\ originFiles' \in [Origins -> SUBSET Nat]
  BY <1>2 DEF StructureOK
<1>7. NamesMatchRegister'
  <2>1. ASSUME NEW f \in Files, files'[f] # 0
        PROVE  files'[f] \in Live' /\ register'[files'[f]].name = f
    BY <1>2, <1>4, <2>1 DEF StructureOK, NamesMatchRegister
  <2>2. ASSUME NEW i \in Live'
        PROVE  files'[register'[i].name] = i
    <3>1. register[i].name \in Files
      BY <1>4, RegisterSlots DEF StructureOK, Entries, Entry
    <3>2. /\ i \notin noise
          /\ register'[i].name = register[i].name
          /\ files[register[i].name] = i
      BY <1>4 DEF StructureOK, NamesMatchRegister
    <3>3. files'[register[i].name] = i
      BY <1>2, <3>1, <3>2
    <3>4. QED
      BY <3>2, <3>3
  <2>3. QED
    BY <2>1, <2>2 DEF NamesMatchRegister
<1>8. NoDanglingFiles'
  BY <1>2, <1>4 DEF StructureOK, NoDanglingFiles
<1>9. QED
  BY <1>4, <1>5, <1>6, <1>7, <1>8 DEF StructureOK

\* Disabling an origin changes entries only by removeOrigin, and an entry goes
\* together with its name and with every mention of it by an origin.
LEMMA DisableKeeps ==
  ASSUME StructureOK, NEW o \in Origins, Disable(o),
         \A i \in Live : register[i].main # NoProvider
  PROVE  /\ StructureOK'
         /\ Live' \subseteq Live
         /\ \A i \in Live' : register'[i].main # NoProvider
<1> DEFINE touched == originFiles[o] \cap Live
<1>1. /\ Len(register) \in Nat
      /\ DOMAIN register = 1..Len(register)
      /\ \A i \in DOMAIN register : register[i] \in Entries \cup {NoEntry}
      /\ \A i \in Live : register[i] \in Entries
      /\ touched \subseteq DOMAIN register
      /\ NoEntry \notin Entries
  BY RegisterSlots DEF StructureOK
<1>2. PICK r \in Outcomes(touched, LAMBDA i : Without(i, o)) :
        /\ register' = [i \in DOMAIN register |-> IF i \in touched THEN r[i] ELSE register[i]]
        /\ files' = [f \in Files |->
                       IF files[f] \in touched /\ r[files[f]] = NoEntry THEN 0 ELSE files[f]]
        /\ originFiles' = [originFiles EXCEPT ![o] = {}]
  BY DEF Disable
<1>3. \A i \in touched : r[i] \in Without(i, o)
  BY <1>2 DEF Outcomes
<1>4. ASSUME NEW i \in touched
      PROVE  \/ r[i] = NoEntry /\ OriginsOf(register[i]) \subseteq {o}
             \/ /\ r[i] \in Entries
                /\ r[i].main # NoProvider
                /\ r[i].name = register[i].name
                /\ OriginsOf(register[i]) \ {o} \subseteq OriginsOf(r[i])
  <2>1. PICK e \in RemoveOrigin(priority, register[i], o) :
          r[i] = IF e.main = NoProvider THEN NoEntry ELSE e
    BY <1>3 DEF Without
  <2>2. /\ register[i] \in Entry(Origins, Files) /\ register[i].main # NoProvider
        /\ NoOrigin \notin Origins
    BY <1>1, OriginAssumption DEF Entries
  <2>3. /\ e \in Entry(Origins, Files)
        /\ e.name = register[i].name
        /\ OriginsOf(register[i]) \ {o} \subseteq OriginsOf(e)
        /\ e.main = NoProvider => OriginsOf(e) = {}
    BY <2>1, <2>2, RemoveOriginProperties
  <2>4. QED
    BY <2>1, <2>3 DEF Entries
<1> HIDE DEF touched
<1>5. register' \in Seq(Entries \cup {NoEntry})
  BY <1>1, <1>2, <1>4, RewrittenRegister DEF StructureOK
<1>6. files' \in [Files -> Nat] /\ originFiles' \in [Origins -> SUBSET Nat]
  BY <1>2 DEF StructureOK
<1>7. DOMAIN register' = DOMAIN register
  BY <1>2
<1>8. ASSUME NEW i \in Live'
      PROVE  /\ i \in Live
             /\ register'[i].name = register[i].name
             /\ register'[i].main # NoProvider
             /\ OriginsOf(register[i]) \ {o} \subseteq OriginsOf(register'[i])
  <2>1. CASE i \in touched
    BY <1>2, <1>4, <1>7, <2>1 DEF Live, touched
  <2>2. CASE i \notin touched
    BY <1>2, <1>7, <2>2 DEF Live
  <2>3. QED
    BY <2>1, <2>2
<1>9. ASSUME NEW i \in Live, i \notin Live'
      PROVE  i \in touched /\ r[i] = NoEntry /\ OriginsOf(register[i]) \subseteq {o}
  BY <1>1, <1>2, <1>4, <1>7, <1>9 DEF Live
<1>10. NamesMatchRegister'
  <2>1. ASSUME NEW f \in Files, files'[f] # 0
        PROVE  files'[f] \in Live' /\ register'[files'[f]].name = f
    <3>1. files'[f] = files[f] /\ ~(files[f] \in touched /\ r[files[f]] = NoEntry)
      BY <1>2, <2>1
    <3>2. files[f] \in Live /\ register[files[f]].name = f
      BY <2>1, <3>1 DEF StructureOK, NamesMatchRegister
    <3>3. files[f] \in Live'
      BY <1>9, <3>1, <3>2
    <3>4. QED
      BY <1>8, <3>1, <3>2, <3>3
  <2>2. ASSUME NEW i \in Live'
        PROVE  files'[register'[i].name] = i
    <3>1. i \in Live /\ register'[i].name = register[i].name
      BY <1>8
    <3>2. register[i].name \in Files /\ files[register[i].name] = i
      BY <1>1, <3>1 DEF StructureOK, NamesMatchRegister, Entries, Entry
    <3>3. ~(i \in touched /\ r[i] = NoEntry)
      BY <1>2, <1>7 DEF Live
    <3>4. QED
      BY <1>2, <3>1, <3>2, <3>3
  <2>3. QED
    BY <2>1, <2>2 DEF NamesMatchRegister
<1>11. NoDanglingFiles'
  <2>1. SUFFICES ASSUME NEW q \in Origins, NEW i \in originFiles'[q]
                 PROVE  i \in Live' /\ q \in OriginsOf(register'[i])
    BY DEF NoDanglingFiles
  <2>2. q # o /\ i \in originFiles[q]
    BY <1>2, <2>1 DEF StructureOK
  <2>3. i \in Live /\ q \in OriginsOf(register[i])
    BY <2>2 DEF StructureOK, NoDanglingFiles
  <2>4. i \in Live'
    BY <1>9, <2>2, <2>3
  <2>5. QED
    BY <1>8, <2>2, <2>3, <2>4
<1>12. QED
  BY <1>5, <1>6, <1>8, <1>10, <1>11 DEF StructureOK

\* Sorting keeps every entry in its slot with its name and its providers, and
\* puts a winner on top of each.
LEMMA SortKeeps ==
  ASSUME StructureOK, SortRegister, files' = files, originFiles' = originFiles,
         priority \in [Origins -> Int],
         \A i \in Live : register[i].main # NoProvider
  PROVE  /\ StructureOK'
         /\ Live' = Live
         /\ \A i \in Live : /\ register'[i].main # NoProvider
                            /\ \A q \in ProvidersOf(register'[i]) :
                                 ~SortsBelow(priority, register'[i].main, q)
<1>1. /\ Len(register) \in Nat
      /\ DOMAIN register = 1..Len(register)
      /\ \A i \in Live : register[i] \in Entries
      /\ Live \subseteq DOMAIN register
      /\ NoEntry \notin Entries
  BY RegisterSlots DEF StructureOK
<1>2. PICK r \in Outcomes(Live, LAMBDA i : SortOrigins(priority, register[i])) :
        register' = [i \in DOMAIN register |-> IF i \in Live THEN r[i] ELSE NoEntry]
  BY DEF SortRegister
<1>3. \A i \in Live : r[i] \in SortOrigins(priority, register[i])
  BY <1>2 DEF Outcomes
<1>4. ASSUME NEW i \in Live
      PROVE  /\ r[i] \in Entries
             /\ r[i].name = register[i].name
             /\ r[i].main # NoProvider
             /\ ProvidersOf(r[i]) = ProvidersOf(register[i])
             /\ \A q \in ProvidersOf(register[i]) : ~SortsBelow(priority, r[i].main, q)
  <2>1. /\ register[i] \in Entry(Origins, Files)
        /\ NoOrigin \notin Origins
        /\ r[i] \in SortOrigins(priority, register[i])
        /\ register[i].main # NoProvider
    BY <1>1, <1>3, OriginAssumption DEF Entries
  <2>2. QED
    BY <2>1, SortOriginsProperties DEF Entries
<1>5. register' \in Seq(Entries \cup {NoEntry})
  BY <1>1, <1>2, <1>4, RewrittenRegister DEF StructureOK
<1>6. DOMAIN register' = DOMAIN register
  BY <1>2
<1>7. Live' = Live /\ \A i \in Live : register'[i] = r[i]
  BY <1>1, <1>2, <1>4, <1>6 DEF Live
<1>8. NamesMatchRegister'
  <2>1. \A f \in Files : files'[f] # 0 => files'[f] \in Live' /\ register'[files'[f]].name = f
    BY <1>4, <1>7 DEF StructureOK, NamesMatchRegister
  <2>2. \A i \in Live' : files'[register'[i].name] = i
    BY <1>4, <1>7 DEF StructureOK, NamesMatchRegister
  <2>3. QED
    BY <2>1, <2>2 DEF NamesMatchRegister
<1>9. NoDanglingFiles'
  <2>1. \A i \in Live : OriginsOf(register'[i]) = OriginsOf(register[i])
    BY <1>4, <1>7 DEF OriginsOf
  <2>2. QED
    BY <1>7, <2>1 DEF StructureOK, NoDanglingFiles
<1>10. QED
  BY <1>4, <1>5, <1>7, <1>8, <1>9 DEF StructureOK

-----------------------------------------------------------------------------
(* The scans *)

\* What the steps of the scans need of the invariant.
LEMMA StructureFromInvariant ==
  ASSUME StructureInvariant
  PROVE  /\ StructureOK
         /\ priority \in [Origins -> Int]
         /\ worker \in [Origins -> WorkerState]
         /\ AllIdle => \A i \in Live : register[i].main # NoProvider
<1>1. StructureOK /\ priority \in [Origins -> Int] /\ worker \in [Origins -> WorkerState]
  BY DEF StructureInvariant, TypeOK, StructureOK, Entries
<1>2. AllIdle => \A o \in Origins : worker[o].step = "find"
  BY DEF AllIdle, StructureInvariant, WorkersHoldFiles
<1>3. AllIdle => \A i \in Live : register[i].main # NoProvider
  BY <1>2 DEF StructureInvariant, OrphansAreBeingAdded
<1>4. QED
  BY <1>1, <1>3

\* While a worker is not idle the phase is one of loading.
LEMMA ScanIsLoading ==
  ASSUME StructureInvariant, NEW o \in Origins, Scan(o)
  PROVE  phase \in Loading /\ worker[o].stage # "idle"
<1>1. worker[o].stage # "idle"
  <2>1. CASE worker[o].step # "find"
    BY <2>1 DEF StructureInvariant, WorkersHoldFiles
  <2>2. CASE worker[o].step = "find"
    BY <2>2 DEF Scan, CreateOrigin, FindFile, AddOriginToFile, AddFileToOrigin,
                FinishLoose, FinishArchive
  <2>3. QED
    BY <2>1, <2>2
<1>2. QED
  BY <1>1 DEF StructureInvariant, QuietAfterLoading, AllIdle, Loading

\* A scan whose step leaves the register and the lookup alone, and lets go of
\* no entry that still waits for its provider.
LEMMA WorkerOnlyStep ==
  ASSUME StructureInvariant, NEW o \in Origins, NEW w \in WorkerState,
         worker' = [worker EXCEPT ![o] = w],
         w.step = "find", worker[o].step = "find",
         w.stage = "archive" => o \in Mods,
         UNCHANGED <<disk, register, files, originFiles, task, archiving, dropping, changes>>,
         phase' = phase, phase \in Loading,
         created' \in SUBSET Origins, priority' \in [Origins -> Int]
  PROVE  StructureInvariant'
<1>1. TypeOK'
  BY DEF StructureInvariant, TypeOK, disk
<1>2. Live' = Live
  BY DEF Live
<1>3. NamesMatchRegister' /\ NoDanglingFiles'
  BY <1>2 DEF StructureInvariant, NamesMatchRegister, NoDanglingFiles
<1>4. \A p \in Origins : worker'[p] = IF p = o THEN w ELSE worker[p]
  BY DEF StructureInvariant, TypeOK
<1>5. WorkersHoldFiles'
  BY <1>2, <1>4 DEF StructureInvariant, WorkersHoldFiles
<1>6. QuietAfterLoading'
  BY DEF QuietAfterLoading, Loading
<1>7. OrphansAreBeingAdded'
  BY <1>2, <1>4 DEF StructureInvariant, OrphansAreBeingAdded
<1>8. QED
  BY <1>1, <1>3, <1>5, <1>6, <1>7 DEF StructureInvariant

\* createOrigin sets a worker to its first file and leaves the structure alone.
LEMMA CreateOriginStep ==
  ASSUME StructureInvariant, NEW o \in Origins, CreateOrigin(o), phase \in Loading
  PROVE  StructureInvariant'
<1> DEFINE w == [Idle EXCEPT !.stage = "loose", !.todo = content[o].loose]
<1>1. /\ w \in WorkerState /\ w.step = "find" /\ w.stage = "loose"
  BY DEF StructureInvariant, TypeOK, WorkerState, Idle
<1>2. worker[o].step = "find"
  BY DEF CreateOrigin, StructureInvariant, WorkersHoldFiles
<1>3. created' \in SUBSET Origins /\ priority' \in [Origins -> Int]
  BY DEF CreateOrigin, StructureInvariant, TypeOK, Origins
<1>4. /\ worker' = [worker EXCEPT ![o] = w]
      /\ UNCHANGED <<disk, register, files, originFiles, task, archiving, dropping, changes>>
      /\ phase' = phase
  BY DEF CreateOrigin, control
<1> HIDE DEF w
<1>5. QED
  BY <1>1, <1>2, <1>3, <1>4, WorkerOnlyStep

\* A scan that is through with a stage leaves the structure alone.
LEMMA FinishStep ==
  ASSUME StructureInvariant, NEW o \in Origins, FinishLoose(o) \/ FinishArchive(o),
         phase \in Loading
  PROVE  StructureInvariant'
<1>1. /\ Idle \in WorkerState /\ Idle.step = "find" /\ Idle.stage # "archive"
      /\ ArchiveScan(o) \in WorkerState /\ ArchiveScan(o).step = "find"
  BY DEF StructureInvariant, TypeOK, WorkerState, Idle, ArchiveScan
<1>2. PICK w \in WorkerState :
        worker' = [worker EXCEPT ![o] = w] /\ w.step = "find" /\ (w.stage = "archive" => o \in Mods)
  <2>1. \/ worker' = [worker EXCEPT ![o] = Idle]
        \/ worker' = [worker EXCEPT ![o] = ArchiveScan(o)] /\ o \in Mods
    BY DEF FinishLoose, FinishArchive, Origins
  <2>2. QED
    BY <1>1, <2>1
<1>3. /\ worker[o].step = "find"
      /\ UNCHANGED <<disk, register, files, originFiles, task, archiving, dropping, changes>>
      /\ phase' = phase /\ created' = created /\ priority' = priority
  BY DEF FinishLoose, FinishArchive, structure, control
<1>4. created' \in SUBSET Origins /\ priority' \in [Origins -> Int]
  BY <1>3 DEF StructureInvariant, TypeOK
<1>5. QED
  BY <1>2, <1>3, <1>4, WorkerOnlyStep

\* insert finds or makes the entry of a name: one name, one entry.
LEMMA FindFileStep ==
  ASSUME StructureInvariant, NEW o \in Origins, FindFile(o), phase \in Loading
  PROVE  StructureInvariant'
<1>1. PICK f \in worker[o].todo :
        LET known == files[f] # 0
            i     == IF known THEN files[f] ELSE Len(register) + 1
        IN  /\ register' = IF known THEN register ELSE Append(register, NewEntry(f))
            /\ files' = [files EXCEPT ![f] = i]
            /\ worker' = [worker EXCEPT ![o].todo = @ \ {f},
                                        ![o].index = i,
                                        ![o].step = "add"]
  BY DEF FindFile
<1> DEFINE i == IF files[f] # 0 THEN files[f] ELSE Len(register) + 1
           w == [worker[o] EXCEPT !.todo = @ \ {f}, !.index = i, !.step = "add"]
<1>2. /\ worker \in [Origins -> WorkerState]
      /\ worker[o].stage \in {"loose", "archive"}
      /\ worker[o].step = "find"
      /\ worker[o].stage = "archive" => o \in Mods
      /\ f \in Files
  BY DEF FindFile, StructureInvariant, TypeOK, WorkersHoldFiles, WorkerState
<1>3. /\ Len(register) \in Nat
      /\ DOMAIN register = 1..Len(register)
      /\ \A j \in Live : register[j] \in Entries
      /\ Live \subseteq 1..Len(register)
      /\ NoEntry \notin Entries
  BY RegisterSlots DEF StructureInvariant, TypeOK, Entries
<1>4. i \in Nat \ {0}
  BY <1>2, <1>3 DEF StructureInvariant, TypeOK
<1>5. worker' = [worker EXCEPT ![o] = w]
  BY <1>1, <1>2
<1>6. /\ w \in WorkerState /\ w.step = "add" /\ w.index = i
      /\ w.stage = worker[o].stage
  BY <1>2, <1>4 DEF WorkerState
<1>7. \A p \in Origins : worker'[p] = IF p = o THEN w ELSE worker[p]
  BY <1>2, <1>5
<1>8. NewEntry(f) \in Entries /\ NewEntry(f).name = f /\ NewEntry(f).main = NoProvider
  BY <1>2, NewEntryProperties DEF Entries, NewEntry
<1>9. /\ register' \in Seq(Entries \cup {NoEntry})
      /\ i \in Live' /\ Live \subseteq Live' /\ Live' \subseteq Live \cup {i}
      /\ \A j \in Live : register'[j] = register[j]
      /\ register'[i].name = f
      /\ files[f] = 0 => i \notin Live /\ register'[i] = NewEntry(f)
      /\ files[f] # 0 => i \in Live
  <2>1. CASE files[f] # 0
    <3>1. register' = register /\ i = files[f]
      BY <1>1, <2>1
    <3>2. i \in Live /\ register[i].name = f
      BY <1>2, <2>1, <3>1 DEF StructureInvariant, NamesMatchRegister
    <3>3. Live' = Live
      BY <3>1 DEF Live
    <3>4. QED
      BY <2>1, <3>1, <3>2, <3>3 DEF StructureInvariant, TypeOK, Entries
  <2>2. CASE files[f] = 0
    <3>1. register' = Append(register, NewEntry(f)) /\ i = Len(register) + 1
      BY <1>1, <2>2
    <3>2. register \in Seq(Entries \cup {NoEntry})
      BY DEF StructureInvariant, TypeOK, Entries
    <3>3. /\ register' \in Seq(Entries \cup {NoEntry})
          /\ Len(register') = Len(register) + 1
          /\ \A j \in 1..Len(register) : register'[j] = register[j]
          /\ register'[i] = NewEntry(f)
      BY <1>8, <3>1, <3>2, AppendProperties
    <3>4. DOMAIN register' = 1..(Len(register) + 1)
      BY <3>3, LenProperties
    <3>5. Live' = Live \cup {i}
      BY <1>3, <1>8, <3>1, <3>3, <3>4 DEF Live
    <3>6. i \notin Live
      BY <1>3, <3>1
    <3>7. QED
      BY <1>3, <1>8, <2>2, <3>3, <3>5, <3>6
  <2>3. QED
    BY <2>1, <2>2
<1>10. files' = [files EXCEPT ![f] = i]
  BY <1>1
<1>11. UNCHANGED <<disk, created, priority, originFiles, control>>
  BY DEF FindFile
<1> HIDE DEF i, w
<1>12. TypeOK'
  BY <1>4, <1>5, <1>6, <1>9, <1>10, <1>11
     DEF StructureInvariant, TypeOK, disk, control, Entries
<1>13. NamesMatchRegister'
  <2>1. ASSUME NEW g \in Files, files'[g] # 0
        PROVE  files'[g] \in Live' /\ register'[files'[g]].name = g
    BY <1>2, <1>9, <1>10, <2>1 DEF StructureInvariant, TypeOK, NamesMatchRegister
  <2>2. ASSUME NEW j \in Live'
        PROVE  files'[register'[j].name] = j
    <3>1. CASE j = i
      BY <1>2, <1>9, <1>10, <3>1 DEF StructureInvariant, TypeOK
    <3>2. CASE j # i
      <4>1. j \in Live /\ register'[j] = register[j] /\ register[j].name \in Files
        BY <1>3, <1>9, <3>2 DEF Entries, Entry
      <4>2. files[register[j].name] = j /\ j # 0
        BY <1>3, <4>1 DEF StructureInvariant, NamesMatchRegister
      <4>3. register[j].name # f
        <5>1. CASE files[f] = 0
          BY <4>2, <5>1
        <5>2. CASE files[f] # 0
          BY <3>2, <4>2, <5>2 DEF i
        <5>3. QED
          BY <5>1, <5>2
      <4>4. files'[register[j].name] = files[register[j].name]
        BY <1>10, <4>1, <4>3 DEF StructureInvariant, TypeOK
      <4>5. QED
        BY <4>1, <4>2, <4>4
    <3>3. QED
      BY <3>1, <3>2
  <2>3. QED
    BY <2>1, <2>2 DEF NamesMatchRegister
<1>14. NoDanglingFiles'
  BY <1>9, <1>11 DEF StructureInvariant, NoDanglingFiles
<1>15. WorkersHoldFiles'
  BY <1>2, <1>6, <1>7, <1>9 DEF StructureInvariant, WorkersHoldFiles
<1>16. QuietAfterLoading'
  BY <1>11 DEF QuietAfterLoading, Loading, control
<1>17. OrphansAreBeingAdded'
  BY <1>2, <1>6, <1>7, <1>9 DEF StructureInvariant, OrphansAreBeingAdded
<1>18. QED
  BY <1>12, <1>13, <1>14, <1>15, <1>16, <1>17 DEF StructureInvariant

\* An entry to which a worker adds the provider of its origin.
LEMMA EntryWithProvider ==
  ASSUME NEW x, NEW o, register[x] \in Entry(Origins, Files), NoOrigin \notin Origins,
         ProviderFor(o) \in Provider(Origins), ProviderFor(o).origin = o
  PROVE  LET e == AddOrigin(priority, register[x], ProviderFor(o))
         IN  /\ e \in Entries /\ e.name = register[x].name /\ e.main # NoProvider
             /\ OriginsOf(e) = OriginsOf(register[x]) \cup {o}
BY AddOriginProperties DEF Entries

\* addOrigin gives the entry its provider and takes none from it.
LEMMA AddOriginToFileStep ==
  ASSUME StructureInvariant, NEW o \in Origins, AddOriginToFile(o), phase \in Loading
  PROVE  StructureInvariant'
<1> DEFINE x == worker[o].index
           w == [worker[o] EXCEPT !.step = "list"]
           e == AddOrigin(priority, register[x], ProviderFor(o))
<1>1. /\ worker \in [Origins -> WorkerState]
      /\ worker[o].step = "add"
      /\ worker[o].stage \notin {"idle", "origin"}
      /\ worker[o].stage = "archive" => o \in Mods
      /\ x \in Live
  BY DEF AddOriginToFile, StructureInvariant, TypeOK, WorkersHoldFiles
<1>2. /\ register \in Seq(Entries \cup {NoEntry})
      /\ Live \subseteq DOMAIN register
      /\ DOMAIN register = 1..Len(register)
      /\ register[x] \in Entries
      /\ NoEntry \notin Entries
  BY <1>1, RegisterSlots DEF StructureInvariant, TypeOK, Entries
<1>3. ProviderFor(o) \in Provider(Origins) /\ ProviderFor(o).origin = o
  BY <1>1, DiskAssumption DEF ProviderFor, Provider
<1>4. /\ e \in Entries /\ e.name = register[x].name /\ e.main # NoProvider
      /\ OriginsOf(e) = OriginsOf(register[x]) \cup {o}
  <2>1. register[x] \in Entry(Origins, Files) /\ NoOrigin \notin Origins
    BY <1>2, OriginAssumption DEF Entries
  <2>2. QED
    BY <1>3, <2>1, EntryWithProvider
<1>5. /\ register' = [register EXCEPT ![x] = e]
      /\ worker' = [worker EXCEPT ![o] = w]
      /\ UNCHANGED <<disk, files, created, priority, originFiles, control>>
  BY <1>1 DEF AddOriginToFile
<1>6. w \in WorkerState /\ w.step = "list" /\ w.index = x /\ w.stage = worker[o].stage
  BY <1>1 DEF WorkerState
<1>7. \A p \in Origins : worker'[p] = IF p = o THEN w ELSE worker[p]
  BY <1>1, <1>5
<1> HIDE DEF e, w, x
<1>8. /\ register' \in Seq(Entries \cup {NoEntry})
      /\ DOMAIN register' = DOMAIN register
      /\ \A j \in DOMAIN register : register'[j] = IF j = x THEN e ELSE register[j]
  <2>1. x \in 1..Len(register)
    BY <1>1, <1>2
  <2>2. QED
    BY <1>2, <1>4, <1>5, <2>1, ExceptSeq
<1>9. Live' = Live
  BY <1>1, <1>2, <1>4, <1>8 DEF Live
<1>10. \A j \in Live : /\ register'[j].name = register[j].name
                       /\ OriginsOf(register[j]) \subseteq OriginsOf(register'[j])
  BY <1>2, <1>4, <1>8
<1>11. TypeOK'
  BY <1>5, <1>6, <1>8 DEF StructureInvariant, TypeOK, disk, control, Entries
<1>12. NamesMatchRegister'
  BY <1>5, <1>9, <1>10 DEF StructureInvariant, NamesMatchRegister
<1>13. NoDanglingFiles'
  BY <1>5, <1>9, <1>10 DEF StructureInvariant, NoDanglingFiles
<1>14. WorkersHoldFiles'
  <2>1. SUFFICES ASSUME NEW p \in Origins
                 PROVE  /\ worker'[p].step # "find" => worker'[p].index \in Live
                        /\ worker'[p].step = "list" =>
                             p \in OriginsOf(register'[worker'[p].index])
                        /\ worker'[p].stage \in {"idle", "origin"} => worker'[p].step = "find"
                        /\ worker'[p].stage = "archive" => p \in Mods
    BY <1>9 DEF WorkersHoldFiles
  <2>2. CASE p = o
    BY <1>1, <1>2, <1>4, <1>6, <1>7, <1>8, <2>2
  <2>3. CASE p # o
    BY <1>7, <1>10, <2>3 DEF StructureInvariant, WorkersHoldFiles
  <2>4. QED
    BY <2>2, <2>3
<1>15. QuietAfterLoading'
  BY <1>5 DEF QuietAfterLoading, Loading, control
<1>16. OrphansAreBeingAdded'
  <2>1. SUFFICES ASSUME NEW j \in Live, register'[j].main = NoProvider
                 PROVE  \E p \in Origins : worker'[p].step = "add" /\ worker'[p].index = j
    BY <1>9 DEF OrphansAreBeingAdded
  <2>2. j # x /\ register[j].main = NoProvider
    BY <1>2, <1>4, <1>8, <2>1
  <2>3. PICK p \in Origins : worker[p].step = "add" /\ worker[p].index = j
    BY <2>2 DEF StructureInvariant, OrphansAreBeingAdded
  <2>4. p # o
    BY <2>2, <2>3 DEF x
  <2>5. QED
    BY <1>7, <2>3, <2>4
<1>17. QED
  BY <1>11, <1>12, <1>13, <1>14, <1>15, <1>16 DEF StructureInvariant

\* The origin lists the file last, when the file already lists the origin.
LEMMA AddFileToOriginStep ==
  ASSUME StructureInvariant, NEW o \in Origins, AddFileToOrigin(o), phase \in Loading
  PROVE  StructureInvariant'
<1> DEFINE w == [worker[o] EXCEPT !.step = "find", !.index = 0]
<1>1. /\ worker \in [Origins -> WorkerState]
      /\ worker[o].step = "list"
      /\ worker[o].stage = "archive" => o \in Mods
      /\ worker[o].index \in Live
      /\ o \in OriginsOf(register[worker[o].index])
  BY DEF AddFileToOrigin, StructureInvariant, TypeOK, WorkersHoldFiles
<1>2. /\ originFiles' = [originFiles EXCEPT ![o] = @ \cup {worker[o].index}]
      /\ worker' = [worker EXCEPT ![o] = w]
      /\ UNCHANGED <<disk, register, files, created, priority, control>>
  BY <1>1 DEF AddFileToOrigin
<1>3. w \in WorkerState /\ w.step = "find" /\ w.stage = worker[o].stage
  BY <1>1 DEF WorkerState
<1>4. \A p \in Origins : worker'[p] = IF p = o THEN w ELSE worker[p]
  BY <1>1, <1>2
<1>5. worker[o].index \in Nat
  BY <1>1 DEF WorkerState
<1> HIDE DEF w
<1>6. Live' = Live
  BY <1>2 DEF Live
<1>7. TypeOK'
  BY <1>2, <1>3, <1>5 DEF StructureInvariant, TypeOK, disk, control
<1>8. NamesMatchRegister'
  BY <1>2, <1>6 DEF StructureInvariant, NamesMatchRegister
<1>9. NoDanglingFiles'
  BY <1>1, <1>2, <1>6 DEF StructureInvariant, TypeOK, NoDanglingFiles
<1>10. WorkersHoldFiles'
  BY <1>1, <1>2, <1>3, <1>4, <1>6 DEF StructureInvariant, WorkersHoldFiles
<1>11. QuietAfterLoading'
  BY <1>2 DEF QuietAfterLoading, Loading, control
<1>12. OrphansAreBeingAdded'
  BY <1>1, <1>2, <1>4, <1>6 DEF StructureInvariant, OrphansAreBeingAdded
<1>13. QED
  BY <1>7, <1>8, <1>9, <1>10, <1>11, <1>12 DEF StructureInvariant

\* No step of a scan disturbs the structure.
LEMMA ScanStep ==
  ASSUME StructureInvariant, NEW o \in Origins, Scan(o)
  PROVE  StructureInvariant'
<1>1. phase \in Loading
  BY ScanIsLoading
<1>2. CASE CreateOrigin(o)
  BY <1>1, <1>2, CreateOriginStep
<1>3. CASE FindFile(o)
  BY <1>1, <1>3, FindFileStep
<1>4. CASE AddOriginToFile(o)
  BY <1>1, <1>4, AddOriginToFileStep
<1>5. CASE AddFileToOrigin(o)
  BY <1>1, <1>5, AddFileToOriginStep
<1>6. CASE FinishLoose(o) \/ FinishArchive(o)
  BY <1>1, <1>6, FinishStep
<1>7. QED
  BY <1>2, <1>3, <1>4, <1>5, <1>6 DEF Scan

-----------------------------------------------------------------------------
(* The main thread *)

\* What every step of the main thread has in common: it is taken while all
\* workers are idle, and it starts workers only in a phase of loading.
LEMMA MainThreadStep ==
  ASSUME TypeOK', StructureOK',
         \A o \in Origins : worker'[o].step = "find" /\ (worker'[o].stage = "archive" => o \in Mods),
         phase' \in Loading \/ AllIdle',
         \A i \in Live' : register'[i].main # NoProvider
  PROVE  StructureInvariant'
<1>1. NamesMatchRegister' /\ NoDanglingFiles'
  BY DEF StructureOK
<1>2. WorkersHoldFiles'
  BY DEF WorkersHoldFiles
<1>3. QuietAfterLoading'
  BY DEF QuietAfterLoading, Loading
<1>4. OrphansAreBeingAdded'
  BY DEF OrphansAreBeingAdded
<1>5. QED
  BY <1>1, <1>2, <1>3, <1>4 DEF StructureInvariant

\* Idle workers are at no file, and neither are workers just started.
LEMMA IdleWorkers ==
  ASSUME StructureInvariant, AllIdle
  PROVE  /\ \A o \in Origins : /\ worker[o] \in WorkerState
                               /\ worker[o].stage = "idle"
                               /\ worker[o].step = "find"
         /\ Idle \in WorkerState
         /\ [Idle EXCEPT !.stage = "origin"] \in WorkerState
         /\ \A m \in Mods : /\ ArchiveScan(m) \in WorkerState
                            /\ ArchiveScan(m).step = "find"
<1>1. \A o \in Origins : /\ worker[o] \in WorkerState
                         /\ worker[o].stage = "idle"
                         /\ worker[o].step = "find"
  BY DEF StructureInvariant, TypeOK, AllIdle, WorkersHoldFiles
<1>2. Idle \in WorkerState /\ [Idle EXCEPT !.stage = "origin"] \in WorkerState
  BY DEF Idle, WorkerState
<1>3. \A m \in Mods : ArchiveScan(m) \in WorkerState /\ ArchiveScan(m).step = "find"
  BY DEF StructureInvariant, TypeOK, Idle, WorkerState, ArchiveScan, Origins
<1>4. QED
  BY <1>1, <1>2, <1>3

\* The structure stays in order when nothing of it changes.
LEMMA SameStructure ==
  ASSUME StructureOK, UNCHANGED <<register, files, originFiles>>
  PROVE  StructureOK' /\ Live' = Live
BY DEF StructureOK, NamesMatchRegister, NoDanglingFiles, Live

\* The course of a refresh and of a change, between the scans, keeps the structure in order.
LEMMA CourseStep ==
  ASSUME StructureInvariant,
         \/ DataScanned \/ Loaded \/ ArchivesAdded \/ Dropped \/ Sort \/ Clean
         \/ \E m \in Mods : AddArchive(m) \/ Drop(m)
  PROVE  StructureInvariant'
<1>1. AllIdle
  BY DEF DataScanned, Loaded, ArchivesAdded, Dropped, Sort, Clean, AddArchive, Drop,
         StructureInvariant, QuietAfterLoading
<1>2. /\ StructureOK /\ priority \in [Origins -> Int] /\ worker \in [Origins -> WorkerState]
      /\ \A i \in Live : register[i].main # NoProvider
  BY <1>1, StructureFromInvariant
<1>3. /\ \A o \in Origins : /\ worker[o] \in WorkerState
                            /\ worker[o].stage = "idle"
                            /\ worker[o].step = "find"
      /\ Idle \in WorkerState
      /\ [Idle EXCEPT !.stage = "origin"] \in WorkerState
      /\ \A m \in Mods : ArchiveScan(m) \in WorkerState /\ ArchiveScan(m).step = "find"
  BY <1>1, IdleWorkers
<1>4. CASE DataScanned
  <2>1. /\ UNCHANGED <<disk, structure, task, archiving, dropping, changes>>
        /\ phase' = "load"
        /\ worker' = [o \in Origins |-> IF o \in enabled THEN [Idle EXCEPT !.stage = "origin"]
                                        ELSE Idle]
    BY <1>4 DEF DataScanned
  <2>2. worker' \in [Origins -> WorkerState]
    BY <1>3, <2>1
  <2>3. StructureOK' /\ Live' = Live
    BY <1>2, <2>1, SameStructure DEF structure
  <2>4. TypeOK'
    BY <2>1, <2>2 DEF StructureInvariant, TypeOK, disk, structure
  <2>5. \A o \in Origins : worker'[o].step = "find" /\ worker'[o].stage # "archive"
    BY <2>1 DEF Idle
  <2>6. QED
    BY <1>2, <2>1, <2>3, <2>4, <2>5, MainThreadStep DEF structure, Loading
<1>5. CASE Loaded
  <2>1. /\ phase' \in {"archives", "sort"}
        /\ UNCHANGED <<disk, created, priority, worker, task, archiving, dropping, changes>>
        /\ UNCHANGED <<register, files, originFiles>> \/ CleanStructure
    BY <1>5 DEF Loaded
  <2>2. /\ StructureOK'
        /\ \A i \in Live' : register'[i].main # NoProvider
    BY <1>2, <2>1, SameStructure, CleanStructureKeeps
  <2>3. TypeOK'
    BY <2>1, <2>2 DEF StructureInvariant, TypeOK, StructureOK, disk, Entries
  <2>4. AllIdle'
    BY <1>1, <2>1 DEF AllIdle
  <2>5. QED
    BY <1>3, <2>1, <2>2, <2>3, <2>4, MainThreadStep
<1>6. ASSUME NEW m \in Mods, AddArchive(m)
      PROVE  StructureInvariant'
  <2>1. /\ UNCHANGED <<disk, structure, task, phase, dropping, changes>>
        /\ phase = "archives"
        /\ archiving' = archiving \ {m}
        /\ worker' = [worker EXCEPT ![m] = ArchiveScan(m)]
    BY <1>6 DEF AddArchive
  <2>2. /\ worker' \in [Origins -> WorkerState]
        /\ \A o \in Origins : worker'[o] = IF o = m THEN ArchiveScan(m) ELSE worker[o]
    BY <1>2, <1>3, <2>1
  <2>3. StructureOK' /\ Live' = Live
    BY <1>2, <2>1, SameStructure DEF structure
  <2>4. TypeOK'
    BY <2>1, <2>2 DEF StructureInvariant, TypeOK, disk, structure
  <2>5. \A o \in Origins : worker'[o].step = "find" /\ (worker'[o].stage = "archive" => o \in Mods)
    BY <1>3, <2>2
  <2>6. QED
    BY <1>2, <2>1, <2>3, <2>4, <2>5, MainThreadStep DEF structure, Loading
<1>7. CASE ArchivesAdded \/ Dropped
  <2>1. /\ UNCHANGED <<disk, register, files, created, originFiles, worker, task, archiving,
                       dropping, changes>>
        /\ phase' \in {"drop", "sort"}
        /\ \/ priority' = priority
           \/ priority' = [o \in Origins |-> IF o \in created \cap Mods THEN profilePriority[o] + 1
                                             ELSE priority[o]]
    BY <1>7 DEF ArchivesAdded, Dropped, structure
  <2>2. StructureOK' /\ Live' = Live
    BY <1>2, <2>1, SameStructure
  <2>3. TypeOK'
    BY <2>1 DEF StructureInvariant, TypeOK, disk
  <2>4. AllIdle'
    BY <1>1, <2>1 DEF AllIdle
  <2>5. QED
    BY <1>2, <1>3, <2>1, <2>2, <2>3, <2>4, MainThreadStep
<1>8. ASSUME NEW m \in Mods, Drop(m)
      PROVE  StructureInvariant'
  <2>1. /\ UNCHANGED <<disk, created, priority, worker, task, phase, archiving, changes>>
        /\ dropping' = dropping \ {m}
        /\ Disable(m) \/ UNCHANGED <<register, files, originFiles>>
    BY <1>8 DEF Drop
  <2>2. /\ StructureOK'
        /\ \A i \in Live' : register'[i].main # NoProvider
    <3>1. CASE Disable(m)
      BY <1>2, <3>1, DisableKeeps DEF Origins
    <3>2. CASE UNCHANGED <<register, files, originFiles>>
      BY <1>2, <3>2, SameStructure
    <3>3. QED
      BY <2>1, <3>1, <3>2
  <2>3. TypeOK'
    BY <2>1, <2>2 DEF StructureInvariant, TypeOK, StructureOK, disk, Entries
  <2>4. AllIdle'
    BY <1>1, <2>1 DEF AllIdle
  <2>5. QED
    BY <1>3, <2>1, <2>2, <2>3, <2>4, MainThreadStep
<1>9. CASE Sort
  <2>1. /\ UNCHANGED <<disk, files, created, priority, originFiles, worker, task, archiving,
                       dropping, changes>>
        /\ phase' \in {"clean", "ready"}
        /\ SortRegister
    BY <1>9 DEF Sort
  <2>2. /\ StructureOK'
        /\ \A i \in Live' : register'[i].main # NoProvider
    BY <1>2, <2>1, SortKeeps
  <2>3. TypeOK'
    BY <2>1, <2>2 DEF StructureInvariant, TypeOK, StructureOK, disk, Entries
  <2>4. AllIdle'
    BY <1>1, <2>1 DEF AllIdle
  <2>5. QED
    BY <1>3, <2>1, <2>2, <2>3, <2>4, MainThreadStep
<1>10. CASE Clean
  <2>1. /\ UNCHANGED <<disk, created, priority, worker, task, archiving, dropping, changes>>
        /\ phase' = "ready"
        /\ CleanStructure
    BY <1>10 DEF Clean
  <2>2. /\ StructureOK'
        /\ \A i \in Live' : register'[i].main # NoProvider
    BY <1>2, <2>1, CleanStructureKeeps
  <2>3. TypeOK'
    BY <2>1, <2>2 DEF StructureInvariant, TypeOK, StructureOK, disk, Entries
  <2>4. AllIdle'
    BY <1>1, <2>1 DEF AllIdle
  <2>5. QED
    BY <1>3, <2>1, <2>2, <2>3, <2>4, MainThreadStep
<1>11. QED
  BY <1>4, <1>5, <1>6, <1>7, <1>8, <1>9, <1>10

-----------------------------------------------------------------------------
(* The user *)

\* What the user does keeps the structure in order.
LEMMA UserStep ==
  ASSUME StructureInvariant, User
  PROVE  StructureInvariant'
<1>1. AllIdle
  BY DEF User, ChangeStatus, ChangePriorities, RescanMod, MayChange,
         StructureInvariant, QuietAfterLoading
<1>2. /\ StructureOK /\ priority \in [Origins -> Int] /\ worker \in [Origins -> WorkerState]
      /\ \A i \in Live : register[i].main # NoProvider
  BY <1>1, StructureFromInvariant
<1>3. /\ \A o \in Origins : /\ worker[o] \in WorkerState
                            /\ worker[o].stage = "idle"
                            /\ worker[o].step = "find"
      /\ Idle \in WorkerState
      /\ [Idle EXCEPT !.stage = "origin"] \in WorkerState
  BY <1>1, IdleWorkers
<1>4. ASSUME MayChange
      PROVE  changes' \in Nat
  BY <1>4 DEF MayChange, StructureInvariant, TypeOK
<1>5. ASSUME NEW on \in SUBSET (Mods \ enabled), NEW off \in SUBSET enabled,
             ChangeStatus(on, off)
      PROVE  StructureInvariant'
  <2>1. /\ MayChange
        /\ enabled' = (enabled \cup on) \ off
        /\ task' = "status"
        /\ phase' = IF on # {} THEN "load" ELSE "drop"
        /\ archiving' = on
        /\ dropping' = off
        /\ worker' = [o \in Origins |-> IF o \in on THEN [Idle EXCEPT !.stage = "origin"]
                                        ELSE Idle]
        /\ UNCHANGED <<content, profilePriority, structure>>
    BY <1>5 DEF ChangeStatus
  <2>2. worker' \in [Origins -> WorkerState]
    BY <1>3, <2>1
  <2>3. StructureOK' /\ Live' = Live
    BY <1>2, <2>1, SameStructure DEF structure
  <2>4. TypeOK'
    BY <1>4, <2>1, <2>2 DEF StructureInvariant, TypeOK, structure
  <2>5. \A o \in Origins : worker'[o].step = "find" /\ worker'[o].stage # "archive"
    BY <2>1 DEF Idle
  <2>6. phase' \in Loading \/ AllIdle'
    BY <2>1 DEF Loading, AllIdle, Idle
  <2>7. QED
    BY <1>2, <2>1, <2>3, <2>4, <2>5, <2>6, MainThreadStep DEF structure
<1>6. CASE ChangePriorities
  <2>1. /\ MayChange
        /\ profilePriority' \in [Mods -> Int]
        /\ priority' = [o \in Origins |-> IF o \in enabled THEN profilePriority'[o] + 1
                                          ELSE priority[o]]
        /\ task' = "priority"
        /\ UNCHANGED <<content, enabled, register, files, created, originFiles, worker,
                       archiving, dropping>>
        /\ phase' = "sort"
    BY <1>6 DEF ChangePriorities, Priorities
  <2>2. StructureOK' /\ Live' = Live
    BY <1>2, <2>1, SameStructure
  <2>3. priority' \in [Origins -> Int]
    BY <1>2, <2>1 DEF StructureInvariant, TypeOK
  <2>4. TypeOK'
    BY <1>4, <2>1, <2>3 DEF StructureInvariant, TypeOK
  <2>5. AllIdle'
    BY <1>1, <2>1 DEF AllIdle
  <2>6. QED
    BY <1>2, <1>3, <2>1, <2>2, <2>4, <2>5, MainThreadStep
<1>7. ASSUME NEW m \in Mods, RescanMod(m)
      PROVE  StructureInvariant'
  <2>1. /\ MayChange
        /\ \E c \in Contents : content' = [content EXCEPT ![m] = c[m]]
        /\ Disable(m)
        /\ task' = "rescan"
        /\ phase' = "load"
        /\ worker' = [worker EXCEPT ![m].stage = "origin"]
        /\ UNCHANGED <<enabled, profilePriority, created, priority, archiving, dropping>>
    BY <1>7 DEF RescanMod
  <2>2. /\ StructureOK'
        /\ \A i \in Live' : register'[i].main # NoProvider
    BY <1>2, <2>1, DisableKeeps DEF Origins
  <2>3. /\ worker' \in [Origins -> WorkerState]
        /\ \A o \in Origins : worker'[o].step = "find" /\ worker'[o].stage # "archive"
    BY <1>2, <1>3, <2>1 DEF WorkerState
  <2>4. content' \in [Origins -> [loose : SUBSET Files, archived : SUBSET Files]]
    BY <2>1, DiskAssumption DEF StructureInvariant, TypeOK, Origins
  <2>5. TypeOK'
    BY <1>4, <2>1, <2>2, <2>3, <2>4 DEF StructureInvariant, TypeOK, StructureOK, Entries
  <2>6. QED
    BY <2>1, <2>2, <2>3, <2>5, MainThreadStep DEF Loading
<1>8. QED
  BY <1>5, <1>6, <1>7 DEF User

-----------------------------------------------------------------------------
(* The structure at every moment *)

\* The empty structure is in order.
LEMMA InitStructure == Init => StructureInvariant
<1> SUFFICES ASSUME Init PROVE StructureInvariant
  OBVIOUS
<1>1. /\ register = <<>> /\ files = [f \in Files |-> 0]
      /\ originFiles = [o \in Origins |-> {}]
      /\ phase = "data"
  BY DEF Init
<1>2. Live = {}
  BY <1>1 DEF Live
<1>3. worker \in [Origins -> WorkerState]
  BY DEF Init, Idle, WorkerState
<1>4. TypeOK
  <2>1. content \in [Origins -> [loose : SUBSET Files, archived : SUBSET Files]]
    BY DiskAssumption DEF Init
  <2>2. profilePriority \in [Mods -> Int]
    BY DEF Init, Priorities
  <2>3. register \in Seq(Entry(Origins, Files) \cup {NoEntry})
    BY <1>1
  <2>4. QED
    BY <1>3, <2>1, <2>2, <2>3 DEF Init, TypeOK
<1>5. NamesMatchRegister /\ NoDanglingFiles /\ OrphansAreBeingAdded
  BY <1>1, <1>2 DEF NamesMatchRegister, NoDanglingFiles, OrphansAreBeingAdded
<1>6. WorkersHoldFiles
  BY DEF Init, Idle, WorkersHoldFiles
<1>7. QuietAfterLoading
  BY <1>1 DEF QuietAfterLoading
<1>8. QED
  BY <1>4, <1>5, <1>6, <1>7 DEF StructureInvariant

\* Every step keeps the structure in order.
LEMMA NextStructure == StructureInvariant /\ [Next]_vars => StructureInvariant'
<1> SUFFICES ASSUME StructureInvariant, [Next]_vars PROVE StructureInvariant'
  OBVIOUS
<1>1. CASE \E o \in Origins : Scan(o)
  BY <1>1, ScanStep
<1>2. CASE \/ DataScanned \/ Loaded \/ ArchivesAdded \/ Dropped \/ Sort \/ Clean
           \/ \E m \in Mods : AddArchive(m) \/ Drop(m)
  BY <1>2, CourseStep
<1>3. CASE User
  BY <1>3, UserStep
<1>4. CASE UNCHANGED vars
  <2>1. UNCHANGED <<content, enabled, profilePriority, register, files, created, priority,
                    originFiles, task, phase, worker, archiving, dropping, changes>>
    BY <1>4 DEF vars, disk, structure, control
  <2>2. TypeOK' /\ NamesMatchRegister' /\ NoDanglingFiles'
    BY <2>1 DEF StructureInvariant, TypeOK, NamesMatchRegister, NoDanglingFiles, Live
  <2>3. WorkersHoldFiles' /\ QuietAfterLoading' /\ OrphansAreBeingAdded'
    BY <2>1 DEF StructureInvariant, WorkersHoldFiles, QuietAfterLoading, AllIdle,
                OrphansAreBeingAdded, Live
  <2>4. QED
    BY <2>2, <2>3 DEF StructureInvariant
<1>5. QED
  BY <1>1, <1>2, <1>3, <1>4 DEF Next, Work

\* Whatever the interleaving of the workers and the changes of the user, the
\* variables keep their types, a worker between two locks still has its entry,
\* and only a file being added is without a provider.
THEOREM StructureTheorem == Spec => []StructureInvariant
<1>1. Init => StructureInvariant
  BY InitStructure
<1>2. StructureInvariant /\ [Next]_vars => StructureInvariant'
  BY NextStructure
<1>3. QED
  BY <1>1, <1>2, PTL DEF Spec

\* Every variable keeps its type.
THEOREM TypeTheorem == Spec => []TypeOK
<1>1. StructureInvariant => TypeOK
  BY DEF StructureInvariant
<1>2. QED
  BY <1>1, StructureTheorem, PTL

\* The name lookup and the register agree at every moment, also between two
\* locks of concurrent scans: no name has two entries.
THEOREM NamesTheorem == Spec => []NamesMatchRegister
<1>1. StructureInvariant => NamesMatchRegister
  BY DEF StructureInvariant
<1>2. QED
  BY <1>1, StructureTheorem, PTL

\* No origin ever lists a file that is gone or that does not list the origin.
THEOREM DanglingTheorem == Spec => []NoDanglingFiles
<1>1. StructureInvariant => NoDanglingFiles
  BY DEF StructureInvariant
<1>2. QED
  BY <1>1, StructureTheorem, PTL

\* A file without a provider is one a worker is about to give its provider.
THEOREM OrphansTheorem == Spec => []OrphansAreBeingAdded
<1>1. StructureInvariant => OrphansAreBeingAdded
  BY DEF StructureInvariant
<1>2. QED
  BY <1>1, StructureTheorem, PTL

-----------------------------------------------------------------------------
(* The winners *)

\* A change of the mod list leaves the priorities of the origins behind those
\* of the profile until it has dropped the mods switched off.
PrioritiesCurrent ==
  task # "status" \/ phase \in {"sort", "clean", "ready"} =>
    \A m \in enabled \cap created : priority[m] = profilePriority[m] + 1

WinnersStay ==
  phase \in {"clean", "ready"} =>
    \A i \in Live : \A q \in ProvidersOf(register[i]) :
      ~SortsBelow(priority, register[i].main, q)

WinnersInvariant == StructureInvariant /\ PrioritiesCurrent /\ WinnersStay

\* Every step keeps the priorities of the live origins those of the mod list.
LEMMA NextPriorities ==
  ASSUME WinnersInvariant, Next
  PROVE  PrioritiesCurrent'
<1>1. /\ priority \in [Origins -> Int] /\ created \subseteq Origins /\ enabled \subseteq Mods
      /\ Data \notin Mods /\ Mods \subseteq Origins
  BY OriginAssumption DEF WinnersInvariant, StructureInvariant, TypeOK, Origins
<1>2. ASSUME NEW o \in Origins, Scan(o)
      PROVE  PrioritiesCurrent'
  <2>1. CASE CreateOrigin(o)
    <3>1. /\ UNCHANGED <<disk, control>>
          /\ created' = created \cup {o}
          /\ priority' = IF o \in created THEN priority
                         ELSE [priority EXCEPT ![o] = IF o = Data THEN 0
                                                      ELSE profilePriority[o] + 1]
      BY <2>1 DEF CreateOrigin
    <3>2. QED
      BY <1>1, <3>1 DEF WinnersInvariant, PrioritiesCurrent, disk, control
  <2>2. CASE ~CreateOrigin(o)
    <3>1. UNCHANGED <<disk, control, created, priority>>
      BY <1>2, <2>2 DEF Scan, FindFile, AddOriginToFile, AddFileToOrigin, FinishLoose,
                        FinishArchive, structure
    <3>2. QED
      BY <3>1 DEF WinnersInvariant, PrioritiesCurrent, disk, control
  <2>3. QED
    BY <2>1, <2>2
<1>3. CASE \/ DataScanned \/ Loaded \/ ArchivesAdded \/ Sort \/ Clean
           \/ \E m \in Mods : AddArchive(m) \/ Drop(m)
  <2>1. /\ UNCHANGED <<disk, created, priority, task>>
        /\ phase' \in {"sort", "clean", "ready"} =>
             phase \in {"sort", "clean", "ready"} \/ task # "status"
    BY <1>3 DEF DataScanned, Loaded, ArchivesAdded, Sort, Clean, AddArchive, Drop, structure
  <2>2. QED
    BY <2>1 DEF WinnersInvariant, PrioritiesCurrent, disk
<1>4. CASE Dropped
  <2>1. /\ UNCHANGED <<disk, created>>
        /\ priority' = [o \in Origins |-> IF o \in created \cap Mods THEN profilePriority[o] + 1
                                          ELSE priority[o]]
    BY <1>4 DEF Dropped
  <2>2. QED
    BY <1>1, <2>1 DEF PrioritiesCurrent, disk
<1>5. ASSUME NEW on, NEW off, ChangeStatus(on, off)
      PROVE  PrioritiesCurrent'
  BY <1>5 DEF ChangeStatus, PrioritiesCurrent
<1>6. CASE ChangePriorities
  <2>1. /\ UNCHANGED <<enabled, created>>
        /\ priority' = [o \in Origins |-> IF o \in enabled THEN profilePriority'[o] + 1
                                          ELSE priority[o]]
    BY <1>6 DEF ChangePriorities
  <2>2. QED
    BY <1>1, <2>1 DEF PrioritiesCurrent
<1>7. ASSUME NEW m \in Mods, RescanMod(m)
      PROVE  PrioritiesCurrent'
  <2>1. UNCHANGED <<enabled, profilePriority, created, priority>> /\ phase = "ready"
    BY <1>7 DEF RescanMod, MayChange
  <2>2. QED
    BY <2>1 DEF WinnersInvariant, PrioritiesCurrent
<1>8. QED
  BY <1>2, <1>3, <1>4, <1>5, <1>6, <1>7 DEF Next, Work, User

\* Every step keeps the winners on top, or is on its way to the next sort.
LEMMA NextWinners ==
  ASSUME WinnersInvariant, Next
  PROVE  WinnersStay'
<1>1. CASE Sort
  <2>1. AllIdle
    BY <1>1 DEF Sort, WinnersInvariant, StructureInvariant, QuietAfterLoading
  <2>2. /\ StructureOK /\ priority \in [Origins -> Int]
        /\ \A i \in Live : register[i].main # NoProvider
    BY <2>1, StructureFromInvariant DEF WinnersInvariant
  <2>3. SortRegister /\ UNCHANGED <<files, originFiles, priority>>
    BY <1>1 DEF Sort
  <2>4. /\ Live' = Live
        /\ \A i \in Live : \A q \in ProvidersOf(register'[i]) :
             ~SortsBelow(priority, register'[i].main, q)
    BY <2>2, <2>3, SortKeeps
  <2>5. QED
    BY <2>3, <2>4 DEF WinnersStay
<1>2. CASE Clean
  <2>1. AllIdle
    BY <1>2 DEF Clean, WinnersInvariant, StructureInvariant, QuietAfterLoading
  <2>2. StructureOK
    BY <2>1, StructureFromInvariant DEF WinnersInvariant
  <2>3. CleanStructure /\ UNCHANGED priority /\ phase = "clean"
    BY <1>2 DEF Clean
  <2>4. Live' \subseteq Live /\ \A i \in Live' : register'[i] = register[i]
    BY <2>2, <2>3, CleanStructureKeeps
  <2>5. QED
    BY <2>3, <2>4 DEF WinnersInvariant, WinnersStay
<1>3. ASSUME NEW o \in Origins, Scan(o)
      PROVE  WinnersStay'
  <2>1. phase \in Loading
    BY <1>3, ScanIsLoading DEF WinnersInvariant
  <2>2. phase' = phase
    BY <1>3 DEF Scan, CreateOrigin, FindFile, AddOriginToFile, AddFileToOrigin,
                FinishLoose, FinishArchive, control
  <2>3. QED
    BY <2>1, <2>2 DEF WinnersStay, Loading
<1>4. CASE \/ DataScanned \/ Loaded \/ ArchivesAdded \/ Dropped
           \/ (\E m \in Mods : AddArchive(m) \/ Drop(m)) \/ User
  <2>1. phase' \notin {"clean", "ready"}
    BY <1>4 DEF DataScanned, Loaded, ArchivesAdded, Dropped, AddArchive, Drop,
                User, ChangeStatus, ChangePriorities, RescanMod
  <2>2. QED
    BY <2>1 DEF WinnersStay
<1>5. QED
  BY <1>1, <1>2, <1>3, <1>4 DEF Next, Work

\* Both at once, in the form of an inductive step.
LEMMA NextWinnersInvariant == WinnersInvariant /\ [Next]_vars => WinnersInvariant'
<1> SUFFICES ASSUME WinnersInvariant, [Next]_vars PROVE WinnersInvariant'
  OBVIOUS
<1>1. StructureInvariant'
  BY NextStructure DEF WinnersInvariant
<1>2. CASE Next
  BY <1>1, <1>2, NextPriorities, NextWinners DEF WinnersInvariant
<1>3. CASE UNCHANGED vars
  <2>1. UNCHANGED <<enabled, profilePriority, register, created, priority, task, phase>>
    BY <1>3 DEF vars, disk, structure, control
  <2>2. QED
    BY <1>1, <2>1 DEF WinnersInvariant, PrioritiesCurrent, WinnersStay, Live
<1>4. QED
  BY <1>2, <1>3

\* In every settled structure the origins have the profile's priorities and
\* each file is taken from a provider that no other one of its providers beats.
THEOREM WinnersTheorem == Spec => []WinnersOnTop
<1>1. Init => WinnersInvariant
  <2>1. Init => PrioritiesCurrent /\ WinnersStay
    BY DEF Init, PrioritiesCurrent, WinnersStay
  <2>2. QED
    BY <2>1, InitStructure DEF WinnersInvariant
<1>2. WinnersInvariant => WinnersOnTop
  BY DEF WinnersInvariant, PrioritiesCurrent, WinnersStay, WinnersOnTop
<1>3. QED
  BY <1>1, <1>2, NextWinnersInvariant, PTL DEF Spec

-----------------------------------------------------------------------------
(* What the structure holds while a change is under way *)

\* No mod ships a file loose and once more in its archive, and archives hold
\* none of the names that are cleaned out.
PlainContents ==
  \A c \in Contents : \A o \in Origins :
    c[o].loose \cap c[o].archived = {} /\ c[o].archived \cap Noise = {}

ContentPlain ==
  /\ PlainContents
  /\ content[Data].archived = {}
  /\ \A o \in Origins : /\ content[o].loose \cap content[o].archived = {}
                        /\ content[o].archived \cap Noise = {}

\* The provider that the file f of the origin o is.
ProviderOf(o, f) ==
  LET archived == f \notin content[o].loose
  IN  [origin |-> o, archived |-> archived, order |-> IF archived THEN ArchiveOrder[o] ELSE -1]

\* The scan of o has not added its origin to the file f yet.
Pending(o, f) ==
  \/ f \in worker[o].todo
  \/ worker[o].step = "add" /\ register[worker[o].index].name = f

\* The origin o has given its file f to the structure and not taken it back.
Gives(o, f) ==
  /\ o \in enabled \cup dropping \cup {Data}
  /\ phase = "data" => o = Data
  /\ worker[o].stage # "origin"
  /\ ~Pending(o, f)
  /\ \/ f \in content[o].loose
     \/ f \in content[o].archived /\ worker[o].stage # "loose" /\ o \notin archiving

\* What is left to do belongs to the operation under way and to its phase.
CourseFits ==
  /\ task # "status" => archiving = {} /\ dropping = {}
  /\ phase \notin {"load", "archives"} => archiving = {}
  /\ phase \notin {"load", "archives", "drop"} => dropping = {}
  /\ archiving \subseteq enabled
  /\ dropping \cap enabled = {}
  /\ dropping \subseteq created
  /\ phase = "data" => task = "refresh"
  /\ phase \in {"archives", "drop"} => task = "status"

\* A worker scans an active origin, in the phase and for the files its stage is
\* about; a mod without an origin is about to get one.
WorkerFits(o) ==
  LET w == worker[o]
  IN  /\ w.stage \in {"idle", "origin"} => w.todo = {}
      /\ w.stage # "idle" => o \in enabled \cup {Data} /\ (phase = "data" => o = Data)
      /\ w.stage \in {"origin", "loose"} =>
           /\ phase \in {"data", "load"}
           /\ o # Data /\ task = "status" => o \in archiving
      /\ w.stage = "loose" => w.todo \subseteq content[o].loose
      /\ w.stage = "archive" => o \notin archiving /\ w.todo \subseteq content[o].archived
      /\ w.step = "add" =>
           LET f == register[w.index].name
           IN  /\ f \notin w.todo
               /\ w.stage = "loose" => f \in content[o].loose
               /\ w.stage = "archive" => f \in content[o].archived
      /\ o \in enabled /\ phase # "data" => o \in created \/ w.stage = "origin"

\* The names cleaned out are only there between the scan of loose files and the
\* cleaning that follows it.
NoiseGone ==
  \/ phase \in {"data", "load", "clean"}
  \/ phase = "sort" /\ task = "refresh"
  \/ \A f \in Noise : files[f] = 0

\* An origin lists each file that lists it, or its worker is about to add it.
ListsComplete ==
  \A i \in Live : \A o \in OriginsOf(register[i]) :
    i \in originFiles[o] \/ (worker[o].step = "list" /\ worker[o].index = i)

\* Every entry lists each of its origins once.
EntriesCounted ==
  \A i \in Live :
    /\ register[i].main = NoProvider => register[i].alternatives = <<>>
    /\ register[i].main # NoProvider => Counted(register[i])

\* A file lists only origins that give it, and as what they give it.
ProvidersTrue ==
  \A i \in Live : \A p \in ProvidersOf(register[i]) :
    /\ p = ProviderOf(p.origin, register[i].name)
    /\ Gives(p.origin, register[i].name)

\* A file that an origin gives is there and lists the origin.
GivenThere ==
  \A o \in Origins : \A f \in Files \ Noise :
    Gives(o, f) => files[f] # 0 /\ o \in OriginsOf(register[files[f]])

CourseInvariant ==
  /\ ContentPlain
  /\ CourseFits
  /\ \A o \in Origins : WorkerFits(o)
  /\ NoiseGone
  /\ priority[Data] = 0

BooksInvariant == ListsComplete /\ EntriesCounted /\ ProvidersTrue /\ GivenThere

SettledInvariant == StructureInvariant /\ CourseInvariant /\ BooksInvariant

-----------------------------------------------------------------------------
(* Facts about a moment *)

\* What the steps need of the types.
LEMMA Typed ==
  ASSUME SettledInvariant
  PROVE  /\ content \in [Origins -> [loose : SUBSET Files, archived : SUBSET Files]]
         /\ enabled \in SUBSET Mods
         /\ worker \in [Origins -> WorkerState]
         /\ files \in [Files -> Nat]
         /\ originFiles \in [Origins -> SUBSET Nat]
         /\ created \in SUBSET Origins
         /\ Mods \subseteq Origins /\ Data \in Origins /\ Data \notin Mods
         /\ NoOrigin \notin Origins
         /\ Noise \subseteq Files
BY OriginAssumption, FileAssumption
   DEF SettledInvariant, StructureInvariant, TypeOK, Origins

\* A live entry is found by its name and has providers of its type.
LEMMA LiveEntry ==
  ASSUME StructureInvariant, NEW i \in Live
  PROVE  /\ register[i] \in Entry(Origins, Files)
         /\ register[i].name \in Files
         /\ files[register[i].name] = i
         /\ i \in Nat \ {0}
         /\ ProvidersOf(register[i]) \subseteq Provider(Origins)
         /\ OriginsOf(register[i]) \subseteq Origins
<1>1. /\ register \in Seq(Entries \cup {NoEntry})
      /\ NamesMatchRegister
  BY DEF StructureInvariant, TypeOK, Entries
<1>2. /\ register[i] \in Entry(Origins, Files)
      /\ i \in 1..Len(register) /\ Len(register) \in Nat
  BY <1>1, RegisterSlots DEF Entries
<1>3. ProvidersOf(register[i]) \subseteq Provider(Origins)
  <2>1. NoOrigin \notin Origins
    BY OriginAssumption
  <2>2. QED
    BY <1>2, <2>1, EntryProviders
<1>4. OriginsOf(register[i]) \subseteq Origins
  BY <1>3 DEF OriginsOf, Provider
<1>5. QED
  BY <1>1, <1>2, <1>3, <1>4 DEF NamesMatchRegister, Entry

\* A mod whose archive is still to be read has none of it in the structure.
LEMMA NoArchiveYet ==
  ASSUME SettledInvariant, NEW o \in Mods,
         worker[o].stage = "loose" \/ o \in archiving
  PROVE  ArchiveScan(o) = [Idle EXCEPT !.stage = "archive", !.todo = content[o].archived]
<1>1. SUFFICES ASSUME NEW i \in Live, NEW p \in ProvidersOf(register[i]),
                      p.archived, p.origin = o
               PROVE  FALSE
  BY DEF ArchiveScan, ContainsArchive, FromArchiveOf
<1>2. p = ProviderOf(o, register[i].name) /\ Gives(o, register[i].name)
  BY <1>1 DEF SettledInvariant, BooksInvariant, ProvidersTrue
<1>3. register[i].name \notin content[o].loose
  <2>1. p.archived = (register[i].name \notin content[o].loose)
    BY <1>2 DEF ProviderOf
  <2>2. QED
    BY <1>1, <2>1
<1>4. QED
  BY <1>2, <1>3 DEF Gives

-----------------------------------------------------------------------------
(* Steps that leave the structure alone *)

\* The books stay right while neither the files nor what the origins give changes.
LEMMA SameBooks ==
  ASSUME SettledInvariant, UNCHANGED <<content, register, files, originFiles>>,
         \A p \in Origins : \A f \in Files : Gives(p, f)' <=> Gives(p, f),
         \A p \in Origins : worker[p].step = "list" =>
                              worker'[p].step = "list" /\ worker'[p].index = worker[p].index
  PROVE  BooksInvariant'
<1>1. Live' = Live
  BY DEF Live
<1>2. ListsComplete'
  BY <1>1, LiveEntry DEF SettledInvariant, BooksInvariant, ListsComplete
<1>3. EntriesCounted'
  BY <1>1 DEF SettledInvariant, BooksInvariant, EntriesCounted
<1>4. ProvidersTrue'
  <2>1. SUFFICES ASSUME NEW i \in Live, NEW p \in ProvidersOf(register[i]), NEW f, f = register[i].name
                 PROVE  p = ProviderOf(p.origin, f)' /\ Gives(p.origin, f)'
    BY <1>1 DEF ProvidersTrue
  <2>2. f \in Files /\ p.origin \in Origins
    BY <2>1, LiveEntry DEF SettledInvariant, Provider
  <2>3. p = ProviderOf(p.origin, f) /\ Gives(p.origin, f)
    BY <2>1 DEF SettledInvariant, BooksInvariant, ProvidersTrue
  <2>4. ProviderOf(p.origin, f)' = ProviderOf(p.origin, f)
    BY DEF ProviderOf
  <2>5. QED
    BY <2>2, <2>3, <2>4
<1>5. GivenThere'
  BY DEF SettledInvariant, BooksInvariant, GivenThere
<1>6. QED
  BY <1>2, <1>3, <1>4, <1>5 DEF BooksInvariant

-----------------------------------------------------------------------------
(* The scans *)

\* addOrigin leaves the entry in its slot and under its name.
LEMMA AddOriginFrame ==
  ASSUME StructureInvariant, NEW o \in Origins, AddOriginToFile(o)
  PROVE  LET x == worker[o].index
         IN  /\ x \in Live /\ Live' = Live
             /\ worker[o].stage \in {"loose", "archive"}
             /\ \A i \in Live : i # x => register'[i] = register[i]
             /\ register'[x] = AddOrigin(priority, register[x], ProviderFor(o))
             /\ ProviderFor(o) \in Provider(Origins)
             /\ register'[x] \in Entry(Origins, Files)
             /\ register'[x].name = register[x].name
             /\ register'[x].main # NoProvider
             /\ OriginsOf(register'[x]) = OriginsOf(register[x]) \cup {o}
             /\ ProvidersOf(register'[x]) \subseteq ProvidersOf(register[x]) \cup {ProviderFor(o)}
<1> DEFINE x == worker[o].index
           e == AddOrigin(priority, register[x], ProviderFor(o))
<1>1. /\ worker[o].step = "add"
      /\ worker[o] \in WorkerState
      /\ worker[o].stage \in {"loose", "archive"}
      /\ worker[o].stage = "archive" => o \in Mods
      /\ x \in Live
  BY DEF AddOriginToFile, StructureInvariant, TypeOK, WorkersHoldFiles, WorkerState
<1>2. /\ DOMAIN register = 1..Len(register) /\ Live \subseteq DOMAIN register
      /\ register[x] \in Entry(Origins, Files) /\ NoOrigin \notin Origins
      /\ NoEntry \notin Entry(Origins, Files)
  BY <1>1, RegisterSlots, OriginAssumption DEF StructureInvariant, TypeOK, Entries
<1>3. ProviderFor(o) \in Provider(Origins) /\ ProviderFor(o).origin = o
  BY <1>1, DiskAssumption DEF ProviderFor, Provider
<1>4. register' = [register EXCEPT ![x] = e]
  BY <1>1 DEF AddOriginToFile
<1> HIDE DEF x
<1>5. /\ e \in Entry(Origins, Files) /\ e.name = register[x].name /\ e.main # NoProvider
      /\ OriginsOf(e) = OriginsOf(register[x]) \cup {o}
      /\ ProvidersOf(e) \subseteq ProvidersOf(register[x]) \cup {ProviderFor(o)}
  BY <1>2, <1>3, AddOriginProperties
<1> HIDE DEF e
<1>6. /\ DOMAIN register' = DOMAIN register
      /\ \A i \in DOMAIN register : register'[i] = IF i = x THEN e ELSE register[i]
  BY <1>4
<1>7. Live' = Live
  BY <1>1, <1>2, <1>5, <1>6 DEF Live
<1>8. x \in DOMAIN register /\ register'[x] = e
  BY <1>1, <1>2, <1>6
<1>9. \A i \in Live : i # x => register'[i] = register[i]
  BY <1>2, <1>6
<1>10. QED
  BY <1>1, <1>3, <1>5, <1>7, <1>8, <1>9 DEF x, e

\* What insert does when it looks up f.
Found(o, f) ==
  /\ f \in Files
  /\ worker'[o] = [worker[o] EXCEPT !.todo = @ \ {f}, !.index = files'[f], !.step = "add"]
  /\ \A g \in Files : g # f => files'[g] = files[g]
  /\ files[f] # 0 => files'[f] = files[f]
  /\ files[f] = 0 => files'[f] \notin Live /\ register'[files'[f]] = NewEntry(f)
  /\ files'[f] \in Live' /\ register'[files'[f]].name = f
  /\ Live' = Live \cup {files'[f]}
  /\ \A i \in Live : register'[i] = register[i]

\* insert finds the entry of a name or makes a new one for it.
LEMMA FindFileFrame ==
  ASSUME StructureInvariant, NEW o \in Origins, FindFile(o)
  PROVE  \E f \in worker[o].todo : Found(o, f)
<1>1. PICK f \in worker[o].todo :
        LET known == files[f] # 0
            i     == IF known THEN files[f] ELSE Len(register) + 1
        IN  /\ register' = IF known THEN register ELSE Append(register, NewEntry(f))
            /\ files' = [files EXCEPT ![f] = i]
            /\ worker' = [worker EXCEPT ![o].todo = @ \ {f},
                                        ![o].index = i,
                                        ![o].step = "add"]
  BY DEF FindFile
<1>2. /\ worker \in [Origins -> WorkerState] /\ f \in Files
      /\ files \in [Files -> Nat]
  BY DEF StructureInvariant, TypeOK, WorkerState
<1>3. /\ Len(register) \in Nat
      /\ DOMAIN register = 1..Len(register)
      /\ Live \subseteq 1..Len(register)
      /\ register \in Seq(Entries \cup {NoEntry})
      /\ NoEntry \notin Entries
  BY RegisterSlots DEF StructureInvariant, TypeOK, Entries
<1>4. NewEntry(f) \in Entries /\ NewEntry(f).name = f
  BY <1>2, NewEntryProperties DEF Entries, NewEntry
<1>5. CASE files[f] # 0
  <2>1. register' = register /\ files' = [files EXCEPT ![f] = files[f]]
    BY <1>1, <1>5
  <2>2. files' = files /\ Live' = Live
    BY <1>2, <2>1 DEF Live
  <2>3. files[f] \in Live /\ register[files[f]].name = f
    BY <1>2, <1>5 DEF StructureInvariant, NamesMatchRegister
  <2>4. worker'[o] = [worker[o] EXCEPT !.todo = @ \ {f}, !.index = files'[f], !.step = "add"]
    BY <1>1, <1>2, <1>5, <2>2
  <2>5. Live' = Live \cup {files'[f]} /\ \A i \in Live : register'[i] = register[i]
    BY <2>1, <2>2, <2>3
  <2>6. files'[f] \in Live' /\ register'[files'[f]].name = f
    BY <2>1, <2>2, <2>3
  <2>7. Found(o, f)
    BY <1>2, <1>5, <2>2, <2>4, <2>5, <2>6 DEF Found
  <2>8. QED
    BY <2>7
<1>6. CASE files[f] = 0
  <2> DEFINE k == Len(register) + 1
  <2>1. register' = Append(register, NewEntry(f)) /\ files' = [files EXCEPT ![f] = k]
    BY <1>1, <1>6
  <2>2. /\ \A j \in 1..Len(register) : register'[j] = register[j]
        /\ register'[k] = NewEntry(f)
        /\ DOMAIN register' = 1..k
    <3>1. /\ register' \in Seq(Entries \cup {NoEntry})
          /\ Len(register') = k
          /\ \A j \in 1..Len(register) : register'[j] = register[j]
          /\ register'[k] = NewEntry(f)
      BY <1>3, <1>4, <2>1, AppendProperties
    <3>2. QED
      BY <3>1, LenProperties
  <2>3. Live' = Live \cup {k} /\ k \notin Live
    BY <1>3, <1>4, <2>2 DEF Live
  <2>4. files'[f] = k /\ \A g \in Files : g # f => files'[g] = files[g]
    BY <1>2, <2>1
  <2>5. worker'[o] = [worker[o] EXCEPT !.todo = @ \ {f}, !.index = k, !.step = "add"]
    BY <1>1, <1>2, <1>6
  <2>6. \A i \in Live : register'[i] = register[i]
    BY <1>3, <2>2
  <2> HIDE DEF k
  <2>7. Found(o, f)
    BY <1>2, <1>4, <1>6, <2>2, <2>3, <2>4, <2>5, <2>6 DEF Found
  <2>8. QED
    BY <2>7
<1>7. QED
  BY <1>5, <1>6

\* What a step of the scan of o leaves to the other origins.
LEMMA ScanFrame ==
  ASSUME SettledInvariant, NEW o \in Origins, Scan(o)
  PROVE  /\ UNCHANGED <<content, enabled, task, phase, archiving, dropping>>
         /\ created \subseteq created'
         /\ \A p \in Origins : p # o => worker'[p] = worker[p]
         /\ \A i \in Live : i \in Live' /\ register'[i].name = register[i].name
         /\ ContentPlain' /\ CourseFits' /\ priority'[Data] = 0
         /\ \A p \in Origins : p # o =>
              /\ WorkerFits(p)'
              /\ \A f \in Files : Gives(p, f)' <=> Gives(p, f)
<1>1. /\ UNCHANGED <<content, enabled, task, phase, archiving, dropping>>
      /\ created \subseteq created'
      /\ \A p \in Origins : p # o => worker'[p] = worker[p]
  BY Typed DEF Scan, CreateOrigin, FindFile, AddOriginToFile, AddFileToOrigin,
               FinishLoose, FinishArchive, disk, structure, control
<1>2. \A i \in Live : i \in Live' /\ register'[i].name = register[i].name
  <2>1. CASE AddOriginToFile(o)
    BY <2>1, AddOriginFrame DEF SettledInvariant
  <2>2. CASE FindFile(o)
    BY <2>2, FindFileFrame DEF SettledInvariant, Found
  <2>3. CASE ~AddOriginToFile(o) /\ ~FindFile(o)
    BY <2>3 DEF Scan, CreateOrigin, AddFileToOrigin, FinishLoose, FinishArchive,
                structure, Live
  <2>4. QED
    BY <2>1, <2>2, <2>3
<1>3. ContentPlain' /\ CourseFits'
  BY <1>1 DEF SettledInvariant, CourseInvariant, ContentPlain, CourseFits
<1>4. priority'[Data] = 0
  <2>1. priority \in [Origins -> Int] /\ priority[Data] = 0
    BY DEF SettledInvariant, StructureInvariant, TypeOK, CourseInvariant
  <2>2. \/ priority' = priority
        \/ priority' = [priority EXCEPT ![o] = IF o = Data THEN 0 ELSE profilePriority[o] + 1]
    BY DEF Scan, CreateOrigin, FindFile, AddOriginToFile, AddFileToOrigin,
           FinishLoose, FinishArchive, structure
  <2>3. QED
    BY <2>1, <2>2, Typed
<1>5. ASSUME NEW p \in Origins, p # o
      PROVE  /\ WorkerFits(p)'
             /\ \A f \in Files : Gives(p, f)' <=> Gives(p, f)
  <2>1. worker'[p] = worker[p]
    BY <1>1, <1>5
  <2>2. worker[p].step = "add" =>
          register'[worker[p].index].name = register[worker[p].index].name
    BY <1>2 DEF SettledInvariant, StructureInvariant, WorkersHoldFiles
  <2>3. WorkerFits(p)
    BY DEF SettledInvariant, CourseInvariant
  <2>4. WorkerFits(p)'
    BY <1>1, <2>1, <2>2, <2>3 DEF WorkerFits
  <2>5. ASSUME NEW f \in Files
        PROVE  Gives(p, f)' <=> Gives(p, f)
    BY <1>1, <2>1, <2>2 DEF Gives, Pending
  <2>6. QED
    BY <2>4, <2>5
<1>6. QED
  BY <1>1, <1>2, <1>3, <1>4, <1>5

\* What is left of CourseInvariant' and BooksInvariant' for a step of the scan of o
\* that looks up no name and adds no origin to a file.
LEMMA QuietScan ==
  ASSUME SettledInvariant, NEW o \in Origins, Scan(o),
         UNCHANGED <<register, files>>,
         WorkerFits(o)',
         \A f \in Files : Gives(o, f)' <=> Gives(o, f),
         \/ originFiles' = originFiles /\ worker[o].step # "list"
         \/ AddFileToOrigin(o)
  PROVE  CourseInvariant' /\ BooksInvariant'
<1>1. /\ UNCHANGED <<content, enabled, task, phase, archiving, dropping>>
      /\ \A p \in Origins : p # o => worker'[p] = worker[p]
      /\ ContentPlain' /\ CourseFits' /\ priority'[Data] = 0
      /\ \A p \in Origins : p # o => WorkerFits(p)'
      /\ \A p \in Origins : p # o => \A f \in Files : Gives(p, f)' <=> Gives(p, f)
  BY ScanFrame
<1>2. NoiseGone'
  BY <1>1 DEF SettledInvariant, CourseInvariant, NoiseGone
<1>3. CourseInvariant'
  BY <1>1, <1>2 DEF CourseInvariant
<1>4. \A p \in Origins : \A f \in Files : Gives(p, f)' <=> Gives(p, f)
  BY <1>1
<1>5. CASE originFiles' = originFiles /\ worker[o].step # "list"
  <2>1. \A p \in Origins : worker[p].step = "list" =>
                             worker'[p].step = "list" /\ worker'[p].index = worker[p].index
    BY <1>1, <1>5
  <2>2. QED
    BY <1>1, <1>3, <1>4, <1>5, <2>1, SameBooks
<1>6. CASE AddFileToOrigin(o)
  <2>1. /\ worker[o].step = "list"
        /\ originFiles' = [originFiles EXCEPT ![o] = @ \cup {worker[o].index}]
    BY <1>6 DEF AddFileToOrigin
  <2>2. Live' = Live
    BY DEF Live
  <2>3. ListsComplete'
    <3>1. SUFFICES ASSUME NEW i \in Live, NEW p \in OriginsOf(register[i])
                   PROVE  i \in originFiles'[p] \/ (worker'[p].step = "list" /\ worker'[p].index = i)
      BY <2>2 DEF ListsComplete
    <3>2. p \in Origins
      BY LiveEntry DEF SettledInvariant
    <3>3. i \in originFiles[p] \/ (worker[p].step = "list" /\ worker[p].index = i)
      BY DEF SettledInvariant, BooksInvariant, ListsComplete
    <3>4. CASE p = o
      BY <2>1, <3>3, <3>4, Typed
    <3>5. CASE p # o
      BY <1>1, <2>1, <3>2, <3>3, <3>5, Typed
    <3>6. QED
      BY <3>4, <3>5
  <2>4. EntriesCounted'
    BY <2>2 DEF SettledInvariant, BooksInvariant, EntriesCounted
  <2>5. ProvidersTrue'
    <3>1. SUFFICES ASSUME NEW i \in Live, NEW p \in ProvidersOf(register[i]),
                          NEW f, f = register[i].name
                   PROVE  p = ProviderOf(p.origin, f)' /\ Gives(p.origin, f)'
      BY <2>2 DEF ProvidersTrue
    <3>2. f \in Files /\ p.origin \in Origins
      BY <3>1, LiveEntry DEF SettledInvariant, Provider
    <3>3. p = ProviderOf(p.origin, f) /\ Gives(p.origin, f)
      BY <3>1 DEF SettledInvariant, BooksInvariant, ProvidersTrue
    <3>4. ProviderOf(p.origin, f)' = ProviderOf(p.origin, f)
      BY <1>1 DEF ProviderOf
    <3>5. QED
      BY <1>4, <3>2, <3>3, <3>4
  <2>6. GivenThere'
    BY <1>4 DEF SettledInvariant, BooksInvariant, GivenThere
  <2>7. QED
    BY <1>3, <2>3, <2>4, <2>5, <2>6 DEF BooksInvariant
<1>7. QED
  BY <1>5, <1>6

\* The steps of a scan between two files.
LEMMA ScanTurns ==
  ASSUME SettledInvariant, NEW o \in Origins,
         CreateOrigin(o) \/ FinishLoose(o) \/ FinishArchive(o)
  PROVE  CourseInvariant' /\ BooksInvariant'
<1>1. /\ worker[o].step = "find"
      /\ UNCHANGED <<register, files, originFiles, content, enabled, task, phase, archiving, dropping>>
  BY DEF CreateOrigin, FinishLoose, FinishArchive, structure, disk, control,
         SettledInvariant, StructureInvariant, WorkersHoldFiles
<1>2. /\ WorkerFits(o) /\ CourseFits /\ ContentPlain
      /\ worker \in [Origins -> WorkerState]
      /\ content[o] \in [loose : SUBSET Files, archived : SUBSET Files]
      /\ Data \notin Mods /\ Origins = Mods \cup {Data} /\ enabled \subseteq Mods
  BY Typed DEF SettledInvariant, CourseInvariant, Origins
<1>3. WorkerFits(o)' /\ \A f \in Files : Gives(o, f)' <=> Gives(o, f)
  <2>1. CASE CreateOrigin(o)
    <3>1. /\ worker[o].stage = "origin" /\ o \in created'
          /\ worker'[o] = [stage |-> "loose", step |-> "find", todo |-> content[o].loose, index |-> 0]
      BY <1>2, <2>1 DEF CreateOrigin, Idle
    <3>2. WorkerFits(o)'
      BY <1>1, <1>2, <3>1 DEF WorkerFits
    <3>3. ASSUME NEW f \in Files
          PROVE  ~Gives(o, f)' /\ ~Gives(o, f)
      BY <1>1, <3>1 DEF Gives, Pending
    <3>4. QED
      BY <3>2, <3>3
  <2>2. CASE FinishArchive(o)
    <3>1. /\ worker[o].stage = "archive" /\ worker[o].todo = {} /\ created' = created
          /\ worker'[o] = [stage |-> "idle", step |-> "find", todo |-> {}, index |-> 0]
      BY <1>2, <2>2 DEF FinishArchive, Idle, structure
    <3>2. WorkerFits(o)'
      BY <1>1, <1>2, <3>1 DEF WorkerFits
    <3>3. ASSUME NEW f \in Files
          PROVE  Gives(o, f)' <=> Gives(o, f)
      BY <1>1, <3>1 DEF Gives, Pending
    <3>4. QED
      BY <3>2, <3>3
  <2>3. CASE FinishLoose(o) /\ (o = Data \/ task = "status")
    <3>1. /\ worker[o].stage = "loose" /\ worker[o].todo = {} /\ created' = created
          /\ worker'[o] = [stage |-> "idle", step |-> "find", todo |-> {}, index |-> 0]
      BY <1>2, <2>3 DEF FinishLoose, Idle, structure
    <3>2. WorkerFits(o)'
      BY <1>1, <1>2, <3>1 DEF WorkerFits
    <3>3. content[o].archived = {} \/ o \in archiving
      BY <1>2, <2>3, <3>1 DEF WorkerFits, ContentPlain
    <3>4. ASSUME NEW f \in Files
          PROVE  Gives(o, f)' <=> Gives(o, f)
      BY <1>1, <3>1, <3>3 DEF Gives, Pending
    <3>5. QED
      BY <3>2, <3>4
  <2>4. CASE FinishLoose(o) /\ ~(o = Data \/ task = "status")
    <3>1. /\ worker[o].stage = "loose" /\ worker[o].todo = {} /\ created' = created
          /\ worker'[o] = ArchiveScan(o)
      BY <1>2, <2>4 DEF FinishLoose, structure
    <3>2. o \in Mods /\ archiving = {}
      BY <1>2, <2>4 DEF CourseFits
    <3>3. worker'[o] = [stage |-> "archive", step |-> "find", todo |-> content[o].archived, index |-> 0]
      BY <3>1, <3>2, NoArchiveYet DEF Idle
    <3>4. WorkerFits(o)'
      BY <1>1, <1>2, <3>1, <3>2, <3>3 DEF WorkerFits
    <3>5. ASSUME NEW f \in Files
          PROVE  Gives(o, f)' <=> Gives(o, f)
      BY <1>1, <1>2, <3>1, <3>3 DEF Gives, Pending, ContentPlain
    <3>6. QED
      BY <3>4, <3>5
  <2>5. QED
    BY <2>1, <2>2, <2>3, <2>4
<1>4. QED
  BY <1>1, <1>3, QuietScan DEF Scan

\* The origin lists a file that lists it already.
LEMMA ScanLists ==
  ASSUME SettledInvariant, NEW o \in Origins, AddFileToOrigin(o)
  PROVE  CourseInvariant' /\ BooksInvariant'
<1>1. UNCHANGED <<register, files, content, enabled, task, phase, archiving, dropping, created>>
  BY DEF AddFileToOrigin, disk, control
<1>2. /\ WorkerFits(o)
      /\ worker \in [Origins -> WorkerState]
  BY Typed DEF SettledInvariant, CourseInvariant
<1>3. /\ worker[o].step = "list"
      /\ worker'[o] = [stage |-> worker[o].stage, step |-> "find", todo |-> worker[o].todo, index |-> 0]
  BY <1>2 DEF AddFileToOrigin, WorkerState
<1>4. WorkerFits(o)'
  BY <1>1, <1>2, <1>3 DEF WorkerFits
<1>5. ASSUME NEW f \in Files
      PROVE  Gives(o, f)' <=> Gives(o, f)
  BY <1>1, <1>3 DEF Gives, Pending
<1>6. QED
  BY <1>1, <1>4, <1>5, QuietScan DEF Scan

\* Looking up a name gives the file to nobody yet.
LEMMA ScanFinds ==
  ASSUME SettledInvariant, NEW o \in Origins, FindFile(o)
  PROVE  CourseInvariant' /\ BooksInvariant'
<1>1. PICK f \in worker[o].todo : Found(o, f)
  BY FindFileFrame DEF SettledInvariant
<1>2. /\ UNCHANGED <<content, enabled, task, phase, archiving, dropping>>
      /\ \A p \in Origins : p # o => worker'[p] = worker[p]
      /\ ContentPlain' /\ CourseFits' /\ priority'[Data] = 0
      /\ \A p \in Origins : p # o => WorkerFits(p)'
      /\ \A p \in Origins : p # o => \A g \in Files : Gives(p, g)' <=> Gives(p, g)
  BY ScanFrame DEF Scan
<1>3. /\ worker[o].step = "find" /\ worker[o].stage \in {"loose", "archive"}
      /\ UNCHANGED <<created, originFiles>>
  BY DEF FindFile
<1>4. /\ WorkerFits(o) /\ ContentPlain /\ NoiseGone
      /\ worker[o] \in WorkerState
      /\ content[o] \in [loose : SUBSET Files, archived : SUBSET Files]
  BY Typed DEF SettledInvariant, CourseInvariant
<1>5. /\ f \in Files
      /\ worker'[o] = [stage |-> worker[o].stage, step |-> "add", todo |-> worker[o].todo \ {f},
                       index |-> files'[f]]
      /\ register'[files'[f]].name = f
      /\ files'[f] \in Live'
  BY <1>1, <1>4 DEF Found, WorkerState
<1>6. WorkerFits(o)'
  BY <1>2, <1>3, <1>4, <1>5 DEF WorkerFits
<1>7. \A g \in Files : Gives(o, g)' <=> Gives(o, g)
  <2>1. SUFFICES ASSUME NEW g \in Files PROVE Gives(o, g)' <=> Gives(o, g)
    OBVIOUS
  <2>2. Pending(o, g)' <=> Pending(o, g)
    BY <1>3, <1>5 DEF Pending
  <2>3. worker'[o].stage = worker[o].stage
    BY <1>5
  <2>4. QED
    BY <1>2, <2>2, <2>3 DEF Gives
<1>8. \A p \in Origins : \A g \in Files : Gives(p, g)' <=> Gives(p, g)
  BY <1>2, <1>7
<1>9. NoiseGone'
  <2>1. CASE worker[o].stage = "loose"
    BY <1>2, <1>4, <2>1 DEF WorkerFits, NoiseGone
  <2>2. CASE worker[o].stage = "archive"
    <3>1. f \notin Noise
      BY <1>4, <2>2 DEF WorkerFits, ContentPlain
    <3>2. \A g \in Noise : files'[g] = files[g]
      BY <1>1, <3>1, FileAssumption DEF Found
    <3>3. QED
      BY <1>2, <1>4, <3>2 DEF NoiseGone
  <2>3. QED
    BY <1>3, <2>1, <2>2
<1>10. ASSUME NEW i \in Live'
       PROVE  \/ i \in Live /\ register'[i] = register[i]
              \/ register'[i] = NewEntry(f)
  <2>1. i \in Live \/ i = files'[f]
    BY <1>1 DEF Found
  <2>2. i \in Live => register'[i] = register[i]
    BY <1>1 DEF Found
  <2>3. CASE i \notin Live
    <3>1. files[f] = 0
      BY <1>1, <1>5, <2>1, <2>3
         DEF Found, SettledInvariant, StructureInvariant, NamesMatchRegister
    <3>2. QED
      BY <1>1, <2>1, <2>3, <3>1 DEF Found
  <2>4. QED
    BY <2>2, <2>3
<1>11. ProvidersOf(NewEntry(f)) = {} /\ OriginsOf(NewEntry(f)) = {}
  BY NewEntryProperties DEF OriginsOf, NewEntry, ProvidersOf, Range
<1>12. ListsComplete'
  <2>1. SUFFICES ASSUME NEW i \in Live, NEW p \in OriginsOf(register[i])
                 PROVE  i \in originFiles[p] \/ (worker'[p].step = "list" /\ worker'[p].index = i)
    BY <1>3, <1>10, <1>11 DEF ListsComplete
  <2>2. p \in Origins
    BY LiveEntry DEF SettledInvariant
  <2>3. i \in originFiles[p] \/ (worker[p].step = "list" /\ worker[p].index = i)
    BY DEF SettledInvariant, BooksInvariant, ListsComplete
  <2>4. QED
    BY <1>2, <1>3, <2>2, <2>3
<1>13. EntriesCounted'
  <2>1. NewEntry(f).main = NoProvider /\ NewEntry(f).alternatives = <<>>
    BY DEF NewEntry
  <2>2. QED
    BY <1>10, <2>1 DEF SettledInvariant, BooksInvariant, EntriesCounted
<1>14. ProvidersTrue'
  <2>1. SUFFICES ASSUME NEW i \in Live, NEW p \in ProvidersOf(register[i]),
                        NEW g, g = register[i].name
                 PROVE  p = ProviderOf(p.origin, g)' /\ Gives(p.origin, g)'
    BY <1>10, <1>11 DEF ProvidersTrue
  <2>2. g \in Files /\ p.origin \in Origins
    BY <2>1, LiveEntry DEF SettledInvariant, Provider
  <2>3. p = ProviderOf(p.origin, g) /\ Gives(p.origin, g)
    BY <2>1 DEF SettledInvariant, BooksInvariant, ProvidersTrue
  <2>4. ProviderOf(p.origin, g)' = ProviderOf(p.origin, g)
    BY <1>2 DEF ProviderOf
  <2>5. QED
    BY <1>8, <2>2, <2>3, <2>4
<1>15. GivenThere'
  <2>1. SUFFICES ASSUME NEW p \in Origins, NEW g \in Files \ Noise, Gives(p, g)
                 PROVE  files'[g] # 0 /\ p \in OriginsOf(register'[files'[g]])
    BY <1>8 DEF GivenThere
  <2>2. files[g] # 0 /\ p \in OriginsOf(register[files[g]])
    BY <2>1 DEF SettledInvariant, BooksInvariant, GivenThere
  <2>3. files[g] \in Live
    BY <2>2 DEF SettledInvariant, StructureInvariant, NamesMatchRegister
  <2>4. files'[g] = files[g] /\ register'[files[g]] = register[files[g]]
    BY <1>1, <2>2, <2>3 DEF Found
  <2>5. QED
    BY <2>2, <2>4
<1>16. QED
  BY <1>2, <1>6, <1>9, <1>12, <1>13, <1>14, <1>15 DEF CourseInvariant, BooksInvariant

\* The file lists the origin, as what the origin gives it.
LEMMA ScanAdds ==
  ASSUME SettledInvariant, NEW o \in Origins, AddOriginToFile(o)
  PROVE  CourseInvariant' /\ BooksInvariant'
<1>0. PICK x, n : x = worker[o].index /\ n = register[x].name
  OBVIOUS
<1>1. /\ x \in Live /\ Live' = Live
      /\ worker[o].stage \in {"loose", "archive"}
      /\ \A i \in Live : i # x => register'[i] = register[i]
      /\ register'[x] = AddOrigin(priority, register[x], ProviderFor(o))
      /\ ProviderFor(o) \in Provider(Origins)
      /\ register'[x] \in Entry(Origins, Files)
      /\ register'[x].name = n
      /\ register'[x].main # NoProvider
      /\ OriginsOf(register'[x]) = OriginsOf(register[x]) \cup {o}
      /\ ProvidersOf(register'[x]) \subseteq ProvidersOf(register[x]) \cup {ProviderFor(o)}
  BY <1>0, AddOriginFrame DEF SettledInvariant
<1>2. /\ UNCHANGED <<content, enabled, task, phase, archiving, dropping>>
      /\ \A p \in Origins : p # o => worker'[p] = worker[p]
      /\ ContentPlain' /\ CourseFits' /\ priority'[Data] = 0
      /\ \A p \in Origins : p # o => WorkerFits(p)'
      /\ \A p \in Origins : p # o => \A g \in Files : Gives(p, g)' <=> Gives(p, g)
  BY ScanFrame DEF Scan
<1>3. /\ WorkerFits(o) /\ ContentPlain /\ NoiseGone
      /\ worker \in [Origins -> WorkerState]
      /\ content[o] \in [loose : SUBSET Files, archived : SUBSET Files]
  BY Typed DEF SettledInvariant, CourseInvariant
<1>4. /\ worker[o].step = "add"
      /\ worker'[o] = [stage |-> worker[o].stage, step |-> "list", todo |-> worker[o].todo, index |-> x]
      /\ UNCHANGED <<files, created, originFiles>>
  BY <1>0, <1>3 DEF AddOriginToFile, WorkerState
<1>5. /\ register[x] \in Entry(Origins, Files) /\ n \in Files /\ files[n] = x
      /\ x # 0
  BY <1>0, <1>1, LiveEntry DEF SettledInvariant
<1>6. /\ n \notin worker[o].todo
      /\ worker[o].stage = "loose" => n \in content[o].loose
      /\ worker[o].stage = "archive" =>
           n \in content[o].archived /\ n \notin content[o].loose /\ o \notin archiving
      /\ o \in enabled \cup {Data} /\ (phase = "data" => o = Data)
  BY <1>0, <1>1, <1>3, <1>4 DEF WorkerFits, ContentPlain
<1>7. WorkerFits(o)'
  BY <1>2, <1>3, <1>4 DEF WorkerFits
<1>8. \A g \in Files : g # n => (Gives(o, g)' <=> Gives(o, g))
  <2>1. SUFFICES ASSUME NEW g \in Files, g # n PROVE Gives(o, g)' <=> Gives(o, g)
    OBVIOUS
  <2>2. Pending(o, g)' <=> Pending(o, g)
    BY <1>0, <1>4, <2>1 DEF Pending
  <2>3. worker'[o].stage = worker[o].stage
    BY <1>4
  <2>4. QED
    BY <1>2, <2>2, <2>3 DEF Gives
<1>9. Gives(o, n)' /\ ~Gives(o, n)
  <2>1. Pending(o, n)
    BY <1>0, <1>4 DEF Pending
  <2>2. ~Pending(o, n)'
    BY <1>4, <1>6 DEF Pending
  <2>3. Gives(o, n)'
    BY <1>1, <1>2, <1>4, <1>6, <2>2 DEF Gives
  <2>4. QED
    BY <2>1, <2>3 DEF Gives
<1>10. \A p \in Origins : \A g \in Files : Gives(p, g)' <=> Gives(p, g) \/ (p = o /\ g = n)
  BY <1>2, <1>8, <1>9
<1>11. o \notin OriginsOf(register[x])
  <2>1. SUFFICES ASSUME NEW p \in ProvidersOf(register[x]), p.origin = o
                 PROVE  FALSE
    BY DEF OriginsOf
  <2>2. Gives(o, n)
    BY <1>0, <1>1, <2>1 DEF SettledInvariant, BooksInvariant, ProvidersTrue
  <2>3. QED
    BY <1>9, <2>2
<1>12. ProviderFor(o) = ProviderOf(o, n)
  BY <1>1, <1>6 DEF ProviderFor, ProviderOf
<1>13. CourseInvariant'
  <2>1. NoiseGone'
    BY <1>2, <1>3, <1>4 DEF NoiseGone
  <2>2. QED
    BY <1>2, <1>7, <2>1 DEF CourseInvariant
<1>14. ListsComplete'
  <2>1. SUFFICES ASSUME NEW i \in Live, NEW p \in OriginsOf(register'[i])
                 PROVE  i \in originFiles[p] \/ (worker'[p].step = "list" /\ worker'[p].index = i)
    BY <1>1, <1>4 DEF ListsComplete
  <2>2. CASE p = o /\ i = x
    BY <1>4, <2>2
  <2>3. CASE ~(p = o /\ i = x)
    <3>1. p \in OriginsOf(register[i])
      BY <1>1, <2>3
    <3>2. i \in originFiles[p] \/ (worker[p].step = "list" /\ worker[p].index = i)
      BY <3>1 DEF SettledInvariant, BooksInvariant, ListsComplete
    <3>3. p \in Origins
      BY <3>1, LiveEntry DEF SettledInvariant
    <3>4. QED
      BY <1>2, <1>4, <3>2, <3>3
  <2>4. QED
    BY <2>2, <2>3
<1>15. EntriesCounted'
  <2>1. Counted(register'[x])
    <3>1. /\ register[x].main = NoProvider => register[x].alternatives = <<>>
          /\ register[x].main # NoProvider => Counted(register[x])
      BY <1>1 DEF SettledInvariant, BooksInvariant, EntriesCounted
    <3>2. NoOrigin \notin Origins /\ ProviderFor(o).origin = o
      BY OriginAssumption DEF ProviderFor
    <3>3. QED
      BY <1>1, <1>5, <1>11, <3>1, <3>2, AddOriginCounts
  <2>2. QED
    BY <1>1, <2>1 DEF SettledInvariant, BooksInvariant, EntriesCounted
<1>16. ProvidersTrue'
  <2>1. SUFFICES ASSUME NEW i \in Live, NEW p \in ProvidersOf(register'[i]),
                        NEW g, g = register'[i].name
                 PROVE  p = ProviderOf(p.origin, g)' /\ Gives(p.origin, g)'
    BY <1>1 DEF ProvidersTrue
  <2>2. g = register[i].name
    BY <1>0, <1>1, <2>1
  <2>3. \A q : ProviderOf(q, g)' = ProviderOf(q, g)
    BY <1>2 DEF ProviderOf
  <2>4. CASE i = x /\ p = ProviderFor(o)
    BY <1>0, <1>9, <1>12, <2>2, <2>3, <2>4 DEF ProviderFor
  <2>5. CASE ~(i = x /\ p = ProviderFor(o))
    <3>1. p \in ProvidersOf(register[i])
      BY <1>1, <2>5
    <3>2. p = ProviderOf(p.origin, g) /\ Gives(p.origin, g)
      BY <2>2, <3>1 DEF SettledInvariant, BooksInvariant, ProvidersTrue
    <3>3. g \in Files /\ p.origin \in Origins
      BY <2>2, <3>1, LiveEntry DEF SettledInvariant, Provider
    <3>4. QED
      BY <1>10, <2>3, <3>2, <3>3
  <2>6. QED
    BY <2>4, <2>5
<1>17. GivenThere'
  <2>1. SUFFICES ASSUME NEW p \in Origins, NEW g \in Files \ Noise, Gives(p, g)'
                 PROVE  files[g] # 0 /\ p \in OriginsOf(register'[files[g]])
    BY <1>4 DEF GivenThere
  <2>2. CASE p = o /\ g = n
    BY <1>1, <1>5, <2>2
  <2>3. CASE ~(p = o /\ g = n)
    <3>1. files[g] # 0 /\ p \in OriginsOf(register[files[g]])
      BY <1>10, <2>1, <2>3 DEF SettledInvariant, BooksInvariant, GivenThere
    <3>2. files[g] \in Live
      BY <3>1 DEF SettledInvariant, StructureInvariant, NamesMatchRegister
    <3>3. QED
      BY <1>1, <3>1, <3>2
  <2>4. QED
    BY <2>2, <2>3
<1>18. QED
  BY <1>13, <1>14, <1>15, <1>16, <1>17 DEF BooksInvariant

\* No step of a scan disturbs the course or the books.
LEMMA ScanSettled ==
  ASSUME SettledInvariant, NEW o \in Origins, Scan(o)
  PROVE  CourseInvariant' /\ BooksInvariant'
BY ScanTurns, ScanFinds, ScanAdds, ScanLists DEF Scan

-----------------------------------------------------------------------------
(* The main thread and the user, while no worker is at work *)

\* What the origins give while all workers are idle.
LEMMA IdleGives ==
  ASSUME SettledInvariant, AllIdle
  PROVE  /\ \A o \in Origins : worker[o].stage = "idle" /\ worker[o].step = "find" /\ worker[o].todo = {}
         /\ \A o \in Origins : o \in enabled /\ phase # "data" => o \in created
         /\ \A o \in Origins : \A f \in Files :
              Gives(o, f) <=>
                /\ o \in enabled \cup dropping \cup {Data}
                /\ phase = "data" => o = Data
                /\ f \in content[o].loose \/ (f \in content[o].archived /\ o \notin archiving)
<1>1. \A o \in Origins : worker[o].stage = "idle" /\ worker[o].step = "find"
  BY DEF AllIdle, SettledInvariant, StructureInvariant, WorkersHoldFiles
<1>2. \A o \in Origins : WorkerFits(o)
  BY DEF SettledInvariant, CourseInvariant
<1>3. /\ \A o \in Origins : worker[o].todo = {}
      /\ \A o \in Origins : o \in enabled /\ phase # "data" => o \in created
  BY <1>1, <1>2 DEF WorkerFits
<1>4. QED
  BY <1>1, <1>3 DEF Gives, Pending

\* A step that leaves content and structure alone and neither adds to what the
\* origins give nor takes from it.
LEMMA ControlStep ==
  ASSUME SettledInvariant, AllIdle, UNCHANGED <<content, register, files, originFiles>>,
         \A p \in Origins : WorkerFits(p)' /\ \A f \in Files : Gives(p, f)' <=> Gives(p, f),
         CourseFits', NoiseGone', priority'[Data] = 0
  PROVE  CourseInvariant' /\ BooksInvariant'
<1>1. ContentPlain'
  BY DEF SettledInvariant, CourseInvariant, ContentPlain
<1>2. \A p \in Origins : worker[p].step # "list"
  BY IdleGives
<1>3. BooksInvariant'
  BY <1>2, SameBooks
<1>4. QED
  BY <1>1, <1>3 DEF CourseInvariant

\* The course of an operation as far as it leaves the structure alone.
LEMMA CourseSettled ==
  ASSUME SettledInvariant,
         \/ DataScanned \/ ArchivesAdded \/ Dropped \/ (Loaded /\ task = "refresh")
         \/ \E m \in Mods : AddArchive(m)
  PROVE  CourseInvariant' /\ BooksInvariant'
<1>1. AllIdle
  BY DEF DataScanned, ArchivesAdded, Dropped, Loaded, AddArchive,
         SettledInvariant, StructureInvariant, QuietAfterLoading
<1>2. /\ UNCHANGED <<content, enabled, register, files, originFiles, created, task, dropping>>
      /\ archiving' \subseteq archiving
  BY DEF DataScanned, ArchivesAdded, Dropped, Loaded, AddArchive, disk, structure
<1>3. /\ \A o \in Origins : worker[o].stage = "idle" /\ worker[o].step = "find" /\ worker[o].todo = {}
      /\ \A o \in Origins : o \in enabled /\ phase # "data" => o \in created
      /\ \A o \in Origins : \A f \in Files :
           Gives(o, f) <=>
             /\ o \in enabled \cup dropping \cup {Data}
             /\ phase = "data" => o = Data
             /\ f \in content[o].loose \/ (f \in content[o].archived /\ o \notin archiving)
  BY <1>1, IdleGives
<1>4. /\ CourseFits /\ ContentPlain /\ NoiseGone /\ priority[Data] = 0
      /\ \A o \in Origins : worker[o] \in WorkerState
      /\ worker \in [Origins -> WorkerState]
      /\ enabled \subseteq Mods /\ Data \notin Mods /\ Mods \subseteq Origins /\ Data \in Origins
  BY Typed DEF SettledInvariant, CourseInvariant
<1>5. priority'[Data] = 0
  BY <1>4 DEF DataScanned, ArchivesAdded, Dropped, Loaded, AddArchive, structure
<1>6. CASE DataScanned
  <2>1. /\ phase = "data" /\ phase' = "load" /\ archiving' = archiving
        /\ \A o \in Origins : /\ worker'[o].stage = IF o \in enabled THEN "origin" ELSE "idle"
                              /\ worker'[o].step = "find" /\ worker'[o].todo = {}
    BY <1>6 DEF DataScanned, Idle
  <2>2. CourseFits' /\ NoiseGone' /\ archiving = {} /\ dropping = {}
    BY <1>2, <1>4, <2>1 DEF CourseFits, NoiseGone
  <2>3. ASSUME NEW p \in Origins
        PROVE  WorkerFits(p)' /\ \A f \in Files : Gives(p, f)' <=> Gives(p, f)
    <3>1. WorkerFits(p)'
      BY <1>2, <1>4, <2>1 DEF WorkerFits, CourseFits
    <3>2. \A f \in Files : Gives(p, f)' <=> Gives(p, f)
      BY <1>2, <1>3, <1>4, <2>1, <2>2 DEF Gives, Pending, ContentPlain
    <3>3. QED
      BY <3>1, <3>2
  <2>4. QED
    BY <1>1, <1>2, <1>5, <2>2, <2>3, ControlStep
<1>7. CASE ArchivesAdded \/ Dropped \/ (Loaded /\ task = "refresh")
  <2>1. /\ phase # "data" /\ phase' # "data" /\ archiving' = archiving /\ worker' = worker
    BY <1>7 DEF ArchivesAdded, Dropped, Loaded
  <2>2. CourseFits'
    BY <1>2, <1>4, <1>7 DEF ArchivesAdded, Dropped, Loaded, CourseFits
  <2>3. NoiseGone'
    BY <1>2, <1>4, <1>7 DEF ArchivesAdded, Dropped, Loaded, NoiseGone, CourseFits
  <2>4. ASSUME NEW p \in Origins
        PROVE  WorkerFits(p)' /\ \A f \in Files : Gives(p, f)' <=> Gives(p, f)
    <3>1. WorkerFits(p)'
      BY <1>2, <1>3, <2>1 DEF WorkerFits
    <3>2. \A f \in Files : Gives(p, f)' <=> Gives(p, f)
      BY <1>2, <2>1 DEF Gives, Pending
    <3>3. QED
      BY <3>1, <3>2
  <2>5. QED
    BY <1>1, <1>2, <1>5, <2>2, <2>3, <2>4, ControlStep
<1>8. ASSUME NEW m \in Mods, AddArchive(m)
      PROVE  CourseInvariant' /\ BooksInvariant'
  <2>1. /\ phase = "archives" /\ phase' = phase
        /\ m \in archiving /\ archiving' = archiving \ {m}
        /\ worker' = [worker EXCEPT ![m] = ArchiveScan(m)]
    BY <1>8 DEF AddArchive
  <2>2. /\ worker'[m] = [stage |-> "archive", step |-> "find", todo |-> content[m].archived, index |-> 0]
        /\ \A p \in Origins : p # m => worker'[p] = worker[p]
    <3>1. ArchiveScan(m) = [Idle EXCEPT !.stage = "archive", !.todo = content[m].archived]
      BY <2>1, NoArchiveYet
    <3>2. QED
      BY <1>4, <2>1, <3>1 DEF Idle
  <2>3. CourseFits' /\ NoiseGone' /\ m \in enabled
    BY <1>2, <1>4, <2>1 DEF CourseFits, NoiseGone
  <2>4. ASSUME NEW p \in Origins
        PROVE  WorkerFits(p)' /\ \A f \in Files : Gives(p, f)' <=> Gives(p, f)
    <3>1. CASE p = m
      <4>1. WorkerFits(p)'
        BY <1>2, <1>3, <2>1, <2>2, <2>3, <3>1 DEF WorkerFits
      <4>2. \A f \in Files : Gives(p, f)' <=> Gives(p, f)
        BY <1>2, <1>3, <1>4, <2>1, <2>2, <2>3, <3>1 DEF Gives, Pending, ContentPlain
      <4>3. QED
        BY <4>1, <4>2
    <3>2. CASE p # m
      <4>1. WorkerFits(p)'
        BY <1>2, <1>3, <2>1, <2>2, <3>2 DEF WorkerFits
      <4>2. \A f \in Files : Gives(p, f)' <=> Gives(p, f)
        BY <1>2, <1>3, <2>1, <2>2, <3>2 DEF Gives, Pending
      <4>3. QED
        BY <4>1, <4>2
    <3>3. QED
      BY <3>1, <3>2
  <2>5. QED
    BY <1>1, <1>2, <1>5, <2>3, <2>4, ControlStep
<1>9. QED
  BY <1>6, <1>7, <1>8

\* What the user changes in the mod list alone.
LEMMA ListChangeSettled ==
  ASSUME SettledInvariant,
         \/ ChangePriorities
         \/ \E on \in SUBSET (Mods \ enabled), off \in SUBSET enabled : ChangeStatus(on, off)
  PROVE  CourseInvariant' /\ BooksInvariant'
<1>1. phase = "ready" /\ AllIdle
  BY DEF ChangePriorities, ChangeStatus, MayChange,
         SettledInvariant, StructureInvariant, QuietAfterLoading
<1>2. /\ \A o \in Origins : worker[o].stage = "idle" /\ worker[o].step = "find" /\ worker[o].todo = {}
      /\ \A o \in Origins : o \in enabled /\ phase # "data" => o \in created
      /\ \A o \in Origins : \A f \in Files :
           Gives(o, f) <=>
             /\ o \in enabled \cup dropping \cup {Data}
             /\ phase = "data" => o = Data
             /\ f \in content[o].loose \/ (f \in content[o].archived /\ o \notin archiving)
  BY <1>1, IdleGives
<1>3. /\ CourseFits /\ NoiseGone /\ priority[Data] = 0
      /\ priority \in [Origins -> Int]
      /\ enabled \subseteq Mods /\ Data \notin Mods /\ Mods \subseteq Origins /\ Data \in Origins
  BY Typed DEF SettledInvariant, CourseInvariant, StructureInvariant, TypeOK
<1>4. archiving = {} /\ dropping = {}
  BY <1>1, <1>3 DEF CourseFits
<1>5. CASE ChangePriorities
  <2>1. /\ UNCHANGED <<content, enabled, register, files, created, originFiles, worker,
                       archiving, dropping>>
        /\ task' = "priority" /\ phase' = "sort"
        /\ priority' = [o \in Origins |-> IF o \in enabled THEN profilePriority'[o] + 1
                                          ELSE priority[o]]
    BY <1>5 DEF ChangePriorities
  <2>2. CourseFits' /\ NoiseGone' /\ priority'[Data] = 0
    BY <1>1, <1>3, <1>4, <2>1 DEF CourseFits, NoiseGone
  <2>3. ASSUME NEW p \in Origins
        PROVE  WorkerFits(p)' /\ \A f \in Files : Gives(p, f)' <=> Gives(p, f)
    <3>1. WorkerFits(p)'
      BY <1>1, <1>2, <2>1 DEF WorkerFits
    <3>2. \A f \in Files : Gives(p, f)' <=> Gives(p, f)
      BY <1>1, <2>1 DEF Gives, Pending
    <3>3. QED
      BY <3>1, <3>2
  <2>4. QED
    BY <1>1, <2>1, <2>2, <2>3, ControlStep
<1>6. ASSUME NEW on \in SUBSET (Mods \ enabled), NEW off \in SUBSET enabled, ChangeStatus(on, off)
      PROVE  CourseInvariant' /\ BooksInvariant'
  <2>1. /\ enabled' = (enabled \cup on) \ off
        /\ task' = "status"
        /\ phase' = IF on # {} THEN "load" ELSE "drop"
        /\ archiving' = on /\ dropping' = off
        /\ \A o \in Origins : /\ worker'[o].stage = IF o \in on THEN "origin" ELSE "idle"
                              /\ worker'[o].step = "find" /\ worker'[o].todo = {}
        /\ UNCHANGED <<content, register, files, created, priority, originFiles>>
    BY <1>6 DEF ChangeStatus, Idle, structure
  <2>2. CourseFits' /\ NoiseGone' /\ priority'[Data] = 0
    <3>1. off \subseteq created
      BY <1>1, <1>2, <1>3
    <3>2. CourseFits'
      BY <1>3, <2>1, <3>1 DEF CourseFits
    <3>3. NoiseGone'
      BY <1>1, <1>3, <2>1 DEF NoiseGone
    <3>4. QED
      BY <1>3, <2>1, <3>2, <3>3
  <2>3. ASSUME NEW p \in Origins
        PROVE  WorkerFits(p)' /\ \A f \in Files : Gives(p, f)' <=> Gives(p, f)
    <3>1. /\ phase' \in {"load", "drop"}
          /\ p \in on => phase' = "load" /\ p \notin enabled /\ p # Data /\ p \notin off
          /\ p \in off => p \in enabled
      BY <1>3, <2>1
    <3>2. /\ worker'[p].stage = IF p \in on THEN "origin" ELSE "idle"
          /\ worker'[p].step = "find" /\ worker'[p].todo = {}
      BY <2>1
    <3>3. p \in enabled' <=> p \in enabled \cup on /\ p \notin off
      BY <2>1
    <3>4. WorkerFits(p)'
      BY <1>1, <1>2, <2>1, <3>1, <3>2, <3>3 DEF WorkerFits
    <3>5. ASSUME NEW f \in Files
          PROVE  Gives(p, f)' <=> Gives(p, f)
      <4>1. Gives(p, f) <=> p \in enabled \cup {Data}
                            /\ (f \in content[p].loose \/ f \in content[p].archived)
        BY <1>1, <1>2, <1>4
      <4>2. Gives(p, f)' <=> /\ p \in enabled' \cup off \cup {Data}
                             /\ p \notin on
                             /\ f \in content[p].loose \/ f \in content[p].archived
        BY <2>1, <3>1, <3>2 DEF Gives, Pending
      <4>3. QED
        BY <3>1, <3>3, <4>1, <4>2
    <3>6. QED
      BY <3>4, <3>5
  <2>4. QED
    BY <1>1, <2>1, <2>2, <2>3, ControlStep
<1>7. QED
  BY <1>5, <1>6

\* The books after a step of the main thread, in which names and providers of the
\* entries that stay do not change.
LEMMA KeptBooks ==
  ASSUME SettledInvariant, StructureInvariant', content' = content,
         \A p \in Origins : \A f \in Files : Gives(p, f)' <=> Gives(p, f),
         Live' \subseteq Live,
         \A i \in Live' : /\ register'[i].name = register[i].name
                          /\ ProvidersOf(register'[i]) = ProvidersOf(register[i])
                          /\ register'[i].main # NoProvider
                          /\ Counted(register'[i]),
         \A i \in Live' : \A p \in Origins : i \in originFiles[p] => i \in originFiles'[p],
         AllIdle,
         \A f \in Files \ Noise : files[f] # 0 => files'[f] = files[f]
  PROVE  BooksInvariant'
<1>1. \A i \in Live' : OriginsOf(register'[i]) = OriginsOf(register[i])
  BY DEF OriginsOf
<1>2. ListsComplete'
  <2>1. SUFFICES ASSUME NEW i \in Live', NEW p \in OriginsOf(register[i])
                 PROVE  i \in originFiles'[p]
    BY <1>1 DEF ListsComplete
  <2>2. p \in Origins /\ i \in Live
    BY LiveEntry DEF SettledInvariant
  <2>3. i \in originFiles[p]
    BY <2>2, IdleGives DEF SettledInvariant, BooksInvariant, ListsComplete
  <2>4. QED
    BY <2>2, <2>3
<1>3. EntriesCounted'
  BY DEF EntriesCounted
<1>4. ProvidersTrue'
  <2>1. SUFFICES ASSUME NEW i \in Live', NEW p \in ProvidersOf(register[i]),
                        NEW g, g = register[i].name
                 PROVE  p = ProviderOf(p.origin, g)' /\ Gives(p.origin, g)'
    BY DEF ProvidersTrue
  <2>2. g \in Files /\ p.origin \in Origins /\ i \in Live
    BY <2>1, LiveEntry DEF SettledInvariant, Provider
  <2>3. p = ProviderOf(p.origin, g) /\ Gives(p.origin, g)
    BY <2>1, <2>2 DEF SettledInvariant, BooksInvariant, ProvidersTrue
  <2>4. ProviderOf(p.origin, g)' = ProviderOf(p.origin, g)
    BY DEF ProviderOf
  <2>5. QED
    BY <2>2, <2>3, <2>4
<1>5. GivenThere'
  <2>1. SUFFICES ASSUME NEW p \in Origins, NEW g \in Files \ Noise, Gives(p, g)
                 PROVE  files'[g] # 0 /\ p \in OriginsOf(register'[files'[g]])
    BY DEF GivenThere
  <2>2. files[g] # 0 /\ p \in OriginsOf(register[files[g]])
    BY <2>1 DEF SettledInvariant, BooksInvariant, GivenThere
  <2>3. files'[g] = files[g]
    BY <2>2
  <2>4. files'[g] \in Live'
    BY <2>2, <2>3 DEF StructureInvariant, NamesMatchRegister
  <2>5. QED
    BY <1>1, <2>2, <2>3, <2>4
<1>6. QED
  BY <1>2, <1>3, <1>4, <1>5 DEF BooksInvariant

\* Cleaning takes the unwanted names out and touches nothing else.
LEMMA CleanBooks ==
  ASSUME SettledInvariant, StructureInvariant', AllIdle, CleanStructure, content' = content,
         \A p \in Origins : \A f \in Files : Gives(p, f)' <=> Gives(p, f)
  PROVE  BooksInvariant' /\ \A f \in Noise : files'[f] = 0
<1> DEFINE noise == {files[f] : f \in Noise} \cap Live
<1>1. /\ register' = [i \in DOMAIN register |-> IF i \in noise THEN NoEntry ELSE register[i]]
      /\ originFiles' = [o \in Origins |->
                           {i \in originFiles[o] : ~(i \in noise /\ o \in OriginsOf(register[i]))}]
      /\ files' = [f \in Files |-> IF files[f] \in noise THEN 0 ELSE files[f]]
  BY DEF CleanStructure
<1>2. /\ StructureOK
      /\ \A i \in Live : register[i].main # NoProvider
  BY StructureFromInvariant DEF SettledInvariant
<1>3. Live' \subseteq Live /\ \A i \in Live' : register'[i] = register[i]
  BY <1>2, CleanStructureKeeps
<1>4. \A i \in Live' : i \notin noise
  BY <1>1, <1>3 DEF Live
<1>5. ASSUME NEW f \in Files \ Noise, files[f] # 0
      PROVE  files[f] \notin noise
  BY <1>5, FileAssumption DEF SettledInvariant, StructureInvariant, NamesMatchRegister
<1>6. ASSUME NEW f \in Noise
      PROVE  files'[f] = 0
  <2>1. f \in Files
    BY FileAssumption
  <2>2. files[f] # 0 => files[f] \in noise
    BY <2>1 DEF SettledInvariant, StructureInvariant, NamesMatchRegister
  <2>3. QED
    BY <1>1, <2>1, <2>2
<1>7. \A i \in Live' : \A p \in Origins : i \in originFiles[p] => i \in originFiles'[p]
  BY <1>1, <1>4
<1>8. \A f \in Files \ Noise : files[f] # 0 => files'[f] = files[f]
  BY <1>1, <1>5
<1>9. \A i \in Live' : register'[i].main # NoProvider /\ Counted(register'[i])
  BY <1>2, <1>3 DEF SettledInvariant, BooksInvariant, EntriesCounted
<1> HIDE DEF noise
<1>10. BooksInvariant'
  BY <1>3, <1>7, <1>8, <1>9, KeptBooks
<1>11. QED
  BY <1>6, <1>10

\* Sorting arranges the providers of each file anew.
LEMMA SortBooks ==
  ASSUME SettledInvariant, StructureInvariant', AllIdle, SortRegister,
         UNCHANGED <<content, files, originFiles>>,
         \A p \in Origins : \A f \in Files : Gives(p, f)' <=> Gives(p, f)
  PROVE  BooksInvariant'
<1>1. /\ StructureOK /\ priority \in [Origins -> Int]
      /\ \A i \in Live : register[i].main # NoProvider
  BY StructureFromInvariant DEF SettledInvariant
<1>2. Live' = Live
  BY <1>1, SortKeeps
<1>3. PICK r \in Outcomes(Live, LAMBDA i : SortOrigins(priority, register[i])) :
        register' = [i \in DOMAIN register |-> IF i \in Live THEN r[i] ELSE NoEntry]
  BY DEF SortRegister
<1>4. ASSUME NEW i \in Live
      PROVE  register'[i] \in SortOrigins(priority, register[i])
  <2>1. r[i] \in SortOrigins(priority, register[i])
    BY <1>3 DEF Outcomes
  <2>2. register'[i] = r[i]
    BY <1>3 DEF Live
  <2>3. QED
    BY <2>1, <2>2
<1>5. ASSUME NEW i \in Live
      PROVE  /\ register'[i].name = register[i].name
             /\ register'[i].main # NoProvider
             /\ ProvidersOf(register'[i]) = ProvidersOf(register[i])
             /\ Counted(register'[i])
  <2>1. /\ register[i] \in Entry(Origins, Files) /\ NoOrigin \notin Origins
        /\ register[i].main # NoProvider
        /\ Counted(register[i])
    BY <1>1, LiveEntry, OriginAssumption
       DEF SettledInvariant, BooksInvariant, EntriesCounted
  <2>2. register'[i] \in SortOrigins(priority, register[i])
    BY <1>4
  <2>3. PICK e : e = register[i]
    OBVIOUS
  <2>4. PICK s : s = register'[i]
    OBVIOUS
  <2>5. s.name = e.name /\ s.main # NoProvider /\ ProvidersOf(s) = ProvidersOf(e)
    BY <1>1, <2>1, <2>2, <2>3, <2>4, SortOriginsProperties
  <2>6. Counted(s)
    BY <1>1, <2>1, <2>2, <2>3, <2>4, SortOriginsCounts
  <2>7. QED
    BY <2>3, <2>4, <2>5, <2>6
<1>6. QED
  BY <1>2, <1>5, KeptBooks

\* The steps of the main thread that change the structure without taking an
\* origin out of it.
LEMMA RegisterSettled ==
  ASSUME SettledInvariant, (Loaded /\ task # "refresh") \/ Sort \/ Clean
  PROVE  CourseInvariant' /\ BooksInvariant'
<1>1. AllIdle
  BY DEF Loaded, Sort, Clean, SettledInvariant, StructureInvariant, QuietAfterLoading
<1>2. StructureInvariant'
  BY NextStructure DEF Next, Work, SettledInvariant
<1>3. /\ UNCHANGED <<content, enabled, created, priority, worker, task, archiving, dropping>>
      /\ phase # "data" /\ phase' # "data"
  BY DEF Loaded, Sort, Clean, disk
<1>4. /\ \A o \in Origins : worker[o].stage = "idle" /\ worker[o].step = "find" /\ worker[o].todo = {}
      /\ \A o \in Origins : o \in enabled /\ phase # "data" => o \in created
  BY <1>1, IdleGives
<1>5. \A p \in Origins : \A f \in Files : Gives(p, f)' <=> Gives(p, f)
  BY <1>3, <1>4 DEF Gives, Pending
<1>6. \A p \in Origins : WorkerFits(p)'
  BY <1>3, <1>4 DEF WorkerFits
<1>7. CourseFits /\ ContentPlain /\ NoiseGone /\ priority[Data] = 0
  BY DEF SettledInvariant, CourseInvariant
<1>8. ContentPlain' /\ CourseFits'
  BY <1>3, <1>7 DEF ContentPlain, CourseFits, Loaded, Sort, Clean
<1>9. BooksInvariant' /\ NoiseGone'
  <2>1. CASE Sort
    <3>1. /\ SortRegister /\ UNCHANGED <<files, originFiles>>
          /\ phase = "sort" /\ phase' = IF task = "refresh" THEN "clean" ELSE "ready"
      BY <2>1 DEF Sort
    <3>2. NoiseGone'
      BY <1>3, <1>7, <3>1 DEF NoiseGone
    <3>3. QED
      BY <1>1, <1>2, <1>3, <1>5, <3>1, <3>2, SortBooks
  <2>2. CASE ~Sort
    <3>1. CleanStructure
      BY <2>2 DEF Loaded, Clean
    <3>2. BooksInvariant' /\ \A f \in Noise : files'[f] = 0
      BY <1>1, <1>2, <1>3, <1>5, <3>1, CleanBooks
    <3>3. QED
      BY <3>2 DEF NoiseGone
  <2>3. QED
    BY <2>1, <2>2
<1>10. QED
  BY <1>3, <1>6, <1>7, <1>8, <1>9 DEF CourseInvariant

\* Disabling a mod takes it out of every file that lists it, and takes out a file
\* that nobody else gives.
LEMMA DisableBooks ==
  ASSUME SettledInvariant, StructureInvariant', AllIdle, NEW m \in Mods, Disable(m),
         \A p \in Origins : p # m => content'[p] = content[p],
         \A p \in Origins : \A f \in Files : Gives(p, f)' <=> Gives(p, f) /\ p # m
  PROVE  BooksInvariant' /\ \A f \in Files : files[f] = 0 => files'[f] = 0
<1> DEFINE touched == originFiles[m] \cap Live
<1>1. PICK r \in Outcomes(touched, LAMBDA i : Without(i, m)) :
        /\ register' = [i \in DOMAIN register |-> IF i \in touched THEN r[i] ELSE register[i]]
        /\ files' = [f \in Files |->
                       IF files[f] \in touched /\ r[files[f]] = NoEntry THEN 0 ELSE files[f]]
        /\ originFiles' = [originFiles EXCEPT ![m] = {}]
  BY DEF Disable
<1>2. \A i \in touched : r[i] \in Without(i, m)
  BY <1>1 DEF Outcomes
<1>3. /\ \A i \in Live : register[i].main # NoProvider
      /\ \A i \in Live : Counted(register[i])
      /\ NoOrigin \notin Origins
      /\ NoEntry \notin Entry(Origins, Files)
      /\ m \in Origins
  BY StructureFromInvariant, OriginAssumption, FileAssumption, Typed
     DEF SettledInvariant, BooksInvariant, EntriesCounted
<1>4. \A i \in Live : i \in touched <=> m \in OriginsOf(register[i])
  BY <1>3, IdleGives DEF SettledInvariant, BooksInvariant, ListsComplete,
                         StructureInvariant, NoDanglingFiles
<1>5. ASSUME NEW i \in touched
      PROVE  \/ r[i] = NoEntry /\ OriginsOf(register[i]) \subseteq {m}
             \/ /\ r[i] # NoEntry
                /\ r[i].name = register[i].name
                /\ r[i].main # NoProvider
                /\ Counted(r[i])
                /\ OriginsOf(r[i]) = OriginsOf(register[i]) \ {m}
                /\ ProvidersOf(r[i]) \subseteq ProvidersOf(register[i])
  <2>1. PICK e \in RemoveOrigin(priority, register[i], m) :
          r[i] = IF e.main = NoProvider THEN NoEntry ELSE e
    BY <1>2 DEF Without
  <2>2. PICK d : d = register[i]
    OBVIOUS
  <2>3. /\ d \in Entry(Origins, Files) /\ d.main # NoProvider /\ Counted(d)
        /\ e \in RemoveOrigin(priority, d, m)
        /\ m \in OriginsOf(d)
    BY <1>3, <1>4, <2>1, <2>2, LiveEntry DEF SettledInvariant
  <2>4. /\ e \in Entry(Origins, Files)
        /\ e.name = d.name
        /\ OriginsOf(d) \ {m} \subseteq OriginsOf(e)
        /\ ProvidersOf(e) \subseteq ProvidersOf(d)
        /\ e.main = NoProvider => OriginsOf(e) = {}
    BY <1>3, <2>3, RemoveOriginProperties
  <2>5. /\ OriginsOf(e) = OriginsOf(d) \ {m}
        /\ e.main # NoProvider => Counted(e)
    BY <1>3, <2>3, RemoveOriginCounts
  <2>6. QED
    BY <1>3, <2>1, <2>2, <2>4, <2>5
<1>6. DOMAIN register' = DOMAIN register /\ touched \subseteq Live
  BY <1>1
<1> HIDE DEF touched
<1>7. ASSUME NEW i \in Live'
      PROVE  /\ i \in Live
             /\ register'[i].name = register[i].name
             /\ register'[i].main # NoProvider
             /\ Counted(register'[i])
             /\ OriginsOf(register'[i]) = OriginsOf(register[i]) \ {m}
             /\ ProvidersOf(register'[i]) \subseteq ProvidersOf(register[i])
  <2>1. i \in Live
    BY <1>1, <1>6 DEF Live
  <2>2. CASE i \in touched
    <3>1. register'[i] = r[i] /\ r[i] # NoEntry
      BY <1>1, <2>1, <2>2 DEF Live
    <3>2. QED
      BY <1>5, <2>1, <2>2, <3>1
  <2>3. CASE i \notin touched
    <3>1. register'[i] = register[i]
      BY <1>1, <2>1, <2>3 DEF Live
    <3>2. m \notin OriginsOf(register[i])
      BY <1>4, <2>1, <2>3
    <3>3. QED
      BY <1>3, <2>1, <3>1, <3>2
  <2>4. QED
    BY <2>2, <2>3
<1>8. ListsComplete'
  <2>1. SUFFICES ASSUME NEW i \in Live', NEW p \in OriginsOf(register'[i])
                 PROVE  i \in originFiles'[p]
    BY DEF ListsComplete
  <2>2. i \in Live /\ p \in OriginsOf(register[i]) /\ p # m
    BY <1>7
  <2>3. p \in Origins
    BY <2>2, LiveEntry DEF SettledInvariant
  <2>4. i \in originFiles[p]
    BY <2>2, <2>3, IdleGives DEF SettledInvariant, BooksInvariant, ListsComplete
  <2>5. QED
    BY <1>1, <2>2, <2>3, <2>4, Typed
<1>9. EntriesCounted'
  BY <1>7 DEF EntriesCounted
<1>10. ProvidersTrue'
  <2>1. SUFFICES ASSUME NEW i \in Live', NEW p \in ProvidersOf(register'[i]),
                        NEW g, g = register[i].name
                 PROVE  p = ProviderOf(p.origin, g)' /\ Gives(p.origin, g)'
    BY <1>7 DEF ProvidersTrue
  <2>2. /\ i \in Live /\ p \in ProvidersOf(register[i])
        /\ p.origin \in OriginsOf(register'[i]) /\ p.origin # m
    BY <1>7 DEF OriginsOf
  <2>3. g \in Files /\ p.origin \in Origins
    BY <2>1, <2>2, LiveEntry DEF SettledInvariant, Provider
  <2>4. p = ProviderOf(p.origin, g) /\ Gives(p.origin, g)
    BY <2>1, <2>2 DEF SettledInvariant, BooksInvariant, ProvidersTrue
  <2>5. ProviderOf(p.origin, g)' = ProviderOf(p.origin, g)
    BY <2>2, <2>3 DEF ProviderOf
  <2>6. QED
    BY <2>2, <2>3, <2>4, <2>5
<1>11. GivenThere'
  <2>1. SUFFICES ASSUME NEW p \in Origins, NEW g \in Files \ Noise, Gives(p, g), p # m
                 PROVE  files'[g] # 0 /\ p \in OriginsOf(register'[files'[g]])
    BY DEF GivenThere
  <2>2. files[g] # 0 /\ p \in OriginsOf(register[files[g]])
    BY <2>1 DEF SettledInvariant, BooksInvariant, GivenThere
  <2>3. ~(files[g] \in touched /\ r[files[g]] = NoEntry)
    BY <1>5, <2>1, <2>2
  <2>4. files'[g] = files[g]
    BY <1>1, <2>3
  <2>5. files'[g] \in Live'
    BY <2>2, <2>4 DEF StructureInvariant, NamesMatchRegister
  <2>6. QED
    BY <1>7, <2>1, <2>2, <2>4, <2>5
<1>12. \A f \in Files : files[f] = 0 => files'[f] = 0
  BY <1>1
<1>13. QED
  BY <1>8, <1>9, <1>10, <1>11, <1>12 DEF BooksInvariant

\* A mod switched off, or about to be scanned anew, gives nothing any more.
LEMMA DisableSettled ==
  ASSUME SettledInvariant, NEW m \in Mods, Drop(m) \/ RescanMod(m)
  PROVE  CourseInvariant' /\ BooksInvariant'
<1>1. AllIdle
  BY DEF Drop, RescanMod, MayChange, SettledInvariant, StructureInvariant, QuietAfterLoading
<1>2. StructureInvariant'
  BY NextStructure DEF Next, Work, User, SettledInvariant
<1>3. /\ \A o \in Origins : worker[o].stage = "idle" /\ worker[o].step = "find" /\ worker[o].todo = {}
      /\ \A o \in Origins : o \in enabled /\ phase # "data" => o \in created
      /\ \A o \in Origins : \A f \in Files :
           Gives(o, f) <=>
             /\ o \in enabled \cup dropping \cup {Data}
             /\ phase = "data" => o = Data
             /\ f \in content[o].loose \/ (f \in content[o].archived /\ o \notin archiving)
  BY <1>1, IdleGives
<1>4. /\ CourseFits /\ ContentPlain /\ NoiseGone /\ priority[Data] = 0
      /\ worker \in [Origins -> WorkerState]
      /\ content \in [Origins -> [loose : SUBSET Files, archived : SUBSET Files]]
      /\ enabled \subseteq Mods /\ Data \notin Mods /\ Mods \subseteq Origins /\ Data \in Origins
      /\ Noise \subseteq Files
  BY Typed DEF SettledInvariant, CourseInvariant
<1>5. CASE Drop(m)
  <2>1. /\ phase = "drop" /\ m \in dropping /\ dropping' = dropping \ {m}
        /\ UNCHANGED <<content, enabled, created, priority, worker, task, phase, archiving>>
        /\ m \in created => Disable(m)
    BY <1>5 DEF Drop, disk
  <2>2. Disable(m) /\ m \notin enabled
    BY <1>4, <2>1 DEF CourseFits
  <2>3. CourseFits'
    BY <1>4, <2>1 DEF CourseFits
  <2>4. \A p \in Origins : WorkerFits(p)'
    BY <1>3, <2>1 DEF WorkerFits
  <2>5. \A p \in Origins : \A f \in Files : Gives(p, f)' <=> Gives(p, f) /\ p # m
    BY <1>3, <1>4, <2>1, <2>2 DEF Gives, Pending
  <2>6. BooksInvariant' /\ \A f \in Files : files[f] = 0 => files'[f] = 0
    BY <1>1, <1>2, <2>1, <2>2, <2>5, DisableBooks
  <2>7. NoiseGone'
    BY <1>4, <2>1, <2>6 DEF NoiseGone
  <2>8. ContentPlain' /\ priority'[Data] = 0
    BY <1>4, <2>1 DEF ContentPlain
  <2>9. QED
    BY <2>3, <2>4, <2>6, <2>7, <2>8 DEF CourseInvariant
<1>6. CASE RescanMod(m)
  <2>1. /\ phase = "ready" /\ phase' = "load" /\ task' = "rescan"
        /\ m \in enabled \cap created
        /\ Disable(m)
        /\ worker' = [worker EXCEPT ![m].stage = "origin"]
        /\ UNCHANGED <<enabled, created, priority, archiving, dropping>>
    BY <1>6 DEF RescanMod, MayChange
  <2>2. PICK d \in Contents : content' = [content EXCEPT ![m] = d[m]]
    BY <1>6 DEF RescanMod
  <2>3. /\ \A p \in Origins : p # m => content'[p] = content[p]
        /\ content'[m] = d[m]
    BY <1>4, <2>2
  <2>4. archiving = {} /\ dropping = {}
    BY <1>4, <2>1 DEF CourseFits
  <2>5. /\ worker'[m].stage = "origin" /\ worker'[m].step = "find" /\ worker'[m].todo = {}
        /\ \A p \in Origins : p # m => worker'[p] = worker[p]
    BY <1>3, <1>4, <2>1
  <2>6. ContentPlain'
    BY <1>4, <2>2, <2>3 DEF ContentPlain, PlainContents
  <2>7. CourseFits' /\ NoiseGone' /\ priority'[Data] = 0
    BY <1>4, <2>1, <2>4 DEF CourseFits, NoiseGone
  <2>8. ASSUME NEW p \in Origins
        PROVE  WorkerFits(p)' /\ \A f \in Files : Gives(p, f)' <=> Gives(p, f) /\ p # m
    <3>1. CASE p = m
      <4>1. WorkerFits(p)'
        BY <1>4, <2>1, <2>5, <3>1 DEF WorkerFits
      <4>2. \A f \in Files : ~Gives(p, f)'
        BY <2>5, <3>1 DEF Gives
      <4>3. QED
        BY <3>1, <4>1, <4>2
    <3>2. CASE p # m
      <4>1. WorkerFits(p)'
        BY <1>3, <2>1, <2>3, <2>5, <3>2 DEF WorkerFits
      <4>2. \A f \in Files : Gives(p, f)' <=> Gives(p, f)
        BY <1>3, <2>1, <2>3, <2>5, <3>2 DEF Gives, Pending
      <4>3. QED
        BY <3>2, <4>1, <4>2
    <3>3. QED
      BY <3>1, <3>2
  <2>9. BooksInvariant'
    BY <1>1, <1>2, <2>1, <2>3, <2>8, DisableBooks
  <2>10. QED
    BY <2>6, <2>7, <2>8, <2>9 DEF CourseInvariant
<1>7. QED
  BY <1>5, <1>6

-----------------------------------------------------------------------------
(* The structure at every moment *)

\* The empty structure of a refresh has nothing wrong in its books.
LEMMA InitSettled == Init /\ PlainContents => SettledInvariant
<1> SUFFICES ASSUME Init, PlainContents PROVE SettledInvariant
  OBVIOUS
<1>1. /\ register = <<>> /\ phase = "data" /\ task = "refresh"
      /\ archiving = {} /\ dropping = {} /\ created = {}
      /\ content \in Contents /\ priority = [o \in Origins |-> 0]
      /\ \A o \in Origins :
           /\ worker[o].stage = IF o = Data THEN "origin" ELSE "idle"
           /\ worker[o].step = "find" /\ worker[o].todo = {}
  BY DEF Init, Idle
<1>2. Live = {} /\ Data \in Origins
  BY <1>1 DEF Live, Origins
<1>3. ContentPlain
  BY <1>1, <1>2, DiskAssumption DEF ContentPlain, PlainContents
<1>4. CourseFits /\ NoiseGone /\ priority[Data] = 0
  BY <1>1, <1>2 DEF CourseFits, NoiseGone
<1>5. \A o \in Origins : WorkerFits(o)
  BY <1>1 DEF WorkerFits
<1>6. GivenThere
  BY <1>1 DEF GivenThere, Gives
<1>7. ListsComplete /\ EntriesCounted /\ ProvidersTrue
  BY <1>2 DEF ListsComplete, EntriesCounted, ProvidersTrue
<1>8. QED
  BY <1>3, <1>4, <1>5, <1>6, <1>7, InitStructure
     DEF SettledInvariant, CourseInvariant, BooksInvariant

\* Every step keeps the books right.
LEMMA NextSettled == SettledInvariant /\ [Next]_vars => SettledInvariant'
<1> SUFFICES ASSUME SettledInvariant, [Next]_vars PROVE SettledInvariant'
  OBVIOUS
<1>1. StructureInvariant'
  BY NextStructure DEF SettledInvariant
<1>2. CASE \E o \in Origins : Scan(o)
  BY <1>1, <1>2, ScanSettled DEF SettledInvariant
<1>3. CASE \/ DataScanned \/ Loaded \/ ArchivesAdded \/ Dropped \/ Sort \/ Clean
           \/ \E m \in Mods : AddArchive(m)
  BY <1>1, <1>3, CourseSettled, RegisterSettled DEF SettledInvariant
<1>4. CASE \E m \in Mods : Drop(m) \/ RescanMod(m)
  BY <1>1, <1>4, DisableSettled DEF SettledInvariant
<1>5. CASE \/ ChangePriorities
           \/ \E on \in SUBSET (Mods \ enabled), off \in SUBSET enabled : ChangeStatus(on, off)
  BY <1>1, <1>5, ListChangeSettled DEF SettledInvariant
<1>6. CASE UNCHANGED vars
  <2>1. UNCHANGED <<content, enabled, register, files, created, priority, originFiles,
                    task, phase, worker, archiving, dropping>>
    BY <1>6 DEF vars, disk, structure, control
  <2>2. \A p \in Origins : \A f \in Files : Gives(p, f)' <=> Gives(p, f)
    BY <2>1 DEF Gives, Pending
  <2>3. BooksInvariant'
    BY <2>1, <2>2, SameBooks
  <2>4. CourseInvariant'
    BY <2>1 DEF SettledInvariant, CourseInvariant, ContentPlain, CourseFits, WorkerFits, NoiseGone
  <2>5. QED
    BY <1>1, <2>3, <2>4 DEF SettledInvariant
<1>7. QED
  BY <1>2, <1>3, <1>4, <1>5, <1>6 DEF Next, Work, User

\* What the invariant says of a structure that has settled.
LEMMA SettledBooks ==
  ASSUME SettledInvariant, phase = "ready", NEW f \in Files \ Noise
  PROVE  LET holders == {o \in enabled \cup {Data} :
                           f \in content[o].loose \cup content[o].archived}
         IN  IF holders = {} THEN files[f] = 0
             ELSE /\ files[f] \in Live
                  /\ OriginsOf(register[files[f]]) = holders
                  /\ Len(register[files[f]].alternatives) + 1 = Cardinality(holders)
                  /\ {o \in Origins : files[f] \in originFiles[o]} = holders
<1> DEFINE holders == {o \in enabled \cup {Data} :
                         f \in content[o].loose \cup content[o].archived}
<1>1. AllIdle
  BY DEF SettledInvariant, StructureInvariant, QuietAfterLoading
<1>2. archiving = {} /\ dropping = {}
  BY DEF SettledInvariant, CourseInvariant, CourseFits
<1>3. \A o \in Origins : Gives(o, f) <=> o \in holders
  BY <1>1, <1>2, IdleGives
<1>4. holders \subseteq Origins
  BY Typed
<1> HIDE DEF holders
<1>5. ASSUME files[f] # 0
      PROVE  /\ files[f] \in Live
             /\ OriginsOf(register[files[f]]) # {}
             /\ OriginsOf(register[files[f]]) \subseteq holders
             /\ Counted(register[files[f]])
             /\ {o \in Origins : files[f] \in originFiles[o]} = OriginsOf(register[files[f]])
  <2>1. PICK i : i = files[f]
    OBVIOUS
  <2>2. i \in Live /\ register[i].name = f
    BY <1>5, <2>1 DEF SettledInvariant, StructureInvariant, NamesMatchRegister
  <2>3. register[i].main # NoProvider /\ Counted(register[i])
    BY <1>1, <2>2, StructureFromInvariant DEF SettledInvariant, BooksInvariant, EntriesCounted
  <2>4. register[i].main.origin \in OriginsOf(register[i])
    BY <2>3 DEF OriginsOf, ProvidersOf
  <2>5. ASSUME NEW p \in ProvidersOf(register[i])
        PROVE  p.origin \in holders
    <3>1. Gives(p.origin, f)
      BY <2>2 DEF SettledInvariant, BooksInvariant, ProvidersTrue
    <3>2. p.origin \in Origins
      BY <2>2, LiveEntry DEF SettledInvariant, Provider
    <3>3. QED
      BY <1>3, <3>1, <3>2
  <2>6. OriginsOf(register[i]) \subseteq holders
    BY <2>5 DEF OriginsOf
  <2>7. \A o \in Origins : i \in originFiles[o] <=> o \in OriginsOf(register[i])
    BY <1>1, <2>2, IdleGives
       DEF SettledInvariant, BooksInvariant, ListsComplete, StructureInvariant, NoDanglingFiles
  <2>8. QED
    BY <1>4, <2>1, <2>2, <2>3, <2>4, <2>6, <2>7
<1>6. ASSUME NEW o \in holders
      PROVE  files[f] # 0 /\ o \in OriginsOf(register[files[f]])
  BY <1>3, <1>4 DEF SettledInvariant, BooksInvariant, GivenThere
<1>7. CASE holders = {}
  BY <1>5, <1>7, Typed DEF holders
<1>8. CASE holders # {}
  <2>1. files[f] # 0
    BY <1>6, <1>8
  <2>2. OriginsOf(register[files[f]]) = holders
    BY <1>5, <1>6, <2>1
  <2>3. QED
    BY <1>5, <1>8, <2>1, <2>2 DEF holders, Counted
<1>9. QED
  BY <1>7, <1>8

\* Whatever was loaded, switched on and off, moved or scanned anew, in any
\* interleaving: a settled structure lists each file for exactly the active
\* origins that hold it.
THEOREM ProvidersTheorem == PlainContents /\ Spec => []SettledProviders
<1>1. SettledInvariant => SettledProviders
  BY SettledBooks DEF SettledProviders
<1>2. QED
  BY <1>1, InitSettled, NextSettled, PTL DEF Spec

-----------------------------------------------------------------------------
(* The origins of the active mods *)

\* An active mod has an origin, or its worker is about to create it.
OriginsComing ==
  phase # "data" => \A m \in enabled : m \in created \/ worker[m].stage = "origin"

\* Every step keeps the origins of the active mods.
LEMMA NextOrigins ==
  ASSUME StructureInvariant, OriginsComing, Next
  PROVE  OriginsComing'
<1>1. /\ enabled \subseteq Mods /\ worker \in [Origins -> WorkerState]
      /\ Mods \subseteq Origins
  BY DEF StructureInvariant, TypeOK, Origins
<1>2. ASSUME NEW o \in Origins, Scan(o)
      PROVE  OriginsComing'
  <2>1. UNCHANGED <<enabled, phase>> /\ created \subseteq created'
    BY <1>2 DEF Scan, CreateOrigin, FindFile, AddOriginToFile, AddFileToOrigin,
                FinishLoose, FinishArchive, disk, structure, control
  <2>2. \A p \in Origins : p # o => worker'[p] = worker[p]
    BY <1>1, <1>2 DEF Scan, CreateOrigin, FindFile, AddOriginToFile, AddFileToOrigin,
                      FinishLoose, FinishArchive
  <2>3. worker[o].stage = "origin" => o \in created'
    BY <1>2 DEF Scan, CreateOrigin, FindFile, AddOriginToFile, AddFileToOrigin,
                FinishLoose, FinishArchive, StructureInvariant, WorkersHoldFiles
  <2>4. QED
    BY <1>1, <2>1, <2>2, <2>3 DEF OriginsComing
<1>3. CASE DataScanned
  BY <1>1, <1>3 DEF DataScanned, OriginsComing, disk, Idle
<1>4. ASSUME ~DataScanned, ~\E o \in Origins : Scan(o)
      PROVE  OriginsComing'
  <2>1. AllIdle /\ phase # "data" /\ created' = created
    BY <1>4 DEF Next, Work, User, Loaded, AddArchive, Drop, ArchivesAdded, Dropped, Sort,
                Clean, ChangeStatus, ChangePriorities, RescanMod, MayChange, structure,
                StructureInvariant, QuietAfterLoading
  <2>2. enabled \subseteq created
    BY <1>1, <2>1 DEF OriginsComing, AllIdle
  <2>3. CASE enabled' = enabled
    BY <2>1, <2>2, <2>3 DEF OriginsComing
  <2>4. ASSUME NEW on \in SUBSET (Mods \ enabled), NEW off, ChangeStatus(on, off)
        PROVE  OriginsComing'
    <3>1. /\ enabled' = (enabled \cup on) \ off
          /\ \A m \in on : worker'[m].stage = "origin"
      BY <1>1, <2>4 DEF ChangeStatus, Idle
    <3>2. QED
      BY <2>1, <2>2, <3>1 DEF OriginsComing
  <2>5. enabled' = enabled \/ \E on \in SUBSET (Mods \ enabled), off \in SUBSET enabled :
                                ChangeStatus(on, off)
    BY <1>4 DEF Next, Work, User, Loaded, AddArchive, Drop, ArchivesAdded, Dropped, Sort,
                Clean, ChangePriorities, RescanMod, disk
  <2>6. QED
    BY <2>3, <2>4, <2>5
<1>5. QED
  BY <1>2, <1>3, <1>4

\* Whenever the user can act every active mod has an origin, whatever the mods
\* hold: the main thread looks one up without asking whether it is there.
THEOREM OriginsTheorem == Spec => []ActiveModsHaveOrigins
<1>1. Init => StructureInvariant /\ OriginsComing
  BY InitStructure DEF Init, OriginsComing
<1>2. StructureInvariant /\ OriginsComing /\ [Next]_vars => (StructureInvariant /\ OriginsComing)'
  <2>1. ASSUME StructureInvariant, OriginsComing, UNCHANGED vars
        PROVE  OriginsComing'
    BY <2>1 DEF OriginsComing, vars, disk, structure, control
  <2>2. QED
    BY <2>1, NextStructure, NextOrigins
<1>3. StructureInvariant /\ OriginsComing => ActiveModsHaveOrigins
  BY DEF StructureInvariant, TypeOK, QuietAfterLoading, AllIdle, OriginsComing,
         ActiveModsHaveOrigins, Origins
<1>4. QED
  BY <1>1, <1>2, <1>3, PTL DEF Spec

-----------------------------------------------------------------------------
(* The promise *)

\* A settled structure shows each file as one of the owners the promise allows.
OwnersShown == phase = "ready" => \A f \in Files : View[f] \in Promise!Owners(f)

PromiseInvariant == SettledInvariant /\ WinnersInvariant /\ profilePriority \in Priorities

\* A provider of a settled file is what its origin holds, at the height that the
\* mod list gives the origin.
LEMMA SettledProvider ==
  ASSUME PromiseInvariant, phase = "ready", NEW f \in Files \ Noise, files[f] \in Live,
         NEW q \in ProvidersOf(register[files[f]])
  PROVE  /\ q.origin \in enabled \cup {Data}
         /\ q.archived <=> f \notin content[q.origin].loose
         /\ q.archived => /\ q.origin # Data /\ q.order = ArchiveOrder[q.origin]
                          /\ f \in content[q.origin].archived
         /\ priority[q.origin] = Promise!Height(q.origin)
         /\ priority[q.origin] \in Nat
         /\ q.archived \in BOOLEAN
<1>1. AllIdle /\ archiving = {} /\ dropping = {} /\ priority[Data] = 0
      /\ content[Data].archived = {}
  BY DEF PromiseInvariant, SettledInvariant, StructureInvariant, QuietAfterLoading,
         CourseInvariant, CourseFits, ContentPlain
<1>2. register[files[f]].name = f
  BY LiveEntry
     DEF PromiseInvariant, SettledInvariant, StructureInvariant, NamesMatchRegister
<1>3. q = ProviderOf(q.origin, f) /\ Gives(q.origin, f)
  BY <1>2 DEF PromiseInvariant, SettledInvariant, BooksInvariant, ProvidersTrue
<1>4. /\ q.origin \in enabled \cup {Data}
      /\ f \in content[q.origin].loose \/ f \in content[q.origin].archived
  BY <1>1, <1>3 DEF Gives
<1>5. /\ q.archived = (f \notin content[q.origin].loose)
      /\ q.order = IF f \notin content[q.origin].loose THEN ArchiveOrder[q.origin] ELSE -1
  BY <1>3 DEF ProviderOf
<1>6. enabled \subseteq created /\ enabled \subseteq Mods /\ Data \notin Mods /\ Mods \subseteq Origins
  BY <1>1, IdleGives, Typed DEF PromiseInvariant
<1>7. q.origin # Data => priority[q.origin] = profilePriority[q.origin] + 1
                         /\ profilePriority[q.origin] \in Nat
  BY <1>4, <1>6 DEF PromiseInvariant, WinnersInvariant, PrioritiesCurrent, Priorities
<1>8. priority[q.origin] = Promise!Height(q.origin) /\ priority[q.origin] \in Nat
  BY <1>1, <1>7 DEF Promise!Height
<1>9. q.archived \in BOOLEAN
  <2>1. q \in Provider(Origins)
    BY LiveEntry DEF PromiseInvariant, SettledInvariant
  <2>2. QED
    BY <2>1 DEF Provider
<1>10. QED
  BY <1>1, <1>4, <1>5, <1>8, <1>9

\* The provider on top of a file is the file of its origin, and the others are
\* those of the origins that hold it as well; what one of them would override is
\* below it in the order of sortOrigins.
LEMMA TopIsOwner ==
  ASSUME PromiseInvariant, phase = "ready", NEW f \in Files \ Noise, files[f] \in Live,
         NEW p \in ProvidersOf(register[files[f]])
  PROVE  ~Promise!Overrides(p.origin, register[files[f]].main.origin, f)
<1> DEFINE e == register[files[f]]
           t == e.main
<1>1. AllIdle
  BY DEF PromiseInvariant, SettledInvariant, StructureInvariant, QuietAfterLoading
<1>2. t # NoProvider
  BY <1>1, StructureFromInvariant DEF PromiseInvariant, SettledInvariant
<1>3. t \in ProvidersOf(e)
  BY <1>2 DEF ProvidersOf
<1>4. ~SortsBelow(priority, t, p)
  BY DEF PromiseInvariant, WinnersInvariant, WinnersStay
<1>5. ASSUME NEW q \in ProvidersOf(e)
      PROVE  /\ q.origin \in enabled \cup {Data}
             /\ q.archived <=> f \notin content[q.origin].loose
             /\ q.archived => q.origin # Data /\ q.order = ArchiveOrder[q.origin]
             /\ priority[q.origin] = Promise!Height(q.origin)
             /\ priority[q.origin] \in Nat
             /\ q.archived \in BOOLEAN
  BY SettledProvider
<1> HIDE DEF e, t
<1>6. \A m \in Mods : ArchiveOrder[m] \in Int
  BY DiskAssumption
<1>7. enabled \subseteq Mods
  BY Typed DEF PromiseInvariant
<1>8. CASE p.archived /\ t.archived
  <2>1. /\ p.origin \in Mods /\ p.origin # Data /\ p.order = ArchiveOrder[p.origin]
        /\ t.origin \in Mods /\ t.origin # Data /\ t.order = ArchiveOrder[t.origin]
    BY <1>3, <1>5, <1>7, <1>8 DEF e
  <2>2. /\ Promise!LoadPosition(p.origin) = Rank(p.order)
        /\ Promise!LoadPosition(t.origin) = Rank(t.order)
    BY <2>1 DEF Promise!LoadPosition, Rank
  <2>3. Rank(p.order) \in Int /\ Rank(t.order) \in Int
    BY <1>6, <2>1, UnsetAssumption DEF Rank
  <2>4. ~(Rank(t.order) < Rank(p.order))
    BY <1>4, <1>8 DEF SortsBelow
  <2>5. f \notin content[p.origin].loose /\ f \notin content[t.origin].loose
    BY <1>3, <1>5, <1>8 DEF e
  <2>6. QED
    BY <2>2, <2>3, <2>4, <2>5 DEF Promise!Overrides, e, t
<1>9. CASE ~p.archived /\ ~t.archived
  <2>1. /\ priority[p.origin] = Promise!Height(p.origin) /\ priority[p.origin] \in Nat
        /\ priority[t.origin] = Promise!Height(t.origin) /\ priority[t.origin] \in Nat
        /\ f \in content[p.origin].loose /\ f \in content[t.origin].loose
    BY <1>3, <1>5, <1>9 DEF e
  <2>2. ~(priority[t.origin] < priority[p.origin])
    BY <1>4, <1>9, <2>1 DEF SortsBelow, Rank
  <2>3. QED
    BY <2>1, <2>2 DEF Promise!Overrides, e, t
<1>10. CASE p.archived /\ ~t.archived
  <2>1. f \notin content[p.origin].loose /\ f \in content[t.origin].loose
    BY <1>3, <1>5, <1>10 DEF e
  <2>2. QED
    BY <2>1 DEF Promise!Overrides, e, t
<1>11. CASE ~p.archived /\ t.archived
  BY <1>4, <1>11 DEF SortsBelow
<1>12. p.archived \in BOOLEAN /\ t.archived \in BOOLEAN
  BY <1>3, <1>5 DEF e
<1>13. QED
  BY <1>8, <1>9, <1>10, <1>11, <1>12

\* A settled structure shows the owners.
LEMMA SettledShows == PromiseInvariant => OwnersShown
<1> SUFFICES ASSUME PromiseInvariant, phase = "ready", NEW f \in Files
             PROVE  View[f] \in Promise!Owners(f)
  BY DEF OwnersShown
<1>1. View[f] = IF files[f] = 0 THEN NoOrigin ELSE register[files[f]].main.origin
  BY DEF View
<1>2. CASE f \in Noise
  <2>1. files[f] = 0
    BY <1>2 DEF PromiseInvariant, SettledInvariant, CourseInvariant, NoiseGone
  <2>2. QED
    BY <1>1, <1>2, <2>1 DEF Promise!Owners
<1>3. CASE f \notin Noise
  <2> DEFINE holders == {o \in enabled \cup {Data} :
                           f \in content[o].loose \cup content[o].archived}
  <2>1. IF holders = {} THEN files[f] = 0
        ELSE files[f] \in Live /\ OriginsOf(register[files[f]]) = holders
    BY <1>3, SettledBooks DEF PromiseInvariant
  <2>2. {o \in Promise!Active : Promise!Provides(o, f)} = holders
    BY DEF Promise!Active, Promise!Provides
  <2>3. Promise!Owners(f) =
          IF holders = {} THEN {NoOrigin}
          ELSE {o \in holders : \A p \in holders : ~Promise!Overrides(p, o, f)}
    BY <1>3, <2>2 DEF Promise!Owners
  <2>4. CASE holders = {}
    BY <1>1, <2>1, <2>3, <2>4
  <2>5. CASE holders # {}
    <3> HIDE DEF holders
    <3>1. files[f] \in Live /\ OriginsOf(register[files[f]]) = holders
      BY <2>1, <2>5
    <3>2. files[f] # 0
      BY <3>1, LiveEntry DEF PromiseInvariant, SettledInvariant
    <3>3. register[files[f]].main # NoProvider
      BY <3>1, StructureFromInvariant
         DEF PromiseInvariant, SettledInvariant, StructureInvariant, QuietAfterLoading
    <3>4. register[files[f]].main.origin \in holders
      BY <3>1, <3>3 DEF OriginsOf, ProvidersOf
    <3>5. ASSUME NEW o \in holders
          PROVE  ~Promise!Overrides(o, register[files[f]].main.origin, f)
      <4>1. PICK p \in ProvidersOf(register[files[f]]) : p.origin = o
        BY <3>1 DEF OriginsOf
      <4>2. QED
        BY <1>3, <3>1, <4>1, TopIsOwner
    <3>6. QED
      BY <1>1, <2>3, <2>5, <3>2, <3>4, <3>5
  <2>6. QED
    BY <2>4, <2>5
<1>4. QED
  BY <1>2, <1>3

\* The initial states of the structure are those of the promise.
LEMMA InitPromise == Init => Promise!Init
<1> SUFFICES ASSUME Init PROVE Promise!Init
  OBVIOUS
<1>1. View = Promise!Nothing
  BY DEF Init, View, Promise!Nothing
<1>2. profilePriority \in [Mods -> Int]
  BY DEF Init, Priorities
<1>3. QED
  BY <1>1, <1>2 DEF Init, Promise!Init

\* A step of the structure changes what is promised, settles it, or is no step
\* of the promise at all.
LEMMA NextPromise ==
  ASSUME PromiseInvariant, PromiseInvariant', OwnersShown', [Next]_vars
  PROVE  [Promise!Next]_(Promise!vars)
<1>1. CASE UNCHANGED vars
  BY <1>1 DEF vars, disk, structure, control, View, Promise!vars
<1>2. CASE User
  <2>1. phase = "ready" /\ phase' # "ready"
    BY <1>2 DEF User, ChangeStatus, ChangePriorities, RescanMod, MayChange
  <2>2. View' = Promise!Nothing
    BY <2>1 DEF View, Promise!Nothing
  <2>3. /\ content' \in [Origins -> [loose : SUBSET Files, archived : SUBSET Files]]
        /\ enabled' \in SUBSET Mods
        /\ profilePriority' \in [Mods -> Int]
    BY DEF PromiseInvariant, SettledInvariant, StructureInvariant, TypeOK
  <2>4. Promise!Change
    BY <2>1, <2>2, <2>3 DEF Promise!Change, Promise!Origins, Origins
  <2>5. QED
    BY <2>4 DEF Promise!Next
<1>3. CASE Work
  <2>1. phase # "ready" /\ UNCHANGED <<content, enabled, profilePriority>>
    <3>1. CASE \E o \in Origins : Scan(o)
      <4>1. phase \in Loading
        BY <3>1, ScanIsLoading DEF PromiseInvariant, SettledInvariant
      <4>2. UNCHANGED disk
        BY <3>1 DEF Scan, CreateOrigin, FindFile, AddOriginToFile, AddFileToOrigin,
                    FinishLoose, FinishArchive
      <4>3. QED
        BY <4>1, <4>2 DEF Loading, disk
    <3>2. CASE ~\E o \in Origins : Scan(o)
      BY <1>3, <3>2 DEF Work, DataScanned, Loaded, AddArchive, Drop, ArchivesAdded, Dropped,
                        Sort, Clean, disk
    <3>3. QED
      BY <3>1, <3>2
  <2>2. View = Promise!Nothing
    BY <2>1 DEF View, Promise!Nothing
  <2>3. CASE phase' # "ready"
    <3>1. View' = Promise!Nothing
      BY <2>3 DEF View, Promise!Nothing
    <3>2. QED
      BY <2>1, <2>2, <2>3, <3>1 DEF Promise!vars, Promise!Nothing
  <2>4. CASE phase' = "ready"
    <3>1. \A f \in Files : View'[f] \in Promise!Owners(f)
      BY <2>1, <2>4 DEF OwnersShown, Promise!Owners, Promise!Active, Promise!Provides,
                        Promise!Overrides, Promise!Height, Promise!LoadPosition
    <3>2. View' \in [Files -> Origins \cup {NoOrigin}]
      <4>1. \A f \in Files : Promise!Owners(f) \subseteq Origins \cup {NoOrigin}
        BY Typed DEF Promise!Owners, Promise!Active, PromiseInvariant
      <4>2. View' = [f \in Files |-> View'[f]]
        BY DEF View
      <4>3. QED
        BY <3>1, <4>1, <4>2
    <3>3. Promise!Settle
      BY <2>1, <2>4, <3>1, <3>2 DEF Promise!Settle, Promise!Origins, Origins
    <3>4. QED
      BY <3>3 DEF Promise!Next
  <2>5. QED
    BY <2>3, <2>4
<1>4. QED
  BY <1>1, <1>2, <1>3 DEF Next

\* The settled structure, the winners and the mod list at every moment.
LEMMA PromiseHolds == PlainContents /\ Spec => []PromiseInvariant
<1>1. Init /\ PlainContents => PromiseInvariant
  <2>1. Init => WinnersInvariant
    BY InitStructure DEF Init, WinnersInvariant, PrioritiesCurrent, WinnersStay
  <2>2. Init => profilePriority \in Priorities
    BY DEF Init
  <2>3. QED
    BY <2>1, <2>2, InitSettled DEF PromiseInvariant
<1>2. PromiseInvariant /\ [Next]_vars => PromiseInvariant'
  <2>1. ASSUME profilePriority \in Priorities, [Next]_vars
        PROVE  profilePriority' \in Priorities
    BY <2>1 DEF Next, Work, User, Scan, CreateOrigin, FindFile, AddOriginToFile,
                AddFileToOrigin, FinishLoose, FinishArchive, DataScanned, Loaded,
                AddArchive, Drop, ArchivesAdded, Dropped, Sort, Clean, ChangeStatus,
                ChangePriorities, RescanMod, vars, disk
  <2>2. QED
    BY <2>1, NextSettled, NextWinnersInvariant DEF PromiseInvariant
<1>3. QED
  BY <1>1, <1>2, PTL DEF Spec

\* With plain contents the directory keeps its promise: every settled structure
\* shows the conflict winners, and nothing is shown before it has settled.
THEOREM PromiseTheorem == PlainContents /\ Spec => KeepsPromise
<1>1. PlainContents /\ Spec => []PromiseInvariant
  BY PromiseHolds
<1>2. PromiseInvariant /\ PromiseInvariant' /\ OwnersShown' /\ [Next]_vars
        => [Promise!Next]_(Promise!vars)
  BY NextPromise
<1>3. QED
  BY <1>1, <1>2, InitPromise, SettledShows, PTL DEF Spec, KeepsPromise, Promise!Spec
=============================================================================
