--------------------------- MODULE ModConflictsProofs ---------------------------
(***************************************************************************)
(* Theorems about ModConflicts: keeping verdicts does not disturb the      *)
(* structure, what a verdict can say at all, and that it stays true.       *)
(***************************************************************************)
EXTENDS ModConflicts, DirectoryStructureProofs

-----------------------------------------------------------------------------
(* The structure beside the verdicts *)

\* Every step of the verdicts is a step of the structure or leaves it alone.
LEMMA StepsAreTheStructures == [ConflictNext]_mcVars => [Next]_vars
<1> SUFFICES ASSUME [ConflictNext]_mcVars
             PROVE  [Next]_vars
  OBVIOUS
<1>1. CASE HandlerGoesOn
  BY <1>1 DEF HandlerGoesOn, Next, Work
<1>2. CASE SettleChange
  BY <1>2 DEF SettleChange, Next, Work
<1>3. CASE SettleRefresh
  BY <1>3 DEF SettleRefresh, Next, Work
<1>4. CASE UserActs
  BY <1>4 DEF UserActs, Next, User
<1>5. CASE \E m \in Mods : ReadConflicts(m)
  BY <1>5 DEF ReadConflicts
<1>6. CASE UNCHANGED mcVars
  BY <1>6 DEF mcVars
<1>7. QED
  BY <1>1, <1>2, <1>3, <1>4, <1>5, <1>6 DEF ConflictNext

\* The handlers that also settle the verdicts leave the structure as the ones
\* without them do (organizercore.cpp:1680 to 1829).
THEOREM StructureGoesOn == ConflictSpec => Spec
<1>1. ConflictInit => Init
  BY DEF ConflictInit
<1>2. QED
  BY <1>1, StepsAreTheStructures, PTL DEF ConflictSpec, Spec

\* So the primary origin of each file sorts above its alternatives whenever
\* doConflictCheck may look at them.
THEOREM WinnersOnTopOfVerdicts == ConflictSpec => []WinnersOnTop
  BY StructureGoesOn, WinnersTheorem, PTL

-----------------------------------------------------------------------------
(* What a verdict names *)

\* Once the threads are done, doConflictCheck names no mod but those that
\* provide a file the mod provides, and never the mod itself.
VerdictsShareFiles ==
  AllIdle =>
    \A m \in Mods : \A o \in InConflict(DoConflictCheck(m)) :
      /\ o # m
      /\ \E i \in Live : m \in OriginsOf(register[i]) /\ o \in OriginsOf(register[i])

\* The origins that an entry puts into a list are providers of the entry.
LEMMA ListedProvide ==
  ASSUME NEW m, NEW e, NEW l, NEW o \in Listed(m, e, l), e.main # NoProvider
  PROVE  o # m /\ o \in OriginsOf(e)
<1>1. CASE o = e.main.origin /\ o # m
  BY <1>1 DEF OriginsOf, ProvidersOf
<1>2. CASE \E q \in Range(e.alternatives) : q.origin # m /\ o = q.origin
  BY <1>2 DEF OriginsOf, ProvidersOf
<1>3. QED
  BY <1>1, <1>2 DEF Listed

LEMMA StructureGivesFiles ==
  ASSUME StructureInvariant
  PROVE  VerdictsShareFiles
<1> SUFFICES ASSUME AllIdle, NEW m \in Mods, NEW o \in InConflict(DoConflictCheck(m))
             PROVE  /\ o # m
                    /\ \E i \in Live : /\ m \in OriginsOf(register[i])
                                       /\ o \in OriginsOf(register[i])
  BY DEF VerdictsShareFiles
<1>1. PICK l \in Lists : o \in DoConflictCheck(m).lists[l]
  BY DEF InConflict
<1>2. PICK i \in originFiles[m] : o \in Listed(m, register[i], l)
  BY <1>1 DEF DoConflictCheck, EntriesOf
<1>3. i \in Live /\ m \in OriginsOf(register[i])
  BY DEF StructureInvariant, NoDanglingFiles, Origins
<1>4. register[i].main # NoProvider
  BY <1>3, StructureFromInvariant
<1>5. QED
  BY <1>2, <1>3, <1>4, ListedProvide

\* Whatever was scanned, switched, moved or edited before: a verdict worked out
\* while no thread scans names only mods that share a file with its mod.
THEOREM VerdictsAreShared == ConflictSpec => []VerdictsShareFiles
<1>1. ConflictSpec => []StructureInvariant
  BY StructureGoesOn, StructureTheorem, PTL
<1>2. QED
  BY <1>1, StructureGivesFiles, PTL

\* What one mod says of another that both lost to a third one, the other says
\* of it the other way round: "overwrite" against "overwritten", for loose files
\* as for archives (modinfowithconflictinfo.cpp:185 to 214).
THEOREM VerdictsAnswerEachOther ==
  ASSUME NEW p, NEW q,
         p.archived \in BOOLEAN, q.archived \in BOOLEAN,
         p.order \in Int, q.order \in Int,
         priority[p.origin] \in Int, priority[q.origin] \in Int,
         priority[p.origin] # priority[q.origin],
         NEW l \in Active
  PROVE  l \in Against(p.origin, p, q) <=> Passive(l) \in Against(q.origin, q, p)
<1>1. CASE l = "overwrite"
  BY <1>1 DEF Against, Passive, Lists
<1>2. CASE l = "archiveOverwrite"
  BY <1>2 DEF Against, Passive, Lists
<1>3. CASE l = "archiveLooseOverwrite"
  BY <1>3 DEF Against, Passive, Lists
<1>4. QED
  BY <1>1, <1>2, <1>3 DEF Active

-----------------------------------------------------------------------------
(* Verdicts and the disk *)

\* No two archives have the same place in the load order.
OrdersDiffer ==
  \A m, n \in Mods : m # n /\ Ranked(m, n) => ArchiveOrder[m] # ArchiveOrder[n]

\* A settled structure in which the game itself holds no file of a mod.
VisibleInvariant ==
  /\ OrdersDiffer
  /\ PromiseInvariant
  /\ phase = "ready"
  /\ ~\E f \in Files \ Noise : Hidden(f)

Held(m) == {f \in Files \ Noise : f \in content[m].loose \cup content[m].archived}

\* What the list l of m should say of n for the file f.
Says(l, m, n, f) ==
  IF l \in Active THEN Overrides(l, m, n, f)
  ELSE \E k \in Active : l = Passive(k) /\ Overrides(k, n, m, f)

\* Each list has its counterpart.
LEMMA ListsPair ==
  /\ \A l \in Active : Passive(l) \in Lists \ Active
  /\ \A k, l \in Active : Passive(k) = Passive(l) => k = l
  /\ Active \subseteq Lists
  /\ \A l \in Lists \ Active : \E k \in Active : l = Passive(k)
BY DEF Active, Passive, Lists

\* Facts about the disk and the mod list that hold of every mod.
LEMMA VisibleMods ==
  ASSUME VisibleInvariant
  PROVE  /\ enabled \subseteq Mods /\ Data \notin Mods /\ Data \notin enabled
         /\ \A m \in Mods : /\ content[m].loose \cap content[m].archived = {}
                            /\ ArchiveOrder[m] \in Int
                            /\ profilePriority[m] \in Nat
         /\ \A m, n \in Mods : m # n => profilePriority[m] # profilePriority[n]
         /\ \A m \in Mods : Promise!Height(m) = profilePriority[m] + 1
<1>1. SettledInvariant /\ profilePriority \in Priorities
  BY DEF VisibleInvariant, PromiseInvariant
<1>2. /\ enabled \subseteq Mods /\ Data \notin Mods /\ Mods \subseteq Origins
  BY <1>1, Typed
<1>3. \A m \in Mods : content[m].loose \cap content[m].archived = {}
  BY <1>1, <1>2 DEF SettledInvariant, CourseInvariant, ContentPlain
<1>4. /\ \A m \in Mods : profilePriority[m] \in Nat
      /\ \A m, n \in Mods : m # n => profilePriority[m] # profilePriority[n]
  BY <1>1 DEF Priorities
<1>5. \A m \in Mods : ArchiveOrder[m] \in Int
  BY DiskAssumption
<1>6. \A m \in Mods : Promise!Height(m) = profilePriority[m] + 1
  BY <1>2 DEF Promise!Height
<1>7. QED
  BY <1>2, <1>3, <1>4, <1>5, <1>6

\* A file that some mod holds is there, and its providers are the active mods
\* that hold it, each as it holds it.
LEMMA HeldProviders ==
  ASSUME VisibleInvariant, NEW m \in enabled, NEW f \in Held(m)
  PROVE  /\ files[f] \in Live
         /\ files[f] \in originFiles[m]
         /\ register[files[f]].main # NoProvider
         /\ OriginsOf(register[files[f]]) = {o \in enabled : f \in Held(o)}
         /\ \A q \in ProvidersOf(register[files[f]]) :
              /\ q.origin \in enabled
              /\ q.archived \in BOOLEAN
              /\ IF q.archived
                 THEN /\ f \in content[q.origin].archived
                      /\ f \notin content[q.origin].loose
                      /\ q.order = ArchiveOrder[q.origin]
                 ELSE /\ f \in content[q.origin].loose
                      /\ f \notin content[q.origin].archived
              /\ priority[q.origin] = profilePriority[q.origin] + 1
<1>1. /\ SettledInvariant /\ PromiseInvariant /\ phase = "ready" /\ f \in Files \ Noise
      /\ f \in content[m].loose \cup content[m].archived
  BY DEF VisibleInvariant, PromiseInvariant, Held
<1>2. f \notin content[Data].loose \cup content[Data].archived
  BY <1>1 DEF VisibleInvariant, Hidden, SettledInvariant, CourseInvariant, ContentPlain
<1>3. {o \in enabled \cup {Data} : f \in content[o].loose \cup content[o].archived}
        = {o \in enabled : f \in Held(o)}
  BY <1>1, <1>2 DEF Held
<1>4. m \in {o \in enabled : f \in Held(o)}
  OBVIOUS
<1>5. /\ files[f] \in Live
      /\ OriginsOf(register[files[f]]) = {o \in enabled : f \in Held(o)}
      /\ {o \in Origins : files[f] \in originFiles[o]} = {o \in enabled : f \in Held(o)}
  BY <1>1, <1>3, <1>4, SettledBooks
<1>6. register[files[f]].main # NoProvider
  BY <1>1, <1>5, StructureFromInvariant
     DEF SettledInvariant, StructureInvariant, QuietAfterLoading
<1>7. ASSUME NEW q \in ProvidersOf(register[files[f]])
      PROVE  /\ q.origin \in enabled
             /\ q.archived \in BOOLEAN
             /\ IF q.archived
                THEN /\ f \in content[q.origin].archived
                     /\ f \notin content[q.origin].loose
                     /\ q.order = ArchiveOrder[q.origin]
                ELSE /\ f \in content[q.origin].loose
                     /\ f \notin content[q.origin].archived
             /\ priority[q.origin] = profilePriority[q.origin] + 1
  <2>1. q.origin \in OriginsOf(register[files[f]])
    BY DEF OriginsOf
  <2>2. q.origin \in enabled /\ q.origin \in Mods
    BY <1>5, <2>1, VisibleMods
  <2>3. /\ q.archived <=> f \notin content[q.origin].loose
        /\ q.archived => q.order = ArchiveOrder[q.origin] /\ f \in content[q.origin].archived
        /\ priority[q.origin] = Promise!Height(q.origin)
        /\ q.archived \in BOOLEAN
    BY <1>1, <1>5, SettledProvider
  <2>4. QED
    BY <2>2, <2>3, VisibleMods
<1>8. QED
  BY <1>4, <1>5, <1>6, <1>7

\* The files of an active mod are the ones it holds on the disk.
LEMMA EntriesHeld ==
  ASSUME VisibleInvariant, NEW m \in enabled
  PROVE  EntriesOf(m) = {register[files[f]] : f \in Held(m)}
<1>1. ASSUME NEW f \in Held(m)
      PROVE  files[f] \in originFiles[m]
  BY HeldProviders
<1>2. ASSUME NEW i \in originFiles[m]
      PROVE  \E f \in Held(m) : i = files[f]
  <2>1. SettledInvariant /\ StructureInvariant /\ phase = "ready"
    BY DEF VisibleInvariant, PromiseInvariant, SettledInvariant
  <2>2. m \in Origins /\ m # Data
    BY <2>1, Typed
  <2>3. i \in Live /\ m \in OriginsOf(register[i])
    BY <2>1, <2>2 DEF StructureInvariant, NoDanglingFiles
  <2>4. PICK f \in Files : f = register[i].name /\ files[f] = i /\ i # 0
    BY <2>1, <2>3, LiveEntry
  <2>5. f \notin Noise
    BY <2>1, <2>4 DEF SettledInvariant, CourseInvariant, NoiseGone
  <2>6. m \in {o \in enabled \cup {Data} : f \in content[o].loose \cup content[o].archived}
    BY <2>1, <2>3, <2>4, <2>5, SettledBooks
  <2>7. QED
    BY <2>4, <2>5, <2>6 DEF Held
<1>3. QED
  BY <1>1, <1>2 DEF EntriesOf

\* How a mod holds a file is one of the providers of the file.
LEMMA ProviderInEntry ==
  ASSUME NEW e, NEW m \in OriginsOf(e), e.main # NoProvider, e.alternatives \in Seq(Provider(Origins))
  PROVE  ProviderIn(e, m) \in ProvidersOf(e) /\ ProviderIn(e, m).origin = m
<1>1. CASE e.main.origin = m
  BY <1>1 DEF ProviderIn, ProvidersOf
<1>2. CASE e.main.origin # m
  <2> DEFINE S == {i \in DOMAIN e.alternatives : e.alternatives[i].origin = m}
  <2>1. S # {}
    BY <1>2 DEF OriginsOf, ProvidersOf, Range
  <2>2. S \subseteq Nat
    OBVIOUS
  <2>3. LeastIndex(S) \in S
    BY <2>1, <2>2, LeastIndexIn
  <2>4. QED
    BY <1>2, <2>3 DEF ProviderIn, ProvidersOf, Range
<1>3. QED
  BY <1>1, <1>2

\* Two providers of a file that have different origins are compared as the disk,
\* the mod list and the load order say.
LEMMA AgainstSays ==
  ASSUME VisibleInvariant, NEW m \in enabled, NEW n \in enabled \ {m}, NEW f \in Held(m),
         NEW p \in ProvidersOf(register[files[f]]), NEW q \in ProvidersOf(register[files[f]]),
         p.origin = m, q.origin = n, NEW l \in Lists
  PROVE  l \in Against(m, p, q) <=> Says(l, m, n, f)
<1>1. /\ p.archived \in BOOLEAN /\ q.archived \in BOOLEAN
      /\ IF p.archived
         THEN f \in content[m].archived /\ f \notin content[m].loose /\ p.order = ArchiveOrder[m]
         ELSE f \in content[m].loose /\ f \notin content[m].archived
      /\ IF q.archived
         THEN f \in content[n].archived /\ f \notin content[n].loose /\ q.order = ArchiveOrder[n]
         ELSE f \in content[n].loose /\ f \notin content[n].archived
      /\ priority[m] = profilePriority[m] + 1
      /\ priority[n] = profilePriority[n] + 1
  BY HeldProviders
<1>2. /\ m \in Mods /\ n \in Mods /\ m # n
      /\ profilePriority[m] \in Nat /\ profilePriority[n] \in Nat
      /\ profilePriority[m] # profilePriority[n]
      /\ ArchiveOrder[m] \in Int /\ ArchiveOrder[n] \in Int
  BY VisibleMods
<1>3. priority[m] > priority[n] <=> profilePriority[m] > profilePriority[n]
  BY <1>1, <1>2
<1>4. ~(profilePriority[m] > profilePriority[n]) <=> profilePriority[n] > profilePriority[m]
  BY <1>2
<1>5. CASE l = "overwrite"
  BY <1>1, <1>3, <1>5 DEF Against, Says, Active, Overrides
<1>6. CASE l = "overwritten"
  BY <1>1, <1>3, <1>4, <1>6 DEF Against, Says, Active, Overrides, Passive
<1>7. CASE l = "archiveOverwrite"
  BY <1>1, <1>7 DEF Against, Says, Active, Overrides
<1>8. CASE l = "archiveOverwritten"
  <2>1. p.archived /\ q.archived => (p.order < q.order <=> ArchiveOrder[n] > ArchiveOrder[m])
    BY <1>1, <1>2
  <2>2. QED
    BY <1>1, <2>1, <1>8 DEF Against, Says, Active, Overrides, Passive
<1>9. CASE l = "archiveLooseOverwrite"
  BY <1>1, <1>9 DEF Against, Says, Active, Overrides
<1>10. CASE l = "archiveLooseOverwritten"
  BY <1>1, <1>10 DEF Against, Says, Active, Overrides, Passive
<1>11. QED
  BY <1>5, <1>6, <1>7, <1>8, <1>9, <1>10 DEF Lists

\* The primary provider of a file goes to the list that it belongs to, since no
\* other provider overrides it.
LEMMA BelowMainSays ==
  ASSUME VisibleInvariant, NEW m \in enabled, NEW n \in enabled \ {m}, NEW f \in Held(m),
         NEW e, e = register[files[f]], e.main.origin = n,
         NEW p \in ProvidersOf(e), p.origin = m, NEW l \in Lists,
         l \in {"archiveOverwrite", "archiveOverwritten"} => Ranked(m, n)
  PROVE  l = BelowMain(e, p) <=> Says(l, m, n, f)
<1> DEFINE t == e.main
<1>1. files[f] \in Live /\ t \in ProvidersOf(e)
  BY HeldProviders DEF ProvidersOf
<1>2. ~Promise!Overrides(m, n, f)
  <2>1. PromiseInvariant /\ phase = "ready" /\ f \in Files \ Noise
    BY DEF VisibleInvariant, Held
  <2>2. QED
    BY <1>1, <2>1, TopIsOwner
<1>3. /\ p.archived \in BOOLEAN /\ t.archived \in BOOLEAN
      /\ IF p.archived
         THEN f \in content[m].archived /\ f \notin content[m].loose
         ELSE f \in content[m].loose /\ f \notin content[m].archived
      /\ IF t.archived
         THEN f \in content[n].archived /\ f \notin content[n].loose
         ELSE f \in content[n].loose /\ f \notin content[n].archived
  BY <1>1, HeldProviders
<1>4. /\ m \in Mods /\ n \in Mods /\ m # n /\ m # Data /\ n # Data
      /\ profilePriority[m] \in Nat /\ profilePriority[n] \in Nat
      /\ profilePriority[m] # profilePriority[n]
      /\ Promise!Height(m) = profilePriority[m] + 1
      /\ Promise!Height(n) = profilePriority[n] + 1
      /\ ArchiveOrder[m] \in Int /\ ArchiveOrder[n] \in Int
  BY VisibleMods
<1> HIDE DEF t
<1>5. CASE t.archived
  <2>1. p.archived
    BY <1>2, <1>3, <1>5 DEF Promise!Overrides
  <2>2. BelowMain(e, p) = "archiveOverwritten"
    BY <1>5 DEF BelowMain, t
  <2>3. Ranked(m, n) => ArchiveOrder[n] > ArchiveOrder[m]
    <3>1. ASSUME Ranked(m, n)
          PROVE  /\ Promise!LoadPosition(m) = ArchiveOrder[m]
                 /\ Promise!LoadPosition(n) = ArchiveOrder[n]
                 /\ ArchiveOrder[m] # ArchiveOrder[n]
      BY <1>4, <3>1 DEF Ranked, Promise!LoadPosition, VisibleInvariant, OrdersDiffer
    <3>2. Ranked(m, n) => ~(ArchiveOrder[m] > ArchiveOrder[n])
      BY <1>2, <1>3, <1>5, <2>1, <3>1 DEF Promise!Overrides
    <3>3. QED
      BY <1>4, <3>1, <3>2
  <2>4. Ranked(m, n) => ~(ArchiveOrder[m] > ArchiveOrder[n])
    BY <1>4, <2>3
  <2>5. QED
    BY <1>3, <1>5, <2>1, <2>2, <2>3, <2>4 DEF Says, Active, Overrides, Passive, Lists
<1>6. CASE ~t.archived
  <2>1. BelowMain(e, p) = IF p.archived THEN "archiveLooseOverwritten" ELSE "overwritten"
    BY <1>6 DEF BelowMain, t
  <2>2. ~p.archived => profilePriority[n] > profilePriority[m]
    BY <1>2, <1>3, <1>4, <1>6 DEF Promise!Overrides
  <2>3. ~p.archived => ~(profilePriority[m] > profilePriority[n])
    BY <1>4, <2>2
  <2>4. QED
    BY <1>3, <1>6, <2>1, <2>2, <2>3 DEF Says, Active, Overrides, Passive, Lists
<1>7. QED
  BY <1>3, <1>5, <1>6

\* No file of an active mod has the data directory among its providers: it is
\* without conflict only if it has no alternative, and then no other mod holds it.
LEMMA ConflictMeansAlternatives ==
  ASSUME VisibleInvariant, NEW m \in enabled, NEW f \in Held(m),
         NEW e, e = register[files[f]]
  PROVE  /\ WithoutConflict(e) <=> e.alternatives = <<>>
         /\ e.alternatives = <<>> => \A n \in enabled : f \in Held(n) => n = m
         /\ \A q \in Range(e.alternatives) : q \in ProvidersOf(e) /\ q.origin # Data
         /\ e.main \in ProvidersOf(e)
         /\ e.alternatives \in Seq(Provider(Origins))
         /\ m \in OriginsOf(e)
<1>1. /\ files[f] \in Live /\ e.main # NoProvider
      /\ OriginsOf(e) = {o \in enabled : f \in Held(o)}
      /\ \A q \in ProvidersOf(e) : q.origin \in enabled
  BY HeldProviders
<1>2. Data \notin enabled
  BY VisibleMods
<1>3. /\ \A q \in Range(e.alternatives) : q \in ProvidersOf(e) /\ q.origin # Data
      /\ e.main \in ProvidersOf(e)
  BY <1>1, <1>2 DEF ProvidersOf
<1>4. e \in Entry(Origins, Files)
  BY <1>1, LiveEntry DEF VisibleInvariant, PromiseInvariant, SettledInvariant
<1>5. e.alternatives \in Seq(Provider(Origins))
  BY <1>4 DEF Entry
<1>6. ASSUME e.alternatives # <<>>
      PROVE  ~WithoutConflict(e)
  <2>1. /\ Len(e.alternatives) \in Nat /\ DOMAIN e.alternatives = 1..Len(e.alternatives)
        /\ Len(e.alternatives) # 0
    BY <1>5, <1>6, LenProperties, EmptySeq
  <2>2. Last(e.alternatives) \in Range(e.alternatives)
    BY <2>1 DEF Last, Range
  <2>3. QED
    BY <1>3, <1>6, <2>2 DEF WithoutConflict
<1>7. ASSUME e.alternatives = <<>>, NEW n \in enabled, f \in Held(n)
      PROVE  n = m
  <2>1. Range(e.alternatives) = {}
    BY <1>7 DEF Range
  <2>2. OriginsOf(e) = {e.main.origin}
    BY <1>1, <2>1 DEF OriginsOf, ProvidersOf
  <2>3. m \in OriginsOf(e) /\ n \in OriginsOf(e)
    BY <1>1, <1>7
  <2>4. QED
    BY <2>2, <2>3
<1>8. QED
  BY <1>1, <1>3, <1>5, <1>6, <1>7 DEF WithoutConflict

\* What a mod says of another goes with files that both hold.
LEMMA SaysShared ==
  ASSUME NEW l \in Lists, NEW m, NEW n, NEW f \in Files \ Noise, Says(l, m, n, f)
  PROVE  f \in Held(m) /\ f \in Held(n)
<1>1. \A k \in Active : \A x, y : Overrides(k, x, y, f) => f \in Held(x) /\ f \in Held(y)
  BY DEF Active, Overrides, Held
<1>2. QED
  BY <1>1 DEF Says

\* A file puts another active mod into a list of a mod that holds the file if
\* and only if the disk, the mod list and the load order say so.
LEMMA FileSays ==
  ASSUME VisibleInvariant, NEW m \in enabled, NEW n \in enabled \ {m}, NEW f \in Held(m),
         NEW l \in Lists, l \in {"archiveOverwrite", "archiveOverwritten"} => Ranked(m, n)
  PROVE  n \in Listed(m, register[files[f]], l) <=> Says(l, m, n, f)
<1> DEFINE e == register[files[f]]
           p == ProviderIn(e, m)
<1>1. /\ WithoutConflict(e) <=> e.alternatives = <<>>
      /\ e.alternatives = <<>> => \A o \in enabled : f \in Held(o) => o = m
      /\ \A q \in Range(e.alternatives) : q \in ProvidersOf(e) /\ q.origin # Data
      /\ e.main \in ProvidersOf(e)
      /\ e.alternatives \in Seq(Provider(Origins))
      /\ m \in OriginsOf(e)
  BY ConflictMeansAlternatives
<1>2. e.main # NoProvider /\ OriginsOf(e) = {o \in enabled : f \in Held(o)}
  BY HeldProviders
<1>3. p \in ProvidersOf(e) /\ p.origin = m
  BY <1>1, <1>2, ProviderInEntry
<1>4. f \in Files \ Noise
  BY DEF Held
<1>5. ASSUME NEW q \in ProvidersOf(e), q.origin = n
      PROVE  l \in Against(m, p, q) <=> Says(l, m, n, f)
  BY <1>3, <1>5, AgainstSays
<1>6. e.main.origin = n => (l = BelowMain(e, p) <=> Says(l, m, n, f))
  BY <1>3, BelowMainSays
<1>7. e = register[files[f]]
  OBVIOUS
<1> HIDE DEF e, p
<1>8. CASE e.alternatives = <<>>
  <2>1. ~Says(l, m, n, f)
    BY <1>1, <1>4, <1>8, SaysShared
  <2>2. Listed(m, e, l) = {}
    BY <1>1, <1>8 DEF Listed
  <2>3. QED
    BY <1>7, <2>1, <2>2
<1>9. CASE e.alternatives # <<>>
  <2>1. n \in Listed(m, e, l) <=>
          \/ n = e.main.origin /\ l = BelowMain(e, p)
          \/ \E q \in Range(e.alternatives) : q.origin = n /\ l \in Against(m, p, q)
    BY <1>1, <1>9 DEF Listed, p
  <2>2. ASSUME Says(l, m, n, f)
        PROVE  n = e.main.origin \/ \E q \in Range(e.alternatives) : q.origin = n
    <3>1. f \in Held(n)
      BY <1>4, <2>2, SaysShared
    <3>2. n \in OriginsOf(e)
      BY <1>2, <3>1
    <3>3. QED
      BY <3>2 DEF OriginsOf, ProvidersOf
  <2>3. QED
    BY <1>1, <1>5, <1>6, <1>7, <2>1, <2>2
<1>10. QED
  BY <1>8, <1>9

\* The lists of a verdict name the mods the disk, the mod list and the load
\* order say.
LEMMA ListsSay ==
  ASSUME VisibleInvariant, NEW m \in enabled, NEW n \in enabled \ {m},
         NEW l \in Lists, l \in {"archiveOverwrite", "archiveOverwritten"} => Ranked(m, n)
  PROVE  n \in DoConflictCheck(m).lists[l] <=> \E f \in Files \ Noise : Says(l, m, n, f)
<1>1. DoConflictCheck(m).lists[l] = UNION {Listed(m, register[files[f]], l) : f \in Held(m)}
  <2>1. DoConflictCheck(m).lists[l] = UNION {Listed(m, e, l) : e \in EntriesOf(m)}
    BY DEF DoConflictCheck
  <2>2. QED
    BY <2>1, EntriesHeld
<1>2. n \in DoConflictCheck(m).lists[l] <=> \E f \in Held(m) : n \in Listed(m, register[files[f]], l)
  BY <1>1
<1>3. \A f \in Held(m) : n \in Listed(m, register[files[f]], l) <=> Says(l, m, n, f)
  BY FileSays
<1>4. \A f \in Files \ Noise : Says(l, m, n, f) => f \in Held(m)
  BY SaysShared
<1>5. Held(m) \subseteq Files \ Noise
  BY DEF Held
<1>6. QED
  BY <1>2, <1>3, <1>4, <1>5

\* A mod is redundant if and only if another one overrides each file it holds.
LEMMA RedundantSays ==
  ASSUME VisibleInvariant, NEW m \in enabled, \A n \in enabled : Ranked(m, n)
  PROVE  DoConflictCheck(m).redundant <=>
           /\ Held(m) # {}
           /\ \A f \in Held(m) : \E n \in enabled \ {m}, l \in Active : Overrides(l, n, m, f)
<1>1. originFiles[m] # {} <=> Held(m) # {}
  <2>1. EntriesOf(m) = {register[files[f]] : f \in Held(m)}
    BY EntriesHeld
  <2>2. originFiles[m] # {} <=> EntriesOf(m) # {}
    BY DEF EntriesOf
  <2>3. QED
    BY <2>1, <2>2
<1>2. DoConflictCheck(m).redundant <=>
        /\ originFiles[m] # {}
        /\ \A f \in Held(m) : /\ ~WithoutConflict(register[files[f]])
                              /\ register[files[f]].main.origin # m
  <2>1. DoConflictCheck(m).redundant <=>
          /\ originFiles[m] # {}
          /\ \A e \in EntriesOf(m) : ~WithoutConflict(e) /\ e.main.origin # m
    BY DEF DoConflictCheck
  <2>2. QED
    BY <2>1, EntriesHeld
<1>3. ASSUME NEW f \in Held(m)
      PROVE  (~WithoutConflict(register[files[f]]) /\ register[files[f]].main.origin # m)
               <=> \E n \in enabled \ {m}, l \in Active : Overrides(l, n, m, f)
  <2> DEFINE e == register[files[f]]
             t == e.main.origin
             p == ProviderIn(e, m)
  <2>1. /\ WithoutConflict(e) <=> e.alternatives = <<>>
        /\ e.alternatives = <<>> => \A o \in enabled : f \in Held(o) => o = m
        /\ e.main \in ProvidersOf(e)
        /\ e.alternatives \in Seq(Provider(Origins))
        /\ m \in OriginsOf(e)
    BY ConflictMeansAlternatives
  <2>2. e.main # NoProvider /\ t \in enabled /\ files[f] \in Live
    BY <2>1, HeldProviders
  <2>3. p \in ProvidersOf(e) /\ p.origin = m
    BY <2>1, <2>2, ProviderInEntry
  <2>4. f \in Files \ Noise
    BY DEF Held
  <2>5. ASSUME t # m
        PROVE  \E l \in Active : Overrides(l, t, m, f)
    <3>1. BelowMain(e, p) \in Lists \ Active
      BY DEF BelowMain, Lists, Active
    <3>2. Says(BelowMain(e, p), m, t, f)
      BY <2>2, <2>3, <2>5, <3>1, BelowMainSays
    <3>3. QED
      BY <3>1, <3>2 DEF Says
  <2>6. ASSUME NEW n \in enabled \ {m}, NEW l \in Active, Overrides(l, n, m, f)
        PROVE  ~WithoutConflict(e) /\ t # m
    <3>1. f \in Held(n)
      BY <2>4, <2>6 DEF Overrides, Active, Held
    <3>2. e.alternatives # <<>>
      BY <2>1, <3>1
    <3>3. Promise!Overrides(n, m, f)
      <4>1. /\ m \in Mods /\ n \in Mods /\ m # Data /\ n # Data
            /\ content[m].loose \cap content[m].archived = {}
            /\ content[n].loose \cap content[n].archived = {}
            /\ Promise!Height(m) = profilePriority[m] + 1
            /\ Promise!Height(n) = profilePriority[n] + 1
            /\ profilePriority[m] \in Nat /\ profilePriority[n] \in Nat
            /\ ArchiveOrder[m] \in Int /\ ArchiveOrder[n] \in Int
        BY VisibleMods
      <4>2. CASE l = "overwrite"
        BY <2>6, <4>1, <4>2 DEF Overrides, Promise!Overrides
      <4>3. CASE l = "archiveLooseOverwrite"
        BY <2>6, <4>1, <4>3 DEF Overrides, Promise!Overrides
      <4>4. CASE l = "archiveOverwrite"
        <5>1. /\ Promise!LoadPosition(m) = ArchiveOrder[m]
              /\ Promise!LoadPosition(n) = ArchiveOrder[n]
          BY <4>1 DEF Promise!LoadPosition, Ranked
        <5>2. QED
          BY <2>6, <4>1, <4>4, <5>1 DEF Overrides, Promise!Overrides
      <4>5. QED
        BY <4>2, <4>3, <4>4 DEF Active
    <3>4. PICK q \in ProvidersOf(e) : q.origin = n
      <4>1. n \in OriginsOf(e)
        BY <3>1, HeldProviders
      <4>2. QED
        BY <4>1 DEF OriginsOf
    <3>5. ~Promise!Overrides(n, t, f)
      BY <2>2, <2>4, <3>4, TopIsOwner DEF VisibleInvariant
    <3>6. QED
      BY <2>1, <3>2, <3>3, <3>5
  <2>7. ASSUME t # m
        PROVE  ~WithoutConflict(e)
    BY <2>2, <2>5, <2>6, <2>7
  <2>8. QED
    BY <2>2, <2>5, <2>6, <2>7
<1>4. QED
  BY <1>1, <1>2, <1>3

\* The verdicts of a settled structure are true.
LEMMA VisibleVerdicts ==
  ASSUME VisibleInvariant
  PROVE  VerdictsAreTrue
<1>1. ASSUME NEW m \in enabled, NEW n \in enabled \ {m}, NEW l \in Active,
             l = "archiveOverwrite" => Ranked(m, n)
      PROVE  LET overrides == \E f \in Files \ Noise : Overrides(l, m, n, f)
             IN  /\ overrides <=> n \in DoConflictCheck(m).lists[l]
                 /\ overrides <=> m \in DoConflictCheck(n).lists[Passive(l)]
  <2>1. /\ l \in Lists /\ Passive(l) \in Lists \ Active
        /\ \A k \in Active : Passive(k) = Passive(l) => k = l
    BY ListsPair
  <2>2. /\ l \in {"archiveOverwrite", "archiveOverwritten"} => Ranked(m, n)
        /\ Passive(l) \in {"archiveOverwrite", "archiveOverwritten"} => Ranked(n, m)
    BY <1>1 DEF Active, Passive, Ranked
  <2>3. \A f : Says(l, m, n, f) <=> Overrides(l, m, n, f)
    BY DEF Says
  <2>4. \A f : Says(Passive(l), n, m, f) <=> Overrides(l, m, n, f)
    BY <2>1 DEF Says
  <2>5. n \in DoConflictCheck(m).lists[l] <=> \E f \in Files \ Noise : Overrides(l, m, n, f)
    BY <2>1, <2>2, <2>3, ListsSay
  <2>6. m \in enabled \ {n}
    OBVIOUS
  <2>7. m \in DoConflictCheck(n).lists[Passive(l)]
          <=> \E f \in Files \ Noise : Overrides(l, m, n, f)
    BY <2>1, <2>2, <2>4, <2>6, ListsSay
  <2>8. QED
    BY <2>5, <2>7
<1>2. ASSUME NEW m \in enabled, \A n \in enabled : Ranked(m, n)
      PROVE  LET held == {f \in Files \ Noise : f \in content[m].loose \cup content[m].archived}
             IN  DoConflictCheck(m).redundant <=>
                   /\ held # {}
                   /\ \A f \in held : \E n \in enabled \ {m}, l \in Active : Overrides(l, n, m, f)
  <2>1. Held(m) = {f \in Files \ Noise : f \in content[m].loose \cup content[m].archived}
    BY DEF Held
  <2>2. QED
    BY <1>2, <2>1, RedundantSays
<1>3. QED
  BY <1>1, <1>2 DEF VerdictsAreTrue

\* Whatever was scanned, switched, moved or edited before, the verdict on each
\* active mod names exactly the mods it overrides and is overridden by, by the
\* disk, the mod list and the load order, if no mod ships a file twice and no
\* two archives have one place (modinfowithconflictinfo.cpp:125 to 247).
THEOREM VerdictsTheorem ==
  PlainContents /\ OrdersDiffer /\ ConflictSpec => []VerdictsAreTrue
<1>1. PlainContents /\ ConflictSpec => []PromiseInvariant
  BY StructureGoesOn, PromiseHolds, PTL
<1>2. OrdersDiffer /\ PromiseInvariant => VerdictsAreTrue
  <2>1. CASE phase = "ready" /\ ~\E f \in Files \ Noise : Hidden(f)
    BY <2>1, VisibleVerdicts DEF VisibleInvariant
  <2>2. CASE ~(phase = "ready" /\ ~\E f \in Files \ Noise : Hidden(f))
    BY <2>2 DEF VerdictsAreTrue
  <2>3. QED
    BY <2>1, <2>2
<1>3. OrdersDiffer => []OrdersDiffer
  BY DEF OrdersDiffer, Ranked
<1>4. QED
  BY <1>1, <1>2, <1>3, PTL

-----------------------------------------------------------------------------
(* Verdicts that are kept *)

NothingHidden == ~\E f \in Files \ Noise : Hidden(f)

\* The list l says no more of the two mods than the comparison of their archives.
Comparable(l, m, n) == l \in {"archiveOverwrite", "archiveOverwritten"} => Ranked(m, n)

\* The verdict on m names n in its list l if it is worked out now.
Truth(l, m, n) ==
  /\ m \in enabled /\ n \in enabled /\ m # n
  /\ \E f \in Files \ Noise : Says(l, m, n, f)

FreshVerdicts ==
  phase = "ready" /\ NothingHidden =>
    \A m, n \in Mods : \A l \in Lists :
      Comparable(l, m, n) => (n \in DoConflictCheck(m).lists[l] <=> Truth(l, m, n))

\* The list of n that m belongs to if n belongs to the list l of m.
Opposite(l) == IF l \in Active THEN Passive(l) ELSE CHOOSE k \in Active : Passive(k) = l

\* Both mods are active and have a file loose that the other one has loose.
MeetLoose(m, n) ==
  /\ m \in enabled /\ n \in enabled /\ m # n
  /\ \E f \in Files \ Noise : f \in content[m].loose /\ f \in content[n].loose

\* A verdict on a mod that no change is about is right about the mods that no
\* change is about.  If it names another one, clearCaches will come by: the other
\* one was switched off and its own verdict names the mod in turn, or it was moved
\* and they share a file still.
KeptRight ==
  \A m \in Mods \ (unnoticed \cup changed) : \A n \in Mods \ unnoticed :
    \A l \in Lists : \A v \in conflicts[m] :
      Comparable(l, m, n) =>
        /\ n \notin changed => (n \in v.lists[l] <=> Truth(l, m, n))
        /\ n \in changed /\ n \in v.lists[l] =>
             \/ /\ task = "status" /\ n \notin enabled
                /\ \A w \in conflicts[n] : m \in w.lists[Opposite(l)]
             \/ task = "priority" /\ (Truth(l, m, n) \/ MeetLoose(m, n))

KeptInvariant ==
  NothingHidden =>
    /\ conflicts = [m \in Mods |-> conflicts[m]]
    /\ changed \subseteq Mods
    /\ phase \in {"ready", "clean"} \/ task \in {"refresh", "rescan"} => changed = {}
    /\ KeptRight

LEMMA OppositeList ==
  ASSUME NEW l \in Lists
  PROVE  /\ Opposite(l) \in Lists
         /\ \A m, n, f : Says(l, m, n, f) <=> Says(Opposite(l), n, m, f)
         /\ \A m, n \in Mods : Comparable(l, m, n) <=> Comparable(Opposite(l), n, m)
<1>1. CASE l \in Active
  <2>1. Opposite(l) = Passive(l) /\ Passive(l) \in Lists \ Active
    BY <1>1, ListsPair DEF Opposite
  <2>2. \A k \in Active : Passive(k) = Passive(l) => k = l
    BY <1>1, ListsPair
  <2>3. \A m, n, f : Says(l, m, n, f) <=> Says(Passive(l), n, m, f)
    BY <1>1, <2>1, <2>2 DEF Says
  <2>4. \A m, n \in Mods : Comparable(l, m, n) <=> Comparable(Passive(l), n, m)
    BY <1>1 DEF Comparable, Ranked, Active, Passive
  <2>5. QED
    BY <2>1, <2>3, <2>4
<1>2. CASE l \notin Active
  <2>1. PICK k \in Active : l = Passive(k)
    BY <1>2, ListsPair
  <2>2. \A j \in Active : Passive(j) = Passive(k) => j = k
    BY ListsPair
  <2>3. Opposite(l) = k /\ k \in Lists
    BY <1>2, <2>1, <2>2, ListsPair DEF Opposite
  <2>4. \A m, n, f : Says(l, m, n, f) <=> Says(k, n, m, f)
    BY <1>2, <2>1, <2>2 DEF Says
  <2>5. \A m, n \in Mods : Comparable(l, m, n) <=> Comparable(k, n, m)
    BY <2>1 DEF Comparable, Ranked, Active, Passive
  <2>6. QED
    BY <2>3, <2>4, <2>5
<1>3. QED
  BY <1>1, <1>2

LEMMA OppositeTruth ==
  ASSUME NEW l \in Lists, NEW m, NEW n
  PROVE  Truth(l, m, n) <=> Truth(Opposite(l), n, m)
BY OppositeList DEF Truth

\* A verdict that is worked out when the user can act says the truth.
LEMMA VerdictsFresh == OrdersDiffer /\ PromiseInvariant => FreshVerdicts
<1> SUFFICES ASSUME OrdersDiffer, PromiseInvariant, phase = "ready", NothingHidden,
                    NEW m \in Mods, NEW n \in Mods, NEW l \in Lists, Comparable(l, m, n)
             PROVE  n \in DoConflictCheck(m).lists[l] <=> Truth(l, m, n)
  BY DEF FreshVerdicts
<1>1. VisibleInvariant
  BY DEF VisibleInvariant, NothingHidden
<1>2. CASE m \in enabled /\ n \in enabled /\ m # n
  BY <1>1, <1>2, ListsSay DEF Truth, Comparable
<1>3. CASE ~(m \in enabled /\ n \in enabled /\ m # n)
  <2>1. SUFFICES ASSUME n \in DoConflictCheck(m).lists[l]
                 PROVE  FALSE
    BY <1>3 DEF Truth
  <2>2. SettledInvariant /\ StructureInvariant /\ AllIdle
    BY DEF PromiseInvariant, SettledInvariant, StructureInvariant, QuietAfterLoading
  <2>3. m \in Origins /\ m # Data /\ n # Data
    BY <2>2, Typed
  <2>4. PICK i \in originFiles[m] : n \in Listed(m, register[i], l)
    BY <2>1 DEF DoConflictCheck, EntriesOf
  <2>5. i \in Live /\ m \in OriginsOf(register[i])
    BY <2>2, <2>3 DEF StructureInvariant, NoDanglingFiles
  <2>6. n # m /\ n \in OriginsOf(register[i])
    <3>1. register[i].main # NoProvider
      BY <2>2, <2>5, StructureFromInvariant
    <3>2. QED
      BY <2>4, <3>1, ListedProvide
  <2>7. PICK f \in Files : f = register[i].name /\ files[f] = i /\ i # 0
    BY <2>2, <2>5, LiveEntry
  <2>8. f \notin Noise
    BY <2>2, <2>7 DEF SettledInvariant, CourseInvariant, NoiseGone
  <2>9. OriginsOf(register[i]) \subseteq enabled \cup {Data}
    BY <2>2, <2>7, <2>8, SettledBooks
  <2>10. QED
    BY <1>3, <2>3, <2>5, <2>6, <2>9
<1>4. QED
  BY <1>2, <1>3

\* What two mods say of each other stays when their files and activity do, and
\* their order if they have loose files in common.
LEMMA TruthStays ==
  ASSUME NEW m, NEW n, NEW l \in Lists,
         content'[m] = content[m], content'[n] = content[n],
         m \in enabled' <=> m \in enabled, n \in enabled' <=> n \in enabled,
         \/ /\ profilePriority'[m] > profilePriority'[n] <=> profilePriority[m] > profilePriority[n]
            /\ profilePriority'[n] > profilePriority'[m] <=> profilePriority[n] > profilePriority[m]
         \/ l \notin {"overwrite", "overwritten"}
  PROVE  Truth(l, m, n)' <=> Truth(l, m, n)
<1>1. ASSUME NEW f \in Files \ Noise
      PROVE  Says(l, m, n, f)' <=> Says(l, m, n, f)
  BY DEF Says, Active, Passive, Overrides, Lists
<1>2. QED
  BY <1>1 DEF Truth

\* Mods that both have a file loose say so of each other.
LEMMA MeetingTells ==
  ASSUME NEW m \in Mods, NEW n \in Mods, MeetLoose(m, n), profilePriority \in Priorities
  PROVE  \E l \in Lists : Comparable(l, m, n) /\ Truth(l, m, n)
<1>1. /\ profilePriority[m] \in Nat /\ profilePriority[n] \in Nat
      /\ profilePriority[m] # profilePriority[n]
  BY DEF Priorities, MeetLoose
<1>2. PICK f \in Files \ Noise : f \in content[m].loose /\ f \in content[n].loose
  BY DEF MeetLoose
<1>3. CASE profilePriority[m] > profilePriority[n]
  <2>1. Says("overwrite", m, n, f)
    BY <1>2, <1>3 DEF Says, Active, Overrides
  <2>2. QED
    BY <1>2, <2>1 DEF Truth, MeetLoose, Comparable, Lists
<1>4. CASE profilePriority[n] > profilePriority[m]
  <2>1. Says("overwritten", m, n, f)
    BY <1>2, <1>4 DEF Says, Active, Overrides, Passive
  <2>2. QED
    BY <1>2, <2>1 DEF Truth, MeetLoose, Comparable, Lists
<1>5. QED
  BY <1>1, <1>3, <1>4

LEMMA HandlerKeeps ==
  ASSUME KeptInvariant, HandlerGoesOn
  PROVE  KeptInvariant'
<1>1. UNCHANGED <<conflictVars, disk, task>>
  BY DEF HandlerGoesOn, Scan, CreateOrigin, FindFile, AddOriginToFile, AddFileToOrigin,
         FinishLoose, FinishArchive, DataScanned, Loaded, AddArchive, Drop, ArchivesAdded,
         Dropped, Sort, control
<1>2. phase' \in {"ready", "clean"} => phase \in {"ready", "clean"} \/ task = "refresh"
  BY DEF HandlerGoesOn, Scan, CreateOrigin, FindFile, AddOriginToFile, AddFileToOrigin,
         FinishLoose, FinishArchive, DataScanned, Loaded, AddArchive, Drop, ArchivesAdded,
         Dropped, Sort, control
<1>3. NothingHidden' <=> NothingHidden
  BY <1>1 DEF NothingHidden, Hidden, disk
<1>4. \A m, n, l : /\ Truth(l, m, n)' <=> Truth(l, m, n)
                   /\ MeetLoose(m, n)' <=> MeetLoose(m, n)
  BY <1>1 DEF Truth, Says, Overrides, MeetLoose, disk
<1>5. KeptRight => KeptRight'
  BY <1>1, <1>4 DEF KeptRight, conflictVars, disk, Comparable, Ranked
<1>6. QED
  BY <1>1, <1>2, <1>3, <1>5 DEF KeptInvariant, conflictVars

\* What a kept verdict says when the user can act.
LEMMA ReadyVerdicts ==
  ASSUME KeptInvariant, NothingHidden, phase = "ready",
         NEW m \in Mods \ unnoticed, NEW n \in Mods \ unnoticed, NEW l \in Lists,
         Comparable(l, m, n), NEW v \in conflicts[m]
  PROVE  n \in v.lists[l] <=> Truth(l, m, n)
BY DEF KeptInvariant, KeptRight

LEMMA ReadKeeps ==
  ASSUME KeptInvariant, FreshVerdicts, NEW r \in Mods, ReadConflicts(r)
  PROVE  KeptInvariant'
<1>1. /\ phase = "ready" /\ UNCHANGED <<vars, changed, unnoticed>>
      /\ UNCHANGED <<disk, task, phase>>
      /\ conflicts' = [conflicts EXCEPT ![r] = {DoConflictCheck(r)}]
  BY DEF ReadConflicts, vars, control
<1>2. SUFFICES ASSUME NothingHidden
               PROVE  /\ conflicts' = [m \in Mods |-> conflicts'[m]]
                      /\ changed = {}
                      /\ KeptRight'
  BY <1>1 DEF KeptInvariant, NothingHidden, Hidden, disk
<1>3. conflicts = [m \in Mods |-> conflicts[m]] /\ changed = {}
  BY <1>1, <1>2 DEF KeptInvariant
<1>4. conflicts' = [m \in Mods |-> conflicts'[m]]
  BY <1>1, <1>3
<1>5. ASSUME NEW m \in Mods \ unnoticed, NEW n \in Mods \ unnoticed, NEW l \in Lists,
             Comparable(l, m, n), NEW v \in conflicts'[m]
      PROVE  n \in v.lists[l] <=> Truth(l, m, n)
  <2>1. CASE v \in conflicts[m]
    BY <1>1, <1>2, <1>5, <2>1, ReadyVerdicts
  <2>2. CASE v \notin conflicts[m]
    <3>1. m = r /\ v = DoConflictCheck(r)
      BY <1>1, <1>3, <2>2
    <3>2. QED
      BY <1>1, <1>2, <1>5, <3>1 DEF FreshVerdicts
  <2>3. QED
    BY <2>1, <2>2
<1>6. \A m, n, l : Truth(l, m, n)' <=> Truth(l, m, n)
  BY <1>1 DEF Truth, Says, Overrides, disk
<1>7. KeptRight'
  BY <1>1, <1>3, <1>5, <1>6 DEF KeptRight, Comparable, Ranked
<1>8. QED
  BY <1>3, <1>7, <1>4

LEMMA UserKeeps ==
  ASSUME KeptInvariant, PromiseInvariant, PromiseInvariant', UserActs
  PROVE  KeptInvariant'
<1>1. enabled \in SUBSET Mods /\ Data \notin Mods
  BY Typed DEF PromiseInvariant
<1>2. /\ phase = "ready" /\ phase' \notin {"ready", "clean"}
      /\ content'[Data] = content[Data] /\ UNCHANGED conflicts
  <2>1. /\ content \in [Origins -> [loose : SUBSET Files, archived : SUBSET Files]]
        /\ Data \in Origins
    BY Typed DEF PromiseInvariant
  <2>2. phase = "ready" /\ phase' \notin {"ready", "clean"} /\ UNCHANGED conflicts
    BY DEF UserActs, ChangeStatus, ChangePriorities, RescanMod, MayChange
  <2>3. UNCHANGED content \/ \E m \in Mods : RescanMod(m)
    BY DEF UserActs, ChangeStatus, ChangePriorities
  <2>4. ASSUME NEW m \in Mods, RescanMod(m)
        PROVE  content'[Data] = content[Data]
    <3>1. PICK c \in Contents : content' = [content EXCEPT ![m] = c[m]]
      BY <2>4 DEF RescanMod
    <3>2. QED
      BY <1>1, <2>1, <3>1
  <2>5. QED
    BY <2>2, <2>3, <2>4
<1>3. NothingHidden' <=> NothingHidden
  BY <1>2 DEF NothingHidden, Hidden
<1>4. SUFFICES ASSUME NothingHidden
               PROVE  /\ changed' \subseteq Mods
                      /\ task' \in {"refresh", "rescan"} => changed' = {}
                      /\ KeptRight'
  BY <1>2, <1>3 DEF KeptInvariant
<1>5. \A m, n \in Mods \ unnoticed : \A l \in Lists : \A v \in conflicts[m] :
        Comparable(l, m, n) => (n \in v.lists[l] <=> Truth(l, m, n))
  BY <1>2, <1>4, ReadyVerdicts
<1>6. ASSUME NEW on \in SUBSET (Mods \ enabled), NEW off \in SUBSET enabled,
             ChangeStatus(on, off), changed' = on \cup off, UNCHANGED unnoticed
      PROVE  /\ changed' \subseteq Mods
             /\ task' \in {"refresh", "rescan"} => changed' = {}
             /\ KeptRight'
  <2>1. /\ enabled' = (enabled \cup on) \ off /\ task' = "status"
        /\ UNCHANGED <<content, profilePriority>>
    BY <1>6 DEF ChangeStatus
  <2>2. changed' \subseteq Mods
    BY <1>1, <1>6
  <2>3. ASSUME NEW m \in Mods \ (unnoticed \cup changed'), NEW n \in Mods \ unnoticed,
               NEW l \in Lists, NEW v \in conflicts[m], Comparable(l, m, n)
        PROVE  /\ n \notin changed' => (n \in v.lists[l] <=> Truth(l, m, n)')
               /\ n \in changed' /\ n \in v.lists[l] =>
                    /\ n \notin enabled'
                    /\ \A w \in conflicts[n] : m \in w.lists[Opposite(l)]
    <3>1. n \in v.lists[l] <=> Truth(l, m, n)
      BY <1>5, <2>3
    <3>2. ASSUME n \notin changed'
          PROVE  Truth(l, m, n)' <=> Truth(l, m, n)
      BY <1>6, <2>1, <2>3, <3>2, TruthStays
    <3>3. ASSUME n \in changed', n \in v.lists[l]
          PROVE  /\ n \notin enabled'
                 /\ \A w \in conflicts[n] : m \in w.lists[Opposite(l)]
      <4>1. Truth(l, m, n) /\ Truth(Opposite(l), n, m)
        BY <3>1, <3>3, OppositeTruth
      <4>2. n \in off
        BY <1>6, <3>3, <4>1 DEF Truth
      <4>3. Comparable(Opposite(l), n, m) /\ Opposite(l) \in Lists
        BY <2>3, OppositeList
      <4>4. QED
        BY <1>5, <2>1, <4>1, <4>2, <4>3
    <3>4. QED
      BY <3>1, <3>2, <3>3
  <2>4. KeptRight'
    BY <1>2, <1>6, <2>1, <2>3 DEF KeptRight, Comparable, Ranked
  <2>5. QED
    BY <2>1, <2>2, <2>4
<1>7. ASSUME ChangePriorities, NEW S \in SUBSET Mods, MovesOnly(S), changed' = S,
             UNCHANGED unnoticed
      PROVE  /\ changed' \subseteq Mods
             /\ task' \in {"refresh", "rescan"} => changed' = {}
             /\ KeptRight'
  <2>1. /\ task' = "priority" /\ UNCHANGED <<content, enabled>>
        /\ profilePriority \in Priorities /\ profilePriority' \in Priorities
    BY <1>7 DEF ChangePriorities, PromiseInvariant
  <2>2. ASSUME NEW m \in Mods \ (unnoticed \cup S), NEW n \in Mods \ unnoticed,
               NEW l \in Lists, NEW v \in conflicts[m], Comparable(l, m, n)
        PROVE  /\ n \notin S => (n \in v.lists[l] <=> Truth(l, m, n)')
               /\ n \in S /\ n \in v.lists[l] => Truth(l, m, n)' \/ MeetLoose(m, n)'
    <3>1. n \in v.lists[l] <=> Truth(l, m, n)
      BY <1>5, <2>2
    <3>2. ASSUME n \notin S
          PROVE  Truth(l, m, n)' <=> Truth(l, m, n)
      <4>1. /\ profilePriority[m] < profilePriority[n]
                 <=> profilePriority'[m] < profilePriority'[n]
            /\ profilePriority[n] < profilePriority[m]
                 <=> profilePriority'[n] < profilePriority'[m]
        BY <1>7, <2>2, <3>2 DEF MovesOnly
      <4>2. /\ profilePriority[m] \in Int /\ profilePriority[n] \in Int
            /\ profilePriority'[m] \in Int /\ profilePriority'[n] \in Int
        BY <2>1 DEF Priorities
      <4>3. /\ profilePriority'[m] > profilePriority'[n] <=> profilePriority[m] > profilePriority[n]
            /\ profilePriority'[n] > profilePriority'[m] <=> profilePriority[n] > profilePriority[m]
        BY <4>1, <4>2
      <4>4. QED
        BY <2>1, <4>3, TruthStays
    <3>3. ASSUME n \in v.lists[l], l \in {"overwrite", "overwritten"}
          PROVE  MeetLoose(m, n)'
      <4>1. PICK f \in Files \ Noise : Says(l, m, n, f) /\ m \in enabled /\ n \in enabled /\ m # n
        BY <3>1, <3>3 DEF Truth
      <4>2. f \in content[m].loose /\ f \in content[n].loose
        BY <3>3, <4>1 DEF Says, Overrides, Active, Passive
      <4>3. QED
        BY <2>1, <4>1, <4>2 DEF MeetLoose
    <3>4. ASSUME n \in v.lists[l], l \notin {"overwrite", "overwritten"}
          PROVE  Truth(l, m, n)'
      BY <2>1, <3>1, <3>4, TruthStays
    <3>5. QED
      BY <3>1, <3>2, <3>3, <3>4
  <2>3. KeptRight'
    BY <1>2, <1>7, <2>1, <2>2 DEF KeptRight, Comparable, Ranked
  <2>4. QED
    BY <1>7, <2>1, <2>3
<1>8. ASSUME NEW r \in Mods, RescanMod(r), changed' = {}, unnoticed' = unnoticed \cup {r}
      PROVE  /\ changed' \subseteq Mods
             /\ task' \in {"refresh", "rescan"} => changed' = {}
             /\ KeptRight'
  <2>1. content \in [Origins -> [loose : SUBSET Files, archived : SUBSET Files]]
    BY Typed DEF PromiseInvariant
  <2>2. /\ UNCHANGED <<enabled, profilePriority>>
        /\ \A m \in Mods : m # r => content'[m] = content[m]
    BY <1>8, <2>1 DEF RescanMod, Origins
  <2>3. ASSUME NEW m \in Mods \ unnoticed', NEW n \in Mods \ unnoticed',
               NEW l \in Lists, NEW v \in conflicts[m], Comparable(l, m, n)
        PROVE  n \in v.lists[l] <=> Truth(l, m, n)'
    <3>1. n \in v.lists[l] <=> Truth(l, m, n)
      BY <1>5, <1>8, <2>3
    <3>2. content'[m] = content[m] /\ content'[n] = content[n]
      BY <1>8, <2>2, <2>3
    <3>3. QED
      BY <2>2, <3>1, <3>2, TruthStays
  <2>4. KeptRight'
    BY <1>2, <1>8, <2>3 DEF KeptRight, Comparable, Ranked
  <2>5. QED
    BY <1>8, <2>4
<1>9. QED
  BY <1>6, <1>7, <1>8 DEF UserActs

\* The step of clearCaches leaves no wrong verdict behind.
LEMMA ClearKeeps ==
  ASSUME KeptRight, changed \subseteq Mods, FreshVerdicts', profilePriority' \in Priorities,
         NothingHidden', phase' = "ready", UNCHANGED <<content, enabled, profilePriority>>,
         ClearCaches,
         unnoticed' = unnoticed \cup {o \in changed \ enabled : task = "status" /\ conflicts[o] = {}},
         NEW m \in Mods \ unnoticed', NEW n \in Mods \ unnoticed', NEW l \in Lists,
         NEW v \in conflicts'[m], Comparable(l, m, n)
  PROVE  n \in v.lists[l] <=> Truth(l, m, n)
<1>1. m \notin LookedUp /\ ~(m \in changed \ enabled)
      /\ v \in IF m \in changed THEN {SeenOf(m)} ELSE conflicts[m]
  BY DEF ClearCaches
<1>2. /\ \A x, y \in Mods : \A k \in Lists :
           Comparable(k, x, y) => (y \in DoConflictCheck(x)'.lists[k] <=> Truth(k, x, y))
      /\ profilePriority \in Priorities
  <2>1. \A x, y, k : Truth(k, x, y)' <=> Truth(k, x, y)
    BY DEF Truth, Says, Overrides
  <2>2. QED
    BY <2>1 DEF FreshVerdicts, Comparable, Ranked
<1>3. \A o \in changed : \A k \in Lists : m \notin SeenOf(o).lists[k]
  BY <1>1 DEF LookedUp, InConflict
<1>4. CASE m \in changed
  <2>1. v = DoConflictCheck(m)'
    BY <1>1, <1>4 DEF SeenOf
  <2>2. QED
    BY <1>2, <2>1
<1>5. CASE m \notin changed
  <2>1. /\ n \notin changed => (n \in v.lists[l] <=> Truth(l, m, n))
        /\ n \in changed /\ n \in v.lists[l] =>
             \/ /\ task = "status" /\ n \notin enabled
                /\ \A w \in conflicts[n] : m \in w.lists[Opposite(l)]
             \/ task = "priority" /\ (Truth(l, m, n) \/ MeetLoose(m, n))
    BY <1>1, <1>5 DEF KeptRight
  <2>2. Opposite(l) \in Lists /\ Comparable(Opposite(l), n, m)
    BY OppositeList
  <2>3. CASE n \in changed /\ n \in enabled
    <3>1. \A k \in Lists : m \notin DoConflictCheck(n)'.lists[k]
      BY <1>3, <2>3 DEF SeenOf
    <3>2. ~Truth(Opposite(l), n, m)
      BY <1>2, <2>2, <3>1
    <3>3. ~Truth(l, m, n)
      BY <3>2, OppositeTruth
    <3>4. ~MeetLoose(n, m)
      BY <1>2, <3>1, MeetingTells
    <3>5. ~MeetLoose(m, n)
      BY <3>4 DEF MeetLoose
    <3>6. QED
      BY <2>1, <2>3, <3>3, <3>5
  <2>4. CASE n \in changed \ enabled
    <3>1. ~Truth(l, m, n) /\ ~MeetLoose(m, n)
      BY <2>4 DEF Truth, MeetLoose
    <3>2. SUFFICES ASSUME n \in v.lists[l]
                   PROVE  FALSE
      BY <3>1
    <3>3. task = "status" /\ \A w \in conflicts[n] : m \in w.lists[Opposite(l)]
      BY <2>1, <2>4, <3>1, <3>2
    <3>4. conflicts[n] # {}
      BY <2>4, <3>3
    <3>5. SeenOf(n) \in conflicts[n]
      BY <2>4, <3>4 DEF SeenOf
    <3>6. QED
      BY <1>3, <2>2, <2>4, <3>3, <3>5
  <2>5. QED
    BY <2>1, <2>3, <2>4
<1>6. QED
  BY <1>4, <1>5

LEMMA SettleKeeps ==
  ASSUME KeptInvariant, FreshVerdicts', PromiseInvariant', SettleChange
  PROVE  KeptInvariant'
<1>1. /\ task # "refresh" /\ phase' = "ready" /\ changed' = {}
      /\ UNCHANGED <<content, enabled, profilePriority, task>>
      /\ IF task = "rescan" THEN UNCHANGED conflicts ELSE ClearCaches
      /\ unnoticed' = unnoticed \cup
           {o \in changed \ enabled : task = "status" /\ conflicts[o] = {}}
  BY DEF SettleChange, Sort, disk
<1>2. NothingHidden' <=> NothingHidden
  BY <1>1 DEF NothingHidden, Hidden
<1>3. \A m, n, l : Truth(l, m, n)' <=> Truth(l, m, n)
  BY <1>1 DEF Truth, Says, Overrides
<1>4. SUFFICES ASSUME NothingHidden
               PROVE  conflicts' = [m \in Mods |-> conflicts'[m]] /\ KeptRight'
  BY <1>1, <1>2 DEF KeptInvariant
<1>5. /\ conflicts = [m \in Mods |-> conflicts[m]] /\ changed \subseteq Mods /\ KeptRight
      /\ task = "rescan" => changed = {}
  BY <1>4 DEF KeptInvariant
<1>6. conflicts' = [m \in Mods |-> conflicts'[m]]
  BY <1>1, <1>5 DEF ClearCaches
<1>7. ASSUME NEW m \in Mods \ unnoticed', NEW n \in Mods \ unnoticed', NEW l \in Lists,
             NEW v \in conflicts'[m], Comparable(l, m, n)
      PROVE  n \in v.lists[l] <=> Truth(l, m, n)
  <2>1. CASE task = "rescan"
    BY <1>1, <1>5, <1>7, <2>1 DEF KeptRight
  <2>2. CASE task # "rescan"
    <3>1. ClearCaches /\ profilePriority' \in Priorities /\ NothingHidden'
      BY <1>1, <1>2, <1>4, <2>2 DEF PromiseInvariant
    <3>2. QED
      BY <1>1, <1>5, <1>7, <3>1, ClearKeeps
  <2>3. QED
    BY <2>1, <2>2
<1>8. KeptRight'
  BY <1>1, <1>3, <1>7 DEF KeptRight, Comparable, Ranked
<1>9. QED
  BY <1>6, <1>8

LEMMA RefreshKeeps ==
  ASSUME KeptInvariant, SettleRefresh
  PROVE  KeptInvariant'
<1>1. /\ conflicts' = [m \in Mods |-> {}] /\ phase = "clean" /\ phase' = "ready"
      /\ UNCHANGED <<content, enabled, profilePriority, task, changed>>
  BY DEF SettleRefresh, Clean, disk
<1>2. KeptRight'
  BY <1>1 DEF KeptRight
<1>3. NothingHidden' <=> NothingHidden
  BY <1>1 DEF NothingHidden, Hidden
<1>4. QED
  BY <1>1, <1>2, <1>3 DEF KeptInvariant

LEMMA NextKept ==
  ASSUME KeptInvariant, PromiseInvariant, PromiseInvariant', FreshVerdicts, FreshVerdicts',
         [ConflictNext]_mcVars
  PROVE  KeptInvariant'
<1>1. CASE UNCHANGED mcVars
  <2>1. UNCHANGED <<conflicts, changed, unnoticed, content, enabled, profilePriority, task, phase>>
    BY <1>1 DEF mcVars, vars, conflictVars, disk, control
  <2>2. \A m, n, l : /\ Truth(l, m, n)' <=> Truth(l, m, n)
                     /\ MeetLoose(m, n)' <=> MeetLoose(m, n)
    BY <2>1 DEF Truth, Says, Overrides, MeetLoose
  <2>3. KeptRight => KeptRight'
    BY <2>1, <2>2 DEF KeptRight, Comparable, Ranked
  <2>4. NothingHidden' <=> NothingHidden
    BY <2>1 DEF NothingHidden, Hidden
  <2>5. QED
    BY <2>1, <2>3, <2>4 DEF KeptInvariant
<1>2. CASE HandlerGoesOn
  BY <1>2, HandlerKeeps
<1>3. CASE SettleChange
  BY <1>3, SettleKeeps
<1>4. CASE SettleRefresh
  BY <1>4, RefreshKeeps
<1>5. CASE UserActs
  BY <1>5, UserKeeps
<1>6. CASE \E m \in Mods : ReadConflicts(m)
  BY <1>6, ReadKeeps
<1>7. QED
  BY <1>1, <1>2, <1>3, <1>4, <1>5, <1>6 DEF ConflictNext

\* Whatever was scanned, switched, moved or edited, in any order and however
\* long: a verdict that is kept while the user can act is out of date only about
\* mods that were edited or were switched off unseen; the others clearCaches has
\* reached (organizercore.cpp:1641 to 1678).
THEOREM StaleTheorem ==
  PlainContents /\ OrdersDiffer /\ ConflictSpec => []StaleOnlyAboutUnnoticed
<1>1. PlainContents /\ ConflictSpec => []PromiseInvariant
  BY StructureGoesOn, PromiseHolds, PTL
<1>2. OrdersDiffer => []OrdersDiffer
  BY DEF OrdersDiffer, Ranked
<1>3. PlainContents /\ OrdersDiffer /\ ConflictSpec => []FreshVerdicts
  BY <1>1, <1>2, VerdictsFresh, PTL
<1>4. ConflictInit => KeptInvariant
  BY DEF ConflictInit, Init, KeptInvariant, KeptRight
<1>5. KeptInvariant /\ PromiseInvariant /\ PromiseInvariant' /\ FreshVerdicts /\ FreshVerdicts'
        /\ [ConflictNext]_mcVars => KeptInvariant'
  BY NextKept
<1>6. KeptInvariant /\ FreshVerdicts => StaleOnlyAboutUnnoticed
  <2>1. SUFFICES ASSUME KeptInvariant, FreshVerdicts, phase = "ready", NothingHidden,
                        NEW m \in Mods \ unnoticed, NEW n \in Mods \ unnoticed,
                        NEW l \in Lists, NEW v \in conflicts[m], Comparable(l, m, n)
                 PROVE  n \in v.lists[l] <=> n \in DoConflictCheck(m).lists[l]
    BY DEF StaleOnlyAboutUnnoticed, NothingHidden, Comparable
  <2>2. n \in v.lists[l] <=> Truth(l, m, n)
    BY <2>1, ReadyVerdicts
  <2>3. QED
    BY <2>1, <2>2 DEF FreshVerdicts
<1>7. QED
  BY <1>1, <1>3, <1>4, <1>5, <1>6, PTL DEF ConflictSpec
=============================================================================
