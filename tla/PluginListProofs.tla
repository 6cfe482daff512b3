--------------------------- MODULE PluginListProofs ---------------------------
(***************************************************************************)
(* The load order of the plugins, for any number of plugins, any files and *)
(* any commands: what PluginOrder does to a list, that PluginList keeps it *)
(* in order, that what is shown reaches the files, and that the calls that *)
(* move plugins do what the user means by them.                            *)
(***************************************************************************)
EXTENDS MCPluginList, SortingProofs

\* The greatest element of naturals up to a bound.
LEMMA GreatestNatural ==
  ASSUME NEW b \in Nat, NEW T \in SUBSET 0..b, T # {}
  PROVE  \E n \in T : \A m \in T : m <= n
<1> DEFINE rest == {b - m : m \in T}
<1>1. rest \in SUBSET Nat
  <2>1. \A m \in T : b - m \in Nat
    OBVIOUS
  <2>2. QED
    BY <2>1
<1>0. rest # {}
  OBVIOUS
<1> HIDE DEF rest
<1>2. PICK r \in rest : \A m \in rest : r <= m
  BY <1>0, <1>1, LeastNatural
<1>3. PICK n \in T : r = b - n
  BY DEF rest
<1>4. ASSUME NEW m \in T PROVE m <= n
  <2>1. b - m \in rest
    BY DEF rest
  <2>2. QED
    BY <1>2, <1>3, <2>1
<1>5. QED
  BY <1>4

LEMMA MinProperty ==
  ASSUME NEW T \in SUBSET Nat, T # {}
  PROVE  Min(T) \in T /\ \A m \in T : Min(T) <= m
BY LeastNatural DEF Min

LEMMA MaxProperty ==
  ASSUME NEW b \in Nat, NEW T \in SUBSET 0..b, T # {}
  PROVE  Max(T) \in T /\ \A m \in T : Max(T) >= m
<1>1. PICK n \in T : \A m \in T : n >= m
  BY GreatestNatural
<1>2. QED
  BY <1>1 DEF Max

-----------------------------------------------------------------------------
(* Lists without a gap *)

Numbers == UNION {[S -> Int] : S \in SUBSET Plugins}

Lists ==
  [rows : Seq(Plugins), enabled : UNION {[S -> BOOLEAN] : S \in SUBSET Plugins},
   priority : Numbers, loadOrder : Numbers, locked : Numbers]

\* Every plugin has a place of its own and every place has a plugin: what
\* m_ESPsByPriority needs.
Arranged(list) ==
  /\ list \in Lists
  /\ Size(list) \in Nat
  /\ list.priority \in [Present(list) -> 0..Size(list) - 1]
  /\ \A x, y \in Present(list) : list.priority[x] = list.priority[y] => x = y
  /\ \A q \in 0..Size(list) - 1 : \E x \in Present(list) : list.priority[x] = q

\* m_ESPsByPriority is the inverse of the priorities.
LEMMA AtPlace ==
  ASSUME NEW list, Arranged(list), NEW q \in 0..Size(list) - 1
  PROVE  /\ At(list, q) \in Present(list)
         /\ list.priority[At(list, q)] = q
<1>1. \E x \in Present(list) : list.priority[x] = q
  BY DEF Arranged
<1>2. QED
  BY <1>1 DEF At

LEMMA PlaceOf ==
  ASSUME NEW list, Arranged(list), NEW x \in Present(list)
  PROVE  /\ list.priority[x] \in 0..Size(list) - 1
         /\ At(list, list.priority[x]) = x
<1>1. list.priority[x] \in 0..Size(list) - 1
  BY DEF Arranged
<1>2. QED
  BY <1>1, AtPlace DEF Arranged

\* One plugin is taken from its place and put to another: the priorities stay
\* without a gap and the others keep their order.
LEMMA MovedPriorities ==
  ASSUME NEW S, NEW n \in Nat, NEW priority \in [S -> 0..n - 1],
         \A y, z \in S : priority[y] = priority[z] => y = z,
         \A q \in 0..n - 1 : \E y \in S : priority[y] = q,
         NEW x \in S, NEW new \in 0..n - 1
  PROVE  LET moved == Moved(priority, x, new)
         IN /\ moved \in [S -> 0..n - 1]
            /\ moved[x] = new
            /\ \A y, z \in S : moved[y] = moved[z] => y = z
            /\ \A q \in 0..n - 1 : \E y \in S : moved[y] = q
            /\ \A y, z \in S \ {x} : priority[y] < priority[z] <=> moved[y] < moved[z]
<1> DEFINE moved == Moved(priority, x, new)
           old == priority[x]
<1>1. /\ moved = [y \in S |-> moved[y]]
      /\ moved[x] = new
      /\ \A y \in S \ {x} :
           moved[y] = IF old < priority[y] /\ priority[y] <= new THEN priority[y] - 1
                      ELSE IF new <= priority[y] /\ priority[y] < old THEN priority[y] + 1
                      ELSE priority[y]
  BY DEF Moved
<1>2. old \in 0..n - 1 /\ \A y \in S : priority[y] \in 0..n - 1
  OBVIOUS
<1>3. \A y \in S \ {x} : priority[y] # old
  OBVIOUS
<1> HIDE DEF moved, old
<1>4. \A y \in S \ {x} : moved[y] \in 0..n - 1 /\ moved[y] # new
  BY <1>1, <1>2, <1>3
<1>5. \A y, z \in S \ {x} : priority[y] < priority[z] <=> moved[y] < moved[z]
  BY <1>1, <1>2, <1>3
<1>6. ASSUME NEW y \in S, NEW z \in S, moved[y] = moved[z] PROVE y = z
  <2>1. CASE y = x \/ z = x
    BY <1>1, <1>4, <1>6, <2>1
  <2>2. CASE y # x /\ z # x
    <3>1. ~(priority[y] < priority[z]) /\ ~(priority[z] < priority[y])
      BY <1>4, <1>5, <1>6, <2>2
    <3>2. QED
      BY <1>2, <3>1
  <2>3. QED
    BY <2>1, <2>2
<1>7. ASSUME NEW q \in 0..n - 1 PROVE \E y \in S : moved[y] = q
  <2> DEFINE from == IF old <= q /\ q < new THEN q + 1
                     ELSE IF new < q /\ q <= old THEN q - 1 ELSE q
  <2>1. CASE q = new
    BY <1>1, <2>1
  <2>2. CASE q # new
    <3>1. from \in 0..n - 1 /\ from # old
      BY <1>2, <2>2
    <3>2. PICK y \in S : priority[y] = from
      BY <3>1
    <3>3. y # x
      BY <3>1, <3>2 DEF old
    <3>4. moved[y] = q
      BY <1>1, <1>2, <2>2, <3>2, <3>3
    <3>5. QED
      BY <3>4
  <2>3. QED
    BY <2>1, <2>2
<1>8. moved \in [S -> 0..n - 1]
  BY <1>1, <1>4
<1>9. QED
  BY <1>1, <1>5, <1>6, <1>7, <1>8 DEF moved

-----------------------------------------------------------------------------
(* Where a plugin is put *)

LEMMA ClampedRange ==
  ASSUME NEW n \in Nat, n > 0, NEW p \in Int
  PROVE  Clamped(p, n) \in 0..n - 1
BY DEF Clamped

LEMMA FromProperty ==
  ASSUME NEW list, Size(list) \in Nat, NEW p \in 0..Size(list) - 1, NEW plugins
  PROVE  LET q == From(list, p, plugins)
         IN /\ q \in p..Size(list) - 1
            /\ q = Size(list) - 1 \/ At(list, q) \in plugins
            /\ \A r \in p..Size(list) - 1 : At(list, r) \in plugins => q <= r
<1> DEFINE T == {q \in p..Size(list) - 1 : q = Size(list) - 1 \/ At(list, q) \in plugins}
<1>1. T \in SUBSET Nat /\ Size(list) - 1 \in T
  OBVIOUS
<1>2. Min(T) \in T /\ \A r \in T : Min(T) <= r
  BY <1>1, MinProperty
<1>3. From(list, p, plugins) = Min(T)
  BY DEF From
<1>4. QED
  BY <1>2, <1>3

LEMMA UpToProperty ==
  ASSUME NEW list, NEW p \in Nat, NEW plugins
  PROVE  LET q == UpTo(list, p, plugins)
         IN /\ q \in 0..p
            /\ q = 0 \/ At(list, q) \in plugins
            /\ \A r \in 0..p : At(list, r) \in plugins => q >= r
<1> DEFINE T == {q \in 0..p : q = 0 \/ At(list, q) \in plugins}
<1>1. T \in SUBSET (0..p) /\ 0 \in T
  OBVIOUS
<1>2. Max(T) \in T /\ \A r \in T : Max(T) >= r
  BY <1>1, MaxProperty
<1>3. UpTo(list, p, plugins) = Max(T)
  BY DEF UpTo
<1>4. QED
  BY <1>2, <1>3

LEMMA PlaceRange ==
  ASSUME NEW list, Arranged(list), NEW x \in Present(list), NEW p \in Int
  PROVE  Place(list, x, p) \in 0..Size(list) - 1
<1> DEFINE wanted == Clamped(p, Size(list))
           start == UpTo(list, wanted, Top)
<1>1. Size(list) \in Nat /\ Size(list) > 0
  BY PlaceOf DEF Arranged
<1>2. wanted \in 0..Size(list) - 1
  BY <1>1, ClampedRange
<1>3. start \in 0..wanted
  BY <1>2, UpToProperty
<1>4. start \in 0..Size(list) - 1
  BY <1>1, <1>2, <1>3
<1> HIDE DEF wanted, start
<1>5. From(list, start, Present(list) \ Forced) \in 0..Size(list) - 1
  <2>1. From(list, start, Present(list) \ Forced) \in start..Size(list) - 1
    BY <1>1, <1>4, FromProperty
  <2>2. QED
    BY <1>1, <1>4, <2>1
<1>6. From(list, wanted, Present(list) \ Top) \in 0..Size(list) - 1
  <2>1. From(list, wanted, Present(list) \ Top) \in wanted..Size(list) - 1
    BY <1>1, <1>2, FromProperty
  <2>2. QED
    BY <1>1, <1>2, <2>1
<1>7. QED
  BY <1>5, <1>6 DEF Place, wanted, start

-----------------------------------------------------------------------------
(* Theorems *)

\* A plugin that is sent anywhere leaves a list in which every place has one
\* plugin, and the other plugins in the order they had
\* (PluginList::setPluginPriority).
THEOREM OneMoves ==
  ASSUME NEW list, Arranged(list), NEW x \in Present(list), NEW p \in Int
  PROVE  LET after == SetPluginPriority(list, x, p)
         IN /\ Present(after) = Present(list)
            /\ Arranged(after)
            /\ after.priority[x] = Place(list, x, p)
            /\ \A y, z \in Present(list) \ {x} :
                 list.priority[y] < list.priority[z] <=> after.priority[y] < after.priority[z]
<1> DEFINE new == Place(list, x, p)
           moved == Moved(list.priority, x, new)
           after == SetPluginPriority(list, x, p)
<1>1. /\ after = [list EXCEPT !.priority = moved]
      /\ after.priority = moved /\ after.rows = list.rows
  BY DEF SetPluginPriority, Arranged, Lists
<1>2. new \in 0..Size(list) - 1
  BY PlaceRange
<1>3. /\ Size(list) \in Nat
      /\ list.priority \in [Present(list) -> 0..Size(list) - 1]
      /\ \A y, z \in Present(list) : list.priority[y] = list.priority[z] => y = z
      /\ \A q \in 0..Size(list) - 1 : \E y \in Present(list) : list.priority[y] = q
  BY DEF Arranged
<1> HIDE DEF new, after
<1>4. /\ moved \in [Present(list) -> 0..Size(list) - 1]
      /\ moved[x] = new
      /\ \A y, z \in Present(list) : moved[y] = moved[z] => y = z
      /\ \A q \in 0..Size(list) - 1 : \E y \in Present(list) : moved[y] = q
      /\ \A y, z \in Present(list) \ {x} : list.priority[y] < list.priority[z] <=> moved[y] < moved[z]
  BY <1>2, <1>3, MovedPriorities
<1> HIDE DEF moved
<1>5. Present(after) = Present(list) /\ Size(after) = Size(list)
  BY <1>1, <1>4 DEF Present, Size
<1>6. after \in Lists
  <2>1. Present(list) \in SUBSET Plugins
    BY DEF Arranged, Lists, Numbers, Present
  <2>2. moved \in [Present(list) -> Int]
    BY <1>3, <1>4
  <2>3. moved \in Numbers
    BY <2>1, <2>2 DEF Numbers
  <2>4. QED
    BY <1>1, <2>3 DEF Arranged, Lists
<1>7. Arranged(after)
  BY <1>1, <1>3, <1>4, <1>5, <1>6 DEF Arranged
<1>8. QED
  BY <1>1, <1>4, <1>5, <1>7 DEF after, new

\* Forced plugins come before other masters, and masters before other plugins.
KindsApart(list) ==
  \A y, z \in Present(list) :
    /\ y \in Top /\ z \notin Top => list.priority[y] < list.priority[z]
    /\ y \in Forced /\ z \notin Forced => list.priority[y] < list.priority[z]

\* The place a plugin goes to belongs to its kind, and is the one it was sent to
\* if that belongs to its kind.
LEMMA PlaceOfKind ==
  ASSUME NEW list, Arranged(list), KindsApart(list), Forced \subseteq Top,
         NEW x \in Present(list) \ Forced, NEW p \in Int
  PROVE  LET q == Place(list, x, p)
             wanted == At(list, Clamped(p, Size(list)))
         IN /\ At(list, q) \notin Forced
            /\ At(list, q) \in Top <=> x \in Top
            /\ wanted \notin Forced /\ (wanted \in Top <=> x \in Top) =>
                 q = Clamped(p, Size(list))
<1> DEFINE n == Size(list)
           w == Clamped(p, n)
           u == UpTo(list, w, Top)
           masters == From(list, u, Present(list) \ Forced)
           others == From(list, w, Present(list) \ Top)
<1>1. n \in Nat /\ list.priority[x] \in 0..n - 1 /\ At(list, list.priority[x]) = x
  BY PlaceOf DEF Arranged
<1>2. w \in 0..n - 1
  BY <1>1, ClampedRange
<1>3. \A q \in 0..n - 1 : At(list, q) \in Present(list) /\ list.priority[At(list, q)] = q
  BY AtPlace
<1>4. \A q, r \in 0..n - 1 :
        /\ At(list, q) \in Top /\ At(list, r) \notin Top => q < r
        /\ At(list, q) \in Forced /\ At(list, r) \notin Forced => q < r
  BY <1>3 DEF KindsApart
<1> DEFINE px == list.priority[x]
<1> HIDE DEF n, w, px
<1>5. CASE x \in Top
  <2>1. u \in 0..w /\ (u = 0 \/ At(list, u) \in Top) /\ \A r \in 0..w : At(list, r) \in Top => u >= r
    BY <1>1, <1>2, UpToProperty
  <2>2. u \in 0..n - 1
    BY <1>1, <1>2, <2>1
  <2> HIDE DEF u
  <2>3. /\ masters \in u..n - 1
        /\ masters = n - 1 \/ At(list, masters) \in Present(list) \ Forced
        /\ \A r \in u..n - 1 : At(list, r) \in Present(list) \ Forced => masters <= r
    BY <1>1, <2>2, FromProperty DEF n
  <2>4. Place(list, x, p) = masters
    BY <1>5 DEF Place, u, w, n
  <2> HIDE DEF masters
  <2>5. masters \in 0..n - 1 /\ px \in 0..n - 1 /\ At(list, px) = x
    BY <1>1, <2>2, <2>3 DEF px
  <2>6. At(list, u) \in Top
    <3>1. 0 \in 0..n - 1
      BY <1>1, <1>2
    <3>2. ~(px < 0)
      BY <2>5
    <3>3. QED
      BY <1>4, <1>5, <2>1, <2>5, <3>1, <3>2
  <2>7. At(list, masters) \notin Forced /\ At(list, masters) \in Top
    <3>1. CASE At(list, u) \notin Forced
      <4>1. masters <= u
        BY <1>1, <1>3, <2>2, <2>3, <3>1
      <4>2. masters = u
        BY <1>1, <2>2, <2>3, <4>1
      <4>3. QED
        BY <2>6, <3>1, <4>2
    <3>2. CASE At(list, u) \in Forced
      <4>1. u < px
        BY <1>4, <2>2, <2>5, <3>2
      <4>2. masters <= px
        BY <1>1, <2>2, <2>3, <2>5, <4>1
      <4>3. At(list, masters) \notin Forced
        <5>1. CASE masters = n - 1
          <6>1. masters = px
            BY <1>1, <2>5, <4>2, <5>1
          <6>2. QED
            BY <2>5, <6>1
        <5>2. CASE masters # n - 1
          BY <2>3, <5>2
        <5>3. QED
          BY <5>1, <5>2
      <4>4. ~(px < masters)
        BY <2>5, <4>2
      <4>5. At(list, masters) \in Top
        BY <1>4, <1>5, <2>5, <4>4
      <4>6. QED
        BY <4>3, <4>5
    <3>3. QED
      BY <3>1, <3>2
  <2>8. ASSUME At(list, w) \notin Forced, At(list, w) \in Top
        PROVE  masters = w
    <3>1. u = w
      BY <1>1, <1>2, <2>1, <2>2, <2>8
    <3>2. masters <= u
      BY <1>1, <1>3, <2>2, <2>3, <2>8, <3>1
    <3>3. QED
      BY <1>1, <2>2, <2>3, <3>1, <3>2
  <2>9. QED
    BY <1>5, <2>4, <2>7, <2>8 DEF w, n
<1>6. CASE x \notin Top
  <2>1. /\ others \in w..n - 1
        /\ others = n - 1 \/ At(list, others) \in Present(list) \ Top
        /\ \A r \in w..n - 1 : At(list, r) \in Present(list) \ Top => others <= r
    BY <1>1, <1>2, FromProperty DEF n
  <2>2. Place(list, x, p) = others
    BY <1>6 DEF Place, w, n
  <2> HIDE DEF others
  <2>3. others \in 0..n - 1 /\ px \in 0..n - 1 /\ At(list, px) = x
    BY <1>1, <1>2, <2>1 DEF px
  <2>4. At(list, others) \notin Top
    <3>1. CASE others = n - 1
      <4>1. ~(others < px)
        BY <1>1, <2>3, <3>1
      <4>2. QED
        BY <1>4, <1>6, <2>3, <4>1
    <3>2. CASE others # n - 1
      BY <2>1, <3>2
    <3>3. QED
      BY <3>1, <3>2
  <2>5. ASSUME At(list, w) \notin Top PROVE others = w
    <3>1. others <= w
      BY <1>1, <1>2, <1>3, <2>1, <2>5
    <3>2. QED
      BY <1>1, <1>2, <2>1, <3>1
  <2>6. QED
    BY <1>6, <2>2, <2>4, <2>5 DEF w, n
<1>7. QED
  BY <1>5, <1>6

\* Wherever a plugin is sent that is not forced, masters stay before the others
\* and forced plugins before them all ("don't allow esps to be moved above esms",
\* PluginList::setPluginPriority); and it goes there if a plugin of its kind is
\* there.
THEOREM KindsStayApart ==
  ASSUME NEW list, Arranged(list), KindsApart(list), Forced \subseteq Top,
         NEW x \in Present(list) \ Forced, NEW p \in Int
  PROVE  LET after == SetPluginPriority(list, x, p)
             wanted == At(list, Clamped(p, Size(list)))
         IN /\ KindsApart(after)
            /\ wanted \notin Forced /\ (wanted \in Top <=> x \in Top) =>
                 after.priority[x] = Clamped(p, Size(list))
<1> DEFINE new == Place(list, x, p)
           after == SetPluginPriority(list, x, p)
           there == At(list, new)
<1>1. /\ Present(after) = Present(list)
      /\ after.priority[x] = new
      /\ \A y, z \in Present(list) \ {x} :
           list.priority[y] < list.priority[z] <=> after.priority[y] < after.priority[z]
  BY OneMoves
<1>2. new \in 0..Size(list) - 1
  BY PlaceRange
<1>3. there \in Present(list) /\ list.priority[there] = new
  BY <1>2, AtPlace
<1>4. there \notin Forced /\ (there \in Top <=> x \in Top)
  BY PlaceOfKind
<1> DEFINE old == list.priority[x]
<1>5. old \in 0..Size(list) - 1 /\ Size(list) \in Nat
  BY PlaceOf DEF Arranged
<1>6. ASSUME NEW y \in Present(list) \ {x}
      PROVE  /\ list.priority[y] \in 0..Size(list) - 1 /\ list.priority[y] # old
             /\ after.priority[y] =
                  IF old < list.priority[y] /\ list.priority[y] <= new THEN list.priority[y] - 1
                  ELSE IF new <= list.priority[y] /\ list.priority[y] < old THEN list.priority[y] + 1
                  ELSE list.priority[y]
  <2>1. list.priority[y] \in 0..Size(list) - 1 /\ list.priority[y] # old
    BY DEF Arranged
  <2>2. after.priority = Moved(list.priority, x, new)
    BY DEF SetPluginPriority, Arranged, Lists
  <2> HIDE DEF new, after
  <2>3. QED
    BY <2>1, <2>2 DEF Moved, Present
<1> HIDE DEF new, after, there, old
<1>7. \A y \in Present(list) \ {x} :
        /\ list.priority[y] < new => after.priority[y] < new
        /\ list.priority[y] > new => after.priority[y] > new
  BY <1>2, <1>5, <1>6
<1>8. \A y \in Present(list) \ {x} :
        /\ y \in Top /\ x \notin Top => after.priority[y] < new
        /\ y \notin Top /\ x \in Top => after.priority[y] > new
        /\ y \in Forced => after.priority[y] < new
  <2> TAKE y \in Present(list) \ {x}
  <2>1. list.priority[y] \in Int /\ new \in Int
    BY <1>2, <1>6
  <2>2. /\ y \in Top /\ x \notin Top => list.priority[y] < new
        /\ y \notin Top /\ x \in Top => list.priority[y] > new
        /\ y \in Forced => list.priority[y] < new
    BY <1>3, <1>4, <2>1 DEF KindsApart
  <2>3. QED
    BY <1>7, <2>2
<1>9. ASSUME NEW y \in Present(list), NEW z \in Present(list),
             \/ y \in Top /\ z \notin Top
             \/ y \in Forced /\ z \notin Forced
      PROVE  after.priority[y] < after.priority[z]
  <2>1. CASE y = x
    <3>1. z # x /\ z \notin Top /\ x \in Top
      BY <1>9, <2>1
    <3>2. new < after.priority[z]
      BY <1>2, <1>6, <1>8, <3>1
    <3>3. QED
      BY <1>1, <2>1, <3>2
  <2>2. CASE z = x
    BY <1>1, <1>8, <1>9, <2>2
  <2>3. CASE y # x /\ z # x
    BY <1>1, <1>9, <2>3 DEF KindsApart
  <2>4. QED
    BY <2>1, <2>2, <2>3
<1>10. KindsApart(after)
  BY <1>1, <1>9 DEF KindsApart
<1>11. QED
  BY <1>1, <1>10, PlaceOfKind DEF after, new

\* The load orders that are counted go up with the priorities of the plugins that
\* are enabled, from 0 on, and others have none (PluginList::syncLoadOrder).
THEOREM LoadOrderGoesUp ==
  ASSUME NEW list, Arranged(list), list.enabled \in [Present(list) -> BOOLEAN],
         DOMAIN list.loadOrder = Present(list)
  PROVE  LET after == SyncLoadOrder(list)
         IN /\ \A x \in Present(list) :
                 IF list.enabled[x] THEN after.loadOrder[x] \in 0..list.priority[x]
                 ELSE after.loadOrder[x] = -1
            /\ \A x, y \in Present(list) : list.enabled[x] /\ list.enabled[y] =>
                 (after.loadOrder[x] < after.loadOrder[y] <=> list.priority[x] < list.priority[y])
<1> DEFINE Before(x) == {y \in Present(list) : list.enabled[y] /\ list.priority[y] < list.priority[x]}
           after == SyncLoadOrder(list)
<1>1. \A x \in Present(list) :
        after.loadOrder[x] = IF list.enabled[x] THEN Cardinality(Before(x)) ELSE -1
  BY DEF SyncLoadOrder, Arranged, Lists
<1>2. Present(list) \in SUBSET Plugins /\ IsFiniteSet(Present(list))
  BY PluginAssumption, FS_Subset DEF Arranged, Lists, Numbers, Present
<1>3. \A x \in Present(list) : list.priority[x] \in 0..Size(list) - 1 /\ Size(list) \in Nat
  BY DEF Arranged
<1>4. \A x \in Present(list) : Before(x) \in SUBSET Present(list) /\ IsFiniteSet(Before(x))
  BY <1>2, FS_Subset
<1>5. ASSUME NEW x \in Present(list), NEW y \in Present(list), list.enabled[x],
             list.priority[x] < list.priority[y]
      PROVE  Cardinality(Before(x)) < Cardinality(Before(y))
  <2>1. Before(x) \subseteq Before(y)
    BY <1>3, <1>5
  <2>2. x \in Before(y) /\ x \notin Before(x)
    BY <1>3, <1>5
  <2>3. IsFiniteSet(Before(y))
    BY <1>4
  <2> HIDE DEF Before
  <2>4. Before(x) # Before(y)
    BY <2>2
  <2>5. /\ Cardinality(Before(x)) <= Cardinality(Before(y))
        /\ Cardinality(Before(x)) # Cardinality(Before(y))
    BY <2>1, <2>3, <2>4, FS_Subset
  <2>6. Cardinality(Before(x)) \in Nat /\ Cardinality(Before(y)) \in Nat
    BY <1>4, FS_CardinalityType
  <2>7. QED
    BY <2>5, <2>6
<1>6. \A x \in Present(list) : Cardinality(Before(x)) \in Nat
  BY <1>4, FS_CardinalityType
<1>7. \A x \in Present(list) : Cardinality(Before(x)) <= list.priority[x]
  <2> TAKE x \in Present(list)
  <2> DEFINE places == 0..list.priority[x] - 1
             f == [y \in Before(x) |-> list.priority[y]]
  <2>1. f \in [Before(x) -> places]
    BY <1>3
  <2>2. \A y, z \in Before(x) : f[y] = f[z] => y = z
    BY DEF Arranged
  <2>3. IsFiniteSet(places) /\ Cardinality(places) = list.priority[x]
    <3>1. \A b \in Nat : IsFiniteSet(0..b - 1) /\ Cardinality(0..b - 1) = b
      BY FS_Interval
    <3>2. list.priority[x] \in Nat
      BY <1>3
    <3>3. QED
      BY <3>1, <3>2
  <2>4. f \in Injection(Before(x), places)
    BY <2>1, <2>2 DEF Injection, IsInjective
  <2>5. QED
    BY <2>3, <2>4, FS_Injection
<1> HIDE DEF Before, after
<1>8. \A x, y \in Present(list) : list.enabled[x] /\ list.enabled[y] =>
        (after.loadOrder[x] < after.loadOrder[y] <=> list.priority[x] < list.priority[y])
  <2> TAKE x, y \in Present(list)
  <2> HAVE list.enabled[x] /\ list.enabled[y]
  <2>1. /\ after.loadOrder[x] = Cardinality(Before(x))
        /\ after.loadOrder[y] = Cardinality(Before(y))
    BY <1>1
  <2>2. CASE list.priority[x] < list.priority[y]
    BY <1>5, <2>1, <2>2
  <2>3. CASE list.priority[y] < list.priority[x]
    BY <1>3, <1>5, <1>6, <2>1, <2>3
  <2>4. CASE x = y
    BY <1>3, <1>6, <2>1, <2>4
  <2>5. QED
    BY <1>3, <2>2, <2>3, <2>4 DEF Arranged
<1>9. \A x \in Present(list) :
        IF list.enabled[x] THEN after.loadOrder[x] \in 0..list.priority[x]
        ELSE after.loadOrder[x] = -1
  BY <1>1, <1>3, <1>6, <1>7
<1>10. QED
  BY <1>8, <1>9 DEF after

-----------------------------------------------------------------------------
(* What PluginList keeps *)

\* A list as PluginList keeps it: each plugin has one row and one priority.
ListOk(list) ==
  /\ Arranged(list)
  /\ ToSet(list.rows) = Present(list) /\ IsInjective(list.rows)
  /\ list.enabled \in [Present(list) -> BOOLEAN]
  /\ list.loadOrder \in [Present(list) -> -1..(Size(list) - 1)]
  /\ OwnLocks(list.locked)

\* What moving and counting leave as it was.
SameRows(list, after) ==
  /\ after.rows = list.rows /\ after.enabled = list.enabled /\ after.locked = list.locked
  /\ Present(after) = Present(list)

\* The fields of a list.
ListIs(list) ==
  list = [rows |-> list.rows, enabled |-> list.enabled, priority |-> list.priority,
          loadOrder |-> list.loadOrder, locked |-> list.locked]

LEMMA ListFacts ==
  ASSUME NEW list, ListOk(list)
  PROVE  /\ ListIs(list)
         /\ Size(list) \in Nat /\ Len(list.rows) = Size(list)
         /\ Present(list) \subseteq Plugins /\ IsFiniteSet(Present(list))
         /\ Cardinality(Present(list)) = Size(list)
         /\ list.rows \in Seq(Plugins)
         /\ list.priority \in [Present(list) -> 0..(Size(list) - 1)]
         /\ \A x, y \in Present(list) : list.priority[x] = list.priority[y] => x = y
         /\ \A q \in 0..(Size(list) - 1) : \E x \in Present(list) : list.priority[x] = q
         /\ \A S : Keys(S \cap Present(list), list.priority)
         /\ Keys(Present(list), list.priority)
<1>1. list \in Lists /\ Arranged(list)
  BY DEF ListOk, Arranged
<1>2. /\ ListIs(list) /\ list.rows \in Seq(Plugins)
  BY <1>1 DEF Lists, ListIs
<1>3. /\ Size(list) \in Nat
      /\ list.priority \in [Present(list) -> 0..(Size(list) - 1)]
      /\ \A x, y \in Present(list) : list.priority[x] = list.priority[y] => x = y
      /\ \A q \in 0..(Size(list) - 1) : \E x \in Present(list) : list.priority[x] = q
  BY <1>1 DEF Arranged
<1>4. ToSet(list.rows) = Present(list) /\ IsInjective(list.rows)
  BY DEF ListOk
<1>5. IsFiniteSet(Present(list)) /\ Cardinality(Present(list)) = Len(list.rows)
  BY <1>2, <1>4, AmongLists
<1>6. Present(list) \subseteq Plugins
  BY <1>2, <1>4 DEF ToSet
<1>7. \A x \in Present(list) : list.priority[x] \in Int
  BY <1>3
<1>8. Keys(Present(list), list.priority)
  BY <1>3, <1>5, <1>7 DEF Keys
<1>9. ASSUME NEW S PROVE Keys(S \cap Present(list), list.priority)
  <2>1. IsFiniteSet(S \cap Present(list))
    BY <1>5, FS_Subset
  <2>2. QED
    BY <1>3, <1>7, <2>1 DEF Keys
<1>10. Size(list) = Len(list.rows)
  BY DEF Size
<1>11. QED
  BY <1>2, <1>3, <1>5, <1>6, <1>8, <1>9, <1>10

\* New priorities without a gap.
LEMMA NewPriorities ==
  ASSUME NEW list, ListOk(list), NEW priority \in [Present(list) -> 0..(Size(list) - 1)],
         \A y, z \in Present(list) : priority[y] = priority[z] => y = z,
         \A q \in 0..(Size(list) - 1) : \E y \in Present(list) : priority[y] = q
  PROVE  LET after == [list EXCEPT !.priority = priority]
         IN ListOk(after) /\ SameRows(list, after) /\ after.priority = priority
              /\ after.loadOrder = list.loadOrder
<1> DEFINE after == [list EXCEPT !.priority = priority]
<1>0. list \in Lists /\ Present(list) \subseteq Plugins /\ Size(list) \in Nat
  BY ListFacts DEF ListOk, Arranged
<1>1. /\ after = [rows |-> list.rows, enabled |-> list.enabled, priority |-> priority,
                  loadOrder |-> list.loadOrder, locked |-> list.locked]
  BY <1>0 DEF Lists
<1> HIDE DEF after
<1>2. /\ after.rows = list.rows /\ after.enabled = list.enabled /\ after.locked = list.locked
      /\ after.priority = priority /\ after.loadOrder = list.loadOrder
  BY <1>1
<1>3. Present(after) = Present(list) /\ Size(after) = Size(list)
  BY <1>2 DEF Present, Size
<1>4. priority \in Numbers
  <2>1. priority \in [Present(list) -> Int]
    BY <1>0
  <2>2. QED
    BY <1>0, <2>1 DEF Numbers
<1>5. after \in Lists
  BY <1>0, <1>1, <1>4 DEF Lists
<1>6. Arranged(after)
  BY <1>0, <1>2, <1>3, <1>5 DEF Arranged
<1>7. ListOk(after)
  BY <1>2, <1>3, <1>6 DEF ListOk
<1>8. QED
  BY <1>2, <1>3, <1>7 DEF SameRows, after

\* PluginList::setPluginPriority keeps it so.
LEMMA PlacedOk ==
  ASSUME NEW list, ListOk(list), NEW x \in Present(list), NEW p \in Int
  PROVE  LET after == SetPluginPriority(list, x, p)
         IN ListOk(after) /\ SameRows(list, after) /\ after.loadOrder = list.loadOrder
<1> DEFINE new == Place(list, x, p)
           moved == Moved(list.priority, x, new)
           after == SetPluginPriority(list, x, p)
<1>1. after = [list EXCEPT !.priority = moved]
  BY DEF SetPluginPriority
<1>2. Arranged(list)
  BY DEF ListOk
<1>3. new \in 0..(Size(list) - 1)
  BY <1>2, PlaceRange
<1>4. /\ Size(list) \in Nat
      /\ list.priority \in [Present(list) -> 0..(Size(list) - 1)]
      /\ \A y, z \in Present(list) : list.priority[y] = list.priority[z] => y = z
      /\ \A q \in 0..(Size(list) - 1) : \E y \in Present(list) : list.priority[y] = q
  BY ListFacts
<1> HIDE DEF new, after
<1>5. /\ moved \in [Present(list) -> 0..(Size(list) - 1)]
      /\ \A y, z \in Present(list) : moved[y] = moved[z] => y = z
      /\ \A q \in 0..(Size(list) - 1) : \E y \in Present(list) : moved[y] = q
  <2> DEFINE n == Size(list)
             S == Present(list)
             priority == list.priority
  <2>1. /\ n \in Nat /\ priority \in [S -> 0..n - 1]
        /\ \A y, z \in S : priority[y] = priority[z] => y = z
        /\ \A q \in 0..n - 1 : \E y \in S : priority[y] = q
        /\ x \in S /\ new \in 0..n - 1
    BY <1>3, <1>4
  <2> HIDE DEF n, S, priority
  <2>2. LET m == Moved(priority, x, new)
        IN /\ m \in [S -> 0..n - 1]
           /\ m[x] = new
           /\ \A y, z \in S : m[y] = m[z] => y = z
           /\ \A q \in 0..n - 1 : \E y \in S : m[y] = q
           /\ \A y, z \in S \ {x} : priority[y] < priority[z] <=> m[y] < m[z]
    BY <2>1, MovedPriorities
  <2>3. QED
    BY <2>2 DEF n, S, priority
<1> HIDE DEF moved
<1>6. QED
  BY <1>1, <1>5, NewPriorities DEF after

\* PluginList::syncLoadOrder keeps it so.
LEMMA SyncedOk ==
  ASSUME NEW list, ListOk(list)
  PROVE  LET after == SyncLoadOrder(list)
         IN ListOk(after) /\ SameRows(list, after) /\ after.priority = list.priority
<1> DEFINE after == SyncLoadOrder(list)
           order == after.loadOrder
<1>0. list \in Lists /\ Present(list) \subseteq Plugins /\ Size(list) \in Nat /\ Arranged(list)
  BY ListFacts DEF ListOk, Arranged
<1>1. list.enabled \in [Present(list) -> BOOLEAN] /\ DOMAIN list.loadOrder = Present(list)
  BY DEF ListOk
<1>2. /\ after = [rows |-> list.rows, enabled |-> list.enabled, priority |-> list.priority,
                  loadOrder |-> order, locked |-> list.locked]
      /\ DOMAIN order = Present(list)
      /\ order = [x \in Present(list) |-> order[x]]
  <2> DEFINE value(x) == IF list.enabled[x]
                         THEN Cardinality({y \in Present(list) : list.enabled[y] /\ list.priority[y] < list.priority[x]})
                         ELSE -1
             counted == [x \in Present(list) |-> value(x)]
  <2>1. after = [list EXCEPT !.loadOrder = counted]
    BY <1>1, Zenon DEF SyncLoadOrder
  <2>2. DOMAIN counted = Present(list) /\ counted = [x \in Present(list) |-> counted[x]]
    OBVIOUS
  <2> HIDE DEF counted, after
  <2>3. /\ after = [rows |-> list.rows, enabled |-> list.enabled, priority |-> list.priority,
                    loadOrder |-> counted, locked |-> list.locked]
    BY <1>0, <2>1 DEF Lists
  <2>4. order = counted
    BY <2>3
  <2>5. QED
    BY <2>2, <2>3, <2>4
<1>3. \A x \in Present(list) : IF list.enabled[x] THEN order[x] \in 0..list.priority[x]
                               ELSE order[x] = -1
  BY <1>0, <1>1, LoadOrderGoesUp
<1>4. \A x \in Present(list) : list.priority[x] \in 0..(Size(list) - 1)
  BY ListFacts
<1> HIDE DEF after
<1>5. \A x \in Present(list) : order[x] \in -1..(Size(list) - 1)
  BY <1>0, <1>3, <1>4
<1>6. order \in [Present(list) -> -1..(Size(list) - 1)]
  BY <1>2, <1>5
<1>7. order \in Numbers
  <2>1. order \in [Present(list) -> Int]
    BY <1>6
  <2>2. QED
    BY <1>0, <2>1 DEF Numbers
<1> HIDE DEF order
<1>8. after.rows = list.rows /\ after.enabled = list.enabled /\ after.locked = list.locked
      /\ after.priority = list.priority /\ after.loadOrder = order
  BY <1>2
<1>9. Present(after) = Present(list) /\ Size(after) = Size(list)
  BY <1>8 DEF Present, Size
<1>10. after \in Lists
  BY <1>0, <1>2, <1>7 DEF Lists
<1>11. Arranged(after)
  BY <1>0, <1>8, <1>9, <1>10 DEF Arranged
<1>12. ListOk(after)
  BY <1>6, <1>8, <1>9, <1>11 DEF ListOk
<1>13. QED
  BY <1>8, <1>9, <1>12 DEF SameRows, after

-----------------------------------------------------------------------------
(* Locks *)

\* The states refreshLoadOrder goes through for a list.
LockStates(list) ==
  {state \in [list : Lists, place : Nat, moved : BOOLEAN] :
     /\ ListOk(state.list) /\ SameRows(list, state.list)
     /\ Size(list) > 0 => state.place < Size(list)
     /\ ~state.moved => state.list.priority = list.priority}

LEMMA SameRowsSize ==
  ASSUME NEW list, NEW after, SameRows(list, after)
  PROVE  Size(after) = Size(list) /\ Present(after) = Present(list)
BY DEF SameRows, Size

LEMMA SameRowsFollow ==
  ASSUME NEW a, NEW b, NEW c, SameRows(a, b), SameRows(b, c)
  PROVE  SameRows(a, c)
BY DEF SameRows

\* One lock in refreshLoadOrder.
LEMMA LockApplied ==
  ASSUME NEW list, ListOk(list), NEW state \in LockStates(list), NEW order \in Int
  PROVE  ApplyLock(state, order) \in LockStates(list)
<1> DEFINE l == state.list
           x == LockedTo(l, order)
           T == {q \in state.place..Size(l) - 1 :
                   q = Size(l) - 1 \/ l.loadOrder[At(l, q)] >= order}
           place == Min(T)
           put == SyncLoadOrder(SetPluginPriority(l, x, place))
           after == ApplyLock(state, order)
<1>1. /\ ListOk(l) /\ SameRows(list, l) /\ l \in Lists
      /\ state.place \in Nat /\ state.moved \in BOOLEAN
      /\ Size(list) > 0 => state.place < Size(list)
      /\ ~state.moved => l.priority = list.priority
      /\ state = [list |-> l, place |-> state.place, moved |-> state.moved]
  BY DEF LockStates
<1>2. Size(l) = Size(list) /\ Size(list) \in Nat /\ Present(l) = Present(list)
  BY <1>1, SameRowsSize, ListFacts
<1>3. after = IF x \notin Present(l) THEN state
              ELSE IF l.priority[x] = place THEN [state EXCEPT !.place = place]
              ELSE [list |-> put, place |-> place, moved |-> TRUE]
  BY Zenon DEF ApplyLock
<1> HIDE DEF after, l, x
<1>4. CASE x \notin Present(l)
  BY <1>3, <1>4 DEF after
<1>5. CASE x \in Present(l)
  <2>1. Size(l) > 0
    BY <1>1, <1>2, <1>5, ListFacts
  <2>2. T \in SUBSET Nat /\ Size(l) - 1 \in T /\ \A q \in T : q < Size(l)
    BY <1>1, <1>2, <2>1
  <2> HIDE DEF T
  <2>3. place \in T
    BY <2>2, MinProperty
  <2>4. place \in Nat /\ place < Size(list)
    BY <1>2, <2>2, <2>3
  <2> HIDE DEF place
  <2>5. CASE l.priority[x] = place
    <3>1. after = [list |-> l, place |-> place, moved |-> state.moved]
      BY <1>1, <1>3, <1>5, <2>5
    <3>2. QED
      BY <1>1, <2>4, <3>1 DEF LockStates, after
  <2>6. CASE l.priority[x] # place
    <3>1. after = [list |-> put, place |-> place, moved |-> TRUE]
      BY <1>3, <1>5, <2>6
    <3>2. ListOk(SetPluginPriority(l, x, place)) /\ SameRows(l, SetPluginPriority(l, x, place))
      BY <1>1, <1>5, <2>4, PlacedOk
    <3>3. ListOk(put) /\ SameRows(SetPluginPriority(l, x, place), put)
      BY <3>2, SyncedOk
    <3>4. SameRows(list, put)
      BY <1>1, <3>2, <3>3, SameRowsFollow
    <3>5. put \in Lists
      BY <3>3 DEF ListOk, Arranged
    <3> HIDE DEF put
    <3>6. QED
      BY <2>4, <3>1, <3>3, <3>4, <3>5 DEF LockStates, after
  <2>7. QED
    BY <2>5, <2>6
<1>6. QED
  BY <1>4, <1>5 DEF after

\* The load orders that are locked can be sorted.
LEMMA LockedOrders ==
  ASSUME NEW locks, OwnLocks(locks)
  PROVE  /\ Range(locks) \subseteq Int /\ IsFiniteSet(Range(locks)) /\ IsFiniteSet(DOMAIN locks)
         /\ DOMAIN locks \subseteq Int
         /\ Ascending(Range(locks)) \in Seq(Int) /\ Ascending(DOMAIN locks) \in Seq(DOMAIN locks)
         /\ Len(Ascending(Range(locks))) \in Nat /\ Len(Ascending(DOMAIN locks)) \in Nat
         /\ DOMAIN locks = {} => /\ Len(Ascending(Range(locks))) = 0
                                 /\ Len(Ascending(DOMAIN locks)) = 0
         /\ ToSet(Ascending(DOMAIN locks)) = DOMAIN locks
<1> DEFINE keys == DOMAIN locks
           R == Range(locks)
<1>1. keys \subseteq Plugins /\ locks \in [keys -> Int]
  BY DEF OwnLocks
<1>2. IsFiniteSet(keys) /\ keys \subseteq Int
  BY <1>1, PluginAssumption, FS_Subset
<1>3. R = {locks[x] : x \in keys}
  BY DEF Range
<1>4. R \in SUBSET Int
  BY <1>1, <1>3
<1>5. IsFiniteSet(R)
  <2>1. locks \in Surjection(keys, R)
    BY <1>1, <1>3 DEF Surjection
  <2>2. QED
    BY <1>2, <2>1, FS_Surjection
<1>6. keys = {} => R = {}
  BY <1>3
<1> HIDE DEF keys, R
<1>7. Ascending(R) \in Seq(R) /\ Len(Ascending(R)) = Cardinality(R)
  BY <1>4, <1>5, AscendingLists
<1>8. /\ Ascending(keys) \in Seq(keys) /\ Len(Ascending(keys)) = Cardinality(keys)
      /\ ToSet(Ascending(keys)) = keys
  BY <1>2, AscendingLists
<1>9. Cardinality(R) \in Nat /\ Cardinality(keys) \in Nat
  BY <1>2, <1>5, FS_CardinalityType
<1>10. keys = {} => Cardinality(R) = 0 /\ Cardinality(keys) = 0
  BY <1>6, FS_EmptySet
<1>11. Ascending(R) \in Seq(Int)
  <2> DEFINE t == Ascending(R)
  <2>1. t \in Seq(R)
    BY <1>7
  <2> HIDE DEF t
  <2>2. /\ Len(t) \in Nat /\ t = [k \in 1..Len(t) |-> t[k]]
        /\ \A k \in 1..Len(t) : t[k] \in R
    BY <2>1
  <2>3. \A k \in 1..Len(t) : t[k] \in Int
    BY <1>4, <2>2
  <2>4. t \in Seq(Int)
    BY <2>2, <2>3
  <2>5. QED
    BY <2>4 DEF t
<1>12. QED
  BY <1>2, <1>4, <1>5, <1>7, <1>8, <1>9, <1>10, <1>11 DEF keys, R

\* The steps of refreshLoadOrder.
LockRuns(f, list, s) ==
  /\ f[0] = [list |-> SyncLoadOrder(list), place |-> 0, moved |-> FALSE]
  /\ \A k \in 1..Len(s) : f[k] = ApplyLock(f[k - 1], s[k])

\* refreshLoadOrder takes one step for each load order that is locked.
LEMMA LocksRun ==
  ASSUME NEW list, ListOk(list)
  PROVE  \E f : /\ LockRuns(f, list, Ascending(Range(list.locked)))
                /\ RefreshLoadOrder(list).list = f[Len(Ascending(Range(list.locked)))].list
                /\ RefreshLoadOrder(list).moved = f[Len(Ascending(Range(list.locked)))].moved
                /\ \A k \in 0..Len(Ascending(Range(list.locked))) : f[k] \in LockStates(list)
<1> DEFINE P == LockStates(list)
           s == Ascending(Range(list.locked))
           n == Len(s)
           start == [list |-> SyncLoadOrder(list), place |-> 0, moved |-> FALSE]
           g == [e \in P \X Int |-> ApplyLock(e[1], e[2])]
           Steps(f) == f = [k \in 0..n |-> IF k = 0 THEN start ELSE ApplyLock(f[k - 1], s[k])]
           f == CHOOSE f : Steps(f)
           done == RefreshLoadOrder(list)
<1>1. done = [list |-> f[n].list, moved |-> f[n].moved]
  BY Zenon DEF RefreshLoadOrder, Through
<1> HIDE DEF done
<1>2. n \in Nat /\ (\A k \in 1..n : s[k] \in Int)
  <2>1. OwnLocks(list.locked)
    BY DEF ListOk
  <2>2. s \in Seq(Int) /\ n \in Nat
    BY <2>1, LockedOrders
  <2> HIDE DEF s
  <2>3. QED
    BY <2>2
<1>3. start \in P
  <2> DEFINE l == SyncLoadOrder(list)
  <2>1. ListOk(l) /\ SameRows(list, l) /\ l.priority = list.priority
    BY SyncedOk
  <2>2. l \in Lists /\ Size(list) \in Nat
    BY <2>1, ListFacts DEF ListOk, Arranged
  <2> HIDE DEF l
  <2>3. start.list = l /\ start.place = 0 /\ start.moved = FALSE /\ start \in [list : Lists, place : Nat, moved : BOOLEAN]
    BY <2>2 DEF l
  <2> HIDE DEF start
  <2>4. QED
    BY <2>1, <2>2, <2>3 DEF LockStates
<1>4. \A state \in P, order \in Int : ApplyLock(state, order) \in P
  BY LockApplied
<1> HIDE DEF P, n, s, start
<1>5. g \in [P \X Int -> P] /\ \A state \in P, order \in Int : g[<<state, order>>] = ApplyLock(state, order)
  BY <1>4
<1> HIDE DEF g
<1>6. PICK h : /\ h = [k \in 0..n |-> h[k]] /\ h[0] = start
               /\ \A k \in 1..n : h[k] = g[<<h[k - 1], s[k]>>]
               /\ \A k \in 0..n : h[k] \in P
  <2>1. n \in Nat /\ \A k \in 1..n : s[k] \in Int
    BY <1>2
  <2>2. g \in [P \X Int -> P]
    BY <1>5
  <2>3. StepsIn(P, Int, g, start, s, n)
    BY <1>3, <2>1, <2>2 DEF StepsIn
  <2>4. \E h : Stepwise(h, P, g, start, s, n)
    BY <2>3, StepsTaken
  <2>5. QED
    BY <2>4, Zenon DEF Stepwise
<1>7. \A k \in 0..n : h[k] = IF k = 0 THEN start ELSE ApplyLock(h[k - 1], s[k])
  <2>1. SUFFICES ASSUME NEW k \in 0..n, k # 0 PROVE h[k] = ApplyLock(h[k - 1], s[k])
    BY <1>6
  <2>2. k \in 1..n /\ k - 1 \in 0..n
    BY <1>2, <2>1
  <2>3. QED
    BY <1>2, <1>5, <1>6, <2>2
<1>8. Steps(h)
  BY <1>6, <1>7
<1> HIDE DEF Steps
<1>9. Steps(f)
  BY <1>8, Zenon
<1> HIDE DEF f
<1>10. f[0] = start /\ \A k \in 1..n : f[k] = ApplyLock(f[k - 1], s[k])
  BY <1>2, <1>9 DEF Steps
<1>11. ASSUME NEW k \in 0..n PROVE f[k] \in P
  <2>1. ASSUME NEW j \in 1..k, f[j - 1] \in P PROVE f[j] \in P
    BY <1>2, <1>4, <1>10, <2>1
  <2>2. f[0] \in P /\ k \in Nat
    BY <1>3, <1>10
  <2>3. QED
    BY <2>1, <2>2, StepsStay
<1>12. LockRuns(f, list, s)
  BY <1>10 DEF LockRuns, start, n
<1>13. done.list = f[n].list /\ done.moved = f[n].moved
  BY <1>1
<1>14. QED
  BY <1>11, <1>12, <1>13, Zenon DEF done, n, s, P

\* PluginList::refreshLoadOrder keeps the rows and what is enabled and locked, and
\* says whether it moved plugins; without locks it moves none.
LEMMA LoadOrderOk ==
  ASSUME NEW list, ListOk(list)
  PROVE  LET done == RefreshLoadOrder(list)
         IN  /\ ListOk(done.list) /\ SameRows(list, done.list) /\ done.moved \in BOOLEAN
             /\ ~done.moved => done.list.priority = list.priority
             /\ DOMAIN list.locked = {} => ~done.moved
<1> DEFINE s == Ascending(Range(list.locked))
           n == Len(s)
           done == RefreshLoadOrder(list)
<1>1. PICK f : /\ LockRuns(f, list, s) /\ done.list = f[n].list /\ done.moved = f[n].moved
               /\ \A k \in 0..n : f[k] \in LockStates(list)
  BY LocksRun
<1>2. n \in Nat /\ (DOMAIN list.locked = {} => n = 0)
  <2>1. OwnLocks(list.locked)
    BY DEF ListOk
  <2>2. QED
    BY <2>1, LockedOrders
<1> HIDE DEF n, done
<1>3. f[n] \in LockStates(list)
  BY <1>1, <1>2
<1>4. /\ ListOk(f[n].list) /\ SameRows(list, f[n].list) /\ f[n].moved \in BOOLEAN
      /\ ~f[n].moved => f[n].list.priority = list.priority
  BY <1>3 DEF LockStates
<1>5. DOMAIN list.locked = {} => f[n].moved = FALSE
  BY <1>1, <1>2 DEF LockRuns
<1>6. QED
  BY <1>1, <1>4, <1>5 DEF done

-----------------------------------------------------------------------------
(* Several plugins *)

\* The plugins of a set that are present.
LEMMA ByPriorityLists ==
  ASSUME NEW list, ListOk(list), NEW S
  PROVE  LET s == ByPriority(list, S)
         IN  /\ s \in Seq(Present(list)) /\ Len(s) \in Nat
             /\ \A k \in 1..Len(s) : s[k] \in S \cap Present(list)
             /\ ToSet(s) = S \cap Present(list) /\ IsInjective(s)
<1> DEFINE R == S \cap Present(list)
           key == list.priority
           s == SortedBy(R, key)
           n == Cardinality(R)
<1>1. Keys(R, key)
  BY ListFacts
<1>2. ByPriority(list, S) = s
  BY DEF ByPriority
<1>3. R \in SUBSET Present(list)
  OBVIOUS
<1> HIDE DEF R, key
<1>4. /\ n \in Nat /\ DOMAIN s = 1..n /\ s \in Seq(R) /\ Len(s) = n
      /\ s = [k \in 1..n |-> s[k]]
      /\ \A k \in 1..n : s[k] \in R
      /\ \A e \in R : \E k \in 1..n : s[k] = e
      /\ \A j, k \in 1..n : s[j] = s[k] => j = k
  BY <1>1, SortedLists
<1> HIDE DEF s, n
<1>5. \A k \in 1..n : s[k] \in Present(list)
  BY <1>3, <1>4
<1>6. s \in Seq(Present(list))
  BY <1>4, <1>5
<1>7. ToSet(s) = R
  BY <1>4 DEF ToSet
<1>8. IsInjective(s)
  BY <1>4 DEF IsInjective
<1>9. QED
  BY <1>2, <1>4, <1>6, <1>7, <1>8 DEF R, key

\* The states changePluginPriority goes through.
MoveStates(list) ==
  {state \in [list : Lists, target : Int] : ListOk(state.list) /\ SameRows(list, state.list)}

LEMMA NextMoved ==
  ASSUME NEW list, NEW state \in MoveStates(list), NEW x \in Present(list)
  PROVE  MoveNext(state, x) \in MoveStates(list)
<1> DEFINE l == state.list
           new == Place(l, x, state.target)
           put == [l EXCEPT !.priority = Moved(@, x, new)]
           target == IF new > l.priority[x] THEN state.target ELSE state.target + 1
<1>1. ListOk(l) /\ SameRows(list, l) /\ l \in Lists /\ state.target \in Int
  BY DEF MoveStates
<1>2. MoveNext(state, x) = [list |-> put, target |-> target]
  BY Zenon DEF MoveNext
<1>3. put = SetPluginPriority(l, x, state.target)
  BY Zenon DEF SetPluginPriority
<1>4. x \in Present(l)
  BY <1>1, SameRowsSize
<1> HIDE DEF l, put, target
<1>5. ListOk(put) /\ SameRows(l, put)
  BY <1>1, <1>3, <1>4, PlacedOk
<1>6. put \in Lists
  BY <1>5 DEF ListOk, Arranged
<1>7. SameRows(list, put)
  BY <1>1, <1>5, SameRowsFollow
<1>8. target \in Int
  BY <1>1 DEF target
<1>9. QED
  BY <1>2, <1>5, <1>6, <1>7, <1>8 DEF MoveStates

\* Where changePluginPriority begins to put the plugins.
ChangeStart(list, plugins, target) ==
  LET behind == {list.priority[x] + 1 : x \in Forced \cap Present(list)}
      limited == Min({Max(behind \cup {target, 0}), Size(list)})
  IN IF \E x \in plugins : list.priority[x] < limited THEN limited - 1 ELSE limited

MoveSteps(f, list, s, from) ==
  /\ f[0] = [list |-> list, target |-> from]
  /\ \A k \in 1..Len(s) : f[k] = MoveNext(f[k - 1], s[k])

\* It is limited by the forced plugins and by the end of the list.
LEMMA ChangeStartIs ==
  ASSUME NEW list, ListOk(list), NEW plugins, NEW target \in 0..Size(list)
  PROVE  /\ ChangeStart(list, plugins, target) \in Int
         /\ (\A x \in Forced \cap Present(list) : list.priority[x] < target) =>
              ChangeStart(list, plugins, target) =
                IF \E x \in plugins : list.priority[x] < target THEN target - 1 ELSE target
<1> DEFINE behind == {list.priority[x] + 1 : x \in Forced \cap Present(list)}
           T == behind \cup {target, 0}
           n == Size(list)
           limited == Min({Max(T), n})
<1>1. n \in Nat /\ \A x \in Present(list) : list.priority[x] \in 0..(n - 1)
  BY ListFacts
<1>2. ChangeStart(list, plugins, target) =
        IF \E x \in plugins : list.priority[x] < limited THEN limited - 1 ELSE limited
  BY Zenon DEF ChangeStart
<1>3. \A x \in Present(list) : list.priority[x] + 1 \in 0..n
  BY <1>1
<1>4. T \in SUBSET (0..n) /\ T # {}
  BY <1>1, <1>3
<1>5. T \in SUBSET Nat /\ target \in T
  BY <1>1, <1>4
<1>6. (\A x \in Forced \cap Present(list) : list.priority[x] < target) => \A q \in T : q <= target
  BY <1>1
<1> HIDE DEF T
<1>7. Max(T) \in T /\ \A q \in T : Max(T) >= q
  BY <1>1, <1>4, MaxProperty
<1>8. Max(T) \in 0..n
  BY <1>4, <1>7
<1> DEFINE m == Max(T)
<1> HIDE DEF m
<1>9. m \in 0..n
  BY <1>8 DEF m
<1>10. {m, n} \in SUBSET Nat /\ {m, n} # {}
  BY <1>1, <1>9
<1>11. Min({m, n}) \in {m, n} /\ \A q \in {m, n} : Min({m, n}) <= q
  BY <1>10, MinProperty
<1>12. Min({m, n}) = m
  BY <1>1, <1>9, <1>11
<1>13. limited = m
  BY <1>12 DEF m
<1> HIDE DEF limited, n
<1>14. ASSUME \A x \in Forced \cap Present(list) : list.priority[x] < target
       PROVE  m = target
  <2>1. m <= target /\ m >= target /\ target \in Int /\ m \in Int
    BY <1>5, <1>6, <1>7, <1>9, <1>14 DEF m
  <2>2. QED
    BY <2>1
<1>15. m \in Int
  BY <1>9
<1>16. ChangeStart(list, plugins, target) \in Int
  BY <1>2, <1>13, <1>15
<1>17. QED
  BY <1>2, <1>13, <1>14, <1>16

\* changePluginPriority takes one step for each of the plugins.
LEMMA ChangeRuns ==
  ASSUME NEW list, ListOk(list), NEW plugins, NEW target \in 0..Size(list)
  PROVE  \E f : /\ MoveSteps(f, list, ByPriority(list, plugins), ChangeStart(list, plugins, target))
                /\ ChangePluginPriority(list, plugins, target) = f[Len(ByPriority(list, plugins))].list
<1> DEFINE from == ChangeStart(list, plugins, target)
           P == MoveStates(list)
           E == Present(list)
           s == ByPriority(list, plugins)
           n == Len(s)
           start == [list |-> list, target |-> from]
           g == [e \in P \X E |-> MoveNext(e[1], e[2])]
           Steps(f) == f = [k \in 0..n |-> IF k = 0 THEN start ELSE MoveNext(f[k - 1], s[k])]
           f == CHOOSE f : Steps(f)
<1>1. ChangePluginPriority(list, plugins, target) = f[n].list
  BY Zenon DEF ChangePluginPriority, Through, ChangeStart
<1>2. from \in Int
  BY ChangeStartIs
<1> HIDE DEF from
<1>3. n \in Nat /\ \A k \in 1..n : s[k] \in E
  BY ByPriorityLists
<1>4. start \in P
  <2>1. list \in Lists /\ SameRows(list, list)
    BY DEF ListOk, Arranged, SameRows
  <2>2. QED
    BY <1>2, <2>1 DEF MoveStates
<1>5. \A state \in P, x \in E : MoveNext(state, x) \in P
  BY NextMoved
<1> HIDE DEF P, E, n, s, start
<1>6. g \in [P \X E -> P] /\ \A state \in P, x \in E : g[<<state, x>>] = MoveNext(state, x)
  BY <1>5
<1> HIDE DEF g
<1>7. PICK h : /\ h = [k \in 0..n |-> h[k]] /\ h[0] = start
               /\ \A k \in 1..n : h[k] = g[<<h[k - 1], s[k]>>]
               /\ \A k \in 0..n : h[k] \in P
  <2>1. StepsIn(P, E, g, start, s, n)
    BY <1>3, <1>4, <1>6 DEF StepsIn
  <2>2. \E h : Stepwise(h, P, g, start, s, n)
    BY <2>1, StepsTaken
  <2>3. QED
    BY <2>2, Zenon DEF Stepwise
<1>8. \A k \in 0..n : h[k] = IF k = 0 THEN start ELSE MoveNext(h[k - 1], s[k])
  <2>1. SUFFICES ASSUME NEW k \in 0..n, k # 0 PROVE h[k] = MoveNext(h[k - 1], s[k])
    BY <1>7
  <2>2. k \in 1..n /\ k - 1 \in 0..n
    BY <1>3, <2>1
  <2>3. QED
    BY <1>3, <1>6, <1>7, <2>2
<1>9. Steps(h)
  BY <1>7, <1>8
<1> HIDE DEF Steps
<1>10. Steps(f)
  BY <1>9, Zenon
<1> HIDE DEF f
<1>11. f[0] = start /\ \A k \in 1..n : f[k] = MoveNext(f[k - 1], s[k])
  BY <1>3, <1>10 DEF Steps
<1>12. MoveSteps(f, list, s, from)
  BY <1>11 DEF MoveSteps, start, n
<1>13. QED
  BY <1>1, <1>12, Zenon DEF n, s, from

\* PluginList::changePluginPriority keeps the list in order.
LEMMA ChangedOk ==
  ASSUME NEW list, ListOk(list), NEW plugins, NEW target \in 0..Size(list)
  PROVE  LET after == ChangePluginPriority(list, plugins, target)
         IN ListOk(after) /\ SameRows(list, after)
<1> DEFINE s == ByPriority(list, plugins)
           n == Len(s)
           P == MoveStates(list)
<1>1. n \in Nat /\ \A k \in 1..n : s[k] \in Present(list)
  BY ByPriorityLists
<1>2. PICK f : /\ MoveSteps(f, list, s, ChangeStart(list, plugins, target))
               /\ ChangePluginPriority(list, plugins, target) = f[n].list
  BY ChangeRuns
<1>3. f[0] \in P
  <2>1. ChangeStart(list, plugins, target) \in Int
    BY ChangeStartIs
  <2>2. QED
    BY <1>2, <2>1 DEF MoveSteps, MoveStates, ListOk, Arranged, SameRows
<1> HIDE DEF P, n
<1>4. ASSUME NEW k \in 1..n, f[k - 1] \in P PROVE f[k] \in P
  <2>1. f[k] = MoveNext(f[k - 1], s[k])
    BY <1>2 DEF MoveSteps, n
  <2>2. QED
    BY <1>1, <1>4, <2>1, NextMoved DEF P
<1>5. f[n] \in P
  BY <1>1, <1>3, <1>4, StepsStay
<1>6. QED
  BY <1>2, <1>5 DEF P, MoveStates

\* The lists shiftPluginsPriority goes through.
ShiftStates(list) == {l \in Lists : ListOk(l) /\ SameRows(list, l)}

LEMMA NextShifted ==
  ASSUME NEW list, NEW l \in ShiftStates(list), NEW x \in Present(list), NEW by \in Int
  PROVE  ShiftNext(l, x, by) \in ShiftStates(list)
<1> DEFINE p == l.priority[x] + by
           put == SetPluginPriority(l, x, p)
<1>1. ListOk(l) /\ SameRows(list, l) /\ l \in Lists
  BY DEF ShiftStates
<1>2. ShiftNext(l, x, by) = IF p \in 0..Size(l) - 1 THEN put ELSE l
  BY Zenon DEF ShiftNext
<1>3. CASE p \in 0..Size(l) - 1
  <2>1. x \in Present(l) /\ p \in Int
    BY <1>1, <1>3, SameRowsSize
  <2> HIDE DEF p
  <2>2. ListOk(put) /\ SameRows(l, put)
    BY <1>1, <2>1, PlacedOk
  <2>3. put \in Lists /\ SameRows(list, put)
    BY <1>1, <2>2, SameRowsFollow DEF ListOk, Arranged
  <2>4. QED
    BY <1>2, <1>3, <2>2, <2>3 DEF ShiftStates
<1>4. CASE p \notin 0..Size(l) - 1
  BY <1>2, <1>4
<1>5. QED
  BY <1>3, <1>4

\* The plugins of a set in the order in which shiftPluginsPriority takes them.
ShiftOrder(list, plugins, by) ==
  IF by > 0 THEN Reverse(ByPriority(list, plugins)) ELSE ByPriority(list, plugins)

ShiftSteps(f, list, s, by) ==
  f[0] = list /\ \A k \in 1..Len(s) : f[k] = ShiftNext(f[k - 1], s[k], by)

\* They are the plugins of the set, each once: the first ones first, or the last
\* ones first.
LEMMA ShiftOrderLists ==
  ASSUME NEW list, ListOk(list), NEW plugins, NEW by \in Int
  PROVE  LET s == ShiftOrder(list, plugins, by)
         IN  /\ Len(s) \in Nat
             /\ \A k \in 1..Len(s) : s[k] \in plugins \cap Present(list)
             /\ \A e \in plugins \cap Present(list) : \E k \in 1..Len(s) : s[k] = e
             /\ \A j, k \in 1..Len(s) : j < k =>
                  IF by > 0 THEN list.priority[s[k]] < list.priority[s[j]]
                  ELSE list.priority[s[j]] < list.priority[s[k]]
<1> DEFINE R == plugins \cap Present(list)
           key == list.priority
           a == SortedBy(R, key)
           n == Cardinality(R)
           r == Reverse(a)
<1>1. Keys(R, key)
  BY ListFacts
<1>2. ByPriority(list, plugins) = a
  BY DEF ByPriority
<1> HIDE DEF R, key
<1>3. /\ n \in Nat /\ Len(a) = n
      /\ \A k \in 1..n : a[k] \in R
      /\ \A e \in R : \E k \in 1..n : a[k] = e
      /\ \A j, k \in 1..n : j < k <=> key[a[j]] < key[a[k]]
  BY <1>1, SortedLists
<1> HIDE DEF a, n
<1>4. r = [i \in 1..n |-> a[(n - i) + 1]] /\ Len(r) = n
  <2>1. r = [i \in 1..n |-> a[(n - i) + 1]]
    BY <1>3 DEF Reverse
  <2>2. QED
    BY <1>3, <2>1
<1> HIDE DEF r
<1>5. \A k \in 1..n : (n - k) + 1 \in 1..n /\ r[k] = a[(n - k) + 1] /\ (n - ((n - k) + 1)) + 1 = k
  BY <1>3, <1>4
<1>6. \A k \in 1..n : r[k] \in R
  BY <1>3, <1>5
<1>7. \A e \in R : \E k \in 1..n : r[k] = e
  <2>1. SUFFICES ASSUME NEW e \in R PROVE \E k \in 1..n : r[k] = e
    OBVIOUS
  <2>2. PICK k \in 1..n : a[k] = e
    BY <1>3
  <2>3. r[(n - k) + 1] = e /\ (n - k) + 1 \in 1..n
    BY <1>5, <2>2
  <2>4. QED
    BY <2>3
<1>8. \A j, k \in 1..n : j < k => key[r[k]] < key[r[j]]
  <2>1. SUFFICES ASSUME NEW j \in 1..n, NEW k \in 1..n, j < k PROVE key[r[k]] < key[r[j]]
    OBVIOUS
  <2> DEFINE u == (n - k) + 1
             v == (n - j) + 1
  <2>2. u \in 1..n /\ v \in 1..n /\ r[k] = a[u] /\ r[j] = a[v]
    BY <1>5
  <2>3. u < v
    BY <1>3, <2>1
  <2> HIDE DEF u, v
  <2>4. key[a[u]] < key[a[v]]
    BY <1>3, <2>2, <2>3
  <2>5. QED
    BY <2>2, <2>4
<1>9. CASE by > 0
  <2>1. ShiftOrder(list, plugins, by) = r
    BY <1>2, <1>9 DEF ShiftOrder, r
  <2>2. QED
    BY <1>3, <1>4, <1>6, <1>7, <1>8, <1>9, <2>1 DEF R, key
<1>10. CASE ~(by > 0)
  <2>1. ShiftOrder(list, plugins, by) = a
    BY <1>2, <1>10 DEF ShiftOrder
  <2>2. QED
    BY <1>3, <1>10, <2>1 DEF R, key
<1>11. QED
  BY <1>9, <1>10

\* shiftPluginsPriority takes one step for each of them.
LEMMA ShiftRuns ==
  ASSUME NEW list, ListOk(list), NEW plugins, NEW by \in Int
  PROVE  \E f : /\ ShiftSteps(f, list, ShiftOrder(list, plugins, by), by)
                /\ ShiftPlugins(list, plugins, by) = f[Len(ShiftOrder(list, plugins, by))]
<1> DEFINE s == ShiftOrder(list, plugins, by)
           P == ShiftStates(list)
           E == Present(list)
           n == Len(s)
           g == [e \in P \X E |-> ShiftNext(e[1], e[2], by)]
           Steps(f) == f = [k \in 0..n |-> IF k = 0 THEN list ELSE ShiftNext(f[k - 1], s[k], by)]
           f == CHOOSE f : Steps(f)
<1>1. ShiftPlugins(list, plugins, by) = f[n]
  BY Zenon DEF ShiftPlugins, Through, ShiftOrder
<1>2. n \in Nat /\ \A k \in 1..n : s[k] \in E
  BY ShiftOrderLists
<1>3. list \in P
  BY DEF ShiftStates, ListOk, Arranged, SameRows
<1>4. \A l \in P, x \in E : ShiftNext(l, x, by) \in P
  BY NextShifted
<1> HIDE DEF P, E, n, s
<1>5. g \in [P \X E -> P] /\ \A l \in P, x \in E : g[<<l, x>>] = ShiftNext(l, x, by)
  BY <1>4
<1> HIDE DEF g
<1>6. PICK h : /\ h = [k \in 0..n |-> h[k]] /\ h[0] = list
               /\ \A k \in 1..n : h[k] = g[<<h[k - 1], s[k]>>]
               /\ \A k \in 0..n : h[k] \in P
  <2>1. StepsIn(P, E, g, list, s, n)
    BY <1>2, <1>3, <1>5 DEF StepsIn
  <2>2. \E h : Stepwise(h, P, g, list, s, n)
    BY <2>1, StepsTaken
  <2>3. QED
    BY <2>2, Zenon DEF Stepwise
<1>7. \A k \in 0..n : h[k] = IF k = 0 THEN list ELSE ShiftNext(h[k - 1], s[k], by)
  <2>1. SUFFICES ASSUME NEW k \in 0..n, k # 0 PROVE h[k] = ShiftNext(h[k - 1], s[k], by)
    BY <1>6
  <2>2. k \in 1..n /\ k - 1 \in 0..n
    BY <1>2, <2>1
  <2>3. QED
    BY <1>2, <1>5, <1>6, <2>2
<1>8. Steps(h)
  BY <1>6, <1>7
<1> HIDE DEF Steps
<1>9. Steps(f)
  BY <1>8, Zenon
<1> HIDE DEF f
<1>10. f[0] = list /\ \A k \in 1..n : f[k] = ShiftNext(f[k - 1], s[k], by)
  BY <1>2, <1>9 DEF Steps
<1>11. ShiftSteps(f, list, s, by)
  BY <1>10 DEF ShiftSteps, n
<1>12. QED
  BY <1>1, <1>11, Zenon DEF n, s

\* PluginList::shiftPluginsPriority keeps the list in order.
LEMMA ShiftedOk ==
  ASSUME NEW list, ListOk(list), NEW plugins, NEW by \in Int
  PROVE  LET after == ShiftPlugins(list, plugins, by)
         IN ListOk(after) /\ SameRows(list, after)
<1> DEFINE s == ShiftOrder(list, plugins, by)
           n == Len(s)
           P == ShiftStates(list)
<1>1. n \in Nat /\ \A k \in 1..n : s[k] \in Present(list)
  BY ShiftOrderLists
<1>2. PICK f : ShiftSteps(f, list, s, by) /\ ShiftPlugins(list, plugins, by) = f[n]
  BY ShiftRuns
<1>3. f[0] \in P
  BY <1>2 DEF ShiftSteps, ShiftStates, ListOk, Arranged, SameRows
<1> HIDE DEF P, n
<1>4. ASSUME NEW k \in 1..n, f[k - 1] \in P PROVE f[k] \in P
  <2>1. f[k] = ShiftNext(f[k - 1], s[k], by)
    BY <1>2 DEF ShiftSteps, n
  <2>2. QED
    BY <1>1, <1>4, <2>1, NextShifted DEF P
<1>5. f[n] \in P
  BY <1>1, <1>3, <1>4, StepsStay
<1>6. QED
  BY <1>2, <1>5 DEF P, ShiftStates

-----------------------------------------------------------------------------
(* Orders *)

\* The priorities of an order without repetitions count its places.
LEMMA PrioritiesCount ==
  ASSUME NEW order \in Seq(Plugins), IsInjective(order)
  PROVE  /\ Priorities(order) \in [ToSet(order) -> 0..(Len(order) - 1)]
         /\ \A k \in 1..Len(order) : order[k] \in ToSet(order) /\ Priorities(order)[order[k]] = k - 1
         /\ \A x, y \in ToSet(order) : Priorities(order)[x] = Priorities(order)[y] => x = y
         /\ \A q \in 0..(Len(order) - 1) : \E x \in ToSet(order) : Priorities(order)[x] = q
<1> DEFINE p == Priorities(order)
           n == Len(order)
           S == ToSet(order)
           place(x) == CHOOSE k \in DOMAIN order : order[k] = x
<1>1. /\ n \in Nat /\ DOMAIN order = 1..n
      /\ \A j, k \in 1..n : order[j] = order[k] => j = k
      /\ \A k \in 1..n : order[k] \in S
      /\ \A x \in S : \E k \in 1..n : order[k] = x
  BY DEF IsInjective, ToSet
<1>2. p = [x \in S |-> place(x) - 1]
  BY Zenon DEF Priorities
<1>3. \A x \in S : place(x) \in 1..n /\ order[place(x)] = x
  BY <1>1
<1> HIDE DEF p, n, S, place
<1>4. \A x \in S : p[x] = place(x) - 1 /\ place(x) - 1 \in 0..(n - 1)
  BY <1>1, <1>2, <1>3
<1>5. p \in [S -> 0..(n - 1)]
  BY <1>2, <1>4
<1>6. \A k \in 1..n : order[k] \in S /\ p[order[k]] = k - 1
  <2>1. \A k \in 1..n : place(order[k]) = k
    BY <1>1, <1>3
  <2>2. QED
    BY <1>1, <1>4, <2>1
<1>7. \A x, y \in S : p[x] = p[y] => x = y
  <2>1. SUFFICES ASSUME NEW x \in S, NEW y \in S, p[x] = p[y] PROVE x = y
    OBVIOUS
  <2>2. place(x) \in Int /\ place(y) \in Int /\ place(x) - 1 = place(y) - 1
    BY <1>1, <1>3, <1>4, <2>1
  <2>3. place(x) = place(y)
    BY <2>2
  <2>4. order[place(x)] = x /\ order[place(y)] = y
    BY <1>3
  <2>5. QED
    BY <2>3, <2>4
<1>8. \A q \in 0..(n - 1) : \E x \in S : p[x] = q
  <2>1. SUFFICES ASSUME NEW q \in 0..(n - 1) PROVE \E x \in S : p[x] = q
    OBVIOUS
  <2>2. q + 1 \in 1..n /\ (q + 1) - 1 = q
    BY <1>1
  <2>3. QED
    BY <1>6, <2>2
<1>9. QED
  BY <1>5, <1>6, <1>7, <1>8 DEF p, n, S

\* PluginList::setLoadOrder gives each plugin of the rows one place, and those
\* that are named theirs in the order they are named in.
LEMMA LoadOrderLists ==
  ASSUME NEW rows \in Seq(Plugins), IsInjective(rows),
         NEW order \in Seq(Plugins), IsInjective(order)
  PROVE  LET p == Priorities(SetLoadOrder(rows, order))
             S == ToSet(rows)
         IN  /\ p \in [S -> 0..(Len(rows) - 1)]
             /\ \A x, y \in S : p[x] = p[y] => x = y
             /\ \A q \in 0..(Len(rows) - 1) : \E x \in S : p[x] = q
             /\ SortedBy(ToSet(order) \cap S, p) = Among(order, S)
<1> DEFINE S == ToSet(rows)
           named == ToSet(order)
           a == Among(order, S)
           b == Among(rows, S \ named)
           s == a \o b
           p == Priorities(s)
<1>1. SetLoadOrder(rows, order) = s
  BY DEF SetLoadOrder
<1>2. a \in Seq(Plugins) /\ ToSet(a) = named \cap S /\ IsInjective(a)
  <2> HIDE DEF S
  <2>1. a \in Seq(Plugins) /\ IsInjective(a)
    BY AmongLists
  <2>2. ToSet(a) = named \cap S
    BY AmongLists
  <2>3. QED
    BY <2>1, <2>2
<1>3. b \in Seq(Plugins) /\ ToSet(b) = S \cap (S \ named) /\ IsInjective(b)
  <2> DEFINE rest == S \ named
  <2> HIDE DEF rest
  <2>1. Among(rows, rest) \in Seq(Plugins) /\ IsInjective(Among(rows, rest))
    BY AmongLists
  <2>2. ToSet(Among(rows, rest)) = S \cap rest
    BY AmongLists
  <2>3. QED
    BY <2>1, <2>2 DEF rest
<1>4. IsFiniteSet(S) /\ Cardinality(S) = Len(rows)
  BY AmongLists
<1> HIDE DEF a, b
<1>5. /\ s \in Seq(Plugins) /\ ToSet(s) = ToSet(a) \cup ToSet(b) /\ IsInjective(s)
      /\ Len(s) = Len(a) + Len(b)
      /\ \A k \in 1..Len(a) : s[k] = a[k]
  <2>1. ToSet(a) \cap ToSet(b) = {}
    BY <1>2, <1>3
  <2>2. QED
    BY <1>2, <1>3, <2>1, JoinedLists
<1> HIDE DEF s
<1>6. ToSet(s) = S
  BY <1>2, <1>3, <1>5
<1>7. Len(s) = Len(rows)
  <2>1. Cardinality(ToSet(s)) = Len(s)
    BY <1>5, AmongLists
  <2>2. QED
    BY <1>4, <1>6, <2>1
<1>8. /\ p \in [ToSet(s) -> 0..(Len(s) - 1)]
      /\ \A k \in 1..Len(s) : p[s[k]] = k - 1
      /\ \A x, y \in ToSet(s) : p[x] = p[y] => x = y
      /\ \A q \in 0..(Len(s) - 1) : \E x \in ToSet(s) : p[x] = q
  BY <1>5, PrioritiesCount
<1> HIDE DEF p
<1>9. SortedBy(ToSet(a), p) = a
  <2>1. Len(a) \in Nat /\ Len(b) \in Nat
    BY <1>2, <1>3
  <2>2. \A k \in 1..Len(a) : k \in 1..Len(s)
    BY <1>5, <2>1
  <2>3. \A k \in 1..Len(a) : p[a[k]] = k - 1
    BY <1>5, <1>8, <2>2
  <2>4. \A j, k \in 1..Len(a) : j < k => p[a[j]] < p[a[k]]
    BY <2>1, <2>3
  <2>5. \A k \in 1..Len(a) : p[a[k]] \in Int
    BY <2>1, <2>3
  <2>6. QED
    BY <1>2, <2>4, <2>5, SortedByPlace
<1>10. SortedBy(named \cap S, p) = a
  BY <1>2, <1>9
<1> HIDE DEF S, named
<1>11. /\ p \in [S -> 0..(Len(rows) - 1)]
       /\ \A x, y \in S : p[x] = p[y] => x = y
       /\ \A q \in 0..(Len(rows) - 1) : \E x \in S : p[x] = q
  BY <1>6, <1>7, <1>8
<1>12. QED
  BY <1>1, <1>10, <1>11 DEF S, named, a, p

\* PluginList::setLoadOrder keeps the list in order.
LEMMA FirstOk ==
  ASSUME NEW list, ListOk(list), NEW x \in Plugins
  PROVE  LET after == [list EXCEPT !.priority = Priorities(SetLoadOrder(list.rows, <<x>>))]
         IN ListOk(after) /\ SameRows(list, after)
<1> DEFINE p == Priorities(SetLoadOrder(list.rows, <<x>>))
<1>1. /\ list.rows \in Seq(Plugins) /\ IsInjective(list.rows) /\ ToSet(list.rows) = Present(list)
      /\ Len(list.rows) = Size(list)
  BY ListFacts DEF ListOk
<1>2. <<x>> \in Seq(Plugins) /\ IsInjective(<<x>>)
  BY DEF IsInjective
<1>3. /\ p \in [ToSet(list.rows) -> 0..(Len(list.rows) - 1)]
      /\ \A y, z \in ToSet(list.rows) : p[y] = p[z] => y = z
      /\ \A q \in 0..(Len(list.rows) - 1) : \E y \in ToSet(list.rows) : p[y] = q
  BY <1>1, <1>2, LoadOrderLists
<1> HIDE DEF p
<1>4. /\ p \in [Present(list) -> 0..(Size(list) - 1)]
      /\ \A y, z \in Present(list) : p[y] = p[z] => y = z
      /\ \A q \in 0..(Size(list) - 1) : \E y \in Present(list) : p[y] = q
  BY <1>1, <1>3
<1>5. QED
  BY <1>4, NewPriorities DEF p

-----------------------------------------------------------------------------
(* Reading the locks *)

\* Lists that differ in their locks only.
ReadStates(list) ==
  {l \in Lists : /\ OwnLocks(l.locked)
                 /\ l.rows = list.rows /\ l.enabled = list.enabled
                 /\ l.priority = list.priority /\ l.loadOrder = list.loadOrder}

\* They are kept as well.
LEMMA ReadStatesOk ==
  ASSUME NEW list, ListOk(list), NEW l \in ReadStates(list)
  PROVE  /\ ListOk(l) /\ Present(l) = Present(list) /\ Size(l) = Size(list)
         /\ OwnLocks(l.locked) /\ l.rows = list.rows /\ l.enabled = list.enabled
         /\ l.priority = list.priority /\ l.loadOrder = list.loadOrder
<1>1. /\ OwnLocks(l.locked) /\ l.rows = list.rows /\ l.enabled = list.enabled
      /\ l.priority = list.priority /\ l.loadOrder = list.loadOrder /\ l \in Lists
  BY DEF ReadStates
<1>2. Present(l) = Present(list) /\ Size(l) = Size(list)
  BY <1>1 DEF Present, Size
<1>3. Arranged(l)
  BY <1>1, <1>2 DEF ListOk, Arranged
<1>4. ListOk(l)
  BY <1>1, <1>2, <1>3 DEF ListOk
<1>5. QED
  BY <1>1, <1>2, <1>4

\* One line of lockedorder.txt, in parts: what it is read as, and whether at all.
LockPlace(list, order, x) ==
  LET free == {q \in order..Size(list) - 1 :
                 At(list, q) \notin Forced /\ q \notin Range(list.locked)}
  IN IF x \notin Present(list) \/ order >= Size(list) THEN order ELSE Min(free \cup {Size(list)})

Dropped(list, order, x) == order < 0 \/ x \in Forced \cap Present(list)

LocksWith(locks, x, place) == [y \in DOMAIN locks \cup {x} |-> IF y = x THEN place ELSE locks[y]]

LEMMA ReadLockIs ==
  ASSUME NEW list, NEW lines, NEW x
  PROVE  ReadLock(list, lines, x) =
           IF Dropped(list, lines[x], x) THEN list
           ELSE [list EXCEPT !.locked = LocksWith(@, x, LockPlace(list, lines[x], x))]
BY Zenon DEF ReadLock, Dropped, LocksWith, LockPlace

\* A line of lockedorder.txt leaves locks.
LEMMA LockRead ==
  ASSUME NEW list, ListOk(list), NEW lines, OwnLocks(lines), NEW l \in ReadStates(list),
         NEW x \in DOMAIN lines
  PROVE  ReadLock(l, lines, x) \in ReadStates(list)
<1> DEFINE order == lines[x]
           place == LockPlace(l, order, x)
           locks == LocksWith(l.locked, x, place)
           after == ReadLock(l, lines, x)
<1>1. /\ ListOk(l) /\ l \in Lists /\ OwnLocks(l.locked) /\ Size(l) \in Nat
      /\ l.rows = list.rows /\ l.enabled = list.enabled
      /\ l.priority = list.priority /\ l.loadOrder = list.loadOrder
  BY ReadStatesOk, ListFacts DEF ReadStates
<1>2. order \in Int /\ x \in Plugins
  BY DEF OwnLocks
<1>3. after = IF Dropped(l, order, x) THEN l ELSE [l EXCEPT !.locked = locks]
  BY ReadLockIs, Zenon
<1> HIDE DEF after
<1>4. CASE Dropped(l, order, x)
  BY <1>3, <1>4 DEF after
<1>5. CASE ~Dropped(l, order, x)
  <2> HIDE DEF order
  <2>1. order >= 0
    BY <1>2, <1>5 DEF Dropped
  <2> DEFINE T == {q \in order..Size(l) - 1 : At(l, q) \notin Forced /\ q \notin Range(l.locked)}
                    \cup {Size(l)}
  <2>2. T \in SUBSET Nat /\ T # {}
    BY <1>1, <1>2, <2>1
  <2>3. Min(T) \in T
    BY <2>2, MinProperty
  <2>4. Min(T) \in Int
    BY <2>2, <2>3
  <2>5. place = IF x \notin Present(l) \/ order >= Size(l) THEN order ELSE Min(T)
    BY Zenon DEF LockPlace
  <2> HIDE DEF T, place
  <2>6. place \in Int
    BY <1>2, <2>4, <2>5
  <2>7. DOMAIN l.locked \subseteq Plugins /\ l.locked \in [DOMAIN l.locked -> Int]
    BY <1>1 DEF OwnLocks
  <2>8. DOMAIN locks = DOMAIN l.locked \cup {x} /\ locks \in [DOMAIN l.locked \cup {x} -> Int]
    BY <2>6, <2>7 DEF LocksWith
  <2> HIDE DEF locks
  <2>9. OwnLocks(locks) /\ locks \in Numbers
    BY <1>2, <2>7, <2>8 DEF OwnLocks, Numbers
  <2>10. after = [rows |-> l.rows, enabled |-> l.enabled, priority |-> l.priority,
                  loadOrder |-> l.loadOrder, locked |-> locks]
    BY <1>1, <1>3, <1>5 DEF Lists
  <2>11. after \in Lists
    BY <1>1, <2>9, <2>10 DEF Lists
  <2>12. QED
    BY <1>1, <2>9, <2>10, <2>11 DEF ReadStates, after
<1>6. QED
  BY <1>4, <1>5

\* f reads the lines one after the other.
ReadsLines(f, list, lines) ==
  LET s == Ascending(DOMAIN lines)
  IN /\ Len(s) \in Nat /\ \A k \in 1..Len(s) : s[k] \in DOMAIN lines
     /\ f[0] = [list EXCEPT !.locked = <<>>]
     /\ \A k \in 1..Len(s) : f[k] = ReadLock(f[k - 1], lines, s[k])
     /\ \A k \in 0..Len(s) : f[k] \in ReadStates(list)
     /\ ReadLockedOrder(list, lines) = f[Len(s)]

\* PluginList::readLockedOrderFrom.
LEMMA LinesRead ==
  ASSUME NEW list, ListOk(list), NEW lines, OwnLocks(lines)
  PROVE  \E f : ReadsLines(f, list, lines)
<1> DEFINE P == ReadStates(list)
           E == DOMAIN lines
           s == Ascending(E)
           n == Len(s)
           start == [list EXCEPT !.locked = <<>>]
           g == [e \in P \X E |-> ReadLock(e[1], lines, e[2])]
           Steps(f) == f = [k \in 0..n |-> IF k = 0 THEN start ELSE ReadLock(f[k - 1], lines, s[k])]
           f == CHOOSE f : Steps(f)
<1>1. ReadLockedOrder(list, lines) = f[n]
  BY Zenon DEF ReadLockedOrder, Through
<1>2. n \in Nat /\ \A k \in 1..n : s[k] \in E
  <2>1. s \in Seq(E)
    BY LockedOrders
  <2> HIDE DEF s, E
  <2>2. QED
    BY <2>1
<1>3. start \in P
  <2>1. list \in Lists
    BY DEF ListOk, Arranged
  <2>2. start = [rows |-> list.rows, enabled |-> list.enabled, priority |-> list.priority,
                 loadOrder |-> list.loadOrder, locked |-> <<>>]
    BY <2>1 DEF Lists
  <2>3. OwnLocks(<<>>) /\ <<>> \in Numbers
    <3>1. DOMAIN <<>> = {} /\ <<>> \in [{} -> Int]
      OBVIOUS
    <3>2. QED
      BY <3>1 DEF OwnLocks, Numbers
  <2> HIDE DEF start
  <2>4. start \in Lists
    BY <2>1, <2>2, <2>3 DEF Lists
  <2>5. QED
    BY <2>2, <2>3, <2>4 DEF ReadStates
<1>4. \A l \in P, x \in E : ReadLock(l, lines, x) \in P
  BY LockRead
<1> HIDE DEF P, E, n, s, start
<1>5. g \in [P \X E -> P] /\ \A l \in P, x \in E : g[<<l, x>>] = ReadLock(l, lines, x)
  BY <1>4
<1> HIDE DEF g
<1>6. PICK h : /\ h = [k \in 0..n |-> h[k]] /\ h[0] = start
               /\ \A k \in 1..n : h[k] = g[<<h[k - 1], s[k]>>]
               /\ \A k \in 0..n : h[k] \in P
  <2>1. StepsIn(P, E, g, start, s, n)
    BY <1>2, <1>3, <1>5 DEF StepsIn
  <2>2. \E h : Stepwise(h, P, g, start, s, n)
    BY <2>1, StepsTaken
  <2>3. QED
    BY <2>2, Zenon DEF Stepwise
<1>7. \A k \in 0..n : h[k] = IF k = 0 THEN start ELSE ReadLock(h[k - 1], lines, s[k])
  <2>1. SUFFICES ASSUME NEW k \in 0..n, k # 0 PROVE h[k] = ReadLock(h[k - 1], lines, s[k])
    BY <1>6
  <2>2. k \in 1..n /\ k - 1 \in 0..n
    BY <1>2, <2>1
  <2>3. QED
    BY <1>2, <1>5, <1>6, <2>2
<1>8. Steps(h)
  BY <1>6, <1>7
<1> HIDE DEF Steps
<1>9. Steps(f)
  BY <1>8, Zenon
<1> HIDE DEF f
<1>10. f[0] = start /\ \A k \in 1..n : f[k] = ReadLock(f[k - 1], lines, s[k])
  BY <1>2, <1>9 DEF Steps
<1>11. ASSUME NEW m \in 0..n PROVE f[m] \in P
  <2>1. ASSUME NEW k \in 1..m, f[k - 1] \in P PROVE f[k] \in P
    <3>1. k \in 1..n
      BY <1>2
    <3>2. QED
      BY <1>2, <1>4, <1>10, <2>1, <3>1
  <2>2. f[0] \in P /\ m \in Nat
    BY <1>2, <1>3, <1>10
  <2>3. QED
    BY <2>1, <2>2, StepsStay
<1>12. /\ Len(s) \in Nat /\ \A k \in 1..Len(s) : s[k] \in DOMAIN lines
       /\ f[0] = [list EXCEPT !.locked = <<>>]
       /\ \A k \in 1..Len(s) : f[k] = ReadLock(f[k - 1], lines, s[k])
       /\ \A k \in 0..Len(s) : f[k] \in ReadStates(list)
       /\ ReadLockedOrder(list, lines) = f[Len(s)]
  BY <1>1, <1>2, <1>10, <1>11 DEF n, P, E, start
<1>13. ReadsLines(f, list, lines)
  BY <1>12, Zenon DEF ReadsLines, s, E
<1>14. QED
  BY <1>13

\* Reading the locks keeps everything else.
LEMMA LocksReadOk ==
  ASSUME NEW list, ListOk(list), NEW lines, OwnLocks(lines)
  PROVE  LET after == ReadLockedOrder(list, lines)
         IN  /\ ListOk(after) /\ Present(after) = Present(list) /\ OwnLocks(after.locked)
             /\ after.rows = list.rows /\ after.enabled = list.enabled
             /\ after.priority = list.priority
<1>1. PICK f : ReadsLines(f, list, lines)
  BY LinesRead
<1> DEFINE n == Len(Ascending(DOMAIN lines))
           after == ReadLockedOrder(list, lines)
<1>2. n \in Nat /\ (\A k \in 0..n : f[k] \in ReadStates(list)) /\ after = f[n]
  BY <1>1 DEF ReadsLines
<1> HIDE DEF n, after
<1>3. after \in ReadStates(list)
  BY <1>2
<1>4. QED
  BY <1>3, ReadStatesOk DEF after

\* What the locks are read as depends on the rows and the priorities only.
LEMMA LocksReadAlike ==
  ASSUME NEW a, ListOk(a), NEW b, ListOk(b), a.rows = b.rows, a.priority = b.priority,
         NEW lines, OwnLocks(lines)
  PROVE  ReadLockedOrder(a, lines).locked = ReadLockedOrder(b, lines).locked
<1>1. PICK f : ReadsLines(f, a, lines)
  BY LinesRead
<1>2. PICK h : ReadsLines(h, b, lines)
  BY LinesRead
<1> DEFINE s == Ascending(DOMAIN lines)
           n == Len(s)
<1>3. /\ n \in Nat /\ \A k \in 1..n : s[k] \in DOMAIN lines
      /\ f[0] = [a EXCEPT !.locked = <<>>] /\ h[0] = [b EXCEPT !.locked = <<>>]
      /\ \A k \in 1..n : f[k] = ReadLock(f[k - 1], lines, s[k]) /\ h[k] = ReadLock(h[k - 1], lines, s[k])
      /\ \A k \in 0..n : f[k] \in ReadStates(a) /\ h[k] \in ReadStates(b)
      /\ ReadLockedOrder(a, lines) = f[n] /\ ReadLockedOrder(b, lines) = h[n]
  BY <1>1, <1>2 DEF ReadsLines
<1> HIDE DEF s, n
<1>4. f[0].locked = h[0].locked
  <2>1. a \in Lists /\ b \in Lists
    BY DEF ListOk, Arranged
  <2>2. f[0].locked = <<>> /\ h[0].locked = <<>>
    BY <1>3, <2>1 DEF Lists
  <2>3. QED
    BY <2>2
<1>5. ASSUME NEW k \in 1..n, f[k - 1].locked = h[k - 1].locked PROVE f[k].locked = h[k].locked
  <2> DEFINE c == f[k - 1]
             d == h[k - 1]
             x == s[k]
             order == lines[x]
  <2>1. c \in ReadStates(a) /\ d \in ReadStates(b)
    BY <1>3
  <2>2. /\ c \in Lists /\ d \in Lists /\ c.rows = d.rows /\ c.priority = d.priority
        /\ c.locked = d.locked
    BY <1>5, <2>1 DEF ReadStates
  <2>3. f[k] = ReadLock(c, lines, x) /\ h[k] = ReadLock(d, lines, x)
    BY <1>3
  <2> HIDE DEF c, d, x, order
  <2>4. Dropped(c, order, x) = Dropped(d, order, x)
    BY <2>2, Zenon DEF Dropped, Present
  <2>5. LockPlace(c, order, x) = LockPlace(d, order, x)
    BY <2>2, Zenon DEF LockPlace, Present, Size, At
  <2>6. f[k] = IF Dropped(c, order, x) THEN c
               ELSE [c EXCEPT !.locked = LocksWith(@, x, LockPlace(c, order, x))]
    BY <2>3, ReadLockIs, Zenon DEF order
  <2>7. h[k] = IF Dropped(d, order, x) THEN d
               ELSE [d EXCEPT !.locked = LocksWith(@, x, LockPlace(d, order, x))]
    BY <2>3, ReadLockIs, Zenon DEF order
  <2>8. CASE Dropped(c, order, x)
    BY <2>2, <2>4, <2>6, <2>7, <2>8
  <2>9. CASE ~Dropped(c, order, x)
    <3>1. f[k].locked = LocksWith(c.locked, x, LockPlace(c, order, x))
      BY <2>2, <2>6, <2>9 DEF Lists
    <3>2. h[k].locked = LocksWith(d.locked, x, LockPlace(d, order, x))
      BY <2>2, <2>4, <2>7, <2>9 DEF Lists
    <3>3. QED
      BY <2>2, <2>5, <3>1, <3>2
  <2>10. QED
    BY <2>8, <2>9
<1> DEFINE S == {k \in Nat : k <= n => f[k].locked = h[k].locked}
<1>6. 0 \in S
  BY <1>4
<1>7. ASSUME NEW k \in Nat, k \in S PROVE k + 1 \in S
  <2>1. SUFFICES ASSUME k + 1 <= n PROVE f[k + 1].locked = h[k + 1].locked
    OBVIOUS
  <2>2. k + 1 \in 1..n /\ (k + 1) - 1 = k /\ k <= n
    BY <1>3, <2>1
  <2>3. f[k].locked = h[k].locked
    BY <1>7, <2>2
  <2>4. QED
    BY <1>5, <2>2, <2>3
<1> HIDE DEF S
<1>8. n \in S
  BY <1>3, <1>6, <1>7, EachNatural
<1>9. f[n].locked = h[n].locked
  BY <1>3, <1>8 DEF S
<1>10. QED
  BY <1>3, <1>9

-----------------------------------------------------------------------------
(* Reading the list *)

\* The list refresh has built before it reads the locks.
ReadFrom(built, files, available) ==
  /\ ListOk(built) /\ Present(built) = available
  /\ built.enabled = [x \in available |-> x \in files.active \cup Forced]
  /\ ByPriority(built, ToSet(files.order)) = Among(files.order, available)

\* PluginList::refresh, up to there.
LEMMA RefreshReads ==
  ASSUME NEW list, ListOk(list), NEW files, OwnFiles(files),
         NEW available \in SUBSET Plugins, NEW force
  PROVE  \E built : /\ ReadFrom(built, files, available)
                   /\ RefreshPlugins(list, files, available, force) =
                        RefreshLoadOrder(ReadLockedOrder(built, files.locks))
<1> DEFINE kept == IF force THEN <<>> ELSE Among(list.rows, available)
           new == available \ ToSet(kept)
           rows == kept \o Ascending(new)
           priority == Priorities(SetLoadOrder(rows, files.order))
           enabled == [x \in available |-> x \in files.active \cup Forced]
           loadOrder == [x \in available |-> -1]
           built == [rows |-> rows, enabled |-> enabled, priority |-> priority,
                    loadOrder |-> loadOrder, locked |-> list.locked]
<1>1. RefreshPlugins(list, files, available, force) =
        RefreshLoadOrder(ReadLockedOrder(built, files.locks))
  BY Zenon DEF RefreshPlugins
<1>2. /\ files.order \in Seq(Plugins) /\ IsInjective(files.order) /\ OwnLocks(list.locked)
      /\ list.rows \in Seq(Plugins) /\ IsInjective(list.rows)
  BY ListFacts DEF OwnFiles, ListOk
<1>3. kept \in Seq(Plugins) /\ ToSet(kept) \subseteq available /\ IsInjective(kept)
  <2>1. <<>> \in Seq(Plugins) /\ ToSet(<<>>) = {} /\ IsInjective(<<>>)
    BY DEF ToSet, IsInjective
  <2> DEFINE a == Among(list.rows, available)
  <2>2. a \in Seq(Plugins) /\ IsInjective(a) /\ ToSet(a) = ToSet(list.rows) \cap available
    BY <1>2, AmongLists
  <2> HIDE DEF a
  <2>3. ToSet(a) \subseteq available
    BY <2>2
  <2>4. QED
    BY <2>1, <2>2, <2>3 DEF a
<1> HIDE DEF kept
<1>4. /\ Ascending(new) \in Seq(Plugins) /\ ToSet(Ascending(new)) = new
      /\ IsInjective(Ascending(new))
  <2>1. IsFiniteSet(new) /\ new \subseteq Int /\ new \subseteq Plugins
    <3>1. new \in SUBSET Plugins
      OBVIOUS
    <3> HIDE DEF new
    <3>2. IsFiniteSet(Plugins) /\ Plugins \subseteq Int
      BY PluginAssumption
    <3>3. IsFiniteSet(new)
      BY <3>1, <3>2, FS_Subset
    <3>4. QED
      BY <3>1, <3>2, <3>3
  <2> HIDE DEF new
  <2> DEFINE a == Ascending(new)
  <2>2. a \in Seq(new) /\ ToSet(a) = new /\ IsInjective(a)
    BY <2>1, AscendingLists
  <2> HIDE DEF a
  <2>3. /\ Len(a) \in Nat /\ a = [k \in 1..Len(a) |-> a[k]]
        /\ \A k \in 1..Len(a) : a[k] \in new
    BY <2>2
  <2>4. a \in Seq(Plugins)
    BY <2>1, <2>3
  <2>5. QED
    BY <2>2, <2>4 DEF a
<1>5. rows \in Seq(Plugins) /\ ToSet(rows) = available /\ IsInjective(rows)
  <2>1. ToSet(kept) \cap ToSet(Ascending(new)) = {} /\ ToSet(kept) \cup new = available
    BY <1>3, <1>4
  <2> HIDE DEF new
  <2>2. /\ rows \in Seq(Plugins) /\ ToSet(rows) = ToSet(kept) \cup ToSet(Ascending(new))
        /\ IsInjective(rows)
    BY <1>3, <1>4, <2>1, JoinedLists
  <2>3. QED
    BY <1>4, <2>1, <2>2
<1> HIDE DEF rows
<1>6. /\ priority \in [available -> 0..(Len(rows) - 1)]
      /\ \A x, y \in available : priority[x] = priority[y] => x = y
      /\ \A q \in 0..(Len(rows) - 1) : \E x \in available : priority[x] = q
      /\ SortedBy(ToSet(files.order) \cap available, priority) = Among(files.order, available)
  <2>1. /\ priority \in [ToSet(rows) -> 0..(Len(rows) - 1)]
        /\ \A x, y \in ToSet(rows) : priority[x] = priority[y] => x = y
        /\ \A q \in 0..(Len(rows) - 1) : \E x \in ToSet(rows) : priority[x] = q
        /\ SortedBy(ToSet(files.order) \cap ToSet(rows), priority) = Among(files.order, ToSet(rows))
    <3> DEFINE order == files.order
    <3>1. order \in Seq(Plugins) /\ IsInjective(order)
      BY <1>2
    <3> HIDE DEF order
    <3>2. QED
      BY <1>5, <3>1, LoadOrderLists DEF order
  <2> HIDE DEF priority
  <2>2. QED
    BY <1>5, <2>1
<1> HIDE DEF priority
<1>7. /\ enabled \in [available -> BOOLEAN] /\ loadOrder \in [available -> Int]
      /\ \A x \in available : loadOrder[x] = -1
  OBVIOUS
<1>8. /\ built.rows = rows /\ built.enabled = enabled /\ built.priority = priority
      /\ built.loadOrder = loadOrder /\ built.locked = list.locked
  OBVIOUS
<1>9. Len(rows) \in Nat
  BY <1>5
<1> HIDE DEF enabled, loadOrder
<1>10. built \in Lists
  <2>1. priority \in Numbers /\ loadOrder \in Numbers
    <3>1. priority \in [available -> Int]
      BY <1>6, <1>9
    <3>2. QED
      BY <1>7, <3>1 DEF Numbers
  <2>2. list.locked \in Numbers
    BY <1>2 DEF OwnLocks, Numbers
  <2>3. enabled \in UNION {[S -> BOOLEAN] : S \in SUBSET Plugins}
    BY <1>7
  <2>4. QED
    BY <1>5, <2>1, <2>2, <2>3 DEF Lists
<1> HIDE DEF built
<1>11. Present(built) = available /\ Size(built) = Len(rows)
  BY <1>6, <1>8 DEF Present, Size
<1>12. Arranged(built)
  BY <1>6, <1>8, <1>9, <1>10, <1>11 DEF Arranged
<1>13. loadOrder \in [available -> -1..(Len(rows) - 1)]
  <2>1. \A x \in available : loadOrder[x] \in -1..(Len(rows) - 1)
    BY <1>7, <1>9
  <2>2. QED
    BY <1>7, <2>1
<1>14. ListOk(built)
  BY <1>2, <1>5, <1>7, <1>8, <1>11, <1>12, <1>13 DEF ListOk
<1>15. ByPriority(built, ToSet(files.order)) = Among(files.order, available)
  BY <1>6, <1>8, <1>11 DEF ByPriority
<1>16. ReadFrom(built, files, available)
  BY <1>8, <1>11, <1>14, <1>15 DEF ReadFrom, enabled
<1>17. QED
  BY <1>1, <1>16 DEF built

\* What refresh leaves: the plugins that are available, enabled as the files say,
\* and, if no lock moved one, as the files have them.
LEMMA RefreshedOk ==
  ASSUME NEW list, ListOk(list), NEW files, OwnFiles(files),
         NEW available \in SUBSET Plugins, NEW force
  PROVE  LET r == RefreshPlugins(list, files, available, force)
         IN  /\ ListOk(r.list) /\ Present(r.list) = available /\ r.moved \in BOOLEAN
             /\ r.list.enabled = [x \in available |-> x \in files.active \cup Forced]
             /\ ~r.moved =>
                  /\ ByPriority(r.list, ToSet(files.order)) = Among(files.order, available)
                  /\ r.list.locked = ReadLockedOrder(r.list, files.locks).locked
<1> DEFINE r == RefreshPlugins(list, files, available, force)
<1>1. PICK built : ReadFrom(built, files, available) /\
                  r = RefreshLoadOrder(ReadLockedOrder(built, files.locks))
  BY RefreshReads
<1>2. /\ ListOk(built) /\ Present(built) = available /\ OwnLocks(files.locks)
      /\ built.enabled = [x \in available |-> x \in files.active \cup Forced]
      /\ ByPriority(built, ToSet(files.order)) = Among(files.order, available)
  BY <1>1 DEF ReadFrom, OwnFiles
<1> HIDE DEF r
<1> DEFINE l == ReadLockedOrder(built, files.locks)
<1>3. /\ ListOk(l) /\ Present(l) = Present(built) /\ l.rows = built.rows
      /\ l.enabled = built.enabled /\ l.priority = built.priority
  BY <1>2, LocksReadOk
<1>4. r = RefreshLoadOrder(l)
  BY <1>1
<1> DEFINE locks == l.locked
<1>5. locks = ReadLockedOrder(built, files.locks).locked
  OBVIOUS
<1> HIDE DEF l, locks
<1>6. /\ ListOk(r.list) /\ SameRows(l, r.list) /\ r.moved \in BOOLEAN
      /\ ~r.moved => r.list.priority = l.priority
  BY <1>3, <1>4, LoadOrderOk
<1>7. /\ Present(r.list) = available /\ r.list.rows = built.rows
      /\ r.list.enabled = built.enabled /\ r.list.locked = locks
  BY <1>2, <1>3, <1>6 DEF SameRows, locks
<1>8. ASSUME ~r.moved
      PROVE  /\ ByPriority(r.list, ToSet(files.order)) = Among(files.order, available)
             /\ r.list.locked = ReadLockedOrder(r.list, files.locks).locked
  <2>1. r.list.priority = built.priority
    BY <1>3, <1>6, <1>8
  <2>2. ByPriority(r.list, ToSet(files.order)) = ByPriority(built, ToSet(files.order))
    BY <1>2, <1>7, <2>1 DEF ByPriority
  <2>3. ReadLockedOrder(r.list, files.locks).locked = locks
    BY <1>2, <1>5, <1>6, <1>7, <2>1, LocksReadAlike
  <2>4. QED
    BY <1>2, <1>7, <2>2, <2>3
<1>9. QED
  BY <1>2, <1>6, <1>7, <1>8 DEF r

-----------------------------------------------------------------------------
(* What OrganizerCore keeps *)

FileSet == [order : Seq(Plugins), active : SUBSET Plugins, locks : Numbers]

CoreSet ==
  [list : Lists, files : FileSet, available : SUBSET Plugins, update : BOOLEAN,
   tasks : Seq({"save", "refresh", "reload"}), pending : BOOLEAN, unannounced : BOOLEAN]

CoreOk(c) == c \in CoreSet /\ ListOk(c.list) /\ OwnFiles(c.files)

\* ChangesReachFiles of a core.
Reaches(c) ==
  c.list = NoPlugins \/ InFiles(c) \/ c.pending \/ c.tasks # <<>> \/ c.unannounced

\* Cores that differ in the list and what is to be written.
OnlyListOf(c, d) ==
  /\ d = [list |-> d.list, files |-> c.files, available |-> c.available, update |-> c.update,
          tasks |-> c.tasks, pending |-> d.pending, unannounced |-> d.unannounced]
  /\ d.pending \in BOOLEAN /\ d.unannounced \in BOOLEAN

\* A task that is put off.
LEMMA TaskAdded ==
  ASSUME NEW T, NEW s \in Seq(T), NEW e \in T
  PROVE  Append(s, e) \in Seq(T) /\ Append(s, e) # <<>>
<1>1. Append(s, e) \in Seq(T) /\ Len(Append(s, e)) = Len(s) + 1 /\ Len(s) \in Nat
  OBVIOUS
<1>2. Len(<<>>) = 0
  OBVIOUS
<1>3. QED
  BY <1>1, <1>2

\* What is typed as files.
LEMMA FilesTyped ==
  ASSUME NEW files, OwnFiles(files)
  PROVE  files \in FileSet
<1>1. /\ files = [order |-> files.order, active |-> files.active, locks |-> files.locks]
      /\ files.order \in Seq(Plugins) /\ files.active \in SUBSET Plugins
  BY DEF OwnFiles
<1>2. files.locks \in Numbers
  BY DEF OwnFiles, OwnLocks, Numbers
<1>3. QED
  BY <1>1, <1>2 DEF FileSet

LEMMA NoPluginsOk == ListOk(NoPlugins) /\ Present(NoPlugins) = {} /\ NoPlugins.rows = <<>>
<1>1. /\ NoPlugins.rows = <<>> /\ NoPlugins.enabled = <<>> /\ NoPlugins.priority = <<>>
      /\ NoPlugins.loadOrder = <<>> /\ NoPlugins.locked = <<>>
  BY DEF NoPlugins
<1>2. DOMAIN <<>> = {} /\ <<>> \in [{} -> Int] /\ <<>> \in [{} -> BOOLEAN] /\ <<>> \in Seq(Plugins)
  OBVIOUS
<1>3. NoPlugins \in Lists
  <2>1. <<>> \in Numbers
    BY <1>2 DEF Numbers
  <2>2. <<>> \in UNION {[S -> BOOLEAN] : S \in SUBSET Plugins}
    BY <1>2
  <2>3. QED
    BY <1>2, <2>1, <2>2 DEF Lists, NoPlugins
<1>4. Present(NoPlugins) = {} /\ Size(NoPlugins) = 0
  BY <1>1 DEF Present, Size
<1>5. <<>> \in [{} -> 0..(0 - 1)] /\ <<>> \in [{} -> -1..(0 - 1)] /\ 0..(0 - 1) = {}
  OBVIOUS
<1>6. Arranged(NoPlugins)
  BY <1>1, <1>3, <1>4, <1>5 DEF Arranged
<1>7. ToSet(<<>>) = {} /\ IsInjective(<<>>) /\ OwnLocks(<<>>)
  BY <1>2 DEF ToSet, IsInjective, OwnLocks
<1>8. ListOk(NoPlugins)
  BY <1>1, <1>2, <1>4, <1>5, <1>6, <1>7 DEF ListOk
<1>9. QED
  BY <1>1, <1>4, <1>8

\* What saveTo writes of a list is what the list shows.
LEMMA SavedFiles ==
  ASSUME NEW list, ListOk(list)
  PROVE  LET files == SavedPlugins(list)
         IN  /\ OwnFiles(files) /\ ToSet(files.order) = Present(list)
             /\ files.locks = list.locked
             /\ files.active = {x \in Present(list) : list.enabled[x]}
             /\ \A S : Among(files.order, S) = ByPriority(list, S)
<1> DEFINE files == SavedPlugins(list)
           S0 == Present(list)
<1>1. /\ files = [order |-> files.order, active |-> files.active, locks |-> files.locks]
      /\ files.order = Order(list) /\ files.locks = list.locked
      /\ files.active = {x \in S0 : list.enabled[x]}
  BY DEF SavedPlugins
<1>2. S0 \in SUBSET Plugins /\ Keys(S0, list.priority) /\ OwnLocks(list.locked)
  BY ListFacts DEF ListOk
<1> DEFINE o == ByPriority(list, S0)
<1>3. /\ o \in Seq(S0) /\ Len(o) \in Nat
      /\ ToSet(o) = S0 \cap S0 /\ IsInjective(o)
  BY ByPriorityLists
<1>4. o = SortedBy(S0, list.priority)
  BY DEF ByPriority
<1>5. \A S : Among(o, S) = ByPriority(list, S)
  <2>1. SUFFICES ASSUME NEW S PROVE Among(o, S) = ByPriority(list, S)
    OBVIOUS
  <2> DEFINE key == list.priority
  <2>2. Keys(S0, key) /\ o = SortedBy(S0, key)
    BY <1>2, <1>4
  <2> HIDE DEF key, o, S0
  <2>3. Among(o, S) = SortedBy(S0 \cap S, key)
    BY <2>2, AmongSorted
  <2>4. S0 \cap S = S \cap S0
    OBVIOUS
  <2>5. QED
    BY <2>3, <2>4 DEF ByPriority, key, S0
<1> HIDE DEF o
<1>6. o \in Seq(Plugins)
  <2>1. /\ o = [k \in 1..Len(o) |-> o[k]] /\ \A k \in 1..Len(o) : o[k] \in S0
    BY <1>3
  <2>2. \A k \in 1..Len(o) : o[k] \in Plugins
    BY <1>2, <2>1
  <2>3. QED
    BY <1>3, <2>1, <2>2
<1>7. files.order = o
  BY <1>1 DEF Order, o
<1>8. files.active \subseteq Plugins
  BY <1>1, <1>2
<1> HIDE DEF files
<1>9. OwnFiles(files)
  BY <1>1, <1>2, <1>3, <1>6, <1>7, <1>8 DEF OwnFiles
<1>10. QED
  BY <1>1, <1>3, <1>5, <1>7, <1>9 DEF files

\* OrganizerCore::savePluginList: put off while an update goes on.
LEMMA SavedOk ==
  ASSUME NEW c, CoreOk(c)
  PROVE  LET d == SavePluginList(c)
         IN  /\ CoreOk(d) /\ Reaches(d)
             /\ d.list = c.list /\ d.available = c.available /\ d.update = c.update
             /\ d.pending = c.pending
             /\ c.update => d.files = c.files /\ d.tasks = Append(c.tasks, "save") /\ d.tasks # <<>>
             /\ ~c.update => /\ d.files = SavedPlugins(c.list) /\ d.tasks = c.tasks /\ InFiles(d)
                             /\ ToSet(d.files.order) = Present(c.list)
<1> DEFINE d == SavePluginList(c)
           saved == SavedPlugins(c.list)
           tasks == Append(c.tasks, "save")
<1>0. /\ c \in CoreSet /\ ListOk(c.list) /\ OwnFiles(c.files)
      /\ c.tasks \in Seq({"save", "refresh", "reload"})
  BY DEF CoreOk, CoreSet
<1>1. OwnFiles(saved) /\ ToSet(saved.order) = Present(c.list)
      /\ saved.locks = c.list.locked /\ saved.active = {x \in Present(c.list) : c.list.enabled[x]}
      /\ Among(saved.order, Present(c.list)) = ByPriority(c.list, Present(c.list))
  BY <1>0, SavedFiles
<1>2. saved \in FileSet
  BY <1>1, FilesTyped
<1>3. tasks \in Seq({"save", "refresh", "reload"}) /\ tasks # <<>>
  BY <1>0, TaskAdded
<1> HIDE DEF saved, tasks
<1>4. CASE c.update
  <2>1. d = [list |-> c.list, files |-> c.files, available |-> c.available, update |-> c.update,
             tasks |-> tasks, pending |-> c.pending, unannounced |-> c.unannounced]
    BY <1>0, <1>4 DEF SavePluginList, CoreSet, tasks
  <2> HIDE DEF d
  <2>2. CoreOk(d) /\ Reaches(d)
    BY <1>0, <1>3, <2>1 DEF CoreOk, CoreSet, Reaches
  <2>3. QED
    BY <1>3, <1>4, <2>1, <2>2 DEF d, tasks
<1>5. CASE ~c.update
  <2>1. d = [list |-> c.list, files |-> saved, available |-> c.available, update |-> c.update,
             tasks |-> c.tasks, pending |-> c.pending, unannounced |-> FALSE]
    BY <1>0, <1>5 DEF SavePluginList, CoreSet, saved
  <2> HIDE DEF d
  <2>2. CoreOk(d)
    BY <1>0, <1>1, <1>2, <2>1 DEF CoreOk, CoreSet
  <2>3. InFiles(d)
    BY <1>1, <2>1 DEF InFiles
  <2>4. QED
    BY <1>1, <1>5, <2>1, <2>2, <2>3 DEF d, Reaches, saved
<1>6. QED
  BY <1>0, <1>4, <1>5 DEF CoreSet

\* OrganizerCore::refreshESPList: put off as well.
LEMMA ESPListOk ==
  ASSUME NEW c, CoreOk(c), NEW force
  PROVE  LET d == RefreshESPList(c, force)
         IN  /\ CoreOk(d) /\ Reaches(d)
             /\ d.files = c.files /\ d.available = c.available /\ d.update = c.update
             /\ c.update => d.list = c.list /\ d.tasks # <<>>
             /\ ~c.update => /\ Present(d.list) = c.available /\ d.tasks = c.tasks
                             /\ d.list = RefreshPlugins(c.list, c.files, c.available, force).list
                             /\ InFiles(d) \/ d.pending
<1> DEFINE d == RefreshESPList(c, force)
           r == RefreshPlugins(c.list, c.files, c.available, force)
           task == IF force THEN "reload" ELSE "refresh"
           tasks == Append(c.tasks, task)
           pending == c.pending \/ r.moved
<1>0. /\ c \in CoreSet /\ ListOk(c.list) /\ OwnFiles(c.files) /\ c.available \in SUBSET Plugins
      /\ c.tasks \in Seq({"save", "refresh", "reload"}) /\ c.pending \in BOOLEAN
  BY DEF CoreOk, CoreSet
<1>1. tasks \in Seq({"save", "refresh", "reload"}) /\ tasks # <<>>
  <2>1. task \in {"save", "refresh", "reload"}
    OBVIOUS
  <2>2. QED
    BY <1>0, <2>1, TaskAdded
<1> HIDE DEF tasks
<1>2. CASE c.update
  <2>1. d = [c EXCEPT !.tasks = tasks]
    BY <1>2 DEF RefreshESPList, tasks
  <2>2. d = [list |-> c.list, files |-> c.files, available |-> c.available, update |-> c.update,
             tasks |-> tasks, pending |-> c.pending, unannounced |-> c.unannounced]
    BY <1>0, <2>1 DEF CoreSet
  <2> HIDE DEF d
  <2>3. CoreOk(d) /\ Reaches(d)
    BY <1>0, <1>1, <2>2 DEF CoreOk, CoreSet, Reaches
  <2>4. QED
    BY <1>1, <1>2, <2>2, <2>3 DEF d
<1>3. CASE ~c.update
  <2>1. /\ ListOk(r.list) /\ Present(r.list) = c.available /\ r.moved \in BOOLEAN
        /\ r.list.enabled = [x \in c.available |-> x \in c.files.active \cup Forced]
        /\ ~r.moved =>
             /\ ByPriority(r.list, ToSet(c.files.order)) = Among(c.files.order, c.available)
             /\ r.list.locked = ReadLockedOrder(r.list, c.files.locks).locked
    BY <1>0, RefreshedOk
  <2>2. r.list \in Lists
    BY <2>1 DEF ListOk, Arranged
  <2>3. pending \in BOOLEAN /\ (pending = FALSE => ~r.moved)
    BY <1>0, <2>1
  <2>4. d = [c EXCEPT !.list = r.list, !.pending = pending, !.unannounced = FALSE]
    BY <1>3, Zenon DEF RefreshESPList
  <2> HIDE DEF r, pending
  <2>5. d = [list |-> r.list, files |-> c.files, available |-> c.available, update |-> c.update,
             tasks |-> c.tasks, pending |-> pending, unannounced |-> FALSE]
    BY <1>0, <2>4 DEF CoreSet
  <2> HIDE DEF d
  <2>6. CoreOk(d)
    BY <1>0, <2>1, <2>2, <2>3, <2>5 DEF CoreOk, CoreSet
  <2>7. ASSUME pending = FALSE PROVE InFiles(d)
    <3>1. /\ ByPriority(r.list, ToSet(c.files.order)) = Among(c.files.order, c.available)
          /\ r.list.locked = ReadLockedOrder(r.list, c.files.locks).locked
      BY <2>1, <2>3, <2>7
    <3>2. \A x \in c.available \ Forced : r.list.enabled[x] <=> x \in c.files.active
      BY <2>1
    <3>3. d.list = r.list /\ d.files = c.files
      BY <2>5
    <3>4. QED
      BY <2>1, <3>1, <3>2, <3>3 DEF InFiles
  <2>8. InFiles(d) \/ d.pending
    BY <2>3, <2>5, <2>7
  <2>9. QED
    BY <1>3, <2>1, <2>5, <2>6, <2>8 DEF d, r, Reaches
<1>4. QED
  BY <1>0, <1>2, <1>3 DEF CoreSet

\* What no command makes false: the plugins shown are the ones before or those of
\* the structure, and so are the ones in the files if they are written at all;
\* while an update goes on neither changes.
Follows(c, d) ==
  /\ CoreOk(d) /\ Reaches(d) /\ d.update = c.update /\ d.available = c.available
  /\ Present(d.list) = Present(c.list) \/ (~c.update /\ Present(d.list) = c.available)
  /\ \/ ToSet(d.files.order) = ToSet(c.files.order)
     \/ ~c.update /\ (\/ ToSet(d.files.order) = Present(c.list)
                      \/ ToSet(d.files.order) = c.available)

LEMMA FollowsOn ==
  ASSUME NEW c, NEW d, NEW e, Follows(c, d), Follows(d, e)
  PROVE  Follows(c, e)
<1>1. /\ CoreOk(e) /\ Reaches(e) /\ e.update = c.update /\ e.available = c.available
      /\ d.update = c.update /\ d.available = c.available
  BY DEF Follows
<1>2. Present(e.list) = Present(c.list) \/ (~c.update /\ Present(e.list) = c.available)
  BY DEF Follows
<1>3. \/ ToSet(e.files.order) = ToSet(c.files.order)
      \/ ~c.update /\ (\/ ToSet(e.files.order) = Present(c.list)
                       \/ ToSet(e.files.order) = c.available)
  BY DEF Follows
<1>4. QED
  BY <1>1, <1>2, <1>3 DEF Follows

LEMMA SaveFollows ==
  ASSUME NEW c, CoreOk(c)
  PROVE  Follows(c, SavePluginList(c))
<1> DEFINE d == SavePluginList(c)
<1>1. /\ CoreOk(d) /\ Reaches(d) /\ d.list = c.list /\ d.update = c.update
      /\ d.available = c.available
      /\ c.update => d.files = c.files
      /\ ~c.update => ToSet(d.files.order) = Present(c.list)
  BY SavedOk
<1> HIDE DEF d
<1>2. Follows(c, d)
  BY <1>1 DEF Follows
<1>3. QED
  BY <1>2 DEF d

LEMMA RefreshFollows ==
  ASSUME NEW c, CoreOk(c), NEW force
  PROVE  LET d == RefreshESPList(c, force)
         IN Follows(c, d) /\ (~c.update => Present(d.list) = c.available)
<1> DEFINE d == RefreshESPList(c, force)
<1>1. /\ CoreOk(d) /\ Reaches(d) /\ d.update = c.update
      /\ d.available = c.available /\ d.files = c.files
      /\ c.update => d.list = c.list
      /\ ~c.update => Present(d.list) = c.available
  BY ESPListOk
<1> HIDE DEF d
<1>2. Follows(c, d)
  BY <1>1 DEF Follows
<1>3. QED
  BY <1>1, <1>2 DEF d

\* OrganizerCore::saveCurrentLists.
LEMMA CurrentListsSaved ==
  ASSUME NEW c, CoreOk(c), Reaches(c)
  PROVE  Follows(c, SaveCurrentLists(c))
<1>1. Follows(c, c)
  BY DEF Follows
<1>2. QED
  BY <1>1, SaveFollows DEF SaveCurrentLists

\* OrganizerCore::refreshLists.
LEMMA ListsRefreshed ==
  ASSUME NEW c, CoreOk(c), Reaches(c)
  PROVE  LET d == RefreshLists(c)
         IN  /\ Follows(c, d)
             /\ ~c.update /\ c.available # {} => Present(d.list) = c.available
<1>1. Follows(c, c)
  BY DEF Follows
<1>2. QED
  BY <1>1, RefreshFollows DEF RefreshLists

\* A list with the same plugins, to be written or not announced.
LEMMA ListChanged ==
  ASSUME NEW c, CoreOk(c), NEW d, OnlyListOf(c, d),
         ListOk(d.list), Present(d.list) = Present(c.list)
  PROVE  /\ CoreOk(d) /\ (d.pending \/ d.unannounced => Follows(c, d))
         /\ d.update = c.update /\ d.available = c.available /\ d.files = c.files
         /\ d.tasks = c.tasks
<1>1. c \in CoreSet /\ d.list \in Lists
  BY DEF CoreOk, ListOk, Arranged
<1>2. /\ d = [list |-> d.list, files |-> c.files, available |-> c.available, update |-> c.update,
              tasks |-> c.tasks, pending |-> d.pending, unannounced |-> d.unannounced]
      /\ d.pending \in BOOLEAN /\ d.unannounced \in BOOLEAN
  BY DEF OnlyListOf
<1>3. CoreOk(d)
  BY <1>1, <1>2 DEF CoreOk, CoreSet
<1>4. d.pending \/ d.unannounced => Follows(c, d)
  BY <1>2, <1>3 DEF Follows, Reaches
<1>5. QED
  BY <1>2, <1>3, <1>4

\* A change and refreshLoadOrder, with the signal.
LEMMA ReorderFollows ==
  ASSUME NEW c, CoreOk(c), NEW list, ListOk(list), Present(list) = Present(c.list)
  PROVE  Follows(c, Reordered(c, list))
<1> DEFINE after == RefreshLoadOrder(list).list
<1>1. ListOk(after) /\ Present(after) = Present(c.list)
  BY LoadOrderOk DEF SameRows
<1>2. c \in CoreSet
  BY DEF CoreOk
<1>3. Reordered(c, list) = [c EXCEPT !.list = after, !.pending = TRUE]
  BY DEF Reordered
<1> HIDE DEF after
<1> DEFINE d == [c EXCEPT !.list = after, !.pending = TRUE]
<1>4. OnlyListOf(c, d) /\ d.list = after /\ d.pending
  <2>1. d = [c EXCEPT !.list = after, !.pending = TRUE]
    OBVIOUS
  <2> HIDE DEF d
  <2>2. d = [list |-> after, files |-> c.files, available |-> c.available, update |-> c.update,
             tasks |-> c.tasks, pending |-> TRUE, unannounced |-> c.unannounced]
    BY <1>2, <2>1 DEF CoreSet
  <2>3. QED
    BY <1>2, <2>2 DEF CoreSet, OnlyListOf
<1> HIDE DEF d
<1>5. Follows(c, d)
  BY <1>1, <1>4, ListChanged
<1>6. QED
  BY <1>3, <1>5 DEF d

\* Plugins that are enabled or disabled.
LEMMA EnabledOk ==
  ASSUME NEW list, ListOk(list), NEW enabled \in [Present(list) -> BOOLEAN]
  PROVE  LET after == [list EXCEPT !.enabled = enabled]
         IN ListOk(after) /\ Present(after) = Present(list)
<1> DEFINE after == [list EXCEPT !.enabled = enabled]
<1>1. ListIs(list) /\ Present(list) \subseteq Plugins /\ list \in Lists
  BY ListFacts DEF ListOk, Arranged
<1>2. after = [rows |-> list.rows, enabled |-> enabled, priority |-> list.priority,
               loadOrder |-> list.loadOrder, locked |-> list.locked]
  BY <1>1 DEF ListIs
<1>3. enabled \in UNION {[S -> BOOLEAN] : S \in SUBSET Plugins}
  BY <1>1
<1> HIDE DEF after
<1>4. after \in Lists
  BY <1>1, <1>2, <1>3 DEF Lists
<1>5. Present(after) = Present(list) /\ Size(after) = Size(list)
  BY <1>2 DEF Present, Size
<1>6. Arranged(after)
  BY <1>2, <1>4, <1>5 DEF Arranged, ListOk
<1>7. ListOk(after)
  BY <1>2, <1>5, <1>6 DEF ListOk
<1>8. QED
  BY <1>5, <1>7 DEF after

LEMMA SwitchedOk ==
  ASSUME NEW list, ListOk(list), NEW plugins, NEW on \in BOOLEAN
  PROVE  ListOk(Switched(list, plugins, on)) /\ Present(Switched(list, plugins, on)) = Present(list)
<1> DEFINE enabled == [x \in DOMAIN list.enabled |->
                         IF x \in plugins THEN on \/ x \in Forced ELSE list.enabled[x]]
<1>1. list.enabled \in [Present(list) -> BOOLEAN]
  BY DEF ListOk
<1>2. enabled \in [Present(list) -> BOOLEAN]
  <2>1. \A x \in Present(list) : enabled[x] \in BOOLEAN
    BY <1>1, Zenon
  <2>2. DOMAIN list.enabled = Present(list)
    BY <1>1
  <2>3. DOMAIN enabled = Present(list) /\ enabled = [x \in DOMAIN enabled |-> enabled[x]]
    BY <2>2
  <2>4. QED
    BY <2>1, <2>3
<1>3. ListIs(list)
  BY ListFacts
<1>4. Switched(list, plugins, on) = [list EXCEPT !.enabled = enabled]
  BY <1>3 DEF Switched, ListIs
<1> HIDE DEF enabled
<1>5. QED
  BY <1>2, <1>4, EnabledOk

\* OrganizerCore::updateModsActiveState.
LEMMA ActiveStateFollows ==
  ASSUME NEW c, CoreOk(c), NEW plugins, NEW on \in BOOLEAN
  PROVE  Follows(c, UpdateModsActiveState(c, plugins, on))
<1> DEFINE switched == Switched(c.list, plugins \cap c.available, on)
           after == RefreshLoadOrder(switched).list
           d == [[c EXCEPT !.list = after] EXCEPT !.pending = FALSE]
<1>1. c \in CoreSet /\ ListOk(c.list) /\ c.unannounced \in BOOLEAN
  BY DEF CoreOk, CoreSet
<1>2. ListOk(switched) /\ Present(switched) = Present(c.list)
  BY <1>1, SwitchedOk
<1>3. ListOk(after) /\ Present(after) = Present(c.list)
  BY <1>2, LoadOrderOk DEF SameRows
<1>4. UpdateModsActiveState(c, plugins, on) =
        SavePluginList([[c EXCEPT !.list = after] EXCEPT !.pending = FALSE])
  BY DEF UpdateModsActiveState, WriteImmediately
<1> HIDE DEF after
<1>5. OnlyListOf(c, d) /\ d.list = after
  <2>1. d = [[c EXCEPT !.list = after] EXCEPT !.pending = FALSE]
    OBVIOUS
  <2> HIDE DEF d
  <2>2. d = [list |-> after, files |-> c.files, available |-> c.available, update |-> c.update,
             tasks |-> c.tasks, pending |-> FALSE, unannounced |-> c.unannounced]
    BY <1>1, <2>1 DEF CoreSet
  <2>3. QED
    BY <1>1, <2>2 DEF OnlyListOf
<1> HIDE DEF d
<1>6. /\ CoreOk(d) /\ d.update = c.update /\ d.available = c.available /\ d.files = c.files
  BY <1>3, <1>5, ListChanged
<1>7. Follows(d, SavePluginList(d))
  BY <1>6, SaveFollows
<1>8. Follows(c, SavePluginList(d))
  BY <1>3, <1>5, <1>6, <1>7 DEF Follows
<1>9. QED
  BY <1>4, <1>8 DEF d

\* DelayedFileWriterBase::writeImmediately.
LEMMA WriteFollows ==
  ASSUME NEW c, CoreOk(c)
  PROVE  Follows(c, WriteImmediately(c))
<1> DEFINE d == [c EXCEPT !.pending = FALSE]
<1>1. c \in CoreSet /\ ListOk(c.list) /\ c.unannounced \in BOOLEAN
  BY DEF CoreOk, CoreSet
<1>2. OnlyListOf(c, d) /\ d.list = c.list
  <2>1. d = [c EXCEPT !.pending = FALSE]
    OBVIOUS
  <2> HIDE DEF d
  <2>2. d = [list |-> c.list, files |-> c.files, available |-> c.available, update |-> c.update,
             tasks |-> c.tasks, pending |-> FALSE, unannounced |-> c.unannounced]
    BY <1>1, <2>1 DEF CoreSet
  <2>3. QED
    BY <1>1, <2>2 DEF OnlyListOf
<1> HIDE DEF d
<1>3. /\ CoreOk(d) /\ d.update = c.update /\ d.available = c.available /\ d.files = c.files
  BY <1>1, <1>2, ListChanged
<1>4. Follows(d, SavePluginList(d))
  BY <1>3, SaveFollows
<1>5. Follows(c, SavePluginList(d))
  BY <1>2, <1>3, <1>4 DEF Follows
<1>6. QED
  BY <1>5 DEF WriteImmediately, d

-----------------------------------------------------------------------------
(* The commands *)

\* What every step keeps: while no update goes on, the plugins of the mods that
\* are enabled, and that the refresher was given, are there and shown.
ListInv ==
  /\ CoreOk(core) /\ Reaches(core)
  /\ mods \subseteq Plugins /\ read \subseteq Plugins
  /\ OwnFiles(backup) \/ backup = NoBackup
  /\ ~core.update => mods \cap read \subseteq core.available \cap Present(core.list)

\* FilesKeepPlugins of a step.
KeepsPlugins ==
  \A x \in ToSet(core.files.order) \ ToSet(core'.files.order) :
    x \notin mods' \cap read \/ core'.files = backup \/ SavedUnseen(x)

\* A step that does with the core what commands do.
FollowsStep ==
  /\ Follows(core, core') /\ UNCHANGED <<mods, read>>
  /\ UNCHANGED backup \/ OwnFiles(backup')

LEMMA FollowsKeeps ==
  ASSUME ListInv, FollowsStep
  PROVE  ListInv' /\ KeepsPlugins
<1>1. /\ CoreOk(core') /\ Reaches(core') /\ core'.update = core.update
      /\ core'.available = core.available
      /\ Present(core'.list) = Present(core.list)
           \/ (~core.update /\ Present(core'.list) = core.available)
      /\ \/ ToSet(core'.files.order) = ToSet(core.files.order)
         \/ ~core.update /\ (\/ ToSet(core'.files.order) = Present(core.list)
                             \/ ToSet(core'.files.order) = core.available)
  BY DEF FollowsStep, Follows
<1>2. /\ mods' = mods /\ read' = read
      /\ OwnFiles(backup') \/ backup' = NoBackup
      /\ mods \subseteq Plugins /\ read \subseteq Plugins
  BY DEF FollowsStep, ListInv
<1>3. ~core.update => /\ mods \cap read \subseteq core.available
                      /\ mods \cap read \subseteq Present(core.list)
  BY DEF ListInv
<1>4. ~core'.update => mods' \cap read' \subseteq core'.available \cap Present(core'.list)
  BY <1>1, <1>2, <1>3
<1>5. ListInv'
  BY <1>1, <1>2, <1>4 DEF ListInv
<1>6. KeepsPlugins
  BY <1>1, <1>2, <1>3 DEF KeepsPlugins
<1>7. QED
  BY <1>5, <1>6

LEMMA CommandKeeps ==
  ASSUME ListInv, NEW c, Command(c), Follows(core, c)
  PROVE  ListInv' /\ KeepsPlugins
<1>1. FollowsStep
  BY DEF Command, FollowsStep
<1>2. QED
  BY <1>1, FollowsKeeps

\* The boxes of the list: toggleState.
LEMMA ToggleKeeps ==
  ASSUME ListInv, NEW x \in Shown, ToggleState(x)
  PROVE  ListInv' /\ KeepsPlugins
<1>1. CoreOk(core) /\ ListOk(core.list)
  BY DEF ListInv, CoreOk
<1> DEFINE on == ~core.list.enabled[x]
           list == Switched(core.list, {x}, on)
<1>2. on \in BOOLEAN
  BY DEF Shown
<1>3. ListOk(list) /\ Present(list) = Present(core.list)
  <2> HIDE DEF on
  <2>1. QED
    BY <1>1, <1>2, SwitchedOk
<1>4. Command(Reordered(core, list))
  BY DEF ToggleState
<1> HIDE DEF list
<1>5. QED
  BY <1>1, <1>3, <1>4, ReorderFollows, CommandKeeps

\* PluginList::setEnabled.
LEMMA SetEnabledKeeps ==
  ASSUME ListInv, NEW xs, NEW on \in BOOLEAN, SetEnabled(xs, on)
  PROVE  ListInv' /\ KeepsPlugins
<1>1. CoreOk(core) /\ ListOk(core.list) /\ core \in CoreSet
  BY DEF ListInv, CoreOk
<1> DEFINE old == core.list.enabled
           enabled == [x \in DOMAIN old |-> IF x \in xs THEN on ELSE old[x]]
           list == [core.list EXCEPT !.enabled = enabled]
           d == [core EXCEPT !.list = list, !.pending = TRUE]
<1>2. old \in [Present(core.list) -> BOOLEAN]
  BY <1>1 DEF ListOk
<1>3. enabled \in [Present(core.list) -> BOOLEAN]
  <2> HIDE DEF old
  <2>1. \A x \in Present(core.list) : enabled[x] \in BOOLEAN
    BY <1>2, Zenon
  <2>2. DOMAIN old = Present(core.list)
    BY <1>2
  <2>3. DOMAIN enabled = Present(core.list) /\ enabled = [x \in DOMAIN enabled |-> enabled[x]]
    BY <2>2
  <2>4. QED
    BY <2>1, <2>3
<1>4. Command(d)
  <2>1. ListIs(core.list)
    BY <1>1, ListFacts
  <2>2. Command([core EXCEPT !.list.enabled = enabled, !.pending = TRUE])
    BY DEF SetEnabled
  <2> HIDE DEF enabled
  <2>3. [core EXCEPT !.list.enabled = enabled, !.pending = TRUE] = d
    BY <1>1, <2>1 DEF CoreSet, ListIs
  <2>4. QED
    BY <2>2, <2>3
<1> HIDE DEF enabled
<1>5. ListOk(list) /\ Present(list) = Present(core.list)
  BY <1>1, <1>3, EnabledOk
<1> HIDE DEF list
<1>6. OnlyListOf(core, d) /\ d.list = list /\ d.pending
  <2>1. d = [core EXCEPT !.list = list, !.pending = TRUE]
    OBVIOUS
  <2> HIDE DEF d
  <2>2. d = [list |-> list, files |-> core.files, available |-> core.available,
             update |-> core.update, tasks |-> core.tasks, pending |-> TRUE,
             unannounced |-> core.unannounced]
    BY <1>1, <2>1 DEF CoreSet
  <2>3. QED
    BY <1>1, <2>2 DEF CoreSet, OnlyListOf
<1> HIDE DEF d
<1>7. Follows(core, d)
  BY <1>1, <1>5, <1>6, ListChanged
<1>8. QED
  BY <1>4, <1>7, CommandKeeps

\* The commands that move plugins by changePluginPriority and setPluginPriority.
LEMMA MoveKeeps ==
  ASSUME ListInv, NEW xs, NEW target \in 0..Size(core.list), MovePlugins(xs, target)
  PROVE  ListInv' /\ KeepsPlugins
<1>1. CoreOk(core) /\ ListOk(core.list)
  BY DEF ListInv, CoreOk
<1> DEFINE list == ChangePluginPriority(core.list, xs, target)
<1>2. ListOk(list) /\ Present(list) = Present(core.list)
  BY <1>1, ChangedOk DEF SameRows
<1>3. Command(Reordered(core, list))
  BY DEF MovePlugins
<1> HIDE DEF list
<1>4. QED
  BY <1>1, <1>2, <1>3, ReorderFollows, CommandKeeps

LEMMA SetPriorityKeeps ==
  ASSUME ListInv, NEW x \in Shown, NEW p \in 0..Size(core.list) - 1, SetPriority(x, p)
  PROVE  ListInv' /\ KeepsPlugins
<1>1. CoreOk(core) /\ ListOk(core.list)
  BY DEF ListInv, CoreOk
<1> DEFINE target == IF core.list.priority[x] < p THEN p + 1 ELSE p
           list == ChangePluginPriority(core.list, {x}, target)
<1>2. target \in 0..Size(core.list)
  BY <1>1, ListFacts
<1>3. Command(Reordered(core, list))
  BY DEF SetPriority
<1> HIDE DEF target
<1>4. ListOk(list) /\ Present(list) = Present(core.list)
  BY <1>1, <1>2, ChangedOk DEF SameRows
<1> HIDE DEF list
<1>5. QED
  BY <1>1, <1>3, <1>4, ReorderFollows, CommandKeeps

LEMMA EditKeeps ==
  ASSUME ListInv, NEW x \in Shown, NEW p \in Int, EditPriority(x, p)
  PROVE  ListInv' /\ KeepsPlugins
<1>1. CoreOk(core) /\ ListOk(core.list) /\ x \in Present(core.list)
  BY DEF ListInv, CoreOk, Shown
<1> DEFINE list == SetPluginPriority(core.list, x, p)
<1>2. ListOk(list) /\ Present(list) = Present(core.list)
  BY <1>1, PlacedOk DEF SameRows
<1>3. Command(Reordered(core, list))
  BY DEF EditPriority
<1> HIDE DEF list
<1>4. QED
  BY <1>1, <1>2, <1>3, ReorderFollows, CommandKeeps

\* PluginList::shiftPluginsPriority: with a signal or without one.
LEMMA ShiftKeeps ==
  ASSUME ListInv, NEW xs, NEW by \in Int, ShiftSelection(xs, by)
  PROVE  ListInv' /\ KeepsPlugins
<1>1. CoreOk(core) /\ ListOk(core.list) /\ core \in CoreSet
  BY DEF ListInv, CoreOk
<1> DEFINE shifted == ShiftPlugins(core.list, xs, by)
           after == RefreshLoadOrder(shifted)
           d == [core EXCEPT !.list = after.list, !.pending = @ \/ after.moved,
                             !.unannounced = @ \/ ~after.moved]
<1>2. ListOk(shifted) /\ Present(shifted) = Present(core.list)
  BY <1>1, ShiftedOk DEF SameRows
<1>3. Command(d)
  BY DEF ShiftSelection
<1> HIDE DEF shifted
<1>4. ListOk(after.list) /\ Present(after.list) = Present(core.list) /\ after.moved \in BOOLEAN
  BY <1>2, LoadOrderOk DEF SameRows
<1> HIDE DEF after
<1> DEFINE p == core.pending \/ after.moved
           u == core.unannounced \/ ~after.moved
<1>5. p \in BOOLEAN /\ u \in BOOLEAN /\ (p \/ u)
  BY <1>1, <1>4 DEF CoreSet
<1>6. d = [core EXCEPT !.list = after.list, !.pending = p, !.unannounced = u]
  BY <1>1, Zenon DEF CoreSet
<1> HIDE DEF p, u, d
<1>7. d = [list |-> after.list, files |-> core.files, available |-> core.available,
           update |-> core.update, tasks |-> core.tasks, pending |-> p, unannounced |-> u]
  BY <1>1, <1>6 DEF CoreSet
<1>8. OnlyListOf(core, d) /\ d.list = after.list /\ (d.pending \/ d.unannounced)
  BY <1>5, <1>7 DEF OnlyListOf
<1>9. Follows(core, d)
  BY <1>1, <1>4, <1>8, ListChanged
<1>10. QED
  BY <1>3, <1>9, CommandKeeps

\* Locks that are set and taken away.
LEMMA LocksOk ==
  ASSUME NEW list, ListOk(list), NEW locks, OwnLocks(locks)
  PROVE  LET after == [list EXCEPT !.locked = locks]
         IN ListOk(after) /\ Present(after) = Present(list)
<1> DEFINE after == [list EXCEPT !.locked = locks]
<1>1. ListIs(list) /\ Present(list) \subseteq Plugins /\ list \in Lists
  BY ListFacts DEF ListOk, Arranged
<1>2. after = [rows |-> list.rows, enabled |-> list.enabled, priority |-> list.priority,
               loadOrder |-> list.loadOrder, locked |-> locks]
  BY <1>1 DEF ListIs
<1>3. locks \in Numbers
  BY DEF OwnLocks, Numbers
<1> HIDE DEF after
<1>4. after \in Lists
  BY <1>1, <1>2, <1>3 DEF Lists
<1>5. Present(after) = Present(list) /\ Size(after) = Size(list)
  BY <1>2 DEF Present, Size
<1>6. Arranged(after)
  BY <1>2, <1>4, <1>5 DEF Arranged, ListOk
<1>7. ListOk(after)
  BY <1>2, <1>5, <1>6 DEF ListOk
<1>8. QED
  BY <1>5, <1>7 DEF after

LEMMA LockKeeps ==
  ASSUME ListInv, NEW x \in Shown, NEW lock \in BOOLEAN, SetLock(x, lock)
  PROVE  ListInv' /\ KeepsPlugins
<1>1. CoreOk(core) /\ ListOk(core.list) /\ core \in CoreSet
  BY DEF ListInv, CoreOk
<1> DEFINE old == core.list.locked
           locks == IF lock THEN [y \in DOMAIN old \cup {x} |->
                                    IF y = x THEN core.list.loadOrder[x] ELSE old[y]]
                    ELSE [y \in DOMAIN old \ {x} |-> old[y]]
           list == [core.list EXCEPT !.locked = locks]
           d == [core EXCEPT !.list = list, !.pending = TRUE]
<1>2. Command(d)
  <2>1. ListIs(core.list)
    BY <1>1, ListFacts
  <2>2. Command([core EXCEPT !.list.locked = locks, !.pending = TRUE])
    BY DEF SetLock
  <2> HIDE DEF locks
  <2>3. [core EXCEPT !.list.locked = locks, !.pending = TRUE] = d
    BY <1>1, <2>1 DEF CoreSet, ListIs
  <2>4. QED
    BY <2>2, <2>3
<1>3. OwnLocks(locks)
  <2>1. OwnLocks(old) /\ x \in Plugins /\ core.list.loadOrder[x] \in Int
    BY <1>1, ListFacts DEF ListOk, Shown
  <2> DEFINE order == core.list.loadOrder[x]
             with == [y \in DOMAIN old \cup {x} |-> IF y = x THEN order ELSE old[y]]
             without == [y \in DOMAIN old \ {x} |-> old[y]]
  <2>2. locks = with \/ locks = without
    OBVIOUS
  <2> HIDE DEF old, order, locks
  <2>3. OwnLocks(with)
    BY <2>1 DEF OwnLocks, order
  <2>4. OwnLocks(without)
    BY <2>1 DEF OwnLocks
  <2> HIDE DEF with, without
  <2>5. QED
    BY <2>2, <2>3, <2>4
<1> HIDE DEF locks
<1>4. ListOk(list) /\ Present(list) = Present(core.list)
  BY <1>1, <1>3, LocksOk
<1> HIDE DEF list
<1>5. OnlyListOf(core, d) /\ d.list = list /\ d.pending
  <2>1. d = [core EXCEPT !.list = list, !.pending = TRUE]
    OBVIOUS
  <2> HIDE DEF d
  <2>2. d = [list |-> list, files |-> core.files, available |-> core.available,
             update |-> core.update, tasks |-> core.tasks, pending |-> TRUE,
             unannounced |-> core.unannounced]
    BY <1>1, <2>1 DEF CoreSet
  <2>3. QED
    BY <1>1, <2>2 DEF CoreSet, OnlyListOf
<1> HIDE DEF d
<1>6. Follows(core, d)
  BY <1>1, <1>4, <1>5, ListChanged
<1>7. QED
  BY <1>2, <1>6, CommandKeeps

\* A change that is not announced.
LEMMA UnannouncedKeeps ==
  ASSUME ListInv, NEW list, ListOk(list), Present(list) = Present(core.list), NEW d,
         d = [core EXCEPT !.list = list, !.unannounced = TRUE], Command(d)
  PROVE  ListInv' /\ KeepsPlugins
<1>1. CoreOk(core) /\ core \in CoreSet
  BY DEF ListInv, CoreOk
<1>2. d = [list |-> list, files |-> core.files, available |-> core.available,
           update |-> core.update, tasks |-> core.tasks, pending |-> core.pending,
           unannounced |-> TRUE]
  BY <1>1 DEF CoreSet
<1>3. OnlyListOf(core, d) /\ d.list = list /\ d.unannounced
  BY <1>1, <1>2 DEF CoreSet, OnlyListOf
<1>4. Follows(core, d)
  BY <1>1, <1>3, ListChanged
<1>5. QED
  BY <1>4, CommandKeeps

LEMMA StateKeeps ==
  ASSUME ListInv, NEW x \in Shown, NEW on \in BOOLEAN, SetState(x, on)
  PROVE  ListInv' /\ KeepsPlugins
<1>1. CoreOk(core) /\ ListOk(core.list) /\ core \in CoreSet
  BY DEF ListInv, CoreOk
<1> DEFINE list == Switched(core.list, {x}, on)
           d == [core EXCEPT !.list = list, !.unannounced = TRUE]
<1>2. ListOk(list) /\ Present(list) = Present(core.list)
  BY <1>1, SwitchedOk
<1>3. Command(d)
  <2>1. Command([core EXCEPT !.list = Switched(@, {x}, on), !.unannounced = TRUE])
    BY DEF SetState
  <2>2. [core EXCEPT !.list = Switched(@, {x}, on), !.unannounced = TRUE] = d
    BY <1>1 DEF CoreSet
  <2>3. QED
    BY <2>1, <2>2
<1> HIDE DEF list
<1>4. d = [core EXCEPT !.list = list, !.unannounced = TRUE]
  OBVIOUS
<1> HIDE DEF d
<1>5. QED
  BY <1>2, <1>3, <1>4, UnannouncedKeeps

LEMMA FirstKeeps ==
  ASSUME ListInv, NEW x \in Shown, PutFirst(x)
  PROVE  ListInv' /\ KeepsPlugins
<1>1. CoreOk(core) /\ ListOk(core.list) /\ core \in CoreSet
  BY DEF ListInv, CoreOk
<1> DEFINE priority == Priorities(SetLoadOrder(core.list.rows, <<x>>))
           list == [core.list EXCEPT !.priority = priority]
           d == [core EXCEPT !.list = list, !.unannounced = TRUE]
<1>2. x \in Plugins
  BY <1>1, ListFacts DEF Shown
<1>3. ListOk(list) /\ Present(list) = Present(core.list)
  BY <1>1, <1>2, FirstOk DEF SameRows
<1>4. Command([core EXCEPT !.list.priority = priority, !.unannounced = TRUE])
  BY DEF PutFirst
<1> HIDE DEF priority
<1>5. [core EXCEPT !.list.priority = priority, !.unannounced = TRUE] = d
  <2>1. ListIs(core.list)
    BY <1>1, ListFacts
  <2>2. QED
    BY <1>1, <2>1 DEF CoreSet, ListIs
<1>6. Command(d)
  BY <1>4, <1>5
<1> HIDE DEF list
<1>7. d = [core EXCEPT !.list = list, !.unannounced = TRUE]
  OBVIOUS
<1> HIDE DEF d
<1>8. QED
  BY <1>3, <1>6, <1>7, UnannouncedKeeps

\* The commands that save or read the files.
LEMMA ShowKeeps ==
  ASSUME ListInv, ShowTab
  PROVE  ListInv' /\ KeepsPlugins
<1>1. CoreOk(core)
  BY DEF ListInv
<1>2. Follows(core, RefreshESPList(core, FALSE))
  BY <1>1, RefreshFollows
<1>3. QED
  BY <1>2, CommandKeeps DEF ShowTab

LEMMA BackupKeeps ==
  ASSUME ListInv, SaveBackup
  PROVE  ListInv' /\ KeepsPlugins
<1>1. CoreOk(core)
  BY DEF ListInv
<1>2. Follows(core, core') /\ backup' = core'.files
  BY <1>1, SaveFollows DEF SaveBackup
<1>3. OwnFiles(backup')
  BY <1>2 DEF Follows, CoreOk
<1>4. FollowsStep
  BY <1>2, <1>3 DEF FollowsStep, SaveBackup
<1>5. QED
  BY <1>4, FollowsKeeps

LEMMA SortStartKeeps ==
  ASSUME ListInv, SortStarts
  PROVE  ListInv' /\ KeepsPlugins
<1> DEFINE d == SavePluginList(core)
<1>1. CoreOk(core)
  BY DEF ListInv
<1>2. Follows(core, d)
  BY <1>1, SaveFollows
<1>3. CoreOk(d)
  BY <1>2 DEF Follows
<1>4. core' = SavePluginList(d)
  BY DEF SortStarts
<1> HIDE DEF d
<1>5. Follows(d, core')
  BY <1>3, <1>4, SaveFollows
<1>6. Follows(core, core')
  BY <1>2, <1>5, FollowsOn
<1>7. FollowsStep
  BY <1>6 DEF FollowsStep, SortStarts
<1>8. QED
  BY <1>7, FollowsKeeps

LEMMA BeforeRunKeeps ==
  ASSUME ListInv, BeforeRun
  PROVE  ListInv' /\ KeepsPlugins
<1>1. CoreOk(core) /\ Reaches(core)
  BY DEF ListInv
<1>2. Follows(core, core')
  BY <1>1, CurrentListsSaved DEF BeforeRun
<1>3. FollowsStep
  BY <1>2 DEF FollowsStep, BeforeRun
<1>4. QED
  BY <1>3, FollowsKeeps

LEMMA WriterKeeps ==
  ASSUME ListInv, WriterFires
  PROVE  ListInv' /\ KeepsPlugins
<1>1. CoreOk(core)
  BY DEF ListInv
<1>2. Follows(core, core')
  BY <1>1, WriteFollows DEF WriterFires
<1>3. FollowsStep
  BY <1>2 DEF FollowsStep, WriterFires
<1>4. QED
  BY <1>3, FollowsKeeps

LEMMA StartedKeeps ==
  ASSUME ListInv, Started
  PROVE  ListInv' /\ KeepsPlugins
<1>1. Follows(core, core)
  BY DEF ListInv, Follows
<1>2. FollowsStep
  BY <1>1 DEF FollowsStep, Started
<1>3. QED
  BY <1>2, FollowsKeeps

\* Files that others have written.
LEMMA FilesChanged ==
  ASSUME NEW c, CoreOk(c), NEW files, OwnFiles(files)
  PROVE  LET d == [c EXCEPT !.files = files]
         IN  /\ CoreOk(d) /\ d.files = files /\ d.list = c.list /\ d.update = c.update
             /\ d.available = c.available
<1> DEFINE d == [c EXCEPT !.files = files]
<1>1. c \in CoreSet /\ files \in FileSet
  BY FilesTyped DEF CoreOk
<1>2. d = [list |-> c.list, files |-> files, available |-> c.available, update |-> c.update,
           tasks |-> c.tasks, pending |-> c.pending, unannounced |-> c.unannounced]
  BY <1>1 DEF CoreSet
<1> HIDE DEF d
<1>3. CoreOk(d)
  BY <1>1, <1>2 DEF CoreOk, CoreSet
<1>4. QED
  BY <1>2, <1>3 DEF d

LEMMA RestoreKeeps ==
  ASSUME ListInv, RestoreBackup
  PROVE  ListInv' /\ KeepsPlugins
<1> DEFINE d == [core EXCEPT !.files = backup]
<1>1. CoreOk(core) /\ OwnFiles(backup)
  BY DEF ListInv, RestoreBackup
<1>2. /\ CoreOk(d) /\ d.files = backup /\ d.list = core.list /\ d.update = core.update
      /\ d.available = core.available
  BY <1>1, FilesChanged
<1>3. core' = RefreshESPList(d, TRUE) /\ UNCHANGED <<mods, read, backup>>
  BY DEF RestoreBackup, Command
<1> HIDE DEF d
<1>4. Follows(d, core') /\ core'.files = backup
  BY <1>2, <1>3, RefreshFollows, ESPListOk
<1>5. /\ CoreOk(core') /\ Reaches(core') /\ core'.update = core.update
      /\ core'.available = core.available
      /\ Present(core'.list) = Present(core.list)
           \/ (~core.update /\ Present(core'.list) = core.available)
  BY <1>2, <1>4 DEF Follows
<1>6. ListInv'
  BY <1>3, <1>5 DEF ListInv
<1>7. KeepsPlugins
  BY <1>4 DEF KeepsPlugins
<1>8. QED
  BY <1>6, <1>7

\* OrganizerCore::refreshDirectoryStructure, and what begins as it does: an update.
LEMMA UpdateBegun ==
  ASSUME NEW c, CoreOk(c), Reaches(c)
  PROVE  LET d == [c EXCEPT !.update = TRUE]
         IN  /\ CoreOk(d) /\ Reaches(d) /\ d.files = c.files /\ d.update /\ d.tasks = c.tasks
<1> DEFINE d == [c EXCEPT !.update = TRUE]
<1>1. c \in CoreSet
  BY DEF CoreOk
<1>2. d = [c EXCEPT !.update = TRUE]
  OBVIOUS
<1> HIDE DEF d
<1>3. d = [list |-> c.list, files |-> c.files, available |-> c.available, update |-> TRUE,
           tasks |-> c.tasks, pending |-> c.pending, unannounced |-> c.unannounced]
  BY <1>1, <1>2 DEF CoreSet
<1>4. CoreOk(d)
  BY <1>1, <1>3 DEF CoreOk, CoreSet
<1>5. Reaches(d)
  BY <1>3 DEF Reaches, InFiles
<1>6. QED
  BY <1>3, <1>4, <1>5 DEF d

LEMMA StructureKeeps ==
  ASSUME ListInv, RefreshDirectoryStructure
  PROVE  ListInv' /\ KeepsPlugins
<1>1. CoreOk(core) /\ Reaches(core)
  BY DEF ListInv
<1>2. core' = [core EXCEPT !.update = TRUE] /\ read' = mods /\ UNCHANGED <<mods, backup>>
  BY DEF RefreshDirectoryStructure
<1>3. CoreOk(core') /\ Reaches(core') /\ core'.files = core.files /\ core'.update
  BY <1>1, <1>2, UpdateBegun
<1>4. QED
  BY <1>2, <1>3 DEF ListInv, KeepsPlugins

LEMMA AfterRunKeeps ==
  ASSUME ListInv, AfterRun
  PROVE  ListInv' /\ KeepsPlugins
<1> DEFINE c == [core EXCEPT !.update = TRUE]
           d == RefreshESPList(c, TRUE)
<1>1. CoreOk(core) /\ Reaches(core)
  BY DEF ListInv
<1>2. CoreOk(c) /\ Reaches(c) /\ c.files = core.files /\ c.update
  BY <1>1, UpdateBegun
<1>3. core' = SavePluginList(d) /\ read' \in {read, mods} /\ UNCHANGED <<mods, backup>>
  BY DEF AfterRun
<1> HIDE DEF c
<1>4. CoreOk(d) /\ Follows(c, d)
  BY <1>2, RefreshFollows DEF Follows
<1> HIDE DEF d
<1>5. Follows(d, core')
  BY <1>3, <1>4, SaveFollows
<1>6. Follows(c, core')
  BY <1>4, <1>5, FollowsOn
<1>7. /\ CoreOk(core') /\ Reaches(core') /\ core'.update
      /\ ToSet(core'.files.order) = ToSet(core.files.order)
  BY <1>2, <1>6 DEF Follows
<1>8. QED
  BY <1>3, <1>7 DEF ListInv, KeepsPlugins

\* The core of a program that starts.
LEMMA StartsOk ==
  ASSUME NEW files, OwnFiles(files)
  PROVE  LET c == NewCore(files)
         IN CoreOk(c) /\ Reaches(c) /\ c.files = files /\ c.update
<1> DEFINE c == NewCore(files)
<1>1. ListOk(NoPlugins) /\ files \in FileSet
  BY NoPluginsOk, FilesTyped
<1>2. NoPlugins \in Lists
  BY <1>1 DEF ListOk, Arranged
<1>3. c = [list |-> NoPlugins, files |-> files, available |-> {}, update |-> TRUE,
           tasks |-> <<>>, pending |-> FALSE, unannounced |-> FALSE]
  BY DEF NewCore
<1> HIDE DEF c
<1>4. CoreOk(c)
  BY <1>1, <1>2, <1>3 DEF CoreOk, CoreSet
<1>5. QED
  BY <1>3, <1>4 DEF c, Reaches

LEMMA RestartKeeps ==
  ASSUME ListInv, NEW crash \in BOOLEAN, Restart(crash)
  PROVE  ListInv' /\ KeepsPlugins
<1> DEFINE c == IF crash THEN core ELSE SaveCurrentLists(core)
<1>1. CoreOk(core) /\ Reaches(core)
  BY DEF ListInv
<1>2. Follows(core, c)
  <2>1. Follows(core, core)
    BY <1>1 DEF Follows
  <2>2. QED
    BY <1>1, <2>1, CurrentListsSaved
<1>3. core' = NewCore(c.files) /\ read' = mods /\ UNCHANGED <<mods, backup>>
  BY DEF Restart
<1> HIDE DEF c
<1>4. OwnFiles(c.files)
  BY <1>2 DEF Follows, CoreOk
<1>5. CoreOk(core') /\ Reaches(core') /\ core'.files = c.files /\ core'.update
  BY <1>3, <1>4, StartsOk
<1>6. ListInv'
  BY <1>3, <1>5 DEF ListInv
<1>7. \/ ToSet(c.files.order) = ToSet(core.files.order)
      \/ ~core.update /\ (\/ ToSet(c.files.order) = Present(core.list)
                          \/ ToSet(c.files.order) = core.available)
  BY <1>2 DEF Follows
<1>8. KeepsPlugins
  BY <1>3, <1>5, <1>7 DEF KeepsPlugins, ListInv
<1>9. QED
  BY <1>6, <1>8

\* LOOT puts the plugins of the file in another order.
LEMMA SortedFiles ==
  ASSUME NEW files, OwnFiles(files), NEW first \in SUBSET ToSet(files.order)
  PROVE  LET order == files.order
             sorted == Among(order, first) \o Among(order, ToSet(order) \ first)
         IN  /\ OwnFiles([files EXCEPT !.order = sorted])
             /\ ToSet(sorted) = ToSet(order)
<1> DEFINE order == files.order
           others == ToSet(order) \ first
           a == Among(order, first)
           b == Among(order, others)
           sorted == a \o b
           after == [files EXCEPT !.order = sorted]
<1>1. /\ files = [order |-> files.order, active |-> files.active, locks |-> files.locks]
      /\ order \in Seq(Plugins) /\ IsInjective(order)
      /\ files.active \subseteq Plugins /\ OwnLocks(files.locks)
  BY DEF OwnFiles
<1> HIDE DEF order, others
<1>2. /\ a \in Seq(Plugins) /\ ToSet(a) = ToSet(order) \cap first /\ IsInjective(a)
      /\ b \in Seq(Plugins) /\ ToSet(b) = ToSet(order) \cap others /\ IsInjective(b)
  BY <1>1, AmongLists
<1>3. ToSet(a) \cap ToSet(b) = {} /\ ToSet(a) \cup ToSet(b) = ToSet(order)
  BY <1>2 DEF order, others
<1> HIDE DEF a, b
<1>4. sorted \in Seq(Plugins) /\ ToSet(sorted) = ToSet(order) /\ IsInjective(sorted)
  <2>1. /\ a \in Seq(Plugins) /\ b \in Seq(Plugins) /\ IsInjective(a) /\ IsInjective(b)
        /\ ToSet(a) \cap ToSet(b) = {}
    BY <1>2, <1>3
  <2>2. a \o b \in Seq(Plugins) /\ ToSet(a \o b) = ToSet(a) \cup ToSet(b) /\ IsInjective(a \o b)
    BY <2>1, JoinedLists
  <2>3. QED
    BY <1>3, <2>2
<1> HIDE DEF sorted
<1>5. after = [order |-> sorted, active |-> files.active, locks |-> files.locks]
  BY <1>1
<1> HIDE DEF after
<1>6. OwnFiles(after)
  BY <1>1, <1>4, <1>5 DEF OwnFiles
<1>7. QED
  BY <1>4, <1>6 DEF after, sorted, a, b, order, others

LEMMA SortKeeps ==
  ASSUME ListInv, SortEnds
  PROVE  ListInv' /\ KeepsPlugins
<1>1. CoreOk(core) /\ OwnFiles(core.files) /\ core \in CoreSet
  BY DEF ListInv, CoreOk
<1>2. UNCHANGED <<mods, read, backup>>
  BY DEF SortEnds
<1>3. CASE UNCHANGED core
  <2>1. Follows(core, core')
    BY <1>3 DEF ListInv, Follows
  <2>2. FollowsStep
    BY <1>2, <2>1 DEF FollowsStep
  <2>3. QED
    BY <2>2, FollowsKeeps
<1>4. CASE ~UNCHANGED core
  <2>1. PICK first \in SUBSET ToSet(core.files.order) :
          LET order == core.files.order
              sorted == Among(order, first) \o Among(order, ToSet(order) \ first)
          IN core' = SavePluginList(RefreshESPList([core EXCEPT !.files.order = sorted], FALSE))
    BY <1>4, Zenon DEF SortEnds
  <2> DEFINE order == core.files.order
             sorted == Among(order, first) \o Among(order, ToSet(order) \ first)
             files == [core.files EXCEPT !.order = sorted]
             c == [core EXCEPT !.files = files]
             d == RefreshESPList(c, FALSE)
  <2>2. OwnFiles(files) /\ ToSet(sorted) = ToSet(order)
    BY <1>1, SortedFiles
  <2>3. core' = SavePluginList(RefreshESPList([core EXCEPT !.files.order = sorted], FALSE))
    BY <2>1
  <2> HIDE DEF sorted
  <2>4. [core EXCEPT !.files.order = sorted] = c /\ files.order = sorted
    BY <1>1 DEF CoreSet, FileSet
  <2>5. core' = SavePluginList(d)
    BY <2>3, <2>4
  <2> HIDE DEF files
  <2>6. /\ CoreOk(c) /\ c.files = files /\ c.list = core.list /\ c.update = core.update
        /\ c.available = core.available
    BY <1>1, <2>2, FilesChanged
  <2> HIDE DEF c
  <2>7. CoreOk(d) /\ Follows(c, d)
    BY <2>6, RefreshFollows DEF Follows
  <2> HIDE DEF d
  <2>8. Follows(d, core')
    BY <2>5, <2>7, SaveFollows
  <2>9. Follows(c, core')
    BY <2>7, <2>8, FollowsOn
  <2>10. Follows(core, core')
    BY <2>2, <2>4, <2>6, <2>9 DEF Follows
  <2>11. FollowsStep
    BY <1>2, <2>10 DEF FollowsStep
  <2>12. QED
    BY <2>11, FollowsKeeps
<1>5. QED
  BY <1>3, <1>4

-----------------------------------------------------------------------------
(* Mods *)

\* The files of mods that come and go.
LEMMA AvailableChanged ==
  ASSUME NEW c, CoreOk(c), NEW available \in SUBSET Plugins
  PROVE  LET d == [c EXCEPT !.available = available]
         IN  /\ CoreOk(d) /\ d.files = c.files /\ d.list = c.list /\ d.update = c.update
             /\ d.available = available /\ (Reaches(c) => Reaches(d))
<1> DEFINE d == [c EXCEPT !.available = available]
<1>1. c \in CoreSet
  BY DEF CoreOk
<1>2. d = [list |-> c.list, files |-> c.files, available |-> available, update |-> c.update,
           tasks |-> c.tasks, pending |-> c.pending, unannounced |-> c.unannounced]
  BY <1>1 DEF CoreSet
<1> HIDE DEF d
<1>3. CoreOk(d)
  BY <1>1, <1>2 DEF CoreOk, CoreSet
<1>4. Reaches(c) => Reaches(d)
  BY <1>2 DEF Reaches, InFiles
<1>5. QED
  BY <1>2, <1>3, <1>4 DEF d

\* A mod that is enabled: its plugin is read, enabled and saved, or all that is
\* put off.
LEMMA ModAdded ==
  ASSUME ListInv, NEW x \in Switchable, SwitchMod(x, TRUE)
  PROVE  ListInv' /\ KeepsPlugins
<1> DEFINE available == core.available \cup {x}
           c == [core EXCEPT !.available = available]
           d == RefreshESPList(c, TRUE)
           e == UpdateModsActiveState(d, {x}, TRUE)
<1>1. /\ core' = RefreshLists(e) /\ mods' = mods \cup {x} /\ read' \in {read \cup {x}, read}
      /\ UNCHANGED backup
      /\ ~core.update => read' = read \cup {x}
  <2>1. core' = RefreshLists(UpdateModsActiveState(
                  RefreshESPList([core EXCEPT !.available = @ \cup {x}], TRUE), {x}, TRUE))
    BY DEF SwitchMod
  <2>2. core \in CoreSet
    BY DEF ListInv, CoreOk
  <2>3. [core EXCEPT !.available = @ \cup {x}] = c
    BY <2>2 DEF CoreSet
  <2>4. /\ mods' = mods \cup {x}
        /\ read' \in {read \cup {x}} \cup (IF core.update THEN {read} ELSE {})
        /\ UNCHANGED backup
    BY DEF SwitchMod
  <2>5. QED
    BY <2>1, <2>3, <2>4
<1>2. CoreOk(core) /\ core.available \subseteq Plugins /\ x \in Plugins
  BY FirstAssumption DEF ListInv, CoreOk, CoreSet
<1>3. /\ CoreOk(c) /\ c.files = core.files /\ c.list = core.list /\ c.update = core.update
      /\ c.available = available
  BY <1>2, AvailableChanged
<1> HIDE DEF c
<1>4. /\ CoreOk(d) /\ Follows(c, d) /\ d.files = c.files
      /\ d.available = available /\ d.update = core.update
      /\ ~c.update => Present(d.list) = available
  <2>1. Follows(c, d) /\ (~c.update => Present(d.list) = c.available)
    BY <1>3, RefreshFollows
  <2>2. d.files = c.files
    BY <1>3, ESPListOk
  <2> HIDE DEF d
  <2>3. CoreOk(d) /\ d.available = c.available /\ d.update = c.update
    BY <2>1 DEF Follows
  <2>4. QED
    BY <1>3, <2>1, <2>2, <2>3
<1> HIDE DEF d
<1>5. CoreOk(e) /\ Reaches(e) /\ Follows(d, e)
  <2>1. \A on \in BOOLEAN : Follows(d, UpdateModsActiveState(d, {x}, on))
    BY <1>4, ActiveStateFollows
  <2>2. TRUE \in BOOLEAN
    OBVIOUS
  <2>3. Follows(d, e)
    BY <2>1, <2>2, Zenon
  <2>4. QED
    BY <2>3 DEF Follows
<1> HIDE DEF e
<1>6. Follows(e, core') /\ (~e.update /\ e.available # {} => Present(core'.list) = e.available)
  BY <1>1, <1>5, ListsRefreshed
<1>7. Follows(d, core')
  BY <1>5, <1>6, FollowsOn
<1>8. /\ CoreOk(core') /\ Reaches(core') /\ core'.update = core.update
      /\ core'.available = available
      /\ ~core.update => Present(core'.list) = available
  <2>1. /\ CoreOk(core') /\ Reaches(core') /\ core'.update = d.update
        /\ core'.available = d.available
        /\ Present(core'.list) = Present(d.list) \/ Present(core'.list) = d.available
    BY <1>7 DEF Follows
  <2>2. core.update \in BOOLEAN
    BY <1>2 DEF CoreOk, CoreSet
  <2>3. QED
    BY <1>3, <1>4, <2>1, <2>2
<1>9. ~core.update => mods \cap read \subseteq core.available
  BY DEF ListInv
<1>10. ListInv'
  <2>1. mods' \subseteq Plugins /\ read' \subseteq Plugins
    BY <1>1, <1>2 DEF ListInv
  <2>2. ~core.update => mods' \cap read' \subseteq available
    BY <1>1, <1>9
  <2>3. QED
    BY <1>1, <1>8, <2>1, <2>2 DEF ListInv
<1>11. KeepsPlugins
  <2>1. ToSet(core'.files.order) = ToSet(core.files.order)
          \/ (~core.update /\ ToSet(core'.files.order) = available)
    <3>1. \/ ToSet(core'.files.order) = ToSet(d.files.order)
          \/ ~d.update /\ (\/ ToSet(core'.files.order) = Present(d.list)
                           \/ ToSet(core'.files.order) = d.available)
      BY <1>7 DEF Follows
    <3>2. core.update \in BOOLEAN
      BY <1>2 DEF CoreOk, CoreSet
    <3>3. QED
      BY <1>3, <1>4, <3>1, <3>2
  <2>2. QED
    BY <1>1, <1>9, <2>1 DEF KeepsPlugins
<1>12. QED
  BY <1>10, <1>11

\* A mod that is disabled: its plugin is disabled, the list is saved and read.
LEMMA ModRemoved ==
  ASSUME ListInv, NEW x \in Switchable, SwitchMod(x, FALSE)
  PROVE  ListInv' /\ KeepsPlugins
<1> DEFINE c == UpdateModsActiveState(core, {x}, FALSE)
           available == core.available \ {x}
           d == [c EXCEPT !.available = available]
<1>1. CoreOk(core)
  BY DEF ListInv
<1>2. CoreOk(c) /\ Reaches(c) /\ Follows(core, c)
  BY <1>1, ActiveStateFollows DEF Follows
<1>3. core' = RefreshLists(d) /\ mods' = mods \ {x} /\ read' = read /\ UNCHANGED backup
  <2>1. core' = RefreshLists([c EXCEPT !.available = @ \ {x}])
    BY DEF SwitchMod
  <2>2. [c EXCEPT !.available = @ \ {x}] = d
    <3>1. c \in CoreSet /\ c.available = core.available
      BY <1>2 DEF CoreOk, Follows
    <3> HIDE DEF c
    <3>2. QED
      BY <3>1 DEF CoreSet
  <2>3. QED
    BY <2>1, <2>2 DEF SwitchMod
<1> HIDE DEF c
<1>4. available \in SUBSET Plugins
  BY <1>1 DEF CoreOk, CoreSet
<1> HIDE DEF available
<1>5. /\ CoreOk(d) /\ Reaches(d) /\ d.files = c.files /\ d.list = c.list
      /\ d.update = c.update /\ d.available = available
  BY <1>2, <1>4, AvailableChanged
<1> HIDE DEF d
<1>6. Follows(d, core') /\ (~d.update /\ d.available # {} => Present(core'.list) = d.available)
  BY <1>3, <1>5, ListsRefreshed
<1>7. c.update = core.update
  BY <1>2 DEF Follows
<1>8. /\ CoreOk(core') /\ Reaches(core') /\ core'.update = core.update
      /\ core'.available = available
      /\ ~core.update /\ available # {} => Present(core'.list) = available
  BY <1>5, <1>6, <1>7 DEF Follows
<1>9. ~core.update => /\ mods \cap read \subseteq core.available
                      /\ mods \cap read \subseteq Present(core.list)
  BY DEF ListInv
<1>10. ListInv'
  <2>1. mods' \subseteq Plugins /\ read' \subseteq Plugins
    BY <1>3 DEF ListInv
  <2>2. ~core.update => mods' \cap read' \subseteq available
    BY <1>3, <1>9 DEF available
  <2>3. QED
    BY <1>3, <1>8, <2>1, <2>2 DEF ListInv
<1>11. KeepsPlugins
  <2>1. \/ ToSet(core'.files.order) = ToSet(core.files.order)
        \/ ~core.update /\ (\/ ToSet(core'.files.order) = Present(core.list)
                            \/ ToSet(core'.files.order) = core.available
                            \/ ToSet(core'.files.order) = available)
    BY <1>2, <1>5, <1>6, <1>7 DEF Follows
  <2>2. QED
    BY <1>3, <1>9, <2>1 DEF KeepsPlugins, available
<1>12. QED
  BY <1>10, <1>11

-----------------------------------------------------------------------------
(* The end of an update *)

TaskNames == {"save", "refresh", "reload"}

\* What was put off, one after the other.
LEMMA TaskFollows ==
  ASSUME NEW c, CoreOk(c), ~c.update, NEW task \in TaskNames
  PROVE  LET d == Task(c, task)
         IN  /\ Follows(c, d) /\ CoreOk(d) /\ d.tasks = c.tasks
             /\ task = "save" => d.list = c.list /\ ToSet(d.files.order) = Present(c.list)
             /\ task # "save" => d.files = c.files /\ Present(d.list) = c.available
<1>1. CASE task = "save"
  <2>1. Task(c, task) = SavePluginList(c)
    BY <1>1 DEF Task
  <2> DEFINE d == SavePluginList(c)
  <2>2. Follows(c, d)
    BY SaveFollows
  <2>3. d.tasks = c.tasks /\ d.list = c.list /\ ToSet(d.files.order) = Present(c.list)
    BY SavedOk
  <2> HIDE DEF d
  <2>4. CoreOk(d)
    BY <2>2 DEF Follows
  <2>5. QED
    BY <1>1, <2>1, <2>2, <2>3, <2>4 DEF d
<1>2. CASE task # "save"
  <2> DEFINE force == task = "reload"
             d == RefreshESPList(c, force)
  <2>1. Task(c, task) = d
    BY <1>2 DEF Task
  <2> HIDE DEF force
  <2>2. Follows(c, d)
    BY RefreshFollows
  <2>3. d.tasks = c.tasks /\ d.files = c.files /\ Present(d.list) = c.available
    BY ESPListOk
  <2> HIDE DEF d
  <2>4. CoreOk(d)
    BY <2>2 DEF Follows
  <2>5. QED
    BY <1>2, <2>1, <2>2, <2>3, <2>4 DEF d
<1>3. QED
  BY <1>1, <1>2

\* The core with the structure that was read.
Swapped == [core EXCEPT !.available = read, !.update = FALSE, !.tasks = <<>>]

LEMMA SwappedOk ==
  ASSUME ListInv
  PROVE  /\ CoreOk(Swapped) /\ ~Swapped.update /\ Swapped.available = read
         /\ Swapped.tasks = <<>> /\ Swapped.files = core.files /\ Swapped.list = core.list
         /\ Swapped.pending = core.pending /\ Swapped.unannounced = core.unannounced
         /\ InFiles(Swapped) = InFiles(core)
<1>1. core \in CoreSet /\ CoreOk(core) /\ read \in SUBSET Plugins
  BY DEF ListInv, CoreOk
<1>2. Swapped = [list |-> core.list, files |-> core.files, available |-> read,
                 update |-> FALSE, tasks |-> <<>>, pending |-> core.pending,
                 unannounced |-> core.unannounced]
  <2>1. Swapped = [core EXCEPT !.available = read, !.update = FALSE, !.tasks = <<>>]
    BY DEF Swapped
  <2>2. QED
    BY <1>1, <2>1 DEF CoreSet
<1>3. CoreOk(Swapped)
  BY <1>1, <1>2 DEF CoreOk, CoreSet
<1>4. Swapped.files = core.files /\ Swapped.list = core.list
  BY <1>2
<1>5. InFiles(Swapped) = InFiles(core)
  BY <1>4 DEF InFiles
<1>6. QED
  BY <1>2, <1>3, <1>4, <1>5

\* h does the tasks.
TasksRun(h) ==
  /\ h[0] = Swapped /\ Len(core.tasks) \in Nat
  /\ \A k \in 1..Len(core.tasks) :
       core.tasks[k] \in TaskNames /\ h[k] = Task(h[k - 1], core.tasks[k])
  /\ \A k \in 0..Len(core.tasks) :
       CoreOk(h[k]) /\ ~h[k].update /\ h[k].available = read /\ h[k].tasks = <<>>
  /\ Through(Task, Swapped, core.tasks) = h[Len(core.tasks)]

LEMMA TasksTaken ==
  ASSUME ListInv
  PROVE  \E h : TasksRun(h)
<1> DEFINE s == core.tasks
           n == Len(s)
           E == TaskNames
           P == {c \in CoreSet : CoreOk(c) /\ ~c.update /\ c.available = read /\ c.tasks = <<>>}
           g == [e \in P \X E |-> Task(e[1], e[2])]
           Steps(f) == f = [k \in 0..n |-> IF k = 0 THEN Swapped ELSE Task(f[k - 1], s[k])]
           f == CHOOSE f : Steps(f)
<1>1. Through(Task, Swapped, core.tasks) = f[n]
  BY Zenon DEF Through
<1>2. n \in Nat /\ \A k \in 1..n : s[k] \in E
  BY DEF ListInv, CoreOk, CoreSet, TaskNames
<1>3. Swapped \in P
  BY SwappedOk DEF CoreOk
<1>4. ASSUME NEW c \in P, NEW task \in E PROVE Task(c, task) \in P
  <2> DEFINE d == Task(c, task)
  <2>1. CoreOk(c) /\ ~c.update /\ c.available = read /\ c.tasks = <<>>
    BY <1>4
  <2>2. Follows(c, d) /\ CoreOk(d) /\ d.tasks = c.tasks
    BY <2>1, TaskFollows
  <2> HIDE DEF d
  <2>3. d.update = c.update /\ d.available = c.available
    BY <2>2 DEF Follows
  <2>4. d \in CoreSet
    BY <2>2 DEF CoreOk
  <2>5. d \in P
    BY <2>1, <2>2, <2>3, <2>4
  <2>6. QED
    BY <2>5 DEF d
<1> HIDE DEF P, E, n, s
<1>5. g \in [P \X E -> P] /\ \A c \in P, task \in E : g[<<c, task>>] = Task(c, task)
  BY <1>4
<1> HIDE DEF g
<1>6. PICK h : /\ h = [k \in 0..n |-> h[k]] /\ h[0] = Swapped
               /\ \A k \in 1..n : h[k] = g[<<h[k - 1], s[k]>>]
               /\ \A k \in 0..n : h[k] \in P
  <2>1. StepsIn(P, E, g, Swapped, s, n)
    BY <1>2, <1>3, <1>5 DEF StepsIn
  <2>2. \E h : Stepwise(h, P, g, Swapped, s, n)
    BY <2>1, StepsTaken
  <2>3. QED
    BY <2>2, Zenon DEF Stepwise
<1>7. \A k \in 1..n : h[k] = Task(h[k - 1], s[k])
  <2>1. SUFFICES ASSUME NEW k \in 1..n PROVE h[k] = Task(h[k - 1], s[k])
    OBVIOUS
  <2>2. k - 1 \in 0..n /\ s[k] \in E
    BY <1>2
  <2>3. h[k - 1] \in P /\ h[k] = g[<<h[k - 1], s[k]>>]
    BY <1>6, <2>2
  <2>4. QED
    BY <1>5, <2>2, <2>3
<1>8. \A k \in 0..n : h[k] = IF k = 0 THEN Swapped ELSE Task(h[k - 1], s[k])
  <2>1. SUFFICES ASSUME NEW k \in 0..n, k # 0 PROVE h[k] = Task(h[k - 1], s[k])
    BY <1>6
  <2>2. k \in 1..n
    BY <1>2, <2>1
  <2>3. QED
    BY <1>7, <2>2
<1>9. Steps(h)
  BY <1>6, <1>8
<1> HIDE DEF Steps
<1>10. Steps(f)
  BY <1>9, Zenon
<1> HIDE DEF f
<1>11. f[0] = Swapped /\ \A k \in 1..n : f[k] = Task(f[k - 1], s[k])
  BY <1>2, <1>10 DEF Steps
<1>12. ASSUME NEW m \in 0..n PROVE f[m] \in P
  <2>1. m \in Nat /\ 1..m \subseteq 1..n
    BY <1>2
  <2>2. ASSUME NEW k \in 1..m, f[k - 1] \in P PROVE f[k] \in P
    BY <1>2, <1>4, <1>11, <2>1, <2>2
  <2>3. f[0] \in P
    BY <1>3, <1>11
  <2>4. QED
    BY <2>1, <2>2, <2>3, StepsStay
<1>13. \A k \in 0..n : CoreOk(f[k]) /\ ~f[k].update /\ f[k].available = read /\ f[k].tasks = <<>>
  BY <1>12 DEF P
<1>14. TasksRun(f)
  BY <1>1, <1>2, <1>11, <1>13 DEF TasksRun, n, s, E
<1>15. QED
  BY <1>14

LEMMA DirectoryKeeps ==
  ASSUME ListInv, DirectoryRefreshed
  PROVE  ListInv' /\ KeepsPlugins
<1> DEFINE s == core.tasks
           n == Len(s)
<1>1. PICK h : TasksRun(h)
  BY TasksTaken
<1>2. /\ h[0] = Swapped /\ n \in Nat
      /\ \A k \in 1..n : s[k] \in TaskNames /\ h[k] = Task(h[k - 1], s[k])
      /\ \A k \in 0..n :
           CoreOk(h[k]) /\ ~h[k].update /\ h[k].available = read /\ h[k].tasks = <<>>
      /\ Through(Task, Swapped, s) = h[n]
  BY <1>1 DEF TasksRun
<1>3. core' = RefreshLists(h[n]) /\ core.update /\ UNCHANGED <<mods, read, backup>>
  BY <1>2 DEF DirectoryRefreshed, Swapped
<1>4. CoreOk(core) /\ Reaches(core) /\ s \in Seq(TaskNames)
  BY DEF ListInv, CoreOk, CoreSet, TaskNames
<1>5. n = 0 => s = <<>>
  BY <1>4
<1> HIDE DEF s, n
<1>6. ASSUME NEW k \in 1..n
      PROVE  /\ Follows(h[k - 1], h[k])
             /\ s[k] = "save" => h[k].list = h[k - 1].list
                                 /\ ToSet(h[k].files.order) = Present(h[k - 1].list)
             /\ s[k] # "save" => h[k].files = h[k - 1].files /\ Present(h[k].list) = read
  <2>1. k - 1 \in 0..n
    BY <1>2
  <2>2. CoreOk(h[k - 1]) /\ ~h[k - 1].update /\ h[k - 1].available = read
    BY <1>2, <2>1
  <2>3. s[k] \in TaskNames /\ h[k] = Task(h[k - 1], s[k])
    BY <1>2
  <2>4. LET d == Task(h[k - 1], s[k])
        IN  /\ Follows(h[k - 1], d)
            /\ s[k] = "save" => d.list = h[k - 1].list /\ ToSet(d.files.order) = Present(h[k - 1].list)
            /\ s[k] # "save" => d.files = h[k - 1].files /\ Present(d.list) = h[k - 1].available
    BY <2>2, <2>3, TaskFollows
  <2>5. QED
    BY <2>2, <2>3, <2>4
<1>7. Reaches(h[n])
  <2>1. CASE n = 0
    <3>1. core.list = NoPlugins \/ InFiles(core) \/ core.pending \/ core.unannounced
      BY <1>4, <1>5, <2>1 DEF Reaches, s
    <3>2. QED
      BY <1>2, <2>1, <3>1, SwappedOk DEF Reaches
  <2>2. CASE n # 0
    <3>1. n \in 1..n
      BY <1>2, <2>2
    <3>2. QED
      BY <1>6, <3>1 DEF Follows
  <2>3. QED
    BY <2>1, <2>2
<1>8. CoreOk(h[n]) /\ ~h[n].update /\ h[n].available = read
  BY <1>2
<1>9. Follows(h[n], core') /\ (read # {} => Present(core'.list) = read)
  BY <1>3, <1>7, <1>8, ListsRefreshed
<1>10. CoreOk(core') /\ Reaches(core') /\ core'.available = read
  BY <1>8, <1>9 DEF Follows
<1>11. ListInv'
  <2>1. mods' \cap read' \subseteq core'.available \cap Present(core'.list)
    BY <1>3, <1>9, <1>10
  <2>2. QED
    BY <1>3, <1>10, <2>1 DEF ListInv
<1>12. KeepsPlugins
  <2>1. SUFFICES ASSUME NEW x \in ToSet(core.files.order), x \in read, ~SavedUnseen(x)
                 PROVE  x \in ToSet(core'.files.order)
    BY <1>3 DEF KeepsPlugins
  <2> DEFINE Q == {c \in CoreSet : x \in ToSet(c.files.order) /\ x \in Present(c.list)}
  <2>2. x \in ToSet(h[0].files.order) /\ Present(h[0].list) = Shown
    BY <1>2, <2>1, SwappedOk DEF Shown
  <2>3. \A k \in 0..n : h[k] \in CoreSet
    BY <1>2 DEF CoreOk
  <2>4. ASSUME n # 0 PROVE h[n] \in Q
    <3> DEFINE f == [k \in 0..n |-> IF k = 0 THEN h[1] ELSE h[k]]
    <3>1. 1 \in 0..n /\ 1 \in 1..n /\ n \in 0..n /\ 0 \in 0..n
      BY <1>2, <2>4
    <3>2. h[1] \in Q
      <4>1. s # <<>>
        BY <1>2, <2>4 DEF n
      <4>2. s[1] = "save" => x \in Shown
        BY <2>1, <4>1 DEF SavedUnseen, s
      <4>3. /\ s[1] = "save" => h[1].list = h[0].list /\ ToSet(h[1].files.order) = Present(h[0].list)
            /\ s[1] # "save" => h[1].files = h[0].files /\ Present(h[1].list) = read
        <5>1. 1 - 1 = 0
          OBVIOUS
        <5>2. QED
          BY <1>6, <3>1, <5>1
      <4>4. QED
        BY <2>1, <2>2, <2>3, <3>1, <4>2, <4>3
    <3>3. ASSUME NEW k \in 1..n, h[k - 1] \in Q PROVE h[k] \in Q
      <4>1. h[k] \in CoreSet
        BY <1>2, <2>3
      <4>2. x \in ToSet(h[k - 1].files.order) /\ x \in Present(h[k - 1].list)
        BY <3>3
      <4>3. CASE s[k] = "save"
        BY <1>6, <4>1, <4>2, <4>3
      <4>4. CASE s[k] # "save"
        BY <1>6, <2>1, <4>1, <4>2, <4>4
      <4>5. QED
        BY <4>3, <4>4
    <3> HIDE DEF Q
    <3>4. f[0] = h[1] /\ \A k \in 1..n : f[k] = h[k] /\ (k # 1 => f[k - 1] = h[k - 1])
      BY <1>2, <3>1
    <3> HIDE DEF f
    <3>5. ASSUME NEW k \in 1..n, f[k - 1] \in Q PROVE f[k] \in Q
      <4>1. CASE k = 1
        BY <3>1, <3>2, <3>4, <4>1
      <4>2. CASE k # 1
        <5>1. h[k - 1] \in Q
          BY <3>4, <3>5, <4>2
        <5>2. QED
          BY <3>3, <3>4, <5>1
      <4>3. QED
        BY <4>1, <4>2
    <3>6. f[0] \in Q
      BY <3>2, <3>4
    <3>7. f[n] \in Q
      BY <1>2, <3>5, <3>6, StepsStay
    <3>8. n \in 1..n
      BY <1>2, <2>4
    <3>9. QED
      BY <3>4, <3>7, <3>8
  <2>5. x \in ToSet(h[n].files.order) /\ (n # 0 => x \in Present(h[n].list))
    BY <2>2, <2>4
  <2>6. CASE n # 0
    <3>1. \/ ToSet(core'.files.order) = ToSet(h[n].files.order)
          \/ ToSet(core'.files.order) = Present(h[n].list)
          \/ ToSet(core'.files.order) = read
      BY <1>8, <1>9 DEF Follows
    <3>2. QED
      BY <2>1, <2>5, <2>6, <3>1
  <2>7. CASE n = 0
    <3>1. core'.files = h[n].files
      BY <1>3, <1>8, ESPListOk DEF RefreshLists
    <3>2. QED
      BY <2>5, <3>1
  <2>8. QED
    BY <2>6, <2>7
<1>13. QED
  BY <1>11, <1>12

-----------------------------------------------------------------------------
(* Theorems *)

LEMMA FirstList ==
  ASSUME Init
  PROVE  ListInv
<1>1. PICK files \in FirstFiles : core = NewCore(files)
  BY DEF Init
<1>2. OwnFiles(files) /\ FirstMods \subseteq Plugins
  BY FirstAssumption
<1>3. CoreOk(core) /\ Reaches(core) /\ core.update
  BY <1>1, <1>2, StartsOk
<1>4. QED
  BY <1>2, <1>3 DEF Init, ListInv

LEMMA UserKeeps ==
  ASSUME ListInv, UserStep
  PROVE  ListInv' /\ KeepsPlugins
<1>1. CASE \E x \in Shown : ToggleState(x)
  BY <1>1, ToggleKeeps
<1>2. CASE \E xs \in Selections \cup {Shown}, on \in BOOLEAN : SetEnabled(xs, on)
  BY <1>2, SetEnabledKeeps
<1>3. CASE \E xs \in Selections, p \in 0..Size(core.list) : MovePlugins(xs, p)
  BY <1>3, MoveKeeps
<1>4. CASE \E x \in Shown, p \in 0..Size(core.list) - 1 : EditPriority(x, p)
  <2>1. PICK x \in Shown, p \in 0..Size(core.list) - 1 : EditPriority(x, p)
    BY <1>4
  <2>2. p \in Int
    BY <2>1
  <2>3. QED
    BY <2>1, <2>2, EditKeeps
<1>5. CASE \E xs \in Selections, by \in {-1, 1} : ShiftSelection(xs, by)
  <2>1. PICK xs \in Selections, by \in {-1, 1} : ShiftSelection(xs, by)
    BY <1>5
  <2>2. by \in Int
    BY <2>1
  <2>3. QED
    BY <2>1, <2>2, ShiftKeeps
<1>6. CASE \E x \in Shown, lock \in BOOLEAN : SetLock(x, lock)
  BY <1>6, LockKeeps
<1>7. QED
  BY <1>1, <1>2, <1>3, <1>4, <1>5, <1>6, ShowKeeps, BackupKeeps, RestoreKeeps,
     StructureKeeps, SortStartKeeps, BeforeRunKeeps DEF UserStep

LEMMA PluginKeeps ==
  ASSUME ListInv, PluginStep
  PROVE  ListInv' /\ KeepsPlugins
<1>1. CASE \E x \in Shown, p \in 0..Size(core.list) - 1 : SetPriority(x, p)
  BY <1>1, SetPriorityKeeps
<1>2. CASE \E x \in Shown, on \in BOOLEAN : SetState(x, on)
  BY <1>2, StateKeeps
<1>3. CASE \E x \in Shown : PutFirst(x)
  BY <1>3, FirstKeeps
<1>4. CASE \E x \in Switchable, on \in BOOLEAN : SwitchMod(x, on)
  <2>1. PICK x \in Switchable, on \in BOOLEAN : SwitchMod(x, on)
    BY <1>4
  <2>2. CASE on = TRUE
    BY <2>1, <2>2, ModAdded
  <2>3. CASE on = FALSE
    BY <2>1, <2>3, ModRemoved
  <2>4. QED
    BY <2>1, <2>2, <2>3
<1>5. QED
  BY <1>1, <1>2, <1>3, <1>4 DEF PluginStep

LEMMA StepKeeps ==
  ASSUME ListInv, [Next]_vars
  PROVE  ListInv' /\ (KeepsPlugins \/ UNCHANGED vars)
<1>1. CASE UserStep
  BY <1>1, UserKeeps
<1>2. CASE PluginStep
  BY <1>2, PluginKeeps
<1>3. CASE Background
  BY <1>3, DirectoryKeeps, WriterKeeps DEF Background
<1>4. CASE ProgramStep
  BY <1>4, SortKeeps, StartedKeeps, AfterRunKeeps, RestartKeeps DEF ProgramStep
<1>5. CASE UNCHANGED vars
  BY <1>5 DEF ListInv, vars
<1>6. QED
  BY <1>1, <1>2, <1>3, <1>4, <1>5 DEF Next

\* Whatever users, plugins, the timer, updates and programs do in which order: the
\* core keeps its list and its files in order, and what is shown is on its way to
\* the files (ChangesReachFiles, see ListInv).
THEOREM ListsStay == Spec => []ListInv
<1>1. Init => ListInv
  BY FirstList
<1>2. ListInv /\ [Next]_vars => ListInv'
  BY StepKeeps
<1>3. QED
  BY <1>1, <1>2, PTL DEF Spec

\* Each plugin that is shown has one row and one priority, priorities have no
\* gap, and lists, locks and files name plugins only (updateIndices).
THEOREM PluginsTypeCorrect == Spec => []TypeOK
<1>1. ListInv => TypeOK
  <2>1. SUFFICES ASSUME ListInv PROVE TypeOK
    OBVIOUS
  <2> DEFINE list == core.list
  <2>2. /\ CoreOk(core) /\ ListOk(list) /\ OwnFiles(core.files) /\ core \in CoreSet
        /\ OwnFiles(backup) \/ backup = NoBackup
        /\ mods \subseteq Plugins /\ read \subseteq Plugins
    BY <2>1 DEF ListInv, CoreOk
  <2>3. core.tasks \in Seq({"save", "refresh", "reload"}) /\ core.available \subseteq Plugins
    BY <2>2 DEF CoreSet
  <2> HIDE DEF list
  <2>4. /\ ToSet(list.rows) = Present(list) /\ list.enabled \in [Present(list) -> BOOLEAN]
        /\ list.loadOrder \in [Present(list) -> -1..(Size(list) - 1)]
        /\ OwnLocks(list.locked)
    BY <2>2 DEF ListOk
  <2>5. /\ Size(list) \in Nat /\ Cardinality(Present(list)) = Size(list)
        /\ list.priority \in [Present(list) -> 0..(Size(list) - 1)]
        /\ \A q \in 0..(Size(list) - 1) : \E x \in Present(list) : list.priority[x] = q
    BY <2>2, ListFacts
  <2>6. {list.priority[x] : x \in Present(list)} = 0..Size(list) - 1
    BY <2>5
  <2>7. list.loadOrder \in [Present(list) -> 0..Size(list) - 1 \cup {-1}]
    <3>1. -1..(Size(list) - 1) \subseteq (0..Size(list) - 1) \cup {-1}
      BY <2>5
    <3>2. QED
      BY <2>4, <3>1
  <2>8. QED
    BY <2>2, <2>3, <2>4, <2>5, <2>6, <2>7 DEF TypeOK, Present, Shown, list
<1>2. QED
  BY <1>1, ListsStay, PTL

\* No change of the list is lost: what is shown is in the files, or a save or a
\* reading is on its way, or the change came without a signal (savePluginList,
\* refreshESPList, writePluginsList).
THEOREM ChangesAreSaved == Spec => []ChangesReachFiles
<1>1. ListInv => ChangesReachFiles
  BY DEF ListInv, Reaches, ChangesReachFiles
<1>2. QED
  BY <1>1, ListsStay, PTL

\* No save, and no change of mods, drops a plugin from the files whose mod is
\* enabled and was read, but SavedUnseen and the backup.
THEOREM PluginsStayInFiles == Spec => FilesKeepPlugins
<1>1. ListInv /\ [Next]_vars =>
        [\A x \in ToSet(core.files.order) \ ToSet(core'.files.order) :
           x \notin mods' \cap read \/ core'.files = backup \/ SavedUnseen(x)]_vars
  BY StepKeeps DEF KeepsPlugins
<1>2. QED
  BY <1>1, ListsStay, PTL DEF Spec, FilesKeepPlugins

-----------------------------------------------------------------------------
(* What is left alone: locks that are dropped, orders of some plugins *)

\* Lines of lockedorder.txt that lock nothing.
NoLocks(lines) == \A y \in DOMAIN lines : lines[y] < 0 \/ y \in Forced

\* Such lines are all that is read as no locks.
LEMMA NoneRead ==
  ASSUME NEW list, ListOk(list), NEW lines, OwnLocks(lines)
  PROVE  /\ ReadLockedOrder(list, lines).locked = <<>> => NoLocks(lines)
         /\ NoLocks(lines) /\ Forced \subseteq Present(list) =>
              ReadLockedOrder(list, lines).locked = <<>>
<1> DEFINE s == Ascending(DOMAIN lines)
           n == Len(s)
<1>1. PICK f : ReadsLines(f, list, lines)
  BY LinesRead
<1>2. /\ n \in Nat /\ \A k \in 1..n : s[k] \in DOMAIN lines
      /\ f[0] = [list EXCEPT !.locked = <<>>]
      /\ \A k \in 1..n : f[k] = ReadLock(f[k - 1], lines, s[k])
      /\ \A k \in 0..n : f[k] \in ReadStates(list)
      /\ ReadLockedOrder(list, lines) = f[n]
  BY <1>1 DEF ReadsLines
<1>3. s \in Seq(DOMAIN lines) /\ ToSet(s) = DOMAIN lines
  BY LockedOrders
<1>4. \A y \in DOMAIN lines : \E k \in 1..n : s[k] = y
  BY <1>3 DEF ToSet
<1> HIDE DEF s, n
<1>5. f[0].locked = <<>> /\ list \in Lists
  <2>1. list \in Lists
    BY DEF ListOk, Arranged
  <2>2. QED
    BY <1>2, <2>1 DEF Lists
<1>6. ASSUME NEW k \in 1..n
      PROVE  /\ Dropped(f[k - 1], lines[s[k]], s[k]) => f[k] = f[k - 1]
             /\ ~Dropped(f[k - 1], lines[s[k]], s[k]) =>
                  DOMAIN f[k].locked = DOMAIN f[k - 1].locked \cup {s[k]}
             /\ Dropped(f[k - 1], lines[s[k]], s[k]) <=>
                  (lines[s[k]] < 0 \/ s[k] \in Forced \cap Present(list))
  <2> DEFINE l == f[k - 1]
             x == s[k]
             order == lines[x]
             place == LockPlace(l, order, x)
  <2>1. l \in ReadStates(list)
    BY <1>2
  <2>2. l \in Lists /\ Present(l) = Present(list)
    BY <2>1, ReadStatesOk DEF ReadStates
  <2>3. f[k] = ReadLock(l, lines, x)
    BY <1>2
  <2> HIDE DEF l, x, order
  <2>4. f[k] = IF Dropped(l, order, x) THEN l ELSE [l EXCEPT !.locked = LocksWith(@, x, place)]
    BY <2>3, ReadLockIs, Zenon DEF order
  <2> HIDE DEF place
  <2>5. ~Dropped(l, order, x) => f[k].locked = LocksWith(l.locked, x, place)
    BY <2>2, <2>4 DEF Lists
  <2>6. DOMAIN LocksWith(l.locked, x, place) = DOMAIN l.locked \cup {x}
    BY DEF LocksWith
  <2>7. Dropped(l, order, x) <=> (order < 0 \/ x \in Forced \cap Present(list))
    BY <2>2 DEF Dropped
  <2>8. QED
    BY <2>4, <2>5, <2>6, <2>7 DEF l, x, order
<1>7. ASSUME f[n].locked = <<>> PROVE NoLocks(lines)
  <2>1. SUFFICES ASSUME NEW y \in DOMAIN lines, ~(lines[y] < 0), y \notin Forced PROVE FALSE
    BY DEF NoLocks
  <2>2. PICK j \in 1..n : s[j] = y
    BY <1>4
  <2> DEFINE P == {l \in ReadStates(list) : y \in DOMAIN l.locked}
             m == n - j
             h == [k \in 0..m |-> f[j + k]]
  <2>3. m \in Nat /\ n = j + m /\ j \in 0..n
    BY <1>2
  <2>4. f[j] \in P
    BY <1>2, <1>6, <2>1, <2>2, <2>3
  <2>5. ASSUME NEW k \in 1..m, f[j + (k - 1)] \in P PROVE f[j + k] \in P
    <3>1. j + k \in 1..n /\ (j + k) - 1 = j + (k - 1) /\ j + k \in 0..n
      BY <1>2, <2>3
    <3>2. y \in DOMAIN f[(j + k) - 1].locked
      BY <2>5, <3>1
    <3>3. f[j + k] = f[(j + k) - 1] \/
            DOMAIN f[j + k].locked = DOMAIN f[(j + k) - 1].locked \cup {s[j + k]}
      BY <1>6, <3>1
    <3>4. f[j + k] \in ReadStates(list)
      BY <1>2, <3>1
    <3>5. QED
      BY <3>2, <3>3, <3>4
  <2> HIDE DEF P, m
  <2>6. /\ h[0] = f[j] /\ h[m] = f[n]
        /\ \A k \in 1..m : h[k] = f[j + k] /\ h[k - 1] = f[j + (k - 1)]
    <3>1. 0 \in 0..m /\ m \in 0..m /\ j + 0 = j
      BY <1>2, <2>3
    <3>2. \A k \in 1..m : k \in 0..m /\ k - 1 \in 0..m
      BY <2>3
    <3>3. QED
      BY <2>3, <3>1, <3>2
  <2> HIDE DEF h
  <2>7. h[m] \in P
    <3>1. h[0] \in P
      BY <2>4, <2>6
    <3>2. ASSUME NEW k \in 1..m, h[k - 1] \in P PROVE h[k] \in P
      BY <2>5, <2>6, <3>2
    <3>3. QED
      BY <2>3, <3>1, <3>2, StepsStay
  <2>8. y \in DOMAIN <<>>
    BY <1>7, <2>6, <2>7 DEF P
  <2>9. QED
    BY <2>8
<1>8. ASSUME NoLocks(lines), Forced \subseteq Present(list) PROVE f[n].locked = <<>>
  <2> DEFINE P == {l \in ReadStates(list) : l.locked = <<>>}
  <2>1. f[0] \in P
    <3>1. 0 \in 0..n
      BY <1>2
    <3>2. QED
      BY <1>2, <1>5, <3>1
  <2>2. ASSUME NEW k \in 1..n, f[k - 1] \in P PROVE f[k] \in P
    <3>1. s[k] \in DOMAIN lines
      BY <1>2
    <3>2. lines[s[k]] < 0 \/ s[k] \in Forced \cap Present(list)
      BY <1>8, <3>1 DEF NoLocks
    <3>3. f[k] = f[k - 1]
      BY <1>6, <3>2
    <3>4. QED
      BY <2>2, <3>3
  <2> HIDE DEF P
  <2>3. f[n] \in P
    BY <1>2, <2>1, <2>2, StepsStay
  <2>4. QED
    BY <2>3 DEF P
<1>9. QED
  BY <1>2, <1>7, <1>8

\* Plugins selected in two steps.
LEMMA AmongTwice ==
  ASSUME NEW T, NEW s \in Seq(T), IsInjective(s), NEW R, NEW S, S \subseteq R
  PROVE  Among(Among(s, R), S) = Among(s, S)
<1> DEFINE key == PlacesIn(s)
           E == ToSet(s)
<1>1. Among(s, R) = SortedBy(E \cap R, key) /\ Keys(E \cap R, key)
  BY AmongLists
<1>2. Among(s, S) = SortedBy(E \cap S, key)
  BY AmongLists
<1> HIDE DEF key, E
<1>3. Among(SortedBy(E \cap R, key), S) = SortedBy((E \cap R) \cap S, key)
  BY <1>1, AmongSorted
<1>4. (E \cap R) \cap S = E \cap S
  OBVIOUS
<1>5. QED
  BY <1>1, <1>2, <1>3, <1>4

LEMMA PriorityTwice ==
  ASSUME NEW list, ListOk(list), NEW R, NEW S, S \subseteq R
  PROVE  Among(ByPriority(list, R), S) = ByPriority(list, S)
<1> DEFINE key == list.priority
           E == Present(list)
<1>1. Keys(R \cap E, key)
  BY ListFacts
<1>2. ByPriority(list, R) = SortedBy(R \cap E, key) /\ ByPriority(list, S) = SortedBy(S \cap E, key)
  BY DEF ByPriority
<1> HIDE DEF key, E
<1>3. Among(SortedBy(R \cap E, key), S) = SortedBy((R \cap E) \cap S, key)
  BY <1>1, AmongSorted
<1>4. (R \cap E) \cap S = S \cap E
  OBVIOUS
<1>5. QED
  BY <1>2, <1>3, <1>4

-----------------------------------------------------------------------------
(* What the steps leave alone *)

\* The plugins of Y are what is enabled of X, in the list and in the files.
EnabledAs(c, X, Y) ==
  /\ CoreOk(c) /\ X \subseteq Present(c.list) /\ Y \subseteq X
  /\ {x \in X : c.list.enabled[x]} = Y /\ c.files.active \cap X = Y

\* The plugins of X have the order s, in the list and in the files, and no locks.
OrderedAs(c, X, s) ==
  /\ CoreOk(c) /\ X \subseteq Present(c.list) /\ ToSet(s) = X
  /\ ByPriority(c.list, X) = s /\ Among(c.files.order, X) = s
  /\ c.list.locked = <<>> /\ NoLocks(c.files.locks)

\* savePluginList keeps them.
LEMMA SaveTracks ==
  ASSUME NEW c, CoreOk(c), NEW X
  PROVE  LET d == SavePluginList(c)
         IN  /\ \A Y : EnabledAs(c, X, Y) => EnabledAs(d, X, Y)
             /\ \A s : OrderedAs(c, X, s) => OrderedAs(d, X, s)
<1> DEFINE d == SavePluginList(c)
           saved == SavedPlugins(c.list)
<1>1. /\ CoreOk(d) /\ d.list = c.list
      /\ c.update => d.files = c.files
      /\ ~c.update => d.files = saved
  BY SavedOk
<1>2. /\ saved.locks = c.list.locked
      /\ saved.active = {x \in Present(c.list) : c.list.enabled[x]}
      /\ \A S : Among(saved.order, S) = ByPriority(c.list, S)
  <2>1. ListOk(c.list)
    BY DEF CoreOk
  <2>2. QED
    BY <2>1, SavedFiles
<1> HIDE DEF d, saved
<1>3. ASSUME NEW Y, EnabledAs(c, X, Y) PROVE EnabledAs(d, X, Y)
  <2>1. /\ X \subseteq Present(c.list) /\ Y \subseteq X
        /\ {x \in X : c.list.enabled[x]} = Y /\ c.files.active \cap X = Y
    BY <1>3 DEF EnabledAs
  <2>2. saved.active \cap X = Y
    BY <1>2, <2>1
  <2>3. d.files.active \cap X = Y
    BY <1>1, <2>1, <2>2
  <2>4. QED
    BY <1>1, <2>1, <2>3 DEF EnabledAs
<1>4. ASSUME NEW s, OrderedAs(c, X, s) PROVE OrderedAs(d, X, s)
  <2>1. /\ X \subseteq Present(c.list) /\ ToSet(s) = X
        /\ ByPriority(c.list, X) = s /\ Among(c.files.order, X) = s
        /\ c.list.locked = <<>> /\ NoLocks(c.files.locks)
    BY <1>4 DEF OrderedAs
  <2>2. Among(saved.order, X) = s /\ NoLocks(saved.locks)
    <3>1. DOMAIN <<>> = {}
      OBVIOUS
    <3>2. QED
      BY <1>2, <2>1, <3>1 DEF NoLocks
  <2>3. Among(d.files.order, X) = s /\ NoLocks(d.files.locks)
    BY <1>1, <2>1, <2>2
  <2>4. QED
    BY <1>1, <2>1, <2>3 DEF OrderedAs
<1>5. QED
  BY <1>3, <1>4 DEF d

\* refreshESPList as well, if the plugins are there.
LEMMA RefreshTracks ==
  ASSUME NEW c, CoreOk(c), NEW force, NEW X, ~c.update => X \subseteq c.available
  PROVE  LET d == RefreshESPList(c, force)
         IN  /\ \A Y : EnabledAs(c, X, Y) /\ X \cap Forced = {} => EnabledAs(d, X, Y)
             /\ \A s : OrderedAs(c, X, s) /\ (~c.update => Forced \subseteq c.available) =>
                         OrderedAs(d, X, s)
<1> DEFINE d == RefreshESPList(c, force)
           r == RefreshPlugins(c.list, c.files, c.available, force)
<1>0. /\ CoreOk(c) /\ ListOk(c.list) /\ OwnFiles(c.files) /\ c.available \in SUBSET Plugins
      /\ OwnLocks(c.files.locks)
  BY DEF CoreOk, CoreSet, OwnFiles
<1>1. /\ CoreOk(d) /\ d.files = c.files
      /\ c.update => d.list = c.list
      /\ ~c.update => d.list = r.list
  BY ESPListOk
<1>2. CASE c.update
  <2> HIDE DEF d
  <2>1. CoreOk(d) /\ d.files = c.files /\ d.list = c.list
    BY <1>1, <1>2
  <2>2. QED
    BY <2>1 DEF EnabledAs, OrderedAs, d
<1>3. CASE ~c.update
  <2>1. /\ ListOk(r.list) /\ Present(r.list) = c.available /\ r.moved \in BOOLEAN
        /\ r.list.enabled = [x \in c.available |-> x \in c.files.active \cup Forced]
        /\ ~r.moved => ByPriority(r.list, ToSet(c.files.order)) = Among(c.files.order, c.available)
    BY <1>0, RefreshedOk
  <2>2. X \subseteq c.available /\ CoreOk(d) /\ d.files = c.files /\ d.list = r.list
    BY <1>1, <1>3
  <2> HIDE DEF d
  <2>3. ASSUME NEW Y, EnabledAs(c, X, Y), X \cap Forced = {} PROVE EnabledAs(d, X, Y)
    <3>1. Y \subseteq X /\ c.files.active \cap X = Y
      BY <2>3 DEF EnabledAs
    <3>2. \A x \in X : d.list.enabled[x] <=> x \in c.files.active
      BY <2>1, <2>2, <2>3
    <3>3. {x \in X : d.list.enabled[x]} = Y
      BY <3>1, <3>2
    <3>4. QED
      BY <2>1, <2>2, <3>1, <3>3 DEF EnabledAs
  <2>4. ASSUME NEW s, OrderedAs(c, X, s), Forced \subseteq c.available PROVE OrderedAs(d, X, s)
    <3>1. ToSet(s) = X /\ Among(c.files.order, X) = s /\ NoLocks(c.files.locks)
      BY <2>4 DEF OrderedAs
    <3>2. r.list.locked = <<>> /\ ~r.moved
      <4>1. PICK built : ReadFrom(built, c.files, c.available) /\
                         r = RefreshLoadOrder(ReadLockedOrder(built, c.files.locks))
        BY <1>0, RefreshReads
      <4> DEFINE l == ReadLockedOrder(built, c.files.locks)
      <4>2. ListOk(built) /\ Present(built) = c.available
        BY <4>1 DEF ReadFrom
      <4>3. l.locked = <<>>
        BY <1>0, <2>4, <3>1, <4>2, NoneRead
      <4>4. ListOk(l)
        BY <1>0, <4>2, LocksReadOk
      <4>5. r = RefreshLoadOrder(l)
        BY <4>1
      <4> HIDE DEF l, r
      <4>6. DOMAIN l.locked = {}
        BY <4>3
      <4>7. SameRows(l, r.list) /\ ~r.moved
        BY <4>4, <4>5, <4>6, LoadOrderOk
      <4>8. QED
        BY <4>3, <4>7 DEF SameRows
    <3>3. ByPriority(r.list, ToSet(c.files.order)) = Among(c.files.order, c.available)
      BY <2>1, <3>2
    <3>4. c.files.order \in Seq(Plugins) /\ IsInjective(c.files.order)
      BY <1>0 DEF OwnFiles
    <3>5. X \subseteq ToSet(c.files.order)
      <4>1. ToSet(Among(c.files.order, X)) = ToSet(c.files.order) \cap X
        BY <3>4, AmongLists
      <4>2. QED
        BY <3>1, <4>1
    <3>6. Among(ByPriority(r.list, ToSet(c.files.order)), X) = ByPriority(r.list, X)
      BY <2>1, <3>5, PriorityTwice
    <3>7. Among(Among(c.files.order, c.available), X) = Among(c.files.order, X)
      BY <2>2, <3>4, AmongTwice
    <3>8. ByPriority(d.list, X) = s
      BY <2>2, <3>1, <3>3, <3>6, <3>7
    <3>9. QED
      BY <2>1, <2>2, <3>1, <3>2, <3>8 DEF OrderedAs
  <2>5. QED
    BY <1>3, <2>3, <2>4 DEF d
<1>4. QED
  BY <1>2, <1>3

LEMMA ListsTrack ==
  ASSUME NEW c, CoreOk(c), NEW X, ~c.update /\ c.available # {} => X \subseteq c.available
  PROVE  LET d == RefreshLists(c)
         IN  /\ \A Y : EnabledAs(c, X, Y) /\ X \cap Forced = {} => EnabledAs(d, X, Y)
             /\ \A s : OrderedAs(c, X, s) /\ (~c.update => Forced \subseteq c.available) =>
                         OrderedAs(d, X, s)
<1>1. CASE c.available = {}
  <2>1. RefreshLists(c) = c
    BY <1>1 DEF RefreshLists
  <2>2. QED
    BY <2>1
<1>2. CASE c.available # {}
  <2>1. RefreshLists(c) = RefreshESPList(c, TRUE)
    BY <1>2 DEF RefreshLists
  <2>2. ~c.update => X \subseteq c.available
    BY <1>2
  <2>3. \A force : LET d == RefreshESPList(c, force)
         IN  /\ \A Y : EnabledAs(c, X, Y) /\ X \cap Forced = {} => EnabledAs(d, X, Y)
             /\ \A s : OrderedAs(c, X, s) /\ (~c.update => Forced \subseteq c.available) =>
                         OrderedAs(d, X, s)
    BY <2>2, RefreshTracks
  <2>4. QED
    BY <2>1, <2>3, Zenon
<1>3. QED
  BY <1>1, <1>2

\* The mod of another plugin is switched.
LEMMA ActiveStateTracks ==
  ASSUME NEW c, CoreOk(c), NEW plugins, NEW on \in BOOLEAN, NEW X, plugins \cap X = {}
  PROVE  LET d == UpdateModsActiveState(c, plugins, on)
         IN  /\ \A Y : EnabledAs(c, X, Y) => EnabledAs(d, X, Y)
             /\ \A s : OrderedAs(c, X, s) => OrderedAs(d, X, s)
<1> DEFINE switched == Switched(c.list, plugins \cap c.available, on)
           done == RefreshLoadOrder(switched)
           after == done.list
           d == [[c EXCEPT !.list = after] EXCEPT !.pending = FALSE]
<1>1. c \in CoreSet /\ ListOk(c.list) /\ c.unannounced \in BOOLEAN /\ ListIs(c.list)
  BY ListFacts DEF CoreOk, CoreSet
<1>2. ListOk(switched) /\ Present(switched) = Present(c.list)
  BY <1>1, SwitchedOk
<1>3. /\ switched.locked = c.list.locked /\ switched.priority = c.list.priority
      /\ \A x \in X : x \in Present(c.list) => switched.enabled[x] = c.list.enabled[x]
  <2> DEFINE named == plugins \cap c.available
             enabled == [x \in DOMAIN c.list.enabled |->
                           IF x \in named THEN on \/ x \in Forced ELSE c.list.enabled[x]]
  <2>1. switched = [c.list EXCEPT !.enabled = enabled]
    BY <1>1 DEF Switched, ListIs
  <2>2. c.list.enabled \in [Present(c.list) -> BOOLEAN]
    BY <1>1 DEF ListOk
  <2>3. \A x \in X : x \in Present(c.list) => enabled[x] = c.list.enabled[x]
    BY <2>2
  <2> HIDE DEF enabled, switched
  <2>4. /\ switched.locked = c.list.locked /\ switched.priority = c.list.priority
        /\ switched.enabled = enabled
    BY <1>1, <2>1 DEF ListIs
  <2>5. QED
    BY <2>3, <2>4
<1>4. UpdateModsActiveState(c, plugins, on) = SavePluginList(d)
  BY DEF UpdateModsActiveState, WriteImmediately
<1> HIDE DEF switched
<1>5. /\ ListOk(after) /\ SameRows(switched, after)
      /\ ~done.moved => after.priority = switched.priority
      /\ DOMAIN switched.locked = {} => ~done.moved
  BY <1>2, LoadOrderOk
<1>6. Present(after) = Present(c.list) /\ after.enabled = switched.enabled
      /\ after.locked = c.list.locked
  BY <1>2, <1>3, <1>5 DEF SameRows
<1> HIDE DEF done, after
<1>7. OnlyListOf(c, d) /\ d.list = after /\ d.files = c.files
  <2>1. d = [[c EXCEPT !.list = after] EXCEPT !.pending = FALSE]
    OBVIOUS
  <2> HIDE DEF d
  <2>2. d = [list |-> after, files |-> c.files, available |-> c.available, update |-> c.update,
             tasks |-> c.tasks, pending |-> FALSE, unannounced |-> c.unannounced]
    BY <1>1, <2>1 DEF CoreSet
  <2>3. QED
    BY <1>1, <2>2 DEF OnlyListOf
<1> HIDE DEF d
<1>8. CoreOk(d)
  BY <1>5, <1>6, <1>7, ListChanged
<1>9. ASSUME NEW Y, EnabledAs(c, X, Y) PROVE EnabledAs(d, X, Y)
  <2>1. /\ X \subseteq Present(c.list) /\ Y \subseteq X
        /\ {x \in X : c.list.enabled[x]} = Y /\ c.files.active \cap X = Y
    BY <1>9 DEF EnabledAs
  <2>2. \A x \in X : d.list.enabled[x] = c.list.enabled[x]
    BY <1>3, <1>6, <1>7, <2>1
  <2>3. {x \in X : d.list.enabled[x]} = Y
    BY <2>1, <2>2
  <2>4. QED
    BY <1>6, <1>7, <1>8, <2>1, <2>3 DEF EnabledAs
<1>10. ASSUME NEW s, OrderedAs(c, X, s) PROVE OrderedAs(d, X, s)
  <2>1. /\ X \subseteq Present(c.list) /\ ToSet(s) = X
        /\ ByPriority(c.list, X) = s /\ Among(c.files.order, X) = s
        /\ c.list.locked = <<>> /\ NoLocks(c.files.locks)
    BY <1>10 DEF OrderedAs
  <2>2. DOMAIN switched.locked = {}
    BY <1>3, <2>1
  <2>3. after.priority = c.list.priority
    BY <1>3, <1>5, <2>2
  <2>4. ByPriority(d.list, X) = s
    BY <1>6, <1>7, <2>1, <2>3 DEF ByPriority
  <2>5. QED
    BY <1>6, <1>7, <1>8, <2>1, <2>4 DEF OrderedAs
<1>11. QED
  BY <1>4, <1>8, <1>9, <1>10, SaveTracks

\* What a list shows as the files have it.
LEMMA FirstTracks ==
  ASSUME NEW c, CoreOk(c), InFiles(c), NEW X, X \subseteq Present(c.list)
  PROVE  LET named == ToSet(c.files.order)
         IN  /\ X \cap Forced = {} => EnabledAs(c, X, {x \in X : c.list.enabled[x]})
             /\ c.list.locked = <<>> =>
                  OrderedAs(c, X \cap named, Among(c.files.order, X \cap named))
<1> DEFINE named == ToSet(c.files.order)
           shown == Present(c.list)
           O == X \cap named
           s == Among(c.files.order, O)
<1>1. /\ ByPriority(c.list, named) = Among(c.files.order, shown)
      /\ \A x \in shown \ Forced : c.list.enabled[x] <=> x \in c.files.active
      /\ c.list.locked \in {c.files.locks, ReadLockedOrder(c.list, c.files.locks).locked}
  BY DEF InFiles
<1>2. /\ ListOk(c.list) /\ OwnLocks(c.files.locks)
      /\ c.files.order \in Seq(Plugins) /\ IsInjective(c.files.order)
  BY DEF CoreOk, OwnFiles
<1>3. ASSUME X \cap Forced = {} PROVE EnabledAs(c, X, {x \in X : c.list.enabled[x]})
  <2> DEFINE Y == {x \in X : c.list.enabled[x]}
  <2>1. \A x \in X : c.list.enabled[x] <=> x \in c.files.active
    BY <1>1, <1>3
  <2>2. c.files.active \cap X = Y
    BY <2>1
  <2>3. Y \subseteq X /\ {x \in X : c.list.enabled[x]} = Y
    OBVIOUS
  <2> HIDE DEF Y
  <2>4. EnabledAs(c, X, Y)
    BY <2>2, <2>3 DEF EnabledAs
  <2>5. QED
    BY <2>4 DEF Y
<1>4. ASSUME c.list.locked = <<>> PROVE OrderedAs(c, O, s)
  <2>1. NoLocks(c.files.locks)
    <3>1. CASE c.files.locks = <<>>
      <4>1. DOMAIN <<>> = {}
        OBVIOUS
      <4>2. QED
        BY <3>1, <4>1 DEF NoLocks
    <3>2. CASE ReadLockedOrder(c.list, c.files.locks).locked = <<>>
      BY <1>2, <3>2, NoneRead
    <3>3. QED
      BY <1>1, <1>4, <3>1, <3>2
  <2>2. Among(ByPriority(c.list, named), O) = ByPriority(c.list, O)
    BY <1>2, PriorityTwice
  <2>3. Among(Among(c.files.order, shown), O) = s
    <3>1. O \subseteq shown
      OBVIOUS
    <3> HIDE DEF O, shown
    <3>2. QED
      BY <1>2, <3>1, AmongTwice
  <2>4. ByPriority(c.list, O) = s
    BY <1>1, <2>2, <2>3
  <2>5. ToSet(s) = O
    <3>1. ToSet(s) = named \cap O
      <4> HIDE DEF O
      <4>1. QED
        BY <1>2, AmongLists
    <3>2. QED
      BY <3>1
  <2>6. O \subseteq Present(c.list) /\ Among(c.files.order, O) = s
    OBVIOUS
  <2> HIDE DEF O, s
  <2>7. QED
    BY <1>4, <2>1, <2>4, <2>5, <2>6 DEF OrderedAs
<1>5. QED
  BY <1>3, <1>4

\* OthersKeepState of a step.
OthersLeft ==
  LET before == core.list
      after == core'.list
      named == ToSet(core.files.order)
      switched == (mods \ mods') \cup (mods' \ mods)
      others == (Present(before) \cap Present(after)) \ (switched \cup Forced)
  IN Background \/ switched # {} =>
       /\ InFiles(core) =>
            /\ \A x \in others : after.enabled[x] = before.enabled[x]
            /\ before.locked = <<>> =>
                 ByPriority(after, others \cap named) = ByPriority(before, others \cap named)
       /\ ~core.update => \A x \in mods' \ mods : after.enabled[x]

\* It follows from what is tracked.
LEMMA TracksTell ==
  ASSUME CoreOk(core), NEW X, X \cap Forced = {}, X \subseteq Present(core.list),
         InFiles(core), CoreOk(core'), X \subseteq Present(core'.list),
         \A Y : EnabledAs(core, X, Y) => EnabledAs(core', X, Y),
         LET O == X \cap ToSet(core.files.order)
         IN \A s : OrderedAs(core, O, s) => OrderedAs(core', O, s)
  PROVE  /\ \A x \in X : core'.list.enabled[x] = core.list.enabled[x]
         /\ core.list.locked = <<>> =>
              ByPriority(core'.list, X \cap ToSet(core.files.order)) =
                ByPriority(core.list, X \cap ToSet(core.files.order))
<1> DEFINE Y == {x \in X : core.list.enabled[x]}
           O == X \cap ToSet(core.files.order)
           s == Among(core.files.order, O)
<1>1. EnabledAs(core, X, Y) /\ (core.list.locked = <<>> => OrderedAs(core, O, s))
  BY FirstTracks
<1>2. EnabledAs(core', X, Y) /\ (core.list.locked = <<>> => OrderedAs(core', O, s))
  <2> HIDE DEF Y, s
  <2>1. QED
    BY <1>1
<1>3. \A x \in X : core'.list.enabled[x] = core.list.enabled[x]
  <2>1. \A x \in X : core'.list.enabled[x] \in BOOLEAN /\ core.list.enabled[x] \in BOOLEAN
    <3>1. core.list.enabled \in [Present(core.list) -> BOOLEAN]
      BY DEF CoreOk, ListOk
    <3>2. core'.list.enabled \in [Present(core'.list) -> BOOLEAN]
      BY DEF CoreOk, ListOk
    <3>3. QED
      BY <3>1, <3>2
  <2>2. {x \in X : core'.list.enabled[x]} = Y
    BY <1>2 DEF EnabledAs
  <2>3. QED
    BY <2>1, <2>2
<1>4. core.list.locked = <<>> => ByPriority(core'.list, O) = ByPriority(core.list, O)
  BY <1>1, <1>2 DEF OrderedAs
<1>5. QED
  BY <1>3, <1>4

\* The timer of the writer leaves the list alone.
LEMMA WriterLeaves ==
  ASSUME ListInv, WriterFires
  PROVE  OthersLeft
<1> DEFINE d == [core EXCEPT !.pending = FALSE]
<1>1. CoreOk(core) /\ core \in CoreSet /\ ListOk(core.list)
  BY DEF ListInv, CoreOk
<1>2. core' = SavePluginList(d) /\ mods' = mods
  BY DEF WriterFires, WriteImmediately
<1>3. d = [core EXCEPT !.pending = FALSE]
  OBVIOUS
<1> HIDE DEF d
<1>4. d = [list |-> core.list, files |-> core.files, available |-> core.available,
           update |-> core.update, tasks |-> core.tasks, pending |-> FALSE,
           unannounced |-> core.unannounced]
  BY <1>1, <1>3 DEF CoreSet
<1>5. OnlyListOf(core, d) /\ d.list = core.list
  BY <1>1, <1>4 DEF OnlyListOf, CoreSet
<1>6. CoreOk(d)
  BY <1>1, <1>5, ListChanged
<1>7. core'.list = core.list
  BY <1>2, <1>5, <1>6, SavedOk
<1>8. QED
  BY <1>2, <1>7 DEF OthersLeft

\* So do the tasks of an update, if the plugins were read.
LEMMA TaskTracks ==
  ASSUME NEW c, CoreOk(c), ~c.update, NEW task \in TaskNames,
         NEW X, X \subseteq c.available
  PROVE  LET d == Task(c, task)
         IN  /\ \A Y : EnabledAs(c, X, Y) /\ X \cap Forced = {} => EnabledAs(d, X, Y)
             /\ \A s : OrderedAs(c, X, s) /\ Forced \subseteq c.available => OrderedAs(d, X, s)
<1>1. CASE task = "save"
  <2>1. Task(c, task) = SavePluginList(c)
    BY <1>1 DEF Task
  <2>2. QED
    BY <2>1, SaveTracks
<1>2. CASE task # "save"
  <2> DEFINE force == task = "reload"
  <2>1. Task(c, task) = RefreshESPList(c, force)
    BY <1>2 DEF Task
  <2> HIDE DEF force
  <2>2. QED
    BY <2>1, RefreshTracks
<1>3. QED
  BY <1>1, <1>2

LEMMA DirectoryLeaves ==
  ASSUME ListInv, Forced \subseteq read, DirectoryRefreshed
  PROVE  OthersLeft
<1> DEFINE t == core.tasks
           n == Len(t)
           X == (Present(core.list) \cap Present(core'.list)) \ Forced
           O == X \cap ToSet(core.files.order)
<1>1. PICK h : TasksRun(h)
  BY TasksTaken
<1>2. /\ h[0] = Swapped /\ n \in Nat
      /\ \A k \in 1..n : t[k] \in TaskNames /\ h[k] = Task(h[k - 1], t[k])
      /\ \A k \in 0..n : CoreOk(h[k]) /\ ~h[k].update /\ h[k].available = read
      /\ Through(Task, Swapped, t) = h[n]
  BY <1>1 DEF TasksRun
<1>3. core' = RefreshLists(h[n]) /\ mods' = mods
  BY <1>2 DEF DirectoryRefreshed, Swapped
<1>4. CoreOk(core) /\ CoreOk(core') /\ ListInv'
  BY DirectoryKeeps DEF ListInv
<1> HIDE DEF t, n
<1>5. 0 \in 0..n /\ n \in 0..n /\ \A k \in 1..n : k - 1 \in 0..n
  BY <1>2
<1>6. core'.list = core.list \/ Present(core'.list) = read
  <2> DEFINE P == {c \in CoreSet : c.list = core.list \/ Present(c.list) = read}
  <2>0. \A k \in 0..n : h[k] \in CoreSet
    BY <1>2 DEF CoreOk
  <2>1. h[0] \in P
    BY <1>2, <1>5, <2>0, SwappedOk
  <2>2. ASSUME NEW k \in 1..n, h[k - 1] \in P PROVE h[k] \in P
    <3>1. CoreOk(h[k - 1]) /\ ~h[k - 1].update /\ h[k - 1].available = read
      BY <1>2, <1>5
    <3>2. t[k] \in TaskNames /\ h[k] = Task(h[k - 1], t[k])
      BY <1>2
    <3>3. LET d == Task(h[k - 1], t[k])
          IN  /\ t[k] = "save" => d.list = h[k - 1].list
              /\ t[k] # "save" => Present(d.list) = h[k - 1].available
      BY <3>1, <3>2, TaskFollows
    <3>4. h[k] \in CoreSet
      BY <1>2 DEF CoreOk
    <3>5. QED
      BY <2>2, <3>1, <3>2, <3>3, <3>4
  <2> HIDE DEF P
  <2>3. h[n] \in P
    BY <1>2, <2>1, <2>2, StepsStay
  <2>4. CASE read = {}
    <3>1. core' = h[n]
      BY <1>2, <1>3, <1>5, <2>4 DEF RefreshLists
    <3>2. QED
      BY <2>3, <3>1 DEF P
  <2>5. CASE read # {}
    <3>1. core' = RefreshESPList(h[n], TRUE)
      BY <1>2, <1>3, <1>5, <2>5 DEF RefreshLists
    <3>2. CoreOk(h[n]) /\ ~h[n].update /\ h[n].available = read
      BY <1>2, <1>5
    <3>3. QED
      BY <3>1, <3>2, ESPListOk
  <2>6. QED
    BY <2>4, <2>5
<1>7. CASE core'.list = core.list
  BY <1>3, <1>7 DEF OthersLeft
<1>8. CASE Present(core'.list) = read
  <2>1. X \subseteq read /\ O \subseteq read /\ X \cap Forced = {}
    BY <1>8
  <2> HIDE DEF X
  <2>2. ASSUME NEW Y, EnabledAs(core, X, Y) PROVE EnabledAs(core', X, Y)
    <3> DEFINE P == {c \in CoreSet : EnabledAs(c, X, Y)}
    <3>0. \A k \in 0..n : h[k] \in CoreSet
      BY <1>2 DEF CoreOk
    <3>1. h[0] \in P
      <4>1. EnabledAs(Swapped, X, Y)
        BY <2>2, SwappedOk DEF EnabledAs
      <4>2. QED
        BY <1>2, <1>5, <3>0, <4>1
    <3>2. ASSUME NEW k \in 1..n, h[k - 1] \in P PROVE h[k] \in P
      <4>1. CoreOk(h[k - 1]) /\ ~h[k - 1].update /\ X \subseteq h[k - 1].available
        BY <1>2, <1>5, <2>1
      <4>2. t[k] \in TaskNames /\ h[k] = Task(h[k - 1], t[k]) /\ h[k] \in CoreSet
        BY <1>2 DEF CoreOk
      <4>3. QED
        BY <2>1, <3>2, <4>1, <4>2, TaskTracks
    <3> HIDE DEF P
    <3>3. h[n] \in P
      BY <1>2, <3>1, <3>2, StepsStay
    <3>4. CoreOk(h[n]) /\ X \subseteq h[n].available
      BY <1>2, <1>5, <2>1
    <3>5. QED
      BY <1>3, <2>1, <3>3, <3>4, ListsTrack DEF P
  <2>3. ASSUME NEW s, OrderedAs(core, O, s) PROVE OrderedAs(core', O, s)
    <3> HIDE DEF O
    <3> DEFINE P == {c \in CoreSet : OrderedAs(c, O, s)}
    <3>0. \A k \in 0..n : h[k] \in CoreSet
      BY <1>2 DEF CoreOk
    <3>1. h[0] \in P
      <4>1. OrderedAs(Swapped, O, s)
        BY <2>3, SwappedOk DEF OrderedAs
      <4>2. QED
        BY <1>2, <1>5, <3>0, <4>1
    <3>2. ASSUME NEW k \in 1..n, h[k - 1] \in P PROVE h[k] \in P
      <4>1. CoreOk(h[k - 1]) /\ ~h[k - 1].update /\ O \subseteq h[k - 1].available
              /\ Forced \subseteq h[k - 1].available
        BY <1>2, <1>5, <2>1
      <4>2. t[k] \in TaskNames /\ h[k] = Task(h[k - 1], t[k]) /\ h[k] \in CoreSet
        BY <1>2 DEF CoreOk
      <4>3. QED
        BY <3>2, <4>1, <4>2, TaskTracks
    <3> HIDE DEF P
    <3>3. h[n] \in P
      BY <1>2, <3>1, <3>2, StepsStay
    <3>4. CoreOk(h[n]) /\ O \subseteq h[n].available /\ Forced \subseteq h[n].available
      BY <1>2, <1>5, <2>1
    <3>5. QED
      BY <1>3, <3>3, <3>4, ListsTrack DEF P
  <2>4. X \subseteq Present(core.list) /\ X \subseteq Present(core'.list)
    BY DEF X
  <2>5. ASSUME InFiles(core)
        PROVE  /\ \A x \in X : core'.list.enabled[x] = core.list.enabled[x]
               /\ core.list.locked = <<>> =>
                    ByPriority(core'.list, O) = ByPriority(core.list, O)
    BY <1>4, <2>1, <2>2, <2>3, <2>4, <2>5, TracksTell
  <2>6. mods \ mods' = {} /\ mods' \ mods = {}
    BY <1>3
  <2>7. QED
    BY <2>5, <2>6 DEF OthersLeft, X
<1>9. QED
  BY <1>6, <1>7, <1>8

\* A mod that is enabled: its plugin is, and the others stay.
LEMMA AddedLeaves ==
  ASSUME ListInv, Forced \subseteq mods \cap read, NEW y \in Switchable, SwitchMod(y, TRUE)
  PROVE  OthersLeft
<1> DEFINE available == core.available \cup {y}
           c == [core EXCEPT !.available = available]
           d == RefreshESPList(c, TRUE)
           e == UpdateModsActiveState(d, {y}, TRUE)
           X == (Present(core.list) \cap Present(core'.list)) \ ({y} \cup Forced)
           O == X \cap ToSet(core.files.order)
<1>1. core' = RefreshLists(e) /\ mods' = mods \cup {y} /\ y \notin mods
  <2>1. core' = RefreshLists(UpdateModsActiveState(
                  RefreshESPList([core EXCEPT !.available = @ \cup {y}], TRUE), {y}, TRUE))
    BY DEF SwitchMod
  <2>2. core \in CoreSet
    BY DEF ListInv, CoreOk
  <2>3. [core EXCEPT !.available = @ \cup {y}] = c
    BY <2>2 DEF CoreSet
  <2>4. mods' = mods \cup {y} /\ y \notin mods
    BY DEF SwitchMod
  <2>5. QED
    BY <2>1, <2>3, <2>4
<1>2. /\ CoreOk(core) /\ core.available \subseteq Plugins /\ y \in Plugins /\ y \notin Forced
      /\ core.update \in BOOLEAN
  BY FirstAssumption DEF ListInv, CoreOk, CoreSet
<1>3. /\ CoreOk(c) /\ c.files = core.files /\ c.list = core.list /\ c.update = core.update
      /\ c.available = available
  BY <1>2, AvailableChanged
<1> HIDE DEF c
<1>4. /\ CoreOk(d) /\ d.available = available /\ d.update = core.update
      /\ ~core.update => Present(d.list) = available
  <2>1. Follows(c, d) /\ (~c.update => Present(d.list) = c.available)
    BY <1>3, RefreshFollows
  <2> HIDE DEF d
  <2>2. CoreOk(d) /\ d.available = c.available /\ d.update = c.update
    BY <2>1 DEF Follows
  <2>3. QED
    BY <1>2, <1>3, <2>1, <2>2
<1>5. /\ CoreOk(e) /\ Reaches(e) /\ e.available = available /\ e.update = core.update
  <2>1. \A on \in BOOLEAN : Follows(d, UpdateModsActiveState(d, {y}, on))
    BY <1>4, ActiveStateFollows
  <2>2. TRUE \in BOOLEAN
    OBVIOUS
  <2>3. Follows(d, e)
    BY <2>1, <2>2, Zenon
  <2> HIDE DEF d, e
  <2>4. QED
    BY <1>4, <2>3 DEF Follows
<1>6. CoreOk(core') /\ (~core.update => Present(core'.list) = available)
  <2> HIDE DEF e
  <2>1. Follows(e, core') /\ (~e.update /\ e.available # {} => Present(core'.list) = e.available)
    BY <1>1, <1>5, ListsRefreshed
  <2>2. available # {}
    OBVIOUS
  <2>3. QED
    BY <1>2, <1>5, <2>1, <2>2 DEF Follows
<1>7. ~core.update => Forced \subseteq available
  BY DEF ListInv
<1>8. \A on \in BOOLEAN : \A Z : {y} \cap Z = {} =>
        LET f == UpdateModsActiveState(d, {y}, on)
        IN  /\ \A Y : EnabledAs(d, Z, Y) => EnabledAs(f, Z, Y)
            /\ \A s : OrderedAs(d, Z, s) => OrderedAs(f, Z, s)
  BY <1>4, ActiveStateTracks
<1>9. \A Z : {y} \cap Z = {} =>
        /\ \A Y : EnabledAs(d, Z, Y) => EnabledAs(e, Z, Y)
        /\ \A s : OrderedAs(d, Z, s) => OrderedAs(e, Z, s)
  <2> HIDE DEF d
  <2>1. TRUE \in BOOLEAN
    OBVIOUS
  <2>2. QED
    BY <1>8, <2>1, Zenon
<1>10. ~core.update => core'.list.enabled[y]
  <2>1. SUFFICES ASSUME ~core.update PROVE core'.list.enabled[y]
    OBVIOUS
  <2> DEFINE switched == Switched(d.list, {y} \cap d.available, TRUE)
             done == RefreshLoadOrder(switched).list
             f == [[d EXCEPT !.list = done] EXCEPT !.pending = FALSE]
  <2>2. e = SavePluginList(f)
    BY DEF UpdateModsActiveState, WriteImmediately
  <2> HIDE DEF d, e
  <2>3. d \in CoreSet /\ ListOk(d.list) /\ y \in Present(d.list) /\ {y} \cap d.available = {y}
        /\ ListIs(d.list)
    BY <1>4, <2>1, ListFacts DEF CoreOk
  <2>4. ListOk(switched) /\ Present(switched) = Present(d.list) /\ switched.enabled[y]
    <3>1. ListOk(switched) /\ Present(switched) = Present(d.list)
      <4>1. \A on \in BOOLEAN : LET l == Switched(d.list, {y} \cap d.available, on)
                                IN ListOk(l) /\ Present(l) = Present(d.list)
        BY <2>3, SwitchedOk
      <4>2. TRUE \in BOOLEAN
        OBVIOUS
      <4>3. QED
        BY <4>1, <4>2, Zenon
    <3>2. switched.enabled[y]
      <4> DEFINE enabled == [x \in DOMAIN d.list.enabled |->
                               IF x \in {y} THEN TRUE \/ x \in Forced ELSE d.list.enabled[x]]
      <4>1. switched = [d.list EXCEPT !.enabled = enabled]
        BY <2>3 DEF Switched, ListIs
      <4>2. y \in DOMAIN d.list.enabled
        BY <2>3 DEF ListOk
      <4>3. enabled[y]
        BY <4>2
      <4> HIDE DEF enabled, switched
      <4>4. switched.enabled = enabled
        BY <2>3, <4>1 DEF ListIs
      <4>5. QED
        BY <4>3, <4>4
    <3>3. QED
      BY <3>1, <3>2
  <2> HIDE DEF switched
  <2>5. ListOk(done) /\ Present(done) = Present(d.list) /\ done.enabled[y]
    BY <2>4, LoadOrderOk DEF SameRows
  <2> HIDE DEF done
  <2>6. OnlyListOf(d, f) /\ f.list = done
    <3>1. f = [[d EXCEPT !.list = done] EXCEPT !.pending = FALSE]
      OBVIOUS
    <3> HIDE DEF f
    <3>2. f = [list |-> done, files |-> d.files, available |-> d.available,
               update |-> d.update, tasks |-> d.tasks, pending |-> FALSE,
               unannounced |-> d.unannounced]
      BY <2>3, <3>1 DEF CoreSet
    <3>3. QED
      BY <2>3, <3>2 DEF OnlyListOf, CoreSet
  <2> HIDE DEF f
  <2>7. CoreOk(f) /\ f.update = d.update
    BY <1>4, <2>5, <2>6, ListChanged
  <2>8. e.list = done /\ e.files = SavedPlugins(done)
    BY <1>2, <1>4, <2>1, <2>2, <2>6, <2>7, SavedOk
  <2>9. y \in e.files.active
    <3>1. SavedPlugins(done).active = {x \in Present(done) : done.enabled[x]}
      BY <2>5, SavedFiles
    <3>2. QED
      BY <2>3, <2>5, <2>8, <3>1
  <2>10. EnabledAs(e, {y}, {y})
    BY <1>5, <2>3, <2>5, <2>8, <2>9 DEF EnabledAs
  <2>11. EnabledAs(core', {y}, {y})
    <3>1. ~e.update /\ e.available # {} => {y} \subseteq e.available
      BY <1>5
    <3>2. {y} \cap Forced = {}
      BY <1>2
    <3>3. QED
      BY <1>1, <1>5, <2>10, <3>1, <3>2, ListsTrack
  <2>12. QED
    BY <2>11 DEF EnabledAs
<1>11. /\ ~core.update => X \subseteq available /\ O \subseteq available
       /\ X \cap Forced = {} /\ {y} \cap X = {} /\ {y} \cap O = {}
       /\ X \subseteq Present(core.list) /\ X \subseteq Present(core'.list)
  BY <1>6
<1> HIDE DEF e, X, available
<1>12. ASSUME NEW Y, EnabledAs(core, X, Y) PROVE EnabledAs(core', X, Y)
  <2>1. EnabledAs(c, X, Y)
    BY <1>3, <1>12 DEF EnabledAs
  <2>2. ~c.update => X \subseteq c.available
    BY <1>2, <1>3, <1>11
  <2>3. EnabledAs(d, X, Y)
    BY <1>3, <1>11, <2>1, <2>2, RefreshTracks
  <2> HIDE DEF d
  <2>4. EnabledAs(e, X, Y)
    BY <1>9, <1>11, <2>3
  <2>5. ~e.update /\ e.available # {} => X \subseteq e.available
    BY <1>2, <1>5, <1>11
  <2>6. QED
    BY <1>1, <1>5, <1>11, <2>4, <2>5, ListsTrack
<1>13. ASSUME NEW s, OrderedAs(core, O, s) PROVE OrderedAs(core', O, s)
  <2> HIDE DEF O
  <2>1. OrderedAs(c, O, s)
    BY <1>3, <1>13 DEF OrderedAs
  <2>2. ~c.update => O \subseteq c.available
    BY <1>2, <1>3, <1>11
  <2>3. ~c.update => Forced \subseteq c.available
    BY <1>2, <1>3, <1>7
  <2>4. OrderedAs(d, O, s)
    BY <1>3, <2>1, <2>2, <2>3, RefreshTracks
  <2> HIDE DEF d
  <2>5. OrderedAs(e, O, s)
    BY <1>9, <1>11, <2>4
  <2>6. ~e.update /\ e.available # {} => O \subseteq e.available
    BY <1>2, <1>5, <1>11
  <2>7. ~e.update => Forced \subseteq e.available
    BY <1>2, <1>5, <1>7
  <2>8. QED
    BY <1>1, <1>5, <2>5, <2>6, <2>7, ListsTrack
<1>14. ASSUME InFiles(core)
       PROVE  /\ \A x \in X : core'.list.enabled[x] = core.list.enabled[x]
              /\ core.list.locked = <<>> =>
                   ByPriority(core'.list, O) = ByPriority(core.list, O)
  BY <1>2, <1>6, <1>11, <1>12, <1>13, <1>14, TracksTell
<1>15. (mods \ mods') \cup (mods' \ mods) = {y} /\ mods' \ mods = {y}
  BY <1>1
<1>16. QED
  BY <1>10, <1>14, <1>15 DEF OthersLeft, X

\* A mod that is disabled: the other plugins stay.
LEMMA RemovedLeaves ==
  ASSUME ListInv, Forced \subseteq mods \cap read, NEW y \in Switchable, SwitchMod(y, FALSE)
  PROVE  OthersLeft
<1> DEFINE c == UpdateModsActiveState(core, {y}, FALSE)
           available == core.available \ {y}
           d == [c EXCEPT !.available = available]
           X == (Present(core.list) \cap Present(core'.list)) \ ({y} \cup Forced)
           O == X \cap ToSet(core.files.order)
<1>1. CoreOk(core) /\ core.update \in BOOLEAN /\ y \notin Forced
  BY FirstAssumption DEF ListInv, CoreOk, CoreSet
<1>2. CoreOk(c) /\ Reaches(c) /\ Follows(core, c)
  BY <1>1, ActiveStateFollows DEF Follows
<1>3. core' = RefreshLists(d) /\ mods' = mods \ {y} /\ y \in mods
  <2>1. core' = RefreshLists([c EXCEPT !.available = @ \ {y}])
    BY DEF SwitchMod
  <2>2. [c EXCEPT !.available = @ \ {y}] = d
    <3>1. c \in CoreSet /\ c.available = core.available
      BY <1>2 DEF CoreOk, Follows
    <3> HIDE DEF c
    <3>2. QED
      BY <3>1 DEF CoreSet
  <2>3. mods' = mods \ {y}
    BY DEF SwitchMod
  <2>4. FALSE # (y \in mods)
    BY DEF SwitchMod
  <2>5. y \in mods
    <3>1. SUFFICES ASSUME y \notin mods PROVE FALSE
      OBVIOUS
    <3>2. (y \in mods) = FALSE
      BY <3>1
    <3>3. QED
      BY <2>4, <3>2
  <2>6. QED
    BY <2>1, <2>2, <2>3, <2>5
<1>4. available \in SUBSET Plugins
  BY <1>1 DEF CoreOk, CoreSet
<1>5. \A Z : {y} \cap Z = {} =>
        /\ \A Y : EnabledAs(core, Z, Y) => EnabledAs(c, Z, Y)
        /\ \A s : OrderedAs(core, Z, s) => OrderedAs(c, Z, s)
  <2>1. \A on \in BOOLEAN : \A Z : {y} \cap Z = {} =>
          LET f == UpdateModsActiveState(core, {y}, on)
          IN  /\ \A Y : EnabledAs(core, Z, Y) => EnabledAs(f, Z, Y)
              /\ \A s : OrderedAs(core, Z, s) => OrderedAs(f, Z, s)
    BY <1>1, ActiveStateTracks
  <2>2. FALSE \in BOOLEAN
    OBVIOUS
  <2>3. QED
    BY <2>1, <2>2, Zenon
<1> HIDE DEF c
<1>6. /\ CoreOk(d) /\ Reaches(d) /\ d.files = c.files /\ d.list = c.list
      /\ d.update = core.update /\ d.available = available
  <2>1. /\ CoreOk(d) /\ Reaches(d) /\ d.files = c.files /\ d.list = c.list
        /\ d.update = c.update /\ d.available = available
    BY <1>2, <1>4, AvailableChanged
  <2>2. c.update = core.update
    BY <1>2 DEF Follows
  <2>3. QED
    BY <2>1, <2>2
<1> HIDE DEF d
<1>7. /\ CoreOk(core')
      /\ ~core.update /\ available # {} => Present(core'.list) = available
  <2>1. Follows(d, core') /\ (~d.update /\ d.available # {} => Present(core'.list) = d.available)
    BY <1>3, <1>6, ListsRefreshed
  <2>2. QED
    BY <1>1, <1>6, <2>1 DEF Follows
<1>8. ~core.update => Forced \subseteq available
  BY <1>1 DEF ListInv
<1>9. /\ ~core.update /\ available # {} => X \subseteq available /\ O \subseteq available
      /\ X \cap Forced = {} /\ {y} \cap X = {} /\ {y} \cap O = {}
      /\ X \subseteq Present(core.list) /\ X \subseteq Present(core'.list)
  BY <1>7
<1> HIDE DEF X, available
<1>10. ASSUME NEW Y, EnabledAs(core, X, Y) PROVE EnabledAs(core', X, Y)
  <2>1. EnabledAs(c, X, Y)
    BY <1>5, <1>9, <1>10
  <2>2. EnabledAs(d, X, Y)
    BY <1>6, <2>1 DEF EnabledAs
  <2>3. ~d.update /\ d.available # {} => X \subseteq d.available
    BY <1>1, <1>6, <1>9
  <2>4. QED
    BY <1>3, <1>6, <1>9, <2>2, <2>3, ListsTrack
<1>11. ASSUME NEW s, OrderedAs(core, O, s) PROVE OrderedAs(core', O, s)
  <2> HIDE DEF O
  <2>1. OrderedAs(c, O, s)
    BY <1>5, <1>9, <1>11
  <2>2. OrderedAs(d, O, s)
    BY <1>6, <2>1 DEF OrderedAs
  <2>3. ~d.update /\ d.available # {} => O \subseteq d.available
    BY <1>1, <1>6, <1>9
  <2>4. ~d.update => Forced \subseteq d.available
    BY <1>1, <1>6, <1>8
  <2>5. QED
    BY <1>3, <1>6, <2>2, <2>3, <2>4, ListsTrack
<1>12. ASSUME InFiles(core)
       PROVE  /\ \A x \in X : core'.list.enabled[x] = core.list.enabled[x]
              /\ core.list.locked = <<>> =>
                   ByPriority(core'.list, O) = ByPriority(core.list, O)
  BY <1>1, <1>7, <1>9, <1>10, <1>11, <1>12, TracksTell
<1>13. (mods \ mods') \cup (mods' \ mods) = {y} /\ mods' \ mods = {}
  BY <1>3
<1>14. QED
  BY <1>12, <1>13 DEF OthersLeft, X

-----------------------------------------------------------------------------
\* The game's own plugins are always there.
ForcedThere == Forced \subseteq mods \cap read

LEMMA ForcedStays ==
  ASSUME ForcedThere, [Next]_vars
  PROVE  ForcedThere'
<1>1. \/ mods' = mods /\ read' \in {read, mods}
      \/ \E x \in Switchable, on \in BOOLEAN : SwitchMod(x, on)
  <2>1. ASSUME NEW c, Command(c) PROVE mods' = mods /\ read' \in {read, mods}
    BY <2>1 DEF Command
  <2>2. CASE UserStep
    BY <2>1, <2>2 DEF UserStep, ToggleState, SetEnabled, MovePlugins, EditPriority,
       ShiftSelection, SetLock, ShowTab, SaveBackup, RestoreBackup,
       RefreshDirectoryStructure, SortStarts, BeforeRun
  <2>3. CASE PluginStep
    BY <2>1, <2>3 DEF PluginStep, SetPriority, SetState, PutFirst
  <2>4. CASE Background
    BY <2>4 DEF Background, DirectoryRefreshed, WriterFires
  <2>5. CASE ProgramStep
    BY <2>5 DEF ProgramStep, SortEnds, Started, AfterRun, Restart
  <2>6. CASE UNCHANGED vars
    BY <2>6 DEF vars
  <2>7. QED
    BY <2>2, <2>3, <2>4, <2>5, <2>6 DEF Next
<1>2. CASE mods' = mods /\ read' \in {read, mods}
  BY <1>2 DEF ForcedThere
<1>3. CASE \E x \in Switchable, on \in BOOLEAN : SwitchMod(x, on)
  <2>1. PICK x \in Switchable, on \in BOOLEAN : SwitchMod(x, on)
    BY <1>3
  <2>2. mods \ {x} \subseteq mods' /\ read \subseteq read'
    BY <2>1 DEF SwitchMod
  <2>3. QED
    BY <2>2, FirstAssumption DEF ForcedThere
<1>4. QED
  BY <1>1, <1>2, <1>3

LEMMA StepLeaves ==
  ASSUME ListInv, ForcedThere, [Next]_vars
  PROVE  OthersLeft
<1>1. CASE Background
  BY <1>1, WriterLeaves, DirectoryLeaves DEF Background, ForcedThere
<1>2. CASE \E x \in Switchable, on \in BOOLEAN : SwitchMod(x, on)
  <2>1. PICK x \in Switchable, on \in BOOLEAN : SwitchMod(x, on)
    BY <1>2
  <2>2. CASE on = TRUE
    BY <2>1, <2>2, AddedLeaves DEF ForcedThere
  <2>3. CASE on = FALSE
    BY <2>1, <2>3, RemovedLeaves DEF ForcedThere
  <2>4. QED
    BY <2>1, <2>2, <2>3
<1>3. CASE mods' = mods /\ ~Background
  BY <1>3 DEF OthersLeft
<1>4. mods' = mods \/ \E x \in Switchable, on \in BOOLEAN : SwitchMod(x, on)
  <2>1. ASSUME NEW c, Command(c) PROVE mods' = mods
    BY <2>1 DEF Command
  <2>2. CASE UserStep
    BY <2>1, <2>2 DEF UserStep, ToggleState, SetEnabled, MovePlugins, EditPriority,
       ShiftSelection, SetLock, ShowTab, SaveBackup, RestoreBackup,
       RefreshDirectoryStructure, SortStarts, BeforeRun
  <2>3. CASE PluginStep
    BY <2>1, <2>3 DEF PluginStep, SetPriority, SetState, PutFirst
  <2>4. CASE Background
    BY <2>4 DEF Background, DirectoryRefreshed, WriterFires
  <2>5. CASE ProgramStep
    BY <2>5 DEF ProgramStep, SortEnds, Started, AfterRun, Restart
  <2>6. CASE UNCHANGED vars
    BY <2>6 DEF vars
  <2>7. QED
    BY <2>2, <2>3, <2>4, <2>5, <2>6 DEF Next
<1>5. QED
  BY <1>1, <1>2, <1>3, <1>4

\* The timer, the end of an update and a change of mods leave what is shown of the
\* other plugins as it was if the files had it so, however many there are; a mod
\* that is enabled has its plugin enabled (modStatusChanged, directory_refreshed,
\* DelayedFileWriter).
THEOREM OthersStay == Spec => OthersKeepState
<1>1. Init => ListInv /\ ForcedThere
  BY FirstList, FirstAssumption DEF Init, ForcedThere
<1>2. ListInv /\ ForcedThere /\ [Next]_vars => ListInv' /\ ForcedThere'
  BY StepKeeps, ForcedStays
<1>3. ListInv /\ ForcedThere /\ [Next]_vars =>
        [LET before == core.list
             after == core'.list
             named == ToSet(core.files.order)
             switched == (mods \ mods') \cup (mods' \ mods)
             others == (Present(before) \cap Present(after)) \ (switched \cup Forced)
         IN Background \/ switched # {} =>
              /\ InFiles(core) =>
                   /\ \A x \in others : after.enabled[x] = before.enabled[x]
                   /\ before.locked = <<>> =>
                        ByPriority(after, others \cap named) = ByPriority(before, others \cap named)
              /\ ~core.update => \A x \in mods' \ mods : after.enabled[x]]_vars
  BY StepLeaves DEF OthersLeft
<1>4. QED
  BY <1>1, <1>2, <1>3, PTL DEF Spec, OthersKeepState

-----------------------------------------------------------------------------
(* The places of a kind *)

\* The kinds of plugins that can be moved.
FreeKinds == {Top \ Forced, Plugins \ Top}

\* A list of all plugins, each among its kind.
InKinds(list) == ListOk(list) /\ KindsApart(list) /\ Present(list) = Plugins

\* The plugins of K have the places from lo to hi.
Span(list, K, lo, hi) ==
  /\ K \subseteq Present(list)
  /\ lo \in 0..(Size(list) - 1) /\ hi \in lo..(Size(list) - 1)
  /\ \A y \in Present(list) : y \in K <=> list.priority[y] \in lo..hi

Within(p, lo, hi) == IF p < lo THEN lo ELSE IF p > hi THEN hi ELSE p

\* The kinds are apart, and each is all of masters or none.
LEMMA FreeKindFacts ==
  ASSUME NEW K \in FreeKinds
  PROVE  /\ K \subseteq Plugins /\ K \cap Forced = {}
         /\ \A x, y \in K : x \in Top <=> y \in Top
         /\ \A J \in FreeKinds : J = K \/ J \cap K = {}
BY PluginAssumption, InstanceAssumption DEF FreeKinds

\* A kind has the places between its first and its last one.
LEMMA KindSpans ==
  ASSUME NEW list, InKinds(list), NEW K \in FreeKinds, K # {}
  PROVE  /\ Span(list, K, Min({list.priority[y] : y \in K}), Max({list.priority[y] : y \in K}))
         /\ {list.priority[y] : y \in K} =
              Min({list.priority[y] : y \in K})..Max({list.priority[y] : y \in K})
<1> DEFINE R == {list.priority[y] : y \in K}
           n == Size(list)
           lo == Min(R)
           hi == Max(R)
<1>1. /\ ListOk(list) /\ KindsApart(list) /\ Present(list) = Plugins /\ Arranged(list)
  BY DEF InKinds, ListOk
<1>2. /\ n \in Nat /\ \A y \in Plugins : list.priority[y] \in 0..(n - 1)
      /\ \A x, y \in Plugins : list.priority[x] = list.priority[y] => x = y
      /\ \A q \in 0..(n - 1) : \E x \in Plugins : list.priority[x] = q
  BY <1>1, ListFacts
<1>3. K \subseteq Plugins /\ K \cap Forced = {} /\ \A x, y \in K : x \in Top <=> y \in Top
  BY FreeKindFacts
<1>4. R \in SUBSET (0..(n - 1)) /\ R # {} /\ n > 0 /\ n - 1 \in Nat
  <2>1. R \in SUBSET (0..(n - 1)) /\ R # {}
    BY <1>2, <1>3
  <2>2. QED
    BY <1>2, <2>1
<1>5. lo \in R /\ hi \in R /\ \A r \in R : lo <= r /\ r <= hi
  <2> HIDE DEF R, n
  <2>1. R \in SUBSET Nat
    BY <1>4
  <2>2. lo \in R /\ \A r \in R : lo <= r
    BY <1>4, <2>1, MinProperty
  <2>3. hi \in R /\ \A r \in R : r <= hi
    BY <1>4, MaxProperty
  <2>4. QED
    BY <2>2, <2>3
<1>6. PICK a \in K, b \in K : list.priority[a] = lo /\ list.priority[b] = hi
  BY <1>5
<1> HIDE DEF lo, hi, n
<1>7. ASSUME NEW y \in Plugins, list.priority[y] \in lo..hi PROVE y \in K
  <2>1. a \in Plugins /\ b \in Plugins /\ list.priority[a] \in Int /\ list.priority[b] \in Int
        /\ list.priority[y] \in Int
    BY <1>2, <1>3
  <2>2. ~(list.priority[y] < list.priority[a]) /\ ~(list.priority[b] < list.priority[y])
    BY <1>6, <1>7, <2>1
  <2>3. CASE K = Top \ Forced
    <3>1. y \in Top /\ y \notin Forced
      BY <1>1, <2>1, <2>2, <2>3 DEF KindsApart
    <3>2. QED
      BY <2>3, <3>1
  <2>4. CASE K = Plugins \ Top
    <3>1. y \notin Top
      BY <1>1, <2>1, <2>2, <2>4 DEF KindsApart
    <3>2. QED
      BY <2>4, <3>1
  <2>5. QED
    BY <2>3, <2>4 DEF FreeKinds
<1>8. \A y \in K : list.priority[y] \in lo..hi
  BY <1>2, <1>3, <1>4, <1>5
<1>9. lo \in 0..(n - 1) /\ hi \in lo..(n - 1)
  BY <1>4, <1>5
<1>10. R = lo..hi
  <2>1. ASSUME NEW q \in lo..hi PROVE q \in R
    <3>1. q \in 0..(n - 1)
      BY <1>4, <1>9
    <3>2. PICK y \in Plugins : list.priority[y] = q
      BY <1>2, <3>1
    <3>3. QED
      BY <1>7, <3>2
  <2>2. QED
    BY <1>8, <2>1
<1>11. Span(list, K, lo, hi)
  BY <1>1, <1>3, <1>7, <1>8, <1>9 DEF Span, n
<1>12. QED
  BY <1>10, <1>11 DEF lo, hi, R

\* The nearest place is one of the places.
LEMMA WithinRange ==
  ASSUME NEW lo \in Nat, NEW hi \in Nat, lo <= hi, NEW p \in Int
  PROVE  Within(p, lo, hi) \in lo..hi
BY DEF Within

\* A plugin that is sent anywhere goes to the nearest place of its kind.
LEMMA PlaceNearest ==
  ASSUME NEW list, InKinds(list), NEW K \in FreeKinds, NEW lo, NEW hi, Span(list, K, lo, hi),
         NEW x \in K, NEW p \in Int
  PROVE  Place(list, x, p) = Within(p, lo, hi)
<1> DEFINE n == Size(list)
           w == Clamped(p, n)
           u == UpTo(list, w, Top)
           masters == From(list, u, Present(list) \ Forced)
           others == From(list, w, Present(list) \ Top)
<1>1. /\ ListOk(list) /\ KindsApart(list) /\ Present(list) = Plugins /\ Arranged(list)
  BY DEF InKinds, ListOk
<1>2. /\ n \in Nat /\ \A y \in Plugins : list.priority[y] \in 0..(n - 1)
  BY <1>1, ListFacts
<1>3. K \subseteq Plugins /\ K \cap Forced = {}
  BY FreeKindFacts
<1>4. /\ lo \in 0..(n - 1) /\ hi \in lo..(n - 1)
      /\ \A y \in Plugins : y \in K <=> list.priority[y] \in lo..hi
  BY <1>1 DEF Span
<1>5. n - 1 \in Nat /\ n > 0
  BY <1>2, <1>4
<1>6. w \in 0..(n - 1) /\ w = Within(p, 0, n - 1)
  BY <1>2, <1>5 DEF Clamped, Within
<1>7. \A q \in 0..(n - 1) : At(list, q) \in Plugins /\ list.priority[At(list, q)] = q
  BY <1>1, AtPlace
<1>8. \A q \in 0..(n - 1) : At(list, q) \in K <=> q \in lo..hi
  BY <1>4, <1>7
<1>9. Within(w, lo, hi) = Within(p, lo, hi)
  BY <1>4, <1>5, <1>6 DEF Within
<1>10. \A q, r \in 0..(n - 1) :
         /\ At(list, q) \in Top /\ At(list, r) \notin Top => q < r
         /\ At(list, q) \in Forced /\ At(list, r) \notin Forced => q < r
  BY <1>1, <1>7 DEF KindsApart
<1>0. Size(list) = n
  OBVIOUS
<1> HIDE DEF n, w
<1>13. lo \in 0..(n - 1) /\ hi \in 0..(n - 1) /\ lo <= hi
  BY <1>4, <1>5
<1>11. CASE K = Top \ Forced
  <2>1. u \in 0..w /\ (u = 0 \/ At(list, u) \in Top) /\ \A r \in 0..w : At(list, r) \in Top => u >= r
    BY <1>6, UpToProperty
  <2>2. u \in 0..(n - 1) /\ u <= w
    BY <1>5, <1>6, <2>1
  <2> HIDE DEF u
  <2>3. /\ masters \in u..(n - 1)
        /\ masters = n - 1 \/ At(list, masters) \in Present(list) \ Forced
        /\ \A r \in u..(n - 1) : At(list, r) \in Present(list) \ Forced => masters <= r
    BY <1>0, <1>2, <2>2, FromProperty
  <2>4. Place(list, x, p) = masters
    BY <1>11 DEF Place, u, w, n
  <2> HIDE DEF masters
  <2>5. \A q \in 0..(n - 1) : q < lo => At(list, q) \in Forced /\ At(list, q) \in Top
    <3>1. TAKE q \in 0..(n - 1)
    <3>2. HAVE q < lo
    <3>3. At(list, lo) \in K /\ At(list, q) \notin K
      BY <1>4, <1>5, <1>8, <3>2
    <3>4. At(list, q) \in Top
      BY <1>10, <1>11, <1>13, <3>2, <3>3
    <3>5. QED
      BY <1>11, <3>3, <3>4
  <2>6. \A q \in 0..(n - 1) : q > hi => At(list, q) \notin Top
    <3>1. TAKE q \in 0..(n - 1)
    <3>2. HAVE q > hi
    <3>3. At(list, hi) \in K /\ At(list, q) \notin K
      BY <1>4, <1>5, <1>8, <3>2
    <3>4. At(list, q) \notin Forced
      BY <1>10, <1>11, <1>13, <3>2, <3>3
    <3>5. QED
      BY <1>11, <3>3, <3>4
  <2>7. \A q \in lo..hi : q \in 0..(n - 1) /\ At(list, q) \in Top /\ At(list, q) \in Present(list) \ Forced
    BY <1>1, <1>5, <1>7, <1>8, <1>11, <1>13
  <2>8. CASE w < lo
    <3>1. u = w
      BY <1>6, <2>1, <2>2, <2>5, <2>8
    <3>2. masters <= lo
      <4>1. lo \in lo..hi /\ lo \in u..(n - 1)
        BY <1>13, <2>2, <2>8, <3>1
      <4>2. QED
        BY <2>3, <2>7, <4>1
    <3>3. ~(masters < lo)
      <4>1. SUFFICES ASSUME masters < lo PROVE FALSE
        OBVIOUS
      <4>2. masters \in 0..(n - 1) /\ masters # n - 1
        BY <1>5, <1>13, <2>2, <2>3, <4>1
      <4>3. QED
        BY <2>3, <2>5, <4>1, <4>2
    <3>4. masters = lo
      BY <1>5, <1>13, <2>2, <2>3, <3>2, <3>3
    <3>5. QED
      BY <1>9, <2>4, <2>8, <3>4 DEF Within
  <2>9. CASE w > hi
    <3>1. u >= hi
      BY <1>6, <1>13, <2>1, <2>7, <2>9
    <3>2. ~(u > hi)
      BY <1>13, <2>1, <2>2, <2>6, <3>1
    <3>3. u = hi
      BY <1>13, <2>2, <3>1, <3>2
    <3>4. masters <= hi /\ masters >= hi
      BY <1>13, <2>3, <2>7, <3>3
    <3>5. masters = hi
      BY <1>5, <1>13, <2>2, <2>3, <3>4
    <3>6. ~(w < lo)
      BY <1>6, <1>13, <2>9
    <3>7. QED
      BY <1>9, <2>4, <2>9, <3>5, <3>6 DEF Within
  <2>10. CASE ~(w < lo) /\ ~(w > hi)
    <3>1. w \in lo..hi
      BY <1>6, <1>13, <2>10
    <3>2. u = w
      BY <1>6, <2>1, <2>2, <2>7, <3>1
    <3>3. masters = w
      BY <1>5, <1>6, <2>2, <2>3, <2>7, <3>1, <3>2
    <3>4. QED
      BY <1>9, <2>4, <2>10, <3>3 DEF Within
  <2>11. QED
    BY <2>8, <2>9, <2>10
<1>12. CASE K = Plugins \ Top
  <2>1. /\ others \in w..(n - 1)
        /\ others = n - 1 \/ At(list, others) \in Present(list) \ Top
        /\ \A r \in w..(n - 1) : At(list, r) \in Present(list) \ Top => others <= r
    BY <1>0, <1>2, <1>6, FromProperty
  <2>2. Place(list, x, p) = others
    BY <1>12 DEF Place, w, n
  <2> HIDE DEF others
  <2>3. \A q \in 0..(n - 1) : At(list, q) \in Present(list) \ Top <=> q \in lo..hi
    BY <1>1, <1>8, <1>12
  <2>4. hi = n - 1
    <3>1. At(list, hi) \notin Top /\ n - 1 \in 0..(n - 1)
      BY <1>5, <1>13, <2>3
    <3>2. At(list, n - 1) \notin Top
      BY <1>5, <1>10, <1>13, <3>1
    <3>3. n - 1 \in lo..hi
      BY <1>1, <1>7, <2>3, <3>1, <3>2
    <3>4. QED
      BY <1>13, <3>3
  <2>5. CASE w < lo
    <3>1. others <= lo
      BY <1>6, <1>13, <2>1, <2>3, <2>5
    <3>2. ~(others < lo)
      <4>1. SUFFICES ASSUME others < lo PROVE FALSE
        OBVIOUS
      <4>2. others \in 0..(n - 1) /\ others # n - 1
        BY <1>5, <1>6, <1>13, <2>1, <4>1
      <4>3. QED
        BY <1>13, <2>1, <2>3, <4>1, <4>2
    <3>3. others = lo
      BY <1>6, <1>13, <2>1, <3>1, <3>2
    <3>4. QED
      BY <1>9, <2>2, <2>5, <3>3 DEF Within
  <2>6. CASE ~(w < lo)
    <3>1. w \in lo..hi /\ ~(w > hi)
      BY <1>6, <1>13, <2>4, <2>6
    <3>2. others = w
      BY <1>6, <2>1, <2>3, <3>1
    <3>3. QED
      BY <1>9, <2>2, <2>6, <3>1, <3>2 DEF Within
  <2>7. QED
    BY <2>5, <2>6
<1>14. QED
  BY <1>11, <1>12 DEF FreeKinds

\* One plugin of K is put to a place of K: those in between move by one, and the
\* kinds keep their places.
MovesTo(list, after, x, new) ==
  /\ InKinds(after) /\ SameRows(list, after) /\ Size(after) = Size(list)
  /\ after.priority[x] = new
  /\ \A y \in Plugins \ {x} : after.priority[y] =
       IF list.priority[x] < list.priority[y] /\ list.priority[y] <= new THEN list.priority[y] - 1
       ELSE IF new <= list.priority[y] /\ list.priority[y] < list.priority[x]
            THEN list.priority[y] + 1
       ELSE list.priority[y]

KeepsSpans(list, after) ==
  \A J \in FreeKinds, a, b \in Nat : Span(list, J, a, b) => Span(after, J, a, b)

\* What a list has to do with the places of its kinds.
LEMMA SpanFacts ==
  ASSUME NEW list, InKinds(list), NEW K, NEW lo, NEW hi, Span(list, K, lo, hi)
  PROVE  /\ Size(list) \in Nat /\ lo \in 0..(Size(list) - 1) /\ hi \in 0..(Size(list) - 1) /\ lo <= hi
         /\ \A y \in Plugins : list.priority[y] \in 0..(Size(list) - 1)
         /\ \A x, y \in Plugins : list.priority[x] = list.priority[y] => x = y
         /\ \A q \in 0..(Size(list) - 1) : \E x \in Plugins : list.priority[x] = q
         /\ \A y \in Plugins : y \in K <=> list.priority[y] \in lo..hi
<1>1. ListOk(list) /\ Present(list) = Plugins
  BY DEF InKinds
<1>2. /\ Size(list) \in Nat /\ \A y \in Plugins : list.priority[y] \in 0..(Size(list) - 1)
      /\ \A x, y \in Plugins : list.priority[x] = list.priority[y] => x = y
      /\ \A q \in 0..(Size(list) - 1) : \E x \in Plugins : list.priority[x] = q
  BY <1>1, ListFacts
<1>3. /\ lo \in 0..(Size(list) - 1) /\ hi \in lo..(Size(list) - 1)
      /\ \A y \in Plugins : y \in K <=> list.priority[y] \in lo..hi
  BY <1>1 DEF Span
<1>4. hi \in 0..(Size(list) - 1) /\ lo <= hi
  BY <1>2, <1>3
<1>5. QED
  BY <1>2, <1>3, <1>4

\* Two kinds have no place together.
LEMMA SpansApart ==
  ASSUME NEW list, InKinds(list), NEW K, NEW lo, NEW hi, Span(list, K, lo, hi),
         NEW J, NEW a, NEW b, Span(list, J, a, b), J \cap K = {}
  PROVE  \A q \in lo..hi : q \notin a..b
<1>1. SUFFICES ASSUME NEW q \in lo..hi, q \in a..b PROVE FALSE
  OBVIOUS
<1>2. q \in 0..(Size(list) - 1)
  BY <1>1, SpanFacts
<1>3. PICK y \in Plugins : list.priority[y] = q
  BY <1>2, SpanFacts
<1>4. y \in K /\ y \in J
  BY <1>1, <1>3, SpanFacts
<1>5. QED
  BY <1>4

\* A kind has its places only once.
LEMMA SpanUnique ==
  ASSUME NEW list, InKinds(list), NEW K, NEW lo, NEW hi, Span(list, K, lo, hi),
         NEW a, NEW b, Span(list, K, a, b)
  PROVE  a = lo /\ b = hi
<1> DEFINE n == Size(list)
<1>1. /\ n \in Nat /\ lo \in 0..(n - 1) /\ hi \in 0..(n - 1) /\ lo <= hi
      /\ a \in 0..(n - 1) /\ b \in 0..(n - 1) /\ a <= b
  BY SpanFacts
<1>2. \A q \in 0..(n - 1) : q \in lo..hi <=> q \in a..b
  <2>1. SUFFICES ASSUME NEW q \in 0..(n - 1) PROVE q \in lo..hi <=> q \in a..b
    OBVIOUS
  <2>2. PICK y \in Plugins : list.priority[y] = q
    BY SpanFacts
  <2>3. (y \in K <=> q \in lo..hi) /\ (y \in K <=> q \in a..b)
    BY <2>2, SpanFacts
  <2>4. QED
    BY <2>3
<1> HIDE DEF n
<1>3. lo \in lo..hi /\ hi \in lo..hi /\ a \in a..b /\ b \in a..b
  BY <1>1
<1>4. lo \in a..b /\ hi \in a..b /\ a \in lo..hi /\ b \in lo..hi
  BY <1>1, <1>2, <1>3
<1>5. QED
  BY <1>1, <1>4

\* PluginList::setPluginPriority within the kinds.
LEMMA MoveInKind ==
  ASSUME NEW list, InKinds(list), NEW K \in FreeKinds, NEW lo, NEW hi, Span(list, K, lo, hi),
         NEW x \in K, NEW p \in Int
  PROVE  /\ MovesTo(list, SetPluginPriority(list, x, p), x, Within(p, lo, hi))
         /\ KeepsSpans(list, SetPluginPriority(list, x, p))
         /\ \A y \in Plugins \ K : SetPluginPriority(list, x, p).priority[y] = list.priority[y]
         /\ Within(p, lo, hi) \in lo..hi /\ list.priority[x] \in lo..hi
<1> DEFINE n == Size(list)
           old == list.priority[x]
           new == Within(p, lo, hi)
           after == SetPluginPriority(list, x, p)
<1>1. /\ ListOk(list) /\ KindsApart(list) /\ Present(list) = Plugins /\ Arranged(list)
  BY DEF InKinds, ListOk
<1>2. /\ n \in Nat /\ lo \in 0..(n - 1) /\ hi \in 0..(n - 1) /\ lo <= hi
      /\ \A y \in Plugins : list.priority[y] \in 0..(n - 1)
      /\ \A y, z \in Plugins : list.priority[y] = list.priority[z] => y = z
      /\ \A y \in Plugins : y \in K <=> list.priority[y] \in lo..hi
  BY SpanFacts
<1>3. K \subseteq Plugins /\ K \cap Forced = {} /\ \A J \in FreeKinds : J = K \/ J \cap K = {}
  BY FreeKindFacts
<1>4. Place(list, x, p) = new
  BY PlaceNearest
<1>5. ListOk(after) /\ SameRows(list, after)
  BY <1>1, <1>3, PlacedOk
<1>6. KindsApart(after)
  BY <1>1, <1>3, KindsStayApart, InstanceAssumption
<1>7. Present(after) = Plugins /\ Size(after) = n
  BY <1>1, <1>5 DEF SameRows, Size
<1>8. InKinds(after)
  BY <1>5, <1>6, <1>7 DEF InKinds
<1>9. old \in lo..hi
  BY <1>2, <1>3
<1>10. new \in lo..hi
  <2>1. lo \in Nat /\ hi \in Nat
    BY <1>2
  <2>2. QED
    BY <1>2, <2>1, WithinRange
<1>11. after.priority = Moved(list.priority, x, new)
  BY <1>1, <1>4, Zenon DEF SetPluginPriority, Arranged, Lists
<1>12. DOMAIN list.priority = Plugins
  BY <1>1 DEF Present
<1> HIDE DEF new, after
<1>13. /\ after.priority[x] = new
       /\ \A y \in Plugins \ {x} : after.priority[y] =
            IF old < list.priority[y] /\ list.priority[y] <= new THEN list.priority[y] - 1
            ELSE IF new <= list.priority[y] /\ list.priority[y] < old THEN list.priority[y] + 1
            ELSE list.priority[y]
  BY <1>3, <1>11, <1>12 DEF Moved
<1> HIDE DEF n, old
<1>14. \A y \in Plugins \ K : after.priority[y] = list.priority[y]
  <2>1. SUFFICES ASSUME NEW y \in Plugins \ K PROVE after.priority[y] = list.priority[y]
    OBVIOUS
  <2>2. y # x /\ list.priority[y] \in Int /\ list.priority[y] \notin lo..hi
    BY <1>2
  <2>3. QED
    BY <1>2, <1>9, <1>10, <1>13, <2>2
<1>15. \A y \in K : after.priority[y] \in lo..hi
  <2>1. SUFFICES ASSUME NEW y \in K PROVE after.priority[y] \in lo..hi
    OBVIOUS
  <2>2. CASE y = x
    BY <1>10, <1>13, <2>2
  <2>3. CASE y # x
    <3>1. list.priority[y] \in lo..hi /\ y \in Plugins /\ list.priority[y] # old
      BY <1>2, <1>3, <2>3 DEF old
    <3>2. QED
      BY <1>2, <1>9, <1>10, <1>13, <2>3, <3>1
  <2>4. QED
    BY <2>2, <2>3
<1>16. ASSUME NEW J \in FreeKinds, NEW a \in Nat, NEW b \in Nat, Span(list, J, a, b)
       PROVE  Span(after, J, a, b)
  <2>1. /\ J \subseteq Plugins /\ a \in 0..(n - 1) /\ b \in a..(n - 1)
    BY <1>1, <1>16 DEF Span, n
  <2>2. \A y \in Plugins : y \in J <=> after.priority[y] \in a..b
    <3>1. CASE J = K
      <4>1. a = lo /\ b = hi
        BY <1>16, <3>1, SpanUnique
      <4>2. QED
        BY <1>2, <1>14, <1>15, <3>1, <4>1
    <3>2. CASE J \cap K = {}
      <4>1. \A q \in lo..hi : q \notin a..b
        BY <1>16, <3>2, SpansApart
      <4>2. \A y \in Plugins : y \in J <=> list.priority[y] \in a..b
        BY <1>16, SpanFacts
      <4>3. QED
        BY <1>14, <1>15, <3>2, <4>1, <4>2
    <3>3. QED
      BY <1>3, <3>1, <3>2
  <2>3. QED
    BY <1>7, <2>1, <2>2 DEF Span
<1>17. KeepsSpans(list, after)
  BY <1>16 DEF KeepsSpans
<1>18. MovesTo(list, after, x, new)
  BY <1>5, <1>7, <1>8, <1>13 DEF MovesTo, old, n
<1>19. QED
  BY <1>9, <1>10, <1>14, <1>17, <1>18 DEF new, after, old

\* The lists the moves are asked for are lists of all plugins, each among its kind,
\* with the plugins of a set enabled and no locks.
LEMMA ListedFacts ==
  ASSUME NEW order \in Orders, NEW on \in SUBSET Plugins
  PROVE  /\ InKinds(Listed(order, on)) /\ Size(Listed(order, on)) = Cardinality(Plugins)
         /\ Listed(order, on).enabled = [x \in Plugins |-> x \in on \cup Forced]
         /\ SyncLoadOrder(Listed(order, on)) = Listed(order, on)
<1> DEFINE n == Cardinality(Plugins)
           enabled == [x \in Plugins |-> x \in on \cup Forced]
           priority == Priorities(order)
           loadOrder == [x \in Plugins |-> -1]
           built == [NoPlugins EXCEPT !.rows = order, !.enabled = enabled,
                       !.priority = priority, !.loadOrder = loadOrder]
           list == Listed(order, on)
<1>1. IsFiniteSet(Plugins) /\ n \in Nat /\ Plugins \subseteq Nat
  BY PluginAssumption, FS_CardinalityType
<1>2. /\ order \in [1..n -> Plugins] /\ IsInjective(order)
      /\ \A j, k \in 1..n : j < k =>
           /\ order[k] \in Top => order[j] \in Top
           /\ order[k] \in Forced => order[j] \in Forced
  BY DEF Orders
<1> HIDE DEF n
<1>3. order \in Seq(Plugins) /\ Len(order) = n
  BY <1>1, <1>2
<1>4. ToSet(order) = Plugins
  <2>1. \A j, k \in 1..n : order[j] = order[k] => j = k
    BY <1>2 DEF IsInjective
  <2>2. IsFiniteSet(ToSet(order)) /\ Cardinality(ToSet(order)) = n
    BY <1>2, <1>3, AmongLists
  <2>3. ToSet(order) \in SUBSET Plugins
    BY <1>2 DEF ToSet
  <2>4. QED
    BY <1>1, <2>2, <2>3, FS_Subset DEF n
<1>5. /\ priority \in [Plugins -> 0..(n - 1)]
      /\ \A k \in 1..n : order[k] \in Plugins /\ priority[order[k]] = k - 1
      /\ \A x, y \in Plugins : priority[x] = priority[y] => x = y
      /\ \A q \in 0..(n - 1) : \E x \in Plugins : priority[x] = q
  BY <1>2, <1>3, <1>4, PrioritiesCount
<1>6. enabled \in [Plugins -> BOOLEAN] /\ loadOrder \in [Plugins -> -1..(n - 1)]
  BY <1>1
<1>7. list = SyncLoadOrder(built)
  BY Zenon DEF Listed
<1> HIDE DEF list, enabled, priority, loadOrder
<1>8. /\ built = [rows |-> order, enabled |-> enabled, priority |-> priority,
                  loadOrder |-> loadOrder, locked |-> <<>>]
  <2> DEFINE none == <<>>
             first == NoPlugins
  <2>1. first = [rows |-> none, enabled |-> none, priority |-> none, loadOrder |-> none,
                 locked |-> none]
    BY DEF NoPlugins
  <2>2. built = [first EXCEPT !.rows = order, !.enabled = enabled,
                   !.priority = priority, !.loadOrder = loadOrder]
    OBVIOUS
  <2> HIDE DEF none, first, built
  <2>3. built = [rows |-> order, enabled |-> enabled, priority |-> priority,
                 loadOrder |-> loadOrder, locked |-> none]
    BY <2>1, <2>2
  <2>4. QED
    BY <2>3 DEF none
<1> HIDE DEF built
<1>9. ListOk(built) /\ Present(built) = Plugins /\ Size(built) = n
  <2>1. /\ built.rows = order /\ built.enabled = enabled /\ built.priority = priority
        /\ built.loadOrder = loadOrder /\ built.locked = <<>>
    BY <1>8
  <2>2. Present(built) = Plugins /\ Size(built) = n
    BY <1>3, <1>5, <2>1 DEF Present, Size
  <2>3. priority \in Numbers /\ loadOrder \in Numbers /\ <<>> \in Numbers
    <3>1. /\ priority \in [Plugins -> Int] /\ loadOrder \in [Plugins -> Int]
          /\ <<>> \in [{} -> Int] /\ {} \in SUBSET Plugins
      BY <1>1, <1>5, <1>6
    <3>2. QED
      BY <3>1 DEF Numbers
  <2>4. enabled \in UNION {[S -> BOOLEAN] : S \in SUBSET Plugins}
    BY <1>6
  <2>5. built \in Lists
    BY <1>3, <1>8, <2>3, <2>4 DEF Lists
  <2>6. Arranged(built)
    BY <1>1, <1>5, <2>1, <2>2, <2>5 DEF Arranged
  <2>7. OwnLocks(<<>>)
    <3>1. DOMAIN <<>> = {} /\ <<>> \in [{} -> Int]
      OBVIOUS
    <3>2. QED
      BY <3>1 DEF OwnLocks
  <2>8. QED
    BY <1>2, <1>4, <1>6, <2>1, <2>2, <2>6, <2>7 DEF ListOk
<1>10. ListOk(list) /\ SameRows(built, list) /\ list.priority = built.priority
  BY <1>7, <1>9, SyncedOk
<1>11. /\ built.enabled = enabled /\ built.priority = priority
  BY <1>8
<1>12. Present(list) = Plugins /\ list.priority = priority /\ list.enabled = enabled /\ Size(list) = n
  BY <1>9, <1>10, <1>11 DEF SameRows, Size
<1>13. KindsApart(list)
  <2>1. SUFFICES ASSUME NEW y \in Plugins, NEW z \in Plugins,
                        \/ y \in Top /\ z \notin Top
                        \/ y \in Forced /\ z \notin Forced
                 PROVE  priority[y] < priority[z]
    BY <1>12 DEF KindsApart
  <2>2. PICK j \in 1..n, k \in 1..n : order[j] = y /\ order[k] = z
    <3>1. \A x \in ToSet(order) : \E i \in 1..n : order[i] = x
      BY <1>2 DEF ToSet
    <3>2. QED
      BY <1>4, <3>1
  <2>3. ~(k < j) /\ k # j
    BY <1>2, <2>1, <2>2
  <2>4. priority[y] = j - 1 /\ priority[z] = k - 1
    BY <1>5, <2>2
  <2>5. QED
    BY <2>3, <2>4
<1>14. SyncLoadOrder(list) = list
  <2> DEFINE Count(l, x) == Cardinality({y \in Present(l) : l.enabled[y] /\ l.priority[y] < l.priority[x]})
             Counts(l) == [x \in DOMAIN l.loadOrder |-> IF l.enabled[x] THEN Count(l, x) ELSE -1]
  <2>1. \A l : SyncLoadOrder(l) = [l EXCEPT !.loadOrder = Counts(l)]
    BY Zenon DEF SyncLoadOrder
  <2>2. DOMAIN built.loadOrder = Plugins /\ DOMAIN list.loadOrder = Plugins
    BY <1>9, <1>10, <1>12 DEF ListOk
  <2>3. list.enabled = built.enabled /\ list.priority = built.priority /\ Present(list) = Present(built)
    BY <1>9, <1>10, <1>11, <1>12
  <2>4. Counts(list) = Counts(built)
    BY <2>2, <2>3, Zenon
  <2> HIDE DEF Counts
  <2>5. SyncLoadOrder(list) = [list EXCEPT !.loadOrder = Counts(list)]
        /\ list = [built EXCEPT !.loadOrder = Counts(built)]
    BY <1>7, <2>1
  <2>6. QED
    BY <1>8, <2>4, <2>5
<1>15. InKinds(list)
  BY <1>10, <1>12, <1>13 DEF InKinds
<1>16. QED
  BY <1>12, <1>14, <1>15 DEF list, n, enabled

\* The kind of a plugin that can be moved.
LEMMA KindOf ==
  ASSUME NEW x \in Free
  PROVE  \E K \in FreeKinds : x \in K /\ UNION {kind \in Kinds : x \in kind} = K
<1>1. Forced \subseteq Top /\ x \in Plugins /\ x \notin Forced
  BY InstanceAssumption DEF Free
<1>2. CASE x \in Top
  <2>1. {kind \in Kinds : x \in kind} = {Top \ Forced}
    BY <1>1, <1>2 DEF Kinds
  <2>2. QED
    BY <1>1, <1>2, <2>1 DEF FreeKinds
<1>3. CASE x \notin Top
  <2>1. {kind \in Kinds : x \in kind} = {Plugins \ Top}
    BY <1>1, <1>3 DEF Kinds
  <2>2. QED
    BY <1>1, <1>3, <2>1 DEF FreeKinds
<1>4. QED
  BY <1>2, <1>3

\* The room of a plugin is where its kind is.
LEMMA RoomIs ==
  ASSUME NEW list, InKinds(list), NEW x \in Free
  PROVE  \E K \in FreeKinds, lo, hi \in Nat :
           /\ x \in K /\ Span(list, K, lo, hi)
           /\ Room(list, x) = lo..hi /\ Min(Room(list, x)) = lo /\ Max(Room(list, x)) = hi
<1>1. PICK K \in FreeKinds : x \in K /\ UNION {kind \in Kinds : x \in kind} = K
  BY KindOf
<1> DEFINE R == {list.priority[y] : y \in K}
           lo == Min(R)
           hi == Max(R)
<1>2. Room(list, x) = R
  BY <1>1, Zenon DEF Room
<1>3. Span(list, K, lo, hi) /\ R = lo..hi
  <2>1. K # {}
    BY <1>1
  <2>2. QED
    BY <2>1, KindSpans
<1> HIDE DEF R, lo, hi
<1>4. lo \in Nat /\ hi \in Nat
  BY <1>3, SpanFacts
<1>5. QED
  BY <1>1, <1>2, <1>3, <1>4 DEF lo, hi

\* Plugins that keep their order are listed as they were.
LEMMA ListedAlike ==
  ASSUME NEW list, ListOk(list), NEW after, ListOk(after), Present(after) = Present(list),
         NEW S, S \subseteq Present(list),
         \A y, z \in S : list.priority[y] < list.priority[z] => after.priority[y] < after.priority[z]
  PROVE  ByPriority(after, S) = ByPriority(list, S)
<1>1. S \cap Present(list) = S /\ S \cap Present(after) = S
  OBVIOUS
<1>2. Keys(S, list.priority) /\ Keys(S, after.priority)
  <2>1. Keys(S \cap Present(list), list.priority) /\ Keys(S \cap Present(after), after.priority)
    BY ListFacts
  <2>2. QED
    BY <1>1, <2>1
<1>3. \A y \in S : after.priority[y] \in Int
  BY <1>2 DEF Keys
<1>4. SortedBy(S, list.priority) = SortedBy(S, after.priority)
  BY <1>2, <1>3, SortedAlike
<1>5. QED
  BY <1>1, <1>4 DEF ByPriority

\* A plugin that is sent anywhere goes to the nearest place of its kind, and the
\* others keep their order ("don't allow esps to be moved above esms",
\* PluginList::setPluginPriority), for every list.
THEOREM SentToNearest ==
  ASSUME NEW list, InKinds(list), NEW x \in Free, NEW p \in Int
  PROVE  LET after == SetPluginPriority(list, x, p)
         IN /\ after.priority[x] = Nearest(Room(list, x), p)
            /\ ByPriority(after, Plugins \ {x}) = ByPriority(list, Plugins \ {x})
<1> DEFINE after == SetPluginPriority(list, x, p)
<1>1. PICK K \in FreeKinds, lo \in Nat, hi \in Nat :
        /\ x \in K /\ Span(list, K, lo, hi)
        /\ Room(list, x) = lo..hi /\ Min(Room(list, x)) = lo /\ Max(Room(list, x)) = hi
  BY RoomIs
<1>2. MovesTo(list, after, x, Within(p, lo, hi))
  BY <1>1, MoveInKind
<1>3. after.priority[x] = Nearest(Room(list, x), p)
  BY <1>1, <1>2 DEF MovesTo, Within, Nearest
<1>4. ListOk(list) /\ Present(list) = Plugins /\ Arranged(list) /\ x \in Plugins
  BY DEF InKinds, ListOk, Free
<1>5. ListOk(after) /\ Present(after) = Plugins
  BY <1>2 DEF MovesTo, InKinds
<1>6. \A y, z \in Plugins \ {x} :
        list.priority[y] < list.priority[z] => after.priority[y] < after.priority[z]
  BY <1>4, OneMoves
<1> HIDE DEF after
<1>7. ByPriority(after, Plugins \ {x}) = ByPriority(list, Plugins \ {x})
  BY <1>4, <1>5, <1>6, ListedAlike
<1>8. QED
  BY <1>3, <1>7 DEF after

\* The places of a free plugin in the lists that are asked about.
LEMMA AllSentToNearest == Placing
<1>1. SUFFICES ASSUME NEW list \in AllListed, NEW x \in Free, NEW p \in -1..Cardinality(Plugins)
               PROVE  LET after == SetPluginPriority(list, x, p)
                      IN /\ after.priority[x] = Nearest(Room(list, x), p)
                         /\ ByPriority(after, Plugins \ {x}) = ByPriority(list, Plugins \ {x})
  BY Zenon DEF Placing
<1>2. InKinds(list)
  <2>1. PICK order \in Orders : list = Listed(order, Plugins)
    BY DEF AllListed
  <2>2. QED
    BY <2>1, ListedFacts
<1>3. p \in Int
  OBVIOUS
<1>4. QED
  BY <1>2, <1>3, SentToNearest

-----------------------------------------------------------------------------
(* Shifting *)

\* One plugin that has room changes its place with the next one.
LEMMA ShiftOne ==
  ASSUME NEW l, InKinds(l), NEW K \in FreeKinds, NEW lo, NEW hi, Span(l, K, lo, hi),
         NEW x \in K, NEW by \in {-1, 1}, l.priority[x] + by \in lo..hi
  PROVE  LET after == ShiftNext(l, x, by)
         IN /\ InKinds(after) /\ KeepsSpans(l, after)
            /\ after.priority[x] = l.priority[x] + by
            /\ \A y \in Plugins \ {x} : l.priority[y] # l.priority[x] + by =>
                 after.priority[y] = l.priority[y]
<1> DEFINE p == l.priority[x] + by
           n == Size(l)
           after == SetPluginPriority(l, x, p)
<1>1. /\ n \in Nat /\ lo \in 0..(n - 1) /\ hi \in 0..(n - 1) /\ lo <= hi
      /\ \A y \in Plugins : l.priority[y] \in 0..(n - 1)
      /\ \A y, z \in Plugins : l.priority[y] = l.priority[z] => y = z
  BY SpanFacts
<1>2. x \in Plugins
  BY FreeKindFacts
<1>3. p \in Int /\ p \in 0..(n - 1) /\ Within(p, lo, hi) = p
  BY <1>1, <1>2 DEF Within
<1>4. ShiftNext(l, x, by) = after
  BY <1>3, Zenon DEF ShiftNext
<1>5. MovesTo(l, after, x, p) /\ KeepsSpans(l, after)
  BY <1>3, MoveInKind
<1> HIDE DEF after
<1>6. ASSUME NEW y \in Plugins \ {x}, l.priority[y] # p PROVE after.priority[y] = l.priority[y]
  <2>1. l.priority[y] \in Int /\ l.priority[x] \in Int /\ l.priority[y] # l.priority[x]
    BY <1>1, <1>2
  <2>2. after.priority[y] =
          IF l.priority[x] < l.priority[y] /\ l.priority[y] <= p THEN l.priority[y] - 1
          ELSE IF p <= l.priority[y] /\ l.priority[y] < l.priority[x] THEN l.priority[y] + 1
          ELSE l.priority[y]
    BY <1>5 DEF MovesTo
  <2>3. QED
    BY <1>6, <2>1, <2>2
<1>7. InKinds(after) /\ after.priority[x] = p
  BY <1>5 DEF MovesTo
<1> HIDE DEF p
<1>8. QED
  BY <1>4, <1>5, <1>6, <1>7 DEF p

\* The places of the kinds stay over several steps.
LEMMA SpansFollow ==
  ASSUME NEW a, NEW b, NEW c, KeepsSpans(a, b), KeepsSpans(b, c)
  PROVE  KeepsSpans(a, c)
BY DEF KeepsSpans

\* Plugins that are shifted by one move by one if all of them have room in their
\* kinds, for every list (PluginList::shiftPluginsPriority).
THEOREM ShiftedEach ==
  ASSUME NEW list, InKinds(list), NEW shifted \in SUBSET Free, NEW by \in {-1, 1},
         \A x \in shifted : list.priority[x] + by \in Room(list, x)
  PROVE  \A x \in shifted : ShiftPlugins(list, shifted, by).priority[x] = list.priority[x] + by
<1> DEFINE s == ShiftOrder(list, shifted, by)
           n == Len(s)
           old == list.priority
<1>1. ListOk(list) /\ Present(list) = Plugins /\ shifted \cap Present(list) = shifted
  BY DEF InKinds, Free
<1>2. /\ n \in Nat /\ \A k \in 1..n : s[k] \in shifted
      /\ \A e \in shifted : \E k \in 1..n : s[k] = e
      /\ \A j, k \in 1..n : j < k => IF by > 0 THEN old[s[k]] < old[s[j]] ELSE old[s[j]] < old[s[k]]
  BY <1>1, ShiftOrderLists
<1>3. PICK f : ShiftSteps(f, list, s, by) /\ ShiftPlugins(list, shifted, by) = f[n]
  BY <1>1, ShiftRuns
<1>4. f[0] = list /\ \A k \in 1..n : f[k] = ShiftNext(f[k - 1], s[k], by)
  BY <1>3 DEF ShiftSteps
<1>5. \A x \in shifted : x \in Plugins /\ old[x] \in Int
  BY <1>1, ListFacts DEF Free
<1> HIDE DEF s, n
<1> DEFINE Done(k) == /\ InKinds(f[k]) /\ KeepsSpans(list, f[k])
                      /\ \A j \in 1..n : f[k].priority[s[j]] = IF j <= k THEN old[s[j]] + by ELSE old[s[j]]
           S == {k \in Nat : k <= n => Done(k)}
<1>6. 0 \in S
  BY <1>4 DEF KeepsSpans
<1>7. ASSUME NEW k \in Nat, k \in S PROVE k + 1 \in S
  <2>1. SUFFICES ASSUME k + 1 <= n PROVE Done(k + 1)
    OBVIOUS
  <2> DEFINE l == f[k]
             m == k + 1
             x == s[m]
             after == f[m]
  <2>2. Done(k)
    BY <1>2, <1>7, <2>1
  <2>3. m \in 1..n /\ after = ShiftNext(l, x, by)
    <3>1. m \in 1..n /\ m - 1 = k
      BY <1>2, <2>1
    <3>2. QED
      BY <1>4, <3>1
  <2>4. x \in Free /\ x \in shifted
    BY <1>2, <2>3
  <2>5. PICK K \in FreeKinds, lo \in Nat, hi \in Nat :
          x \in K /\ Span(list, K, lo, hi) /\ Room(list, x) = lo..hi
    BY <2>4, RoomIs
  <2>6. Span(l, K, lo, hi) /\ InKinds(l)
    BY <2>2, <2>5 DEF KeepsSpans
  <2>7. l.priority[x] = old[x]
    BY <2>2, <2>3
  <2>8. l.priority[x] + by \in lo..hi
    BY <2>4, <2>5, <2>7
  <2> HIDE DEF after, l
  <2>9. /\ InKinds(after) /\ KeepsSpans(l, after)
        /\ after.priority[x] = l.priority[x] + by
        /\ \A y \in Plugins \ {x} : l.priority[y] # l.priority[x] + by =>
             after.priority[y] = l.priority[y]
    BY <2>3, <2>5, <2>6, <2>8, ShiftOne
  <2>10. KeepsSpans(list, after)
    BY <2>2, <2>9, SpansFollow DEF l
  <2>11. ASSUME NEW j \in 1..n PROVE after.priority[s[j]] = IF j <= m THEN old[s[j]] + by ELSE old[s[j]]
    <3>1. l.priority[s[j]] = IF j <= k THEN old[s[j]] + by ELSE old[s[j]]
      BY <2>2 DEF l
    <3>2. old[s[j]] \in Int /\ old[x] \in Int /\ s[j] \in Plugins
      BY <1>2, <1>5, <2>4
    <3>3. CASE j = m
      BY <2>7, <2>9, <3>3
    <3>4. CASE j < m
      <4>1. j <= k /\ j <= m
        BY <3>4
      <4>2. old[s[j]] # old[x]
        BY <1>2, <2>3, <3>2, <3>4
      <4>3. l.priority[s[j]] # l.priority[x] + by /\ s[j] # x
        BY <2>7, <3>1, <3>2, <4>1, <4>2
      <4>4. QED
        BY <2>9, <3>1, <3>2, <4>1, <4>3
    <3>5. CASE m < j
      <4>1. ~(j <= k) /\ ~(j <= m)
        BY <3>5
      <4>2. IF by > 0 THEN old[s[j]] < old[x] ELSE old[x] < old[s[j]]
        BY <1>2, <2>3, <3>5
      <4>3. l.priority[s[j]] # l.priority[x] + by /\ s[j] # x
        BY <2>7, <3>1, <3>2, <4>1, <4>2
      <4>4. QED
        BY <2>9, <3>1, <3>2, <4>1, <4>3
    <3>6. QED
      BY <3>3, <3>4, <3>5
  <2>12. QED
    BY <2>9, <2>10, <2>11 DEF after
<1> HIDE DEF S
<1>8. n \in S
  BY <1>2, <1>6, <1>7, EachNatural
<1>9. \A j \in 1..n : f[n].priority[s[j]] = old[s[j]] + by
  BY <1>2, <1>8 DEF S
<1>10. QED
  BY <1>2, <1>3, <1>9

\* The shifts of the lists that are asked about.
LEMMA AllShiftedEach == Shifting
<1>1. SUFFICES ASSUME NEW list \in AllListed, NEW shifted \in SUBSET Free, NEW by \in {-1, 1},
                      \A x \in shifted : list.priority[x] + by \in Room(list, x)
               PROVE  \A x \in shifted :
                        ShiftPlugins(list, shifted, by).priority[x] = list.priority[x] + by
  BY Zenon DEF Shifting
<1>2. PICK order \in Orders : list = Listed(order, Plugins)
  BY DEF AllListed
<1>3. InKinds(list)
  BY <1>2, ListedFacts
<1>4. QED
  BY <1>1, <1>3, ShiftedEach

-----------------------------------------------------------------------------
(* Dropping *)

\* One step of changePluginPriority that puts x, which is of K, to a place of K.
StepIs(state, next, K, x, new) ==
  /\ MovesTo(state.list, next.list, x, new) /\ KeepsSpans(state.list, next.list)
  /\ \A y \in Plugins \ K : next.list.priority[y] = state.list.priority[y]
  /\ \A y, z \in Plugins \ {x} : state.list.priority[y] < state.list.priority[z] =>
       next.list.priority[y] < next.list.priority[z]
  /\ next.target = IF new > state.list.priority[x] THEN state.target ELSE state.target + 1

\* Each step of changePluginPriority is such a move.
LEMMA MoveOne ==
  ASSUME NEW state, InKinds(state.list), state.target \in Int,
         NEW K \in FreeKinds, NEW lo, NEW hi, Span(state.list, K, lo, hi), NEW x \in K,
         NEW next, next = MoveNext(state, x), NEW new, new = Within(state.target, lo, hi)
  PROVE  StepIs(state, next, K, x, new)
<1> DEFINE l == state.list
           t == state.target
           put == [l EXCEPT !.priority = Moved(@, x, Place(l, x, t))]
<1>1. next = [list |-> put,
              target |-> IF Place(l, x, t) > l.priority[x] THEN t ELSE t + 1]
  BY Zenon DEF MoveNext
<1>2. put = SetPluginPriority(l, x, t)
  BY Zenon DEF SetPluginPriority
<1> HIDE DEF l, t, put
<1>0. InKinds(l) /\ Span(l, K, lo, hi) /\ t \in Int /\ new = Within(t, lo, hi)
  BY DEF l, t
<1>3. Place(l, x, t) = new
  BY <1>0, PlaceNearest
<1>4. next.list = put /\ next.target = IF new > l.priority[x] THEN t ELSE t + 1
  BY <1>1, <1>3
<1>5. /\ MovesTo(l, put, x, new) /\ KeepsSpans(l, put)
      /\ \A y \in Plugins \ K : put.priority[y] = l.priority[y]
  BY <1>0, <1>2, MoveInKind
<1>6. \A y, z \in Plugins \ {x} : l.priority[y] < l.priority[z] => put.priority[y] < put.priority[z]
  <2>1. Arranged(l) /\ Present(l) = Plugins /\ x \in Plugins
    BY <1>0, FreeKindFacts DEF InKinds, ListOk
  <2>2. \A y, z \in Plugins \ {x} : l.priority[y] < l.priority[z] <=>
          SetPluginPriority(l, x, t).priority[y] < SetPluginPriority(l, x, t).priority[z]
    BY <1>0, <2>1, OneMoves
  <2>3. QED
    BY <1>2, <2>2
<1>7. QED
  BY <1>4, <1>5, <1>6 DEF StepIs, l, t

\* l comes from list by moves of the plugins of M within their kind.
MovesOn(list, l, K, M) ==
  /\ InKinds(l) /\ KeepsSpans(list, l)
  /\ \A y \in Plugins \ K : l.priority[y] = list.priority[y]
  /\ \A y, z \in Plugins \ M :
       list.priority[y] < list.priority[z] => l.priority[y] < l.priority[z]

\* s are the n plugins of D, which are of one kind, as they are in the list.
Takes(s, n, list, K, D) ==
  /\ n \in Nat /\ D \subseteq K
  /\ \A k \in 1..n : s[k] \in D
  /\ \A x \in D : \E k \in 1..n : s[k] = x
  /\ \A j, k \in 1..n : j < k <=> list.priority[s[j]] < list.priority[s[k]]

FirstOf(s, k) == {s[j] : j \in 1..k}

\* The plugins that are taken are those of the set, in their order.
LEMMA TakesFacts ==
  ASSUME NEW s, NEW n, NEW list, NEW K, NEW D, Takes(s, n, list, K, D)
  PROVE  /\ FirstOf(s, 0) = {} /\ FirstOf(s, n) = D
         /\ \A k \in 0..n - 1 : /\ FirstOf(s, k + 1) = FirstOf(s, k) \cup {s[k + 1]}
                                /\ s[k + 1] \in D \ FirstOf(s, k)
         /\ \A k \in 0..n : FirstOf(s, k) \subseteq D
         /\ \A j, k \in 1..n : s[j] = s[k] => j = k
<1>1. /\ n \in Nat /\ (\A k \in 1..n : s[k] \in D) /\ (\A x \in D : \E k \in 1..n : s[k] = x)
      /\ \A j, k \in 1..n : j < k <=> list.priority[s[j]] < list.priority[s[k]]
  BY DEF Takes
<1>2. \A j, k \in 1..n : s[j] = s[k] => j = k
  <2>1. SUFFICES ASSUME NEW j \in 1..n, NEW k \in 1..n, s[j] = s[k], j # k PROVE FALSE
    OBVIOUS
  <2>2. CASE j < k
    <3>1. list.priority[s[j]] < list.priority[s[k]]
      BY <1>1, <2>2
    <3>2. list.priority[s[j]] < list.priority[s[j]]
      BY <2>1, <3>1
    <3>3. j < j
      BY <1>1, <3>2
    <3>4. QED
      BY <3>3
  <2>3. CASE k < j
    <3>1. list.priority[s[k]] < list.priority[s[j]]
      BY <1>1, <2>3
    <3>2. list.priority[s[j]] < list.priority[s[j]]
      BY <2>1, <3>1
    <3>3. j < j
      BY <1>1, <3>2
    <3>4. QED
      BY <3>3
  <2>4. QED
    BY <2>1, <2>2, <2>3
<1>3. FirstOf(s, 0) = {} /\ FirstOf(s, n) = D
  BY <1>1 DEF FirstOf
<1>4. \A k \in 0..n : FirstOf(s, k) \subseteq D
  BY <1>1 DEF FirstOf
<1>5. ASSUME NEW k \in 0..n - 1
      PROVE  /\ FirstOf(s, k + 1) = FirstOf(s, k) \cup {s[k + 1]}
             /\ s[k + 1] \in D \ FirstOf(s, k)
  <2>1. k \in Nat /\ k + 1 \in 1..n /\ 1..(k + 1) = (1..k) \cup {k + 1} /\ \A j \in 1..k : j \in 1..n
    BY <1>1
  <2>2. FirstOf(s, k + 1) = FirstOf(s, k) \cup {s[k + 1]}
    BY <2>1 DEF FirstOf
  <2>3. \A j \in 1..k : s[j] # s[k + 1]
    BY <1>2, <2>1
  <2>4. QED
    BY <1>1, <2>1, <2>2, <2>3 DEF FirstOf
<1>6. QED
  BY <1>2, <1>3, <1>4, <1>5

\* Another plugin of the kind is moved.
LEMMA MovesOnNext ==
  ASSUME NEW list, NEW l, NEW K, NEW M, MovesOn(list, l, K, M),
         NEW next, InKinds(next), KeepsSpans(l, next),
         \A y \in Plugins \ K : next.priority[y] = l.priority[y],
         NEW x, \A y, z \in Plugins \ {x} : l.priority[y] < l.priority[z] =>
                  next.priority[y] < next.priority[z]
  PROVE  MovesOn(list, next, K, M \cup {x})
<1>1. KeepsSpans(list, next)
  BY SpansFollow DEF MovesOn
<1>2. \A y \in Plugins \ K : next.priority[y] = list.priority[y]
  BY DEF MovesOn
<1>3. \A y, z \in Plugins \ (M \cup {x}) :
        list.priority[y] < list.priority[z] => next.priority[y] < next.priority[z]
  BY DEF MovesOn
<1>4. QED
  BY <1>1, <1>2, <1>3 DEF MovesOn

\* What the first k steps have done when all plugins come from behind p.
UpTaken(f, list, s, K, p, k) ==
  LET l == f[k].list
  IN /\ MovesOn(list, l, K, FirstOf(s, k))
     /\ f[k].target = p + k
     /\ \A j \in 1..k : l.priority[s[j]] = (p + j) - 1
     /\ \A y \in K \ FirstOf(s, k) : IF list.priority[y] < p THEN l.priority[y] < p
                                     ELSE l.priority[y] >= p + k

\* The next plugin from behind comes behind those that are there.
LEMMA UpStep ==
  ASSUME NEW list, InKinds(list), NEW K \in FreeKinds, NEW lo \in Nat, NEW hi \in Nat,
         Span(list, K, lo, hi), NEW s, NEW n, NEW D, Takes(s, n, list, K, D),
         NEW p \in Nat, p >= lo, \A x \in D : ~(list.priority[x] < p),
         NEW f, NEW k \in 0..n - 1, UpTaken(f, list, s, K, p, k),
         f[k + 1] = MoveNext(f[k], s[k + 1])
  PROVE  UpTaken(f, list, s, K, p, k + 1)
<1> DEFINE M == FirstOf(s, k)
           x == s[k + 1]
           l == f[k].list
           next == f[k + 1].list
           old == list.priority
           px == l.priority[x]
           t == p + k
<1>1. /\ MovesOn(list, l, K, M) /\ f[k].target = t
      /\ \A j \in 1..k : l.priority[s[j]] = (p + j) - 1
      /\ \A y \in K \ M : IF old[y] < p THEN l.priority[y] < p ELSE l.priority[y] >= t
  BY DEF UpTaken
<1>2. /\ x \in D /\ x \notin M /\ FirstOf(s, k + 1) = M \cup {x} /\ n \in Nat
      /\ D \subseteq K /\ M \subseteq D
      /\ \A i, j \in 1..n : s[i] = s[j] => i = j
  <2>1. n \in Nat /\ D \subseteq K
    BY DEF Takes
  <2>2. k \in 0..n
    BY <2>1
  <2>3. QED
    BY <2>1, <2>2, TakesFacts
<1>3. K \subseteq Plugins
  BY FreeKindFacts
<1>4. Span(l, K, lo, hi) /\ InKinds(l)
  BY <1>1 DEF MovesOn, KeepsSpans
<1>5. \A y \in K : l.priority[y] \in lo..hi
  BY <1>3, <1>4, SpanFacts
<1>6. px >= t /\ px \in lo..hi /\ t \in Nat
  BY <1>1, <1>2, <1>5
<1>7. Within(t, lo, hi) = t
  BY <1>6 DEF Within
<1>8. x \in K /\ t \in Int
  BY <1>2, <1>6
<1>9. /\ MovesTo(l, next, x, t) /\ KeepsSpans(l, next)
      /\ \A y \in Plugins \ K : next.priority[y] = l.priority[y]
      /\ \A y, z \in Plugins \ {x} : l.priority[y] < l.priority[z] =>
           next.priority[y] < next.priority[z]
      /\ f[k + 1].target = IF t > px THEN t ELSE t + 1
  <2>1. StepIs(f[k], f[k + 1], K, x, t)
    <3>1. InKinds(f[k].list) /\ Span(f[k].list, K, lo, hi) /\ f[k].target \in Int
          /\ t = Within(f[k].target, lo, hi) /\ f[k + 1] = MoveNext(f[k], x)
      BY <1>1, <1>4, <1>7, <1>8
    <3> HIDE DEF t, x
    <3>2. QED
      BY <1>8, <3>1, MoveOne
  <2>2. QED
    BY <1>1, <2>1 DEF StepIs
<1> HIDE DEF next, l, x, M, t, px, old
<1>10. InKinds(next) /\ next.priority[x] = t
  BY <1>9 DEF MovesTo
<1>11. MovesOn(list, next, K, M \cup {x})
  BY <1>1, <1>9, <1>10, MovesOnNext
<1>12. f[k + 1].target = t + 1
  BY <1>6, <1>9
<1>13. ASSUME NEW y \in K, y # x
       PROVE  next.priority[y] = IF t <= l.priority[y] /\ l.priority[y] < px THEN l.priority[y] + 1
                                 ELSE l.priority[y]
  <2>1. next.priority[y] =
          IF px < l.priority[y] /\ l.priority[y] <= t THEN l.priority[y] - 1
          ELSE IF t <= l.priority[y] /\ l.priority[y] < px THEN l.priority[y] + 1
          ELSE l.priority[y]
    BY <1>3, <1>9, <1>13 DEF MovesTo, px
  <2>2. l.priority[y] \in Int
    BY <1>5
  <2>3. QED
    BY <1>6, <2>1, <2>2
<1>14. \A j \in 1..(k + 1) : next.priority[s[j]] = (p + j) - 1
  <2>1. SUFFICES ASSUME NEW j \in 1..(k + 1) PROVE next.priority[s[j]] = (p + j) - 1
    OBVIOUS
  <2>2. CASE j = k + 1
    BY <1>10, <2>2 DEF x, t
  <2>3. CASE j # k + 1
    <3>1. j \in 1..k /\ j \in 1..n /\ k + 1 \in 1..n
      BY <1>2, <2>3
    <3>2. s[j] # x
      BY <1>2, <2>3, <3>1 DEF x
    <3>3. s[j] \in K
      BY <3>1 DEF Takes
    <3>4. l.priority[s[j]] = (p + j) - 1 /\ (p + j) - 1 < t
      BY <1>1, <3>1 DEF t
    <3>5. QED
      BY <1>6, <1>13, <3>2, <3>3, <3>4
  <2>4. QED
    BY <2>2, <2>3
<1>15. ASSUME NEW y \in K \ (M \cup {x})
       PROVE  IF old[y] < p THEN next.priority[y] < p ELSE next.priority[y] >= t + 1
  <2>1. next.priority[y] = IF t <= l.priority[y] /\ l.priority[y] < px THEN l.priority[y] + 1
                           ELSE l.priority[y]
    BY <1>13
  <2>2. l.priority[y] \in Int /\ l.priority[y] # px
    <3>1. x \in K /\ x \in Plugins /\ y \in Plugins /\ y # x
      BY <1>3, <1>8, <1>15
    <3>2. QED
      BY <1>4, <1>5, <3>1, SpanFacts DEF px
  <2>3. CASE old[y] < p
    <3>1. l.priority[y] < p /\ p <= t
      BY <1>1, <2>3 DEF t
    <3>2. QED
      BY <1>6, <2>1, <2>2, <2>3, <3>1
  <2>4. CASE ~(old[y] < p)
    <3>1. l.priority[y] >= t
      BY <1>1, <2>4
    <3>2. QED
      BY <1>6, <2>1, <2>2, <2>4, <3>1
  <2>5. QED
    BY <2>3, <2>4
<1>16. t + 1 = p + (k + 1)
  BY DEF t
<1>17. QED
  BY <1>2, <1>11, <1>12, <1>14, <1>15, <1>16 DEF UpTaken, next, M, x, old

\* What the first k steps have done when all plugins come from before p: they are
\* put to T, one after the other, and go back one place for each that follows.
DownTaken(f, list, s, n, K, p, T, k) ==
  LET l == f[k].list
  IN /\ MovesOn(list, l, K, FirstOf(s, k))
     /\ k < n => f[k].target = p - 1
     /\ \A j \in 1..k : l.priority[s[j]] = (T - k) + j
     /\ \A y \in K \ FirstOf(s, k) : IF list.priority[y] < p THEN l.priority[y] <= T - k
                                     ELSE l.priority[y] > T

\* The next plugin from before p goes to T, and those at T go back by one.
LEMMA DownStep ==
  ASSUME NEW list, InKinds(list), NEW K \in FreeKinds, NEW lo \in Nat, NEW hi \in Nat,
         Span(list, K, lo, hi), NEW s, NEW n, NEW D, Takes(s, n, list, K, D),
         NEW p \in Nat, \A x \in D : list.priority[x] < p,
         NEW T, T = Within(p - 1, lo, hi), T \in lo..hi,
         NEW f, NEW k \in 0..n - 1, DownTaken(f, list, s, n, K, p, T, k),
         f[k + 1] = MoveNext(f[k], s[k + 1])
  PROVE  DownTaken(f, list, s, n, K, p, T, k + 1)
<1> DEFINE M == FirstOf(s, k)
           x == s[k + 1]
           l == f[k].list
           next == f[k + 1].list
           old == list.priority
           px == l.priority[x]
<1>2. /\ x \in D /\ x \notin M /\ FirstOf(s, k + 1) = M \cup {x} /\ n \in Nat
      /\ D \subseteq K /\ M \subseteq D
      /\ \A i, j \in 1..n : s[i] = s[j] => i = j
  <2>1. n \in Nat /\ D \subseteq K
    BY DEF Takes
  <2>2. k \in 0..n
    BY <2>1
  <2>3. QED
    BY <2>1, <2>2, TakesFacts
<1>1. /\ MovesOn(list, l, K, M) /\ f[k].target = p - 1
      /\ \A j \in 1..k : l.priority[s[j]] = (T - k) + j
      /\ \A y \in K \ M : IF old[y] < p THEN l.priority[y] <= T - k ELSE l.priority[y] > T
  <2>1. k < n
    BY <1>2
  <2>2. QED
    BY <2>1 DEF DownTaken
<1>3. K \subseteq Plugins
  BY FreeKindFacts
<1>4. Span(l, K, lo, hi) /\ InKinds(l)
  BY <1>1 DEF MovesOn, KeepsSpans
<1>5. \A y \in K : l.priority[y] \in lo..hi
  BY <1>3, <1>4, SpanFacts
<1>6. px <= T - k /\ px \in lo..hi /\ T \in Nat /\ k \in Nat
  BY <1>1, <1>2, <1>5
<1>8. x \in K /\ p - 1 \in Int
  BY <1>2
<1>9. /\ MovesTo(l, next, x, T) /\ KeepsSpans(l, next)
      /\ \A y \in Plugins \ K : next.priority[y] = l.priority[y]
      /\ \A y, z \in Plugins \ {x} : l.priority[y] < l.priority[z] =>
           next.priority[y] < next.priority[z]
      /\ f[k + 1].target = IF T > px THEN p - 1 ELSE (p - 1) + 1
  <2>1. StepIs(f[k], f[k + 1], K, x, T)
    <3>1. InKinds(f[k].list) /\ Span(f[k].list, K, lo, hi) /\ f[k].target \in Int
          /\ T = Within(f[k].target, lo, hi) /\ f[k + 1] = MoveNext(f[k], x)
      BY <1>1, <1>4, <1>8
    <3> HIDE DEF x
    <3>2. QED
      BY <1>8, <3>1, MoveOne
  <2>2. QED
    BY <1>1, <2>1 DEF StepIs
<1> HIDE DEF next, l, x, M, px, old
<1>10. InKinds(next) /\ next.priority[x] = T
  BY <1>9 DEF MovesTo
<1>11. MovesOn(list, next, K, M \cup {x})
  BY <1>1, <1>9, <1>10, MovesOnNext
<1>12. k + 1 < n => f[k + 1].target = p - 1
  <2>1. SUFFICES ASSUME k + 1 < n PROVE T > px
    BY <1>9
  <2> DEFINE z == s[k + 2]
  <2>2. k + 1 \in 1..n /\ k + 2 \in 1..n /\ k + 1 \in 0..n - 1 /\ (k + 1) + 1 = k + 2
    BY <1>2, <1>6, <2>1
  <2>3. z \in D /\ z \notin M /\ z # x
    <3>1. s[(k + 1) + 1] \in D \ FirstOf(s, k + 1)
      BY <2>2, TakesFacts
    <3>2. QED
      BY <1>2, <2>2, <3>1
  <2>4. old[x] < old[z]
    <3>1. k + 1 < k + 2
      BY <1>6
    <3>2. QED
      BY <2>2, <3>1 DEF Takes, old, x
  <2>5. x \in Plugins \ M /\ z \in Plugins \ M /\ z \in K \ M
    BY <1>2, <1>3, <2>3
  <2>6. px < l.priority[z]
    BY <1>1, <2>4, <2>5 DEF MovesOn, px, old
  <2>7. l.priority[z] <= T - k
    BY <1>1, <2>3, <2>5 DEF old
  <2>8. l.priority[z] \in Int
    BY <1>5, <2>5
  <2>9. QED
    BY <1>6, <2>6, <2>7, <2>8
<1>13. ASSUME NEW y \in K, y # x
       PROVE  next.priority[y] = IF px < l.priority[y] /\ l.priority[y] <= T THEN l.priority[y] - 1
                                 ELSE l.priority[y]
  <2>1. next.priority[y] =
          IF px < l.priority[y] /\ l.priority[y] <= T THEN l.priority[y] - 1
          ELSE IF T <= l.priority[y] /\ l.priority[y] < px THEN l.priority[y] + 1
          ELSE l.priority[y]
    BY <1>3, <1>9, <1>13 DEF MovesTo, px
  <2>2. l.priority[y] \in Int
    BY <1>5
  <2>3. QED
    BY <1>6, <2>1, <2>2
<1>14. \A j \in 1..(k + 1) : next.priority[s[j]] = (T - (k + 1)) + j
  <2>1. SUFFICES ASSUME NEW j \in 1..(k + 1) PROVE next.priority[s[j]] = (T - (k + 1)) + j
    OBVIOUS
  <2>2. CASE j = k + 1
    BY <1>6, <1>10, <2>2 DEF x
  <2>3. CASE j # k + 1
    <3>1. j \in 1..k /\ j \in 1..n /\ k + 1 \in 1..n
      BY <1>2, <2>3
    <3>2. s[j] # x
      BY <1>2, <2>3, <3>1 DEF x
    <3>3. s[j] \in K
      BY <3>1 DEF Takes
    <3>4. l.priority[s[j]] = (T - k) + j
      BY <1>1, <3>1
    <3>5. next.priority[s[j]] = l.priority[s[j]] - 1
      BY <1>6, <1>13, <3>1, <3>2, <3>3, <3>4
    <3>6. QED
      BY <1>6, <3>1, <3>4, <3>5
  <2>4. QED
    BY <2>2, <2>3
<1>15. ASSUME NEW y \in K \ (M \cup {x})
       PROVE  IF old[y] < p THEN next.priority[y] <= T - (k + 1) ELSE next.priority[y] > T
  <2>1. next.priority[y] = IF px < l.priority[y] /\ l.priority[y] <= T THEN l.priority[y] - 1
                           ELSE l.priority[y]
    BY <1>13
  <2>2. l.priority[y] \in Int /\ l.priority[y] # px
    <3>1. x \in K /\ x \in Plugins /\ y \in Plugins /\ y # x
      BY <1>3, <1>8, <1>15
    <3>2. QED
      BY <1>4, <1>5, <3>1, SpanFacts DEF px
  <2>3. CASE old[y] < p
    <3>1. l.priority[y] <= T - k
      BY <1>1, <2>3
    <3>2. QED
      BY <1>6, <2>1, <2>2, <2>3, <3>1
  <2>4. CASE ~(old[y] < p)
    <3>1. l.priority[y] > T
      BY <1>1, <2>4
    <3>2. QED
      BY <1>6, <2>1, <2>2, <2>4, <3>1
  <2>5. QED
    BY <2>3, <2>4
<1>17. QED
  BY <1>2, <1>11, <1>12, <1>14, <1>15 DEF DownTaken, next, M, x, old

\* What the moves come to: the plugins of D are together, those of K that were
\* before p before them and the others behind.
ComeTogether(list, l, K, D, p) ==
  LET before == {y \in K \ D : list.priority[y] < p}
      behind == {y \in K \ D : ~(list.priority[y] < p)}
  IN /\ MovesOn(list, l, K, D)
     /\ \A x \in D, y \in before : l.priority[y] < l.priority[x]
     /\ \A x \in D, y \in behind : l.priority[x] < l.priority[y]
     /\ \A y \in before, z \in behind : l.priority[y] < l.priority[z]
     /\ \A x, z \in D : list.priority[x] < list.priority[z] => l.priority[x] < l.priority[z]

\* Plugins that all come from behind p are together then.
LEMMA UpTogether ==
  ASSUME NEW list, InKinds(list), NEW K \in FreeKinds, NEW lo \in Nat, NEW hi \in Nat,
         Span(list, K, lo, hi), NEW s, NEW n, NEW D, Takes(s, n, list, K, D),
         NEW p \in Nat, p >= lo, \A x \in D : ~(list.priority[x] < p),
         NEW f, f[0] = [list |-> list, target |-> p],
         \A k \in 1..n : f[k] = MoveNext(f[k - 1], s[k])
  PROVE  ComeTogether(list, f[n].list, K, D, p)
<1> DEFINE S == {k \in Nat : k <= n => UpTaken(f, list, s, K, p, k)}
           l == f[n].list
<1>1. /\ n \in Nat /\ FirstOf(s, 0) = {} /\ FirstOf(s, n) = D
      /\ \A x \in D : \E k \in 1..n : s[k] = x
      /\ \A j, k \in 1..n : j < k <=> list.priority[s[j]] < list.priority[s[k]]
  <2>1. FirstOf(s, 0) = {} /\ FirstOf(s, n) = D
    BY TakesFacts
  <2>2. QED
    BY <2>1 DEF Takes
<1>2. K \subseteq Plugins /\ \A y \in Plugins : list.priority[y] \in Int
  BY FreeKindFacts, SpanFacts
<1>3. 0 \in S
  <2>1. f[0].list = list /\ f[0].target = p + 0
    OBVIOUS
  <2>2. MovesOn(list, list, K, {})
    BY DEF MovesOn, KeepsSpans
  <2>3. \A y \in K : IF list.priority[y] < p THEN list.priority[y] < p ELSE list.priority[y] >= p + 0
    BY <1>2
  <2>4. UpTaken(f, list, s, K, p, 0)
    <3>1. K \ {} = K /\ \A j \in 1..0 : FALSE
      OBVIOUS
    <3>2. QED
      BY <1>1, <2>1, <2>2, <2>3, <3>1 DEF UpTaken
  <2>5. QED
    BY <2>4
<1>4. ASSUME NEW k \in Nat, k \in S PROVE k + 1 \in S
  <2>1. SUFFICES ASSUME k + 1 <= n PROVE UpTaken(f, list, s, K, p, k + 1)
    OBVIOUS
  <2>2. UpTaken(f, list, s, K, p, k) /\ k \in 0..n - 1 /\ k + 1 \in 1..n /\ (k + 1) - 1 = k
    BY <1>1, <1>4, <2>1
  <2>3. f[k + 1] = MoveNext(f[k], s[k + 1])
    BY <2>2
  <2> HIDE DEF S
  <2>4. QED
    BY <2>2, <2>3, UpStep
<1> HIDE DEF S
<1>5. n \in S
  BY <1>1, <1>3, <1>4, EachNatural
<1>6. UpTaken(f, list, s, K, p, n)
  BY <1>1, <1>5 DEF S
<1>7. /\ MovesOn(list, l, K, D)
      /\ \A j \in 1..n : l.priority[s[j]] = (p + j) - 1
      /\ \A y \in K \ D : IF list.priority[y] < p THEN l.priority[y] < p ELSE l.priority[y] >= p + n
  BY <1>1, <1>6 DEF UpTaken
<1> HIDE DEF l
<1>8. \A y \in K : l.priority[y] \in Int
  BY <1>2, <1>7, ListFacts DEF MovesOn, InKinds
<1>9. \A x \in D : l.priority[x] \in Int /\ l.priority[x] >= p /\ l.priority[x] < p + n
  BY <1>1, <1>7
<1>10. \A x, z \in D : list.priority[x] < list.priority[z] => l.priority[x] < l.priority[z]
  <2>1. SUFFICES ASSUME NEW x \in D, NEW z \in D, list.priority[x] < list.priority[z]
                 PROVE  l.priority[x] < l.priority[z]
    OBVIOUS
  <2>2. PICK i \in 1..n, j \in 1..n : s[i] = x /\ s[j] = z
    BY <1>1
  <2>3. i < j
    BY <1>1, <2>1, <2>2
  <2>4. l.priority[x] = (p + i) - 1 /\ l.priority[z] = (p + j) - 1
    BY <1>7, <2>2
  <2>5. QED
    BY <2>3, <2>4
<1>11. \A y \in K \ D : list.priority[y] < p => l.priority[y] < p
  BY <1>7
<1>12. \A y \in K \ D : ~(list.priority[y] < p) => l.priority[y] >= p + n
  BY <1>7
<1>13. QED
  BY <1>1, <1>7, <1>8, <1>9, <1>10, <1>11, <1>12 DEF ComeTogether, l

\* And so are plugins that all come from before p.
LEMMA DownTogether ==
  ASSUME NEW list, InKinds(list), NEW K \in FreeKinds, NEW lo \in Nat, NEW hi \in Nat,
         Span(list, K, lo, hi), NEW s, NEW n, NEW D, Takes(s, n, list, K, D), D # {},
         NEW p \in Nat, \A x \in D : list.priority[x] < p,
         NEW f, f[0] = [list |-> list, target |-> p - 1],
         \A k \in 1..n : f[k] = MoveNext(f[k - 1], s[k])
  PROVE  ComeTogether(list, f[n].list, K, D, p)
<1> DEFINE T == Within(p - 1, lo, hi)
           S == {k \in Nat : k <= n => DownTaken(f, list, s, n, K, p, T, k)}
           l == f[n].list
<1>1. /\ n \in Nat /\ FirstOf(s, 0) = {} /\ FirstOf(s, n) = D /\ D \subseteq K
      /\ \A x \in D : \E k \in 1..n : s[k] = x
      /\ \A j, k \in 1..n : j < k <=> list.priority[s[j]] < list.priority[s[k]]
  <2>1. FirstOf(s, 0) = {} /\ FirstOf(s, n) = D
    BY TakesFacts
  <2>2. QED
    BY <2>1 DEF Takes
<1>2. /\ K \subseteq Plugins /\ lo <= hi
      /\ \A y \in Plugins : list.priority[y] \in Int
      /\ \A y \in K : list.priority[y] \in lo..hi
  BY FreeKindFacts, SpanFacts
<1>3. p - 1 >= lo
  BY <1>1, <1>2
<1>4. T \in lo..hi /\ T \in Nat /\ T <= p - 1 /\ (T = p - 1 \/ T = hi)
  BY <1>2, <1>3 DEF Within
<1>14. T = Within(p - 1, lo, hi)
  OBVIOUS
<1> HIDE DEF T
<1>5. 0 \in S
  <2>1. f[0].list = list /\ f[0].target = p - 1
    OBVIOUS
  <2>2. MovesOn(list, list, K, {})
    BY DEF MovesOn, KeepsSpans
  <2>3. \A y \in K : IF list.priority[y] < p THEN list.priority[y] <= T - 0 ELSE list.priority[y] > T
    BY <1>2, <1>4
  <2>4. DownTaken(f, list, s, n, K, p, T, 0)
    BY <1>1, <2>1, <2>2, <2>3 DEF DownTaken
  <2>5. QED
    BY <2>4
<1>6. ASSUME NEW k \in Nat, k \in S PROVE k + 1 \in S
  <2>1. SUFFICES ASSUME k + 1 <= n PROVE DownTaken(f, list, s, n, K, p, T, k + 1)
    OBVIOUS
  <2>2. DownTaken(f, list, s, n, K, p, T, k) /\ k \in 0..n - 1 /\ k + 1 \in 1..n /\ (k + 1) - 1 = k
    BY <1>1, <1>6, <2>1
  <2>3. f[k + 1] = MoveNext(f[k], s[k + 1])
    BY <2>2
  <2> HIDE DEF S
  <2>4. QED
    BY <1>4, <1>14, <2>2, <2>3, DownStep
<1> HIDE DEF S
<1>7. n \in S
  BY <1>1, <1>5, <1>6, EachNatural
<1>8. DownTaken(f, list, s, n, K, p, T, n)
  BY <1>1, <1>7 DEF S
<1>9. /\ MovesOn(list, l, K, D)
      /\ \A j \in 1..n : l.priority[s[j]] = (T - n) + j
      /\ \A y \in K \ D : IF list.priority[y] < p THEN l.priority[y] <= T - n ELSE l.priority[y] > T
  BY <1>1, <1>8 DEF DownTaken
<1> HIDE DEF l
<1>10. \A y \in K : l.priority[y] \in Int
  BY <1>2, <1>9, ListFacts DEF MovesOn, InKinds
<1>11. \A x \in D : l.priority[x] \in Int /\ l.priority[x] > T - n /\ l.priority[x] <= T
  BY <1>1, <1>4, <1>9
<1>12. \A x, z \in D : list.priority[x] < list.priority[z] => l.priority[x] < l.priority[z]
  <2>1. SUFFICES ASSUME NEW x \in D, NEW z \in D, list.priority[x] < list.priority[z]
                 PROVE  l.priority[x] < l.priority[z]
    OBVIOUS
  <2>2. PICK i \in 1..n, j \in 1..n : s[i] = x /\ s[j] = z
    BY <1>1
  <2>3. i < j
    BY <1>1, <2>1, <2>2
  <2>4. l.priority[x] = (T - n) + i /\ l.priority[z] = (T - n) + j
    BY <1>9, <2>2
  <2>5. QED
    BY <1>1, <1>4, <2>3, <2>4
<1>13. \A y \in K \ D : list.priority[y] < p => l.priority[y] <= T - n
  BY <1>9
<1>15. \A y \in K \ D : ~(list.priority[y] < p) => l.priority[y] > T
  BY <1>9
<1>16. QED
  BY <1>1, <1>4, <1>9, <1>10, <1>11, <1>12, <1>13, <1>15 DEF ComeTogether, l

\* The plugins before a place.
AbovePlace(list, p) == {x \in Plugins : list.priority[x] < p}

\* What comes together is listed so.
ListedTogether(list, l, K, D, p) ==
  /\ ByPriority(l, K) = ByPriority(list, (K \ D) \cap AbovePlace(list, p))
       \o ByPriority(list, D) \o ByPriority(list, (K \ D) \ AbovePlace(list, p))
  /\ ByPriority(l, Plugins \ K) = ByPriority(list, Plugins \ K)

\* In lists, by priority.
LEMMA TogetherListed ==
  ASSUME NEW list, InKinds(list), NEW K \in FreeKinds, NEW D, D \subseteq K, NEW p \in Int,
         NEW l, ComeTogether(list, l, K, D, p)
  PROVE  ListedTogether(list, l, K, D, p)
<1> DEFINE old == list.priority
           new == l.priority
           A == (K \ D) \cap AbovePlace(list, p)
           B == (K \ D) \ AbovePlace(list, p)
<1>0. A = {y \in K \ D : old[y] < p} /\ B = {y \in K \ D : ~(old[y] < p)}
  BY FreeKindFacts DEF AbovePlace
<1>1. /\ MovesOn(list, l, K, D)
      /\ \A x \in D, y \in A : new[y] < new[x]
      /\ \A x \in D, y \in B : new[x] < new[y]
      /\ \A y \in A, z \in B : new[y] < new[z]
      /\ \A x, z \in D : old[x] < old[z] => new[x] < new[z]
  <2> HIDE DEF A, B
  <2>1. QED
    BY <1>0 DEF ComeTogether
<1>2. /\ ListOk(list) /\ Present(list) = Plugins /\ ListOk(l) /\ Present(l) = Plugins
      /\ \A y \in Plugins \ K : new[y] = old[y]
      /\ \A y, z \in Plugins \ D : old[y] < old[z] => new[y] < new[z]
  BY <1>1 DEF MovesOn, InKinds
<1>3. K \subseteq Plugins /\ D \subseteq K
  BY FreeKindFacts
<1>4. /\ A \subseteq K \ D /\ B \subseteq K \ D /\ K = (A \cup D) \cup B
  OBVIOUS
<1> HIDE DEF A, B
<1>5. Keys(K, old) /\ Keys(K, new)
  <2>1. Keys(K \cap Present(list), old) /\ Keys(K \cap Present(l), new)
    BY <1>2, ListFacts
  <2>2. K \cap Plugins = K
    BY <1>3
  <2>3. QED
    BY <1>2, <2>1, <2>2
<1>6. Kept(A, old, new) /\ Kept(D, old, new) /\ Kept(B, old, new)
  BY <1>1, <1>2, <1>3, <1>4 DEF Kept
<1>7. Parted(A \cup D, A, D, new) /\ Parted(K, A \cup D, B, new)
  BY <1>1, <1>4 DEF Parted
<1> HIDE DEF old, new
<1>8. SortedBy(K, new) = Among(SortedBy(K, old), A) \o Among(SortedBy(K, old), D)
                           \o Among(SortedBy(K, old), B)
  <2>1. Keys(K, old)
    BY <1>5
  <2>2. Keys(K, new)
    BY <1>5
  <2>3. QED
    BY <1>6, <1>7, <2>1, <2>2, SortedTogether
<1>9. /\ Among(SortedBy(K, old), A) = SortedBy(K \cap A, old)
      /\ Among(SortedBy(K, old), D) = SortedBy(K \cap D, old)
      /\ Among(SortedBy(K, old), B) = SortedBy(K \cap B, old)
  BY <1>5, AmongSorted
<1>10. /\ K \cap A = A \cap Plugins /\ K \cap D = D \cap Plugins /\ K \cap B = B \cap Plugins
       /\ K \cap Plugins = K
  BY <1>3, <1>4
<1>11. /\ ByPriority(l, K) = SortedBy(K, new)
       /\ ByPriority(list, A) = SortedBy(K \cap A, old)
       /\ ByPriority(list, D) = SortedBy(K \cap D, old)
       /\ ByPriority(list, B) = SortedBy(K \cap B, old)
  BY <1>2, <1>10 DEF ByPriority, old, new
<1>12. ByPriority(l, Plugins \ K) = ByPriority(list, Plugins \ K)
  <2>1. \A y, z \in Plugins \ K : list.priority[y] < list.priority[z] => l.priority[y] < l.priority[z]
    BY <1>2 DEF old, new
  <2>2. QED
    BY <1>2, <2>1, ListedAlike
<1>13. ByPriority(l, K) = ByPriority(list, A) \o ByPriority(list, D) \o ByPriority(list, B)
  BY <1>8, <1>9, <1>11
<1>14. QED
  BY <1>12, <1>13, Zenon DEF ListedTogether, A, B

\* The plugins of D are taken in their order.
LEMMA TakenInOrder ==
  ASSUME NEW list, ListOk(list), NEW K, NEW D, D \subseteq K, D \subseteq Present(list)
  PROVE  Takes(ByPriority(list, D), Len(ByPriority(list, D)), list, K, D)
<1> DEFINE key == list.priority
           t == SortedBy(D, key)
           m == Cardinality(D)
<1>1. D \cap Present(list) = D
  OBVIOUS
<1>2. ByPriority(list, D) = t
  BY <1>1 DEF ByPriority
<1>3. Keys(D, key)
  <2>1. Keys(D \cap Present(list), list.priority)
    BY ListFacts
  <2>2. QED
    BY <1>1, <2>1
<1> HIDE DEF key
<1>4. /\ m \in Nat /\ Len(t) = m /\ \A k \in 1..m : t[k] \in D
      /\ \A e \in D : \E k \in 1..m : t[k] = e
      /\ \A j, k \in 1..m : j < k <=> key[t[j]] < key[t[k]]
  BY <1>3, SortedLists
<1> HIDE DEF t, m
<1>5. QED
  BY <1>2, <1>4 DEF Takes, key

\* Plugins of one kind that are dropped there or below, all from above or all from
\* below, come together in their order between those before the place and those
\* behind it, and no other plugin changes its place among the others
\* (PluginList::changePluginPriority), for every list.
THEOREM DroppedKind ==
  ASSUME NEW list, InKinds(list), NEW p \in 0..Size(list),
         NEW K \in FreeKinds, NEW D, D \subseteq K, D # {},
         \A x \in K : p >= Min(Room(list, x)),
         D \subseteq AbovePlace(list, p) \/ D \cap AbovePlace(list, p) = {}
  PROVE  ListedTogether(list, ChangePluginPriority(list, D, p), K, D, p)
<1> DEFINE after == ChangePluginPriority(list, D, p)
           s == ByPriority(list, D)
           n == Len(s)
<1>1. /\ ListOk(list) /\ Present(list) = Plugins /\ KindsApart(list)
      /\ K \subseteq Plugins /\ K \cap Forced = {} /\ D \subseteq K
  BY FreeKindFacts DEF InKinds
<1>2. PICK lo \in Nat, hi \in Nat : Span(list, K, lo, hi) /\ p >= lo
  <2>1. PICK x \in D : TRUE
    OBVIOUS
  <2>2. x \in Free /\ x \in K
    BY <1>1 DEF Free
  <2>3. PICK J \in FreeKinds, lo \in Nat, hi \in Nat :
          x \in J /\ Span(list, J, lo, hi) /\ Min(Room(list, x)) = lo
    BY <2>2, RoomIs
  <2>4. J = K
    BY <2>2, <2>3, FreeKindFacts
  <2>5. p >= lo
    BY <2>2, <2>3
  <2>6. QED
    BY <2>3, <2>4, <2>5
<1>3. /\ Size(list) \in Nat /\ lo \in 0..(Size(list) - 1)
      /\ \A y \in Plugins : list.priority[y] \in 0..(Size(list) - 1)
  BY <1>2, SpanFacts
<1>4. p \in Nat
  BY <1>3
<1>5. \A y \in Forced \cap Present(list) : list.priority[y] < p
  <2>1. lo \in lo..hi
    BY <1>2, SpanFacts
  <2>2. PICK z \in Plugins : list.priority[z] = lo
    BY <1>2, <1>3, SpanFacts
  <2>3. z \in K
    BY <1>2, <2>1, <2>2, SpanFacts
  <2>4. \A y \in Forced \cap Present(list) : list.priority[y] < list.priority[z]
    BY <1>1, <2>2, <2>3 DEF KindsApart
  <2>5. QED
    BY <1>1, <1>2, <1>3, <1>4, <2>2, <2>4
<1>6. ChangeStart(list, D, p) = IF \E x \in D : list.priority[x] < p THEN p - 1 ELSE p
  BY <1>1, <1>5, ChangeStartIs
<1>7. Takes(s, n, list, K, D)
  BY <1>1, TakenInOrder
<1>8. PICK f : MoveSteps(f, list, s, ChangeStart(list, D, p)) /\ after = f[n].list
  BY <1>1, ChangeRuns
<1>9. /\ f[0] = [list |-> list, target |-> ChangeStart(list, D, p)]
      /\ \A k \in 1..n : f[k] = MoveNext(f[k - 1], s[k])
  BY <1>8 DEF MoveSteps
<1> HIDE DEF after, s, n
<1>10. ComeTogether(list, after, K, D, p)
  <2>1. CASE D \subseteq AbovePlace(list, p)
    <3>1. \A x \in D : list.priority[x] < p
      BY <2>1 DEF AbovePlace
    <3>2. ChangeStart(list, D, p) = p - 1
      BY <1>6, <3>1
    <3>3. f[0] = [list |-> list, target |-> p - 1]
      BY <1>9, <3>2
    <3>4. ComeTogether(list, f[n].list, K, D, p)
      BY <1>2, <1>4, <1>7, <1>9, <3>1, <3>3, DownTogether
    <3>5. QED
      BY <1>8, <3>4
  <2>2. CASE D \cap AbovePlace(list, p) = {}
    <3>1. \A x \in D : ~(list.priority[x] < p)
      BY <1>1, <2>2 DEF AbovePlace
    <3>2. ChangeStart(list, D, p) = p
      BY <1>6, <3>1
    <3>3. f[0] = [list |-> list, target |-> p]
      BY <1>9, <3>2
    <3>4. ComeTogether(list, f[n].list, K, D, p)
      BY <1>2, <1>4, <1>7, <1>9, <3>1, <3>3, UpTogether
    <3>5. QED
      BY <1>8, <3>4
  <2>3. QED
    BY <2>1, <2>2
<1>11. p \in Int
  BY <1>4
<1>12. QED
  BY <1>1, <1>10, <1>11, TogetherListed DEF after

\* The drops on the lists that are asked about.
LEMMA AllDroppedKind == Dropping
<1> DEFINE Asked(list, p, kind, dropped) ==
             LET rest  == kind \ dropped
                 after == ChangePluginPriority(list, dropped, p)
                 above == {x \in Plugins : list.priority[x] < p}
             IN (/\ \A x \in kind : p >= Min(Room(list, x))
                 /\ dropped \subseteq above \/ dropped \cap above = {}) =>
                  /\ ByPriority(after, kind) = ByPriority(list, rest \cap above)
                       \o ByPriority(list, dropped) \o ByPriority(list, rest \ above)
                  /\ ByPriority(after, Plugins \ kind) = ByPriority(list, Plugins \ kind)
<1>1. ASSUME NEW list \in AllListed, NEW p \in 0..Cardinality(Plugins),
             NEW kind \in Kinds \ {Forced}, NEW dropped \in (SUBSET kind) \ {{}}
      PROVE  Asked(list, p, kind, dropped)
  <2>1. PICK order \in Orders : list = Listed(order, Plugins)
    BY DEF AllListed
  <2>2. InKinds(list) /\ p \in 0..Size(list)
    BY <2>1, ListedFacts
  <2>3. kind \in FreeKinds /\ dropped \in SUBSET kind /\ dropped # {}
    BY DEF Kinds, FreeKinds
  <2>4. ASSUME \A x \in kind : p >= Min(Room(list, x)),
               dropped \subseteq AbovePlace(list, p) \/ dropped \cap AbovePlace(list, p) = {}
        PROVE  ListedTogether(list, ChangePluginPriority(list, dropped, p), kind, dropped, p)
    BY <2>2, <2>3, <2>4, DroppedKind
  <2>5. QED
    BY <2>4, Zenon DEF AbovePlace, ListedTogether
<1>2. \A list \in AllListed, p \in 0..Cardinality(Plugins) :
        \A kind \in Kinds \ {Forced} : \A dropped \in (SUBSET kind) \ {{}} :
          Asked(list, p, kind, dropped)
  <2> HIDE DEF Asked
  <2>1. QED
    BY <1>1
<1>3. QED
  BY <1>2, Zenon DEF Dropping

-----------------------------------------------------------------------------
(* Locked load orders *)

\* The plugins that are enabled.
On(list) == {y \in Plugins : list.enabled[y]}

\* The load orders are counted.
Counted(list) ==
  /\ InKinds(list)
  /\ \A y \in Plugins : list.loadOrder[y] =
       IF y \in On(list) THEN Rank(On(list), list.priority, y) ELSE -1

\* syncLoadOrder counts the enabled plugins before each one.
LEMMA SyncCounts ==
  ASSUME NEW list, InKinds(list)
  PROVE  /\ Counted(SyncLoadOrder(list)) /\ SameRows(list, SyncLoadOrder(list))
         /\ SyncLoadOrder(list).priority = list.priority
         /\ Size(SyncLoadOrder(list)) = Size(list) /\ On(SyncLoadOrder(list)) = On(list)
<1> DEFINE after == SyncLoadOrder(list)
           Before(x) == {y \in Present(list) : list.enabled[y] /\ list.priority[y] < list.priority[x]}
<1>1. ListOk(list) /\ KindsApart(list) /\ Present(list) = Plugins
  BY DEF InKinds
<1>2. ListOk(after) /\ SameRows(list, after) /\ after.priority = list.priority
  BY <1>1, SyncedOk
<1>3. \A x \in Plugins :
        after.loadOrder[x] = IF list.enabled[x] THEN Cardinality(Before(x)) ELSE -1
  BY <1>1 DEF SyncLoadOrder, ListOk, Arranged, Lists
<1> HIDE DEF after
<1>4. \A x \in Plugins : Before(x) = Below(On(list), list.priority, x)
  BY <1>1 DEF On, Below
<1> HIDE DEF Before
<1>5. after.enabled = list.enabled /\ Present(after) = Plugins /\ Size(after) = Size(list)
  BY <1>1, <1>2, SameRowsSize DEF SameRows
<1>6. On(after) = On(list)
  BY <1>5 DEF On
<1>7. InKinds(after)
  BY <1>1, <1>2, <1>5 DEF InKinds, KindsApart
<1>8. \A x \in Plugins : x \in On(list) <=> list.enabled[x]
  BY DEF On
<1>9. \A x \in Plugins : after.loadOrder[x] =
        IF x \in On(list) THEN Rank(On(list), list.priority, x) ELSE -1
  BY <1>3, <1>4, <1>8 DEF Rank
<1>10. Counted(after)
  BY <1>2, <1>6, <1>7, <1>9 DEF Counted
<1>11. QED
  BY <1>2, <1>5, <1>6, <1>10 DEF after

\* The enabled plugins have the load orders below their number, by their places.
LEMMA CountedFacts ==
  ASSUME NEW list, Counted(list)
  PROVE  /\ Keys(On(list), list.priority) /\ IsFiniteSet(On(list)) /\ On(list) \subseteq Plugins
         /\ Cardinality(On(list)) \in Nat
         /\ \A y \in On(list) : list.loadOrder[y] = Rank(On(list), list.priority, y)
         /\ \A y \in On(list) : list.loadOrder[y] \in 0..(Cardinality(On(list)) - 1)
         /\ \A y \in Plugins \ On(list) : list.loadOrder[y] = -1
         /\ \A m \in 0..(Cardinality(On(list)) - 1) : \E y \in On(list) : list.loadOrder[y] = m
         /\ \A y, z \in On(list) :
              list.priority[y] < list.priority[z] <=> list.loadOrder[y] < list.loadOrder[z]
<1> DEFINE S == On(list)
           n == Cardinality(S)
<1>1. InKinds(list) /\ S \subseteq Plugins
      /\ \A y \in Plugins : list.loadOrder[y] = IF y \in S THEN Rank(S, list.priority, y) ELSE -1
  BY DEF Counted, On
<1>2. ListOk(list) /\ Present(list) = Plugins
  BY <1>1 DEF InKinds
<1>3. S \cap Present(list) = S
  BY <1>1, <1>2
<1> HIDE DEF S
<1>4. Keys(S, list.priority)
  <2>1. Keys(S \cap Present(list), list.priority)
    BY <1>2, ListFacts
  <2>2. QED
    BY <1>3, <2>1
<1>5. /\ n \in Nat
      /\ \A k \in 1..n : \E s \in S : Rank(S, list.priority, s) = k - 1
      /\ \A s \in S : Rank(S, list.priority, s) \in 0..(n - 1)
      /\ \A r, s \in S : list.priority[r] < list.priority[s] <=>
                         Rank(S, list.priority, r) < Rank(S, list.priority, s)
  BY <1>4, RanksAreNumbers
<1>6. IsFiniteSet(S)
  BY <1>4 DEF Keys
<1>7. \A y \in S : list.loadOrder[y] = Rank(S, list.priority, y)
  BY <1>1
<1>8. \A y \in Plugins \ S : list.loadOrder[y] = -1
  BY <1>1
<1> HIDE DEF n
<1>9. \A m \in 0..(n - 1) : \E y \in S : list.loadOrder[y] = m
  <2>1. TAKE m \in 0..(n - 1)
  <2>2. m + 1 \in 1..n /\ (m + 1) - 1 = m
    BY <1>5
  <2>3. PICK y \in S : Rank(S, list.priority, y) = (m + 1) - 1
    BY <1>5, <2>2
  <2>4. QED
    BY <1>7, <2>2, <2>3
<1>10. \A y \in S : list.loadOrder[y] \in 0..(n - 1)
  BY <1>5, <1>7
<1>11. \A y, z \in S : list.priority[y] < list.priority[z] <=> list.loadOrder[y] < list.loadOrder[z]
  BY <1>5, <1>7
<1>12. QED
  BY <1>1, <1>4, <1>5, <1>6, <1>7, <1>8, <1>9, <1>10, <1>11 DEF S, n

\* The enabled plugins in front of a place, and those of a kind.
OnBefore(list, p) == {y \in On(list) : list.priority[y] < p}

\* What can be reached are the load orders of the plugins of the kind.
LEMMA ReachableIs ==
  ASSUME NEW list, InKinds(list), NEW K \in FreeKinds, NEW lo, NEW hi, Span(list, K, lo, hi),
         NEW x \in K
  PROVE  Reachable(list, x) = Cardinality(OnBefore(list, lo))
           ..(Cardinality(OnBefore(list, lo)) + Cardinality(On(list) \cap K) - 1)
<1>1. x \in Free /\ K \subseteq Plugins
  BY FreeKindFacts DEF Free
<1>2. UNION {k \in Kinds : x \in k} = K
  <2>1. PICK J \in FreeKinds : x \in J /\ UNION {kind \in Kinds : x \in kind} = J
    BY <1>1, KindOf
  <2>2. J = K
    BY <2>1, FreeKindFacts
  <2>3. QED
    BY <2>1, <2>2
<1> DEFINE before == {y \in Plugins : list.enabled[y] /\ \A z \in K : list.priority[y] < list.priority[z]}
           among == {y \in K : list.enabled[y]}
<1>3. Reachable(list, x) = Cardinality(before)..(Cardinality(before) + Cardinality(among) - 1)
  BY <1>2, Zenon DEF Reachable
<1>4. /\ Size(list) \in Nat /\ lo \in 0..(Size(list) - 1) /\ hi \in 0..(Size(list) - 1) /\ lo <= hi
      /\ \A y \in Plugins : list.priority[y] \in 0..(Size(list) - 1)
      /\ \A q \in 0..(Size(list) - 1) : \E y \in Plugins : list.priority[y] = q
      /\ \A y \in Plugins : y \in K <=> list.priority[y] \in lo..hi
  BY SpanFacts
<1>5. PICK a \in Plugins : list.priority[a] = lo
  BY <1>4
<1>6. a \in K
  BY <1>4, <1>5
<1>7. \A y \in Plugins : (\A z \in K : list.priority[y] < list.priority[z]) <=> list.priority[y] < lo
  <2>1. TAKE y \in Plugins
  <2>2. ASSUME list.priority[y] < lo, NEW z \in K PROVE list.priority[y] < list.priority[z]
    <3>1. list.priority[z] \in lo..hi /\ list.priority[y] \in Int /\ lo \in Int
      BY <1>1, <1>4
    <3>2. QED
      BY <2>2, <3>1
  <2>3. QED
    BY <1>5, <1>6, <2>2
<1>8. before = OnBefore(list, lo)
  BY <1>7 DEF OnBefore, On
<1>9. among = On(list) \cap K
  BY <1>1 DEF On
<1>10. QED
  BY <1>3, <1>8, <1>9

\* A plugin of the kind has the load order.
LEMMA ReachedIn ==
  ASSUME NEW list, Counted(list), NEW K \in FreeKinds, NEW lo, NEW hi, Span(list, K, lo, hi),
         NEW x \in K, NEW order \in Reachable(list, x)
  PROVE  order \in Nat /\ \E e \in K : e \in On(list) /\ list.loadOrder[e] = order
<1> DEFINE S == On(list)
           B == OnBefore(list, lo)
           A == S \cap K
<1>1. InKinds(list) /\ K \subseteq Plugins
  BY FreeKindFacts DEF Counted
<1>2. order \in Cardinality(B)..(Cardinality(B) + Cardinality(A) - 1)
  BY <1>1, ReachableIs
<1>3. /\ IsFiniteSet(S) /\ S \subseteq Plugins /\ Cardinality(S) \in Nat
      /\ \A y \in S : list.loadOrder[y] = Rank(S, list.priority, y)
      /\ \A m \in 0..(Cardinality(S) - 1) : \E y \in S : list.loadOrder[y] = m
  BY CountedFacts
<1>4. /\ Size(list) \in Nat /\ lo \in 0..(Size(list) - 1) /\ hi \in 0..(Size(list) - 1) /\ lo <= hi
      /\ \A y \in Plugins : list.priority[y] \in 0..(Size(list) - 1)
      /\ \A y \in Plugins : y \in K <=> list.priority[y] \in lo..hi
  BY <1>1, SpanFacts
<1>5. B \subseteq S /\ A \subseteq S /\ B \cap A = {}
  <2>1. ASSUME NEW y \in B, y \in A PROVE FALSE
    <3>1. y \in Plugins /\ y \in K /\ list.priority[y] < lo
      BY <1>3, <2>1 DEF OnBefore
    <3>2. list.priority[y] \in lo..hi
      BY <1>4, <3>1
    <3>3. QED
      BY <1>4, <3>1, <3>2
  <2>2. QED
    BY <2>1 DEF OnBefore
<1>6. \A y \in S : y \in B <=> list.priority[y] < lo
  BY DEF OnBefore
<1>7. \A y \in S : y \in A <=> y \in K
  OBVIOUS
<1> HIDE DEF S, B, A
<1>8. /\ IsFiniteSet(B) /\ IsFiniteSet(A) /\ Cardinality(B) \in Nat /\ Cardinality(A) \in Nat
      /\ IsFiniteSet(B \cup A) /\ Cardinality(B \cup A) = Cardinality(B) + Cardinality(A)
  <2>1. IsFiniteSet(B) /\ IsFiniteSet(A)
    BY <1>3, <1>5, FS_Subset
  <2>2. Cardinality(B) \in Nat /\ Cardinality(A) \in Nat /\ Cardinality(B \cap A) = 0
    BY <1>5, <2>1, FS_CardinalityType, FS_EmptySet
  <2>3. IsFiniteSet(B \cup A) /\ Cardinality(B \cup A) = Cardinality(B) + Cardinality(A) - Cardinality(B \cap A)
    BY <2>1, FS_Union
  <2>4. QED
    BY <2>1, <2>2, <2>3
<1>9. Cardinality(B \cup A) <= Cardinality(S)
  <2>1. B \cup A \in SUBSET S
    BY <1>5
  <2>2. QED
    BY <1>3, <2>1, FS_Subset
<1>10. order \in Nat /\ order \in 0..(Cardinality(S) - 1)
  BY <1>2, <1>3, <1>8, <1>9
<1>11. PICK e \in S : list.loadOrder[e] = order
  BY <1>3, <1>10
<1>12. e \in K
  <2> DEFINE D == Below(S, list.priority, e)
  <2>1. SUFFICES ASSUME e \notin K PROVE FALSE
    OBVIOUS
  <2>2. e \in Plugins /\ list.priority[e] \in Int /\ (list.priority[e] < lo \/ list.priority[e] > hi)
    BY <1>3, <1>4, <2>1
  <2>3. Cardinality(D) = order /\ \A y \in S : y \in D <=> list.priority[y] < list.priority[e]
    BY <1>3, <1>11 DEF Rank, Below
  <2>4. D \in SUBSET S /\ IsFiniteSet(D)
    <3>1. D \in SUBSET S
      BY DEF Below
    <3>2. QED
      BY <1>3, <3>1, FS_Subset
  <2> HIDE DEF D
  <2>5. \A y \in S : y \in Plugins /\ list.priority[y] \in Int
    BY <1>3, <1>4
  <2>6. CASE list.priority[e] < lo
    <3>1. D \in SUBSET B
      <4>1. ASSUME NEW y \in D PROVE y \in B
        <5>1. y \in S /\ list.priority[y] < list.priority[e] /\ list.priority[y] \in Int /\ lo \in Int
          BY <1>4, <2>3, <2>4, <2>5
        <5>2. list.priority[y] < lo
          BY <2>2, <2>6, <5>1
        <5>3. QED
          BY <1>6, <5>1, <5>2
      <4>2. QED
        BY <4>1
    <3>2. e \in B /\ e \notin D
      BY <1>6, <2>2, <2>3, <2>6
    <3>3. D # B
      BY <3>2
    <3>4. Cardinality(D) <= Cardinality(B) /\ Cardinality(D) # Cardinality(B)
      BY <1>8, <3>1, <3>3, FS_Subset
    <3>5. QED
      BY <1>2, <1>8, <1>10, <2>3, <3>4
  <2>7. CASE list.priority[e] > hi
    <3>1. B \cup A \in SUBSET D
      <4>1. ASSUME NEW y \in B \cup A PROVE y \in D
        <5>1. y \in S /\ list.priority[y] \in Int /\ lo \in Int /\ hi \in Int
          BY <1>4, <1>5, <2>5, <4>1
        <5>2. list.priority[y] <= hi
          <6>1. CASE y \in B
            BY <1>4, <1>6, <5>1, <6>1
          <6>2. CASE y \in A
            <7>1. y \in K /\ y \in Plugins
              BY <1>7, <2>5, <5>1, <6>2
            <7>2. list.priority[y] \in lo..hi
              BY <1>4, <7>1
            <7>3. QED
              BY <5>1, <7>2
          <6>3. QED
            BY <4>1, <6>1, <6>2
        <5>3. list.priority[y] < list.priority[e]
          BY <2>2, <2>7, <5>1, <5>2
        <5>4. QED
          BY <2>3, <5>1, <5>3
      <4>2. QED
        BY <4>1
    <3>2. Cardinality(B \cup A) <= Cardinality(D)
      BY <2>4, <3>1, FS_Subset
    <3>3. QED
      BY <1>2, <1>8, <1>10, <2>3, <3>2
  <2>8. QED
    BY <2>2, <2>6, <2>7
<1>13. QED
  BY <1>10, <1>11, <1>12 DEF S

\* A plugin that is put to the place of another one of its kind gets the load order
\* the other one had.
LEMMA TakesLoadOrder ==
  ASSUME NEW list, Counted(list), NEW after, NEW x \in On(list), NEW e \in On(list),
         MovesTo(list, after, x, list.priority[e])
  PROVE  Rank(On(list), after.priority, x) = list.loadOrder[e]
<1> DEFINE S == On(list)
           B == Below(S, list.priority, e)
           C == Below(S, after.priority, x)
           old == list.priority[x]
           new == list.priority[e]
<1>1. /\ IsFiniteSet(S) /\ S \subseteq Plugins
      /\ list.loadOrder[e] = Cardinality(B) /\ Rank(S, after.priority, x) = Cardinality(C)
  BY CountedFacts DEF Rank
<1>2. /\ \A y \in Plugins : list.priority[y] \in Int
      /\ \A y, z \in Plugins : list.priority[y] = list.priority[z] => y = z
  <2>1. ListOk(list) /\ Present(list) = Plugins
    BY DEF Counted, InKinds
  <2>2. \A y \in Plugins : list.priority[y] \in 0..(Size(list) - 1)
    BY <2>1, ListFacts
  <2>3. Size(list) \in Nat
    BY <2>1, ListFacts
  <2>4. \A y, z \in Plugins : list.priority[y] = list.priority[z] => y = z
    BY <2>1, ListFacts
  <2>5. \A y \in Plugins : list.priority[y] \in Int
    BY <2>2, <2>3
  <2>6. QED
    BY <2>4, <2>5
<1>3. /\ after.priority[x] = new
      /\ \A y \in Plugins \ {x} : after.priority[y] =
           IF old < list.priority[y] /\ list.priority[y] <= new THEN list.priority[y] - 1
           ELSE IF new <= list.priority[y] /\ list.priority[y] < old THEN list.priority[y] + 1
           ELSE list.priority[y]
  BY DEF MovesTo
<1>4. x \in S /\ e \in S /\ x \in Plugins /\ e \in Plugins
  BY <1>1
<1>5. \A y : y \in B <=> y \in S /\ list.priority[y] < new
  BY DEF Below
<1>6. \A y : y \in C <=> y \in S /\ after.priority[y] < new
  BY <1>3 DEF Below
<1>7. old \in Int /\ new \in Int
  BY <1>2, <1>4
<1> HIDE DEF S, B, C
<1> HIDE DEF old, new
<1>8. IsFiniteSet(B) /\ IsFiniteSet(C)
  <2>1. B \in SUBSET S /\ C \in SUBSET S
    BY <1>5, <1>6
  <2>2. QED
    BY <1>1, <2>1, FS_Subset
<1>9. CASE old < new
  <2>1. x \in B /\ e \notin B
    BY <1>4, <1>5, <1>7, <1>9 DEF old, new
  <2>2. \A y \in S \ {x} : after.priority[y] < new <=> y \in B \cup {e}
    <3>1. SUFFICES ASSUME NEW y \in S \ {x}
                   PROVE  after.priority[y] < new <=> y \in B \cup {e}
      OBVIOUS
    <3>2. y \in Plugins \ {x} /\ list.priority[y] \in Int /\ (list.priority[y] = new <=> y = e)
      BY <1>1, <1>2, <1>4 DEF new
    <3>3. after.priority[y] < new <=> list.priority[y] <= new
      BY <1>3, <1>7, <1>9, <3>2
    <3>4. y \in B <=> list.priority[y] < new
      BY <1>5, <3>1
    <3>5. QED
      BY <1>7, <3>2, <3>3, <3>4
  <2>3. x \notin C
    BY <1>3, <1>6, <1>7
  <2>4. C = (B \ {x}) \cup {e}
    <3>1. ASSUME NEW y PROVE y \in C <=> y \in (B \ {x}) \cup {e}
      <4>1. CASE y = x
        BY <1>9, <1>7, <2>3, <4>1 DEF old, new
      <4>2. CASE y # x
        BY <1>4, <1>5, <1>6, <2>2, <4>2
      <4>3. QED
        BY <4>1, <4>2
    <3>2. QED
      BY <3>1
  <2>5. IsFiniteSet(B \ {x}) /\ Cardinality(B \ {x}) = Cardinality(B) - 1
    BY <1>8, <2>1, FS_RemoveElement
  <2>6. Cardinality((B \ {x}) \cup {e}) = Cardinality(B \ {x}) + 1
    <3>1. e \notin B \ {x}
      BY <2>1
    <3>2. QED
      BY <2>5, <3>1, FS_AddElement
  <2>7. Cardinality(B) \in Nat
    BY <1>8, FS_CardinalityType
  <2>8. QED
    BY <1>1, <2>4, <2>5, <2>6, <2>7 DEF S
<1>10. CASE ~(old < new)
  <2>1. x \notin B /\ x \notin C
    BY <1>3, <1>5, <1>6, <1>7, <1>10 DEF old
  <2>2. \A y \in S \ {x} : after.priority[y] < new <=> list.priority[y] < new
    <3>1. SUFFICES ASSUME NEW y \in S \ {x}
                   PROVE  after.priority[y] < new <=> list.priority[y] < new
      OBVIOUS
    <3>2. y \in Plugins \ {x} /\ list.priority[y] \in Int
      BY <1>1, <1>2
    <3>3. QED
      BY <1>3, <1>7, <1>10, <3>2
  <2>3. C = B
    <3>1. ASSUME NEW y PROVE y \in C <=> y \in B
      BY <1>5, <1>6, <2>1, <2>2
    <3>2. QED
      BY <3>1
  <2>4. QED
    BY <1>1, <2>3 DEF S
<1>11. QED
  BY <1>9, <1>10

\* What can be reached stays as it was when a plugin is moved within its kind.
LEMMA ReachableStays ==
  ASSUME NEW list, InKinds(list), NEW K \in FreeKinds, NEW lo, NEW hi, Span(list, K, lo, hi),
         NEW after, InKinds(after), Span(after, K, lo, hi), KeepsSpans(list, after),
         SameRows(list, after), NEW y \in Free,
         \A z \in Plugins \ K : after.priority[z] = list.priority[z]
  PROVE  Reachable(after, y) = Reachable(list, y)
<1>1. PICK J \in FreeKinds, a \in Nat, b \in Nat : y \in J /\ Span(list, J, a, b)
  BY RoomIs
<1>2. Span(after, J, a, b)
  BY <1>1 DEF KeepsSpans
<1>3. On(after) = On(list)
  BY DEF On, SameRows
<1>4. /\ Size(list) \in Nat /\ lo \in 0..(Size(list) - 1) /\ hi \in 0..(Size(list) - 1) /\ lo <= hi
      /\ \A z \in Plugins : z \in K <=> list.priority[z] \in lo..hi
  BY SpanFacts
<1>5. \A z \in Plugins : z \in K <=> after.priority[z] \in lo..hi
  BY SpanFacts
<1>6. a = lo \/ a \notin lo..hi
  <2>1. CASE J = K
    BY <1>1, <2>1, SpanUnique
  <2>2. CASE J \cap K = {}
    <3>1. \A q \in lo..hi : q \notin a..b
      BY <1>1, <2>2, SpansApart
    <3>2. a \in a..b
      <4>1. a <= b /\ a \in 0..(Size(list) - 1) /\ b \in 0..(Size(list) - 1)
        BY <1>1, SpanFacts
      <4>2. QED
        BY <4>1
    <3>3. QED
      BY <3>1, <3>2
  <2>3. QED
    BY <1>1, <2>1, <2>2, FreeKindFacts
<1>7. \A z \in Plugins : after.priority[z] < a <=> list.priority[z] < a
  <2>1. TAKE z \in Plugins
  <2>2. CASE z \in K
    <3>1. list.priority[z] \in lo..hi /\ after.priority[z] \in lo..hi
      BY <1>4, <1>5, <2>2
    <3>2. QED
      BY <1>4, <1>6, <3>1
  <2>3. CASE z \notin K
    BY <2>3
  <2>4. QED
    BY <2>2, <2>3
<1>8. OnBefore(after, a) = OnBefore(list, a)
  BY <1>3, <1>7 DEF OnBefore, On
<1>9. Reachable(after, y) = Cardinality(OnBefore(after, a))
        ..(Cardinality(OnBefore(after, a)) + Cardinality(On(after) \cap J) - 1)
  BY <1>1, <1>2, ReachableIs
<1>10. Reachable(list, y) = Cardinality(OnBefore(list, a))
         ..(Cardinality(OnBefore(list, a)) + Cardinality(On(list) \cap J) - 1)
  BY <1>1, ReachableIs
<1>11. QED
  BY <1>3, <1>8, <1>9, <1>10

\* One lock in refreshLoadOrder that says where a plugin of the kind is.
LockSteps(state, after, x, e, order) ==
  /\ Counted(after.list) /\ MovesTo(state.list, after.list, x, state.list.priority[e])
  /\ after.place = state.list.priority[e]
  /\ after.list.loadOrder[x] = order
  /\ On(after.list) = On(state.list)
  /\ \A y \in Free : Reachable(after.list, y) = Reachable(state.list, y)

\* The place that refreshLoadOrder finds for a load order.
PlaceFor(list, from, order) ==
  Min({q \in from..Size(list) - 1 : q = Size(list) - 1 \/ list.loadOrder[At(list, q)] >= order})

\* That is the place of the plugin that has it.
LEMMA PlaceForIs ==
  ASSUME NEW list, Counted(list), NEW e \in On(list), NEW from \in Nat,
         from <= list.priority[e]
  PROVE  PlaceFor(list, from, list.loadOrder[e]) = list.priority[e]
<1> DEFINE n == Size(list)
           order == list.loadOrder[e]
           T == {q \in from..n - 1 : q = n - 1 \/ list.loadOrder[At(list, q)] >= order}
           p == list.priority[e]
<1>1. ListOk(list) /\ Present(list) = Plugins /\ Arranged(list) /\ e \in Plugins
  BY CountedFacts DEF Counted, InKinds, ListOk
<1>2. n \in Nat /\ p \in 0..(n - 1) /\ At(list, p) = e
  BY <1>1, ListFacts, PlaceOf
<1>3. \A q \in 0..(n - 1) : At(list, q) \in Plugins /\ list.priority[At(list, q)] = q
  BY <1>1, AtPlace
<1>4. order \in Nat
  <2>1. order \in 0..(Cardinality(On(list)) - 1) /\ Cardinality(On(list)) \in Nat
    BY CountedFacts
  <2>2. QED
    BY <2>1
<1>5. ASSUME NEW q \in 0..(n - 1), q < p PROVE ~(list.loadOrder[At(list, q)] >= order)
  <2>1. CASE At(list, q) \in On(list)
    <3>1. list.priority[At(list, q)] < list.priority[e]
      BY <1>3, <1>5
    <3>2. list.loadOrder[At(list, q)] < list.loadOrder[e]
      BY <2>1, <3>1, CountedFacts
    <3>3. list.loadOrder[At(list, q)] \in 0..(Cardinality(On(list)) - 1) /\ Cardinality(On(list)) \in Nat
      BY <2>1, CountedFacts
    <3>4. QED
      BY <1>4, <3>2, <3>3
  <2>2. CASE At(list, q) \notin On(list)
    <3>1. list.loadOrder[At(list, q)] = -1
      BY <1>3, <2>2, CountedFacts
    <3>2. QED
      BY <1>4, <3>1
  <2>3. QED
    BY <2>1, <2>2
<1>6. p \in from..n - 1 /\ from \in Nat
  BY <1>2
<1>7. p \in T
  BY <1>2, <1>4, <1>6
<1>8. T \in SUBSET Nat /\ T # {}
  BY <1>6, <1>7
<1>9. \A q \in T : ~(q < p)
  <2>1. SUFFICES ASSUME NEW q \in from..n - 1, q < p,
                        q = n - 1 \/ list.loadOrder[At(list, q)] >= order
                 PROVE  FALSE
    OBVIOUS
  <2>2. q \in 0..(n - 1) /\ q # n - 1
    BY <1>2, <1>6, <2>1
  <2>3. QED
    BY <1>5, <2>1, <2>2
<1> HIDE DEF T
<1>10. Min(T) \in T /\ \A q \in T : Min(T) <= q
  BY <1>8, MinProperty
<1>11. Min(T) = p
  <2>1. Min(T) \in Nat /\ p \in Nat /\ Min(T) <= p /\ ~(Min(T) < p)
    BY <1>2, <1>7, <1>8, <1>9, <1>10
  <2>2. QED
    BY <2>1
<1>12. PlaceFor(list, from, order) = Min(T)
  BY Zenon DEF T, PlaceFor
<1>13. QED
  BY <1>11, <1>12

\* A lock puts its plugin where the load order is.
LEMMA LockStep ==
  ASSUME NEW state, Counted(state.list), NEW K \in FreeKinds,
         state = [list |-> state.list, place |-> state.place, moved |-> state.moved],
         NEW lo, NEW hi, Span(state.list, K, lo, hi),
         NEW x \in K, x \in On(state.list), NEW e \in K, e \in On(state.list),
         state.place \in Nat, state.place <= state.list.priority[e],
         NEW order, state.list.loadOrder[e] = order,
         LockedTo(state.list, order) = x
  PROVE  LockSteps(state, ApplyLock(state, order), x, e, order)
<1> DEFINE l == state.list
           place == PlaceFor(l, state.place, order)
           moved == SetPluginPriority(l, x, place)
           put == SyncLoadOrder(moved)
           after == ApplyLock(state, order)
           p == l.priority[e]
<1>1. InKinds(l) /\ Present(l) = Plugins /\ x \in Plugins /\ e \in Plugins
  BY CountedFacts DEF Counted, InKinds
<1>2. place = p
  <2>1. Counted(l) /\ e \in On(l) /\ state.place \in Nat /\ state.place <= l.priority[e]
        /\ l.loadOrder[e] = order
    OBVIOUS
  <2> HIDE DEF l
  <2>2. PlaceFor(l, state.place, l.loadOrder[e]) = p
    BY <2>1, PlaceForIs
  <2>3. QED
    BY <2>1, <2>2
<1>3. after = IF l.priority[x] = place THEN [state EXCEPT !.place = place]
              ELSE [list |-> put, place |-> place, moved |-> TRUE]
  <2>1. after = IF LockedTo(l, order) \notin Present(l) THEN state
                ELSE IF l.priority[LockedTo(l, order)] = place THEN [state EXCEPT !.place = place]
                ELSE [list |-> SyncLoadOrder(SetPluginPriority(l, LockedTo(l, order), place)),
                      place |-> place, moved |-> TRUE]
    BY Zenon DEF ApplyLock, PlaceFor
  <2>2. QED
    BY <1>1, <2>1
<1> HIDE DEF after, place, l
<1>4. /\ p \in lo..hi /\ Size(l) \in Nat /\ lo \in 0..(Size(l) - 1) /\ hi \in 0..(Size(l) - 1)
      /\ \A y \in Plugins : l.priority[y] \in 0..(Size(l) - 1)
      /\ \A y, z \in Plugins : l.priority[y] = l.priority[z] => y = z
  BY <1>1, SpanFacts DEF l
<1> HIDE DEF p
<1>5. CASE l.priority[x] = p
  <2>1. x = e
    BY <1>1, <1>4, <1>5 DEF p
  <2>2. after.list = l /\ after.place = p
    BY <1>2, <1>3, <1>5 DEF l
  <2>3. MovesTo(l, l, x, p)
    <3>1. SameRows(l, l) /\ Size(l) = Size(l) /\ l.priority[x] = p
      BY <1>5 DEF SameRows
    <3>2. p \in Int /\ \A y \in Plugins : l.priority[y] \in Int
      BY <1>4
    <3>3. \A y \in Plugins \ {x} : l.priority[y] =
            IF l.priority[x] < l.priority[y] /\ l.priority[y] <= p THEN l.priority[y] - 1
            ELSE IF p <= l.priority[y] /\ l.priority[y] < l.priority[x] THEN l.priority[y] + 1
            ELSE l.priority[y]
      BY <3>1, <3>2
    <3>4. QED
      BY <1>1, <3>1, <3>3 DEF MovesTo
  <2>4. l.loadOrder[x] = order
    BY <2>1 DEF l
  <2>5. Counted(l)
    BY DEF l
  <2>6. QED
    BY <2>2, <2>3, <2>4, <2>5 DEF LockSteps, after, p, l
<1>6. CASE l.priority[x] # p
  <2>1. after.list = put /\ after.place = p
    BY <1>2, <1>3, <1>6
  <2>2. Within(p, lo, hi) = p /\ p \in Int
    BY <1>4 DEF Within
  <2>3. /\ MovesTo(l, moved, x, p) /\ KeepsSpans(l, moved)
        /\ \A y \in Plugins \ K : moved.priority[y] = l.priority[y]
    <3>1. Span(l, K, lo, hi)
      BY DEF l
    <3>2. QED
      BY <1>1, <1>2, <2>2, <3>1, MoveInKind
  <2>4. InKinds(moved) /\ SameRows(l, moved) /\ Size(moved) = Size(l)
    BY <2>3 DEF MovesTo
  <2> HIDE DEF moved
  <2>5. /\ Counted(put) /\ SameRows(moved, put) /\ put.priority = moved.priority
        /\ Size(put) = Size(moved) /\ On(put) = On(moved)
    BY <2>4, SyncCounts
  <2> HIDE DEF put
  <2>6. On(moved) = On(l)
    BY <2>4 DEF On, SameRows
  <2>7. SameRows(l, put) /\ InKinds(put)
    BY <2>4, <2>5, SameRowsFollow DEF Counted
  <2>8. MovesTo(l, put, x, p)
    BY <2>3, <2>5, <2>4, <2>7 DEF MovesTo
  <2>9. put.loadOrder[x] = order
    <3>1. Counted(l) /\ x \in On(l) /\ e \in On(l) /\ MovesTo(l, put, x, l.priority[e]) /\ l.loadOrder[e] = order
      BY <2>8 DEF l, p
    <3>2. Rank(On(l), put.priority, x) = order
      BY <3>1, TakesLoadOrder
    <3>3. On(put) = On(l) /\ x \in On(put)
      BY <2>5, <2>6, <3>1
    <3>4. put.loadOrder[x] = Rank(On(put), put.priority, x)
      BY <2>5, <3>3, CountedFacts
    <3>5. QED
      BY <3>2, <3>3, <3>4
  <2>10. ASSUME NEW y \in Free PROVE Reachable(put, y) = Reachable(l, y)
    <3>1. KeepsSpans(l, put)
      <4>1. ASSUME NEW J \in FreeKinds, NEW a \in Nat, NEW b \in Nat, Span(l, J, a, b)
            PROVE  Span(put, J, a, b)
        <5>1. Span(moved, J, a, b)
          BY <2>3, <4>1 DEF KeepsSpans
        <5>2. Present(put) = Present(moved)
          BY <2>5 DEF SameRows
        <5>3. QED
          BY <2>5, <5>1, <5>2 DEF Span
      <4>2. QED
        BY <4>1 DEF KeepsSpans
    <3>2. Span(l, K, lo, hi) /\ lo \in Nat /\ hi \in Nat
      BY <1>4 DEF l
    <3>3. Span(put, K, lo, hi)
      BY <3>1, <3>2 DEF KeepsSpans
    <3>4. \A z \in Plugins \ K : put.priority[z] = l.priority[z]
      BY <2>3, <2>5
    <3>5. QED
      BY <1>1, <2>7, <3>1, <3>2, <3>3, <3>4, ReachableStays
  <2>11. On(put) = On(l)
    BY <2>5, <2>6
  <2>12. QED
    BY <2>1, <2>5, <2>8, <2>9, <2>10, <2>11 DEF LockSteps, after, p, l
<1>7. QED
  BY <1>5, <1>6

\* One or two numbers in their order.
LEMMA OneAscends ==
  ASSUME NEW a \in Int
  PROVE  Ascending({a}) = <<a>> /\ Len(<<a>>) = 1 /\ <<a>>[1] = a
<1> DEFINE id == [s \in {a} |-> s]
           t == <<a>>
<1>1. Ascends(t, 1, {a}, id)
  BY DEF Ascends
<1>2. SortedBy({a}, id) = t
  BY <1>1, SortedIs
<1>3. QED
  BY <1>2 DEF Ascending

\* The same for two.
LEMMA TwoAscend ==
  ASSUME NEW a \in Int, NEW b \in Int, a < b
  PROVE  Ascending({a, b}) = <<a, b>> /\ Len(<<a, b>>) = 2 /\ <<a, b>>[1] = a /\ <<a, b>>[2] = b
<1> DEFINE S == {a, b}
           id == [s \in S |-> s]
           t == <<a, b>>
<1>1. /\ t = [k \in 1..2 |-> t[k]]
      /\ t[1] = a /\ t[2] = b /\ id[a] = a /\ id[b] = b
  OBVIOUS
<1>2. \A k \in 1..2 : t[k] \in S /\ id[t[k]] \in Int
  BY <1>1
<1>3. \A e \in S : \E k \in 1..2 : t[k] = e
  BY <1>1
<1>4. \A j, k \in 1..2 : j < k => id[t[j]] < id[t[k]]
  BY <1>1
<1> HIDE DEF t, id, S
<1>5. Ascends(t, 2, S, id)
  BY <1>1, <1>2, <1>3, <1>4 DEF Ascends
<1>6. SortedBy(S, id) = t
  BY <1>5, SortedIs
<1>7. QED
  BY <1>6 DEF Ascending, S, id, t

\* The plugin that alone is locked to a load order.
LEMMA LockedAlone ==
  ASSUME NEW list, NEW x \in Plugins, NEW order, x \in DOMAIN list.locked, list.locked[x] = order,
         \A z \in DOMAIN list.locked : list.locked[z] = order => z = x
  PROVE  LockedTo(list, order) = x
<1> DEFINE T == {z \in DOMAIN list.locked : list.locked[z] = order}
<1>1. T = {x}
  OBVIOUS
<1>2. x \in Nat
  BY PluginAssumption
<1>3. Max({x}) = x
  <2>1. {x} \in SUBSET 0..x /\ {x} # {}
    BY <1>2
  <2>2. Max({x}) \in {x}
    BY <1>2, <2>1, MaxProperty
  <2>3. QED
    BY <2>2
<1>4. LockedTo(list, order) = Max(T)
  BY Zenon DEF LockedTo
<1>5. QED
  BY <1>1, <1>3, <1>4

\* Counting the load orders changes nothing of what can be reached.
LEMMA ReachableCounted ==
  ASSUME NEW list, NEW after, after.enabled = list.enabled, after.priority = list.priority, NEW x
  PROVE  Reachable(after, x) = Reachable(list, x)
BY Zenon DEF Reachable

\* What the locks begin with.
LockStart(list, state) ==
  /\ Counted(state.list) /\ state.list.locked = list.locked
  /\ state = [list |-> state.list, place |-> 0, moved |-> FALSE]
  /\ state.place = 0 /\ On(state.list) = On(list)
  /\ state.list.loadOrder = SyncLoadOrder(list).loadOrder
  /\ \A x : Reachable(state.list, x) = Reachable(list, x)

\* They begin so.
LEMMA LocksStart ==
  ASSUME NEW list, InKinds(list), NEW f, NEW s, LockRuns(f, list, s)
  PROVE  LockStart(list, f[0])
<1> DEFINE l == SyncLoadOrder(list)
<1>1. /\ Counted(l) /\ SameRows(list, l) /\ l.priority = list.priority /\ On(l) = On(list)
  BY SyncCounts
<1>2. f[0] = [list |-> l, place |-> 0, moved |-> FALSE]
  BY DEF LockRuns
<1> HIDE DEF l
<1>3. f[0].list = l /\ f[0].place = 0 /\ f[0].moved = FALSE
  BY <1>2
<1>4. l.locked = list.locked /\ l.enabled = list.enabled
  BY <1>1 DEF SameRows
<1>5. \A x : Reachable(l, x) = Reachable(list, x)
  BY <1>1, <1>4, ReachableCounted
<1>6. f[0] = [list |-> f[0].list, place |-> 0, moved |-> FALSE]
  BY <1>2, <1>3
<1>7. f[0].list.loadOrder = SyncLoadOrder(list).loadOrder
  BY <1>3 DEF l
<1>8. QED
  BY <1>1, <1>3, <1>4, <1>5, <1>6, <1>7 DEF LockStart

\* A plugin that can have a load order takes it.
LEMMA LockTaken ==
  ASSUME NEW state, Counted(state.list),
         state = [list |-> state.list, place |-> state.place, moved |-> state.moved],
         state.place \in Nat,
         NEW x \in Free, x \in On(state.list), NEW order \in Reachable(state.list, x),
         LockedTo(state.list, order) = x,
         \A e \in On(state.list) : state.list.loadOrder[e] = order =>
           state.place <= state.list.priority[e]
  PROVE  \E e \in On(state.list) :
           /\ state.list.loadOrder[e] = order
           /\ LockSteps(state, ApplyLock(state, order), x, e, order)
<1>1. InKinds(state.list)
  BY DEF Counted
<1>2. PICK K \in FreeKinds, lo \in Nat, hi \in Nat : x \in K /\ Span(state.list, K, lo, hi)
  BY <1>1, RoomIs
<1>3. PICK e \in K : e \in On(state.list) /\ state.list.loadOrder[e] = order
  BY <1>2, ReachedIn
<1>4. state.place <= state.list.priority[e]
  BY <1>3
<1>5. LockSteps(state, ApplyLock(state, order), x, e, order)
  BY <1>2, <1>3, <1>4, LockStep
<1>6. QED
  BY <1>3, <1>5

\* The place of an enabled plugin is a number.
LEMMA PriorityInNat ==
  ASSUME NEW list, Counted(list), NEW y \in On(list)
  PROVE  list.priority[y] \in Nat /\ y \in Plugins
<1>1. ListOk(list) /\ Present(list) = Plugins /\ y \in Plugins
  BY DEF Counted, InKinds, On
<1>2. list.priority[y] \in 0..(Size(list) - 1) /\ Size(list) \in Nat
  BY <1>1, ListFacts
<1>3. QED
  BY <1>1, <1>2

\* refreshLoadOrder with one lock.
LEMMA OneLock ==
  ASSUME NEW list, InKinds(list), NEW x \in Free, x \in On(list),
         DOMAIN list.locked = {x}, list.locked[x] \in Reachable(list, x)
  PROVE  RefreshLoadOrder(list).list.loadOrder[x] = list.locked[x]
<1> DEFINE a == list.locked[x]
           s == Ascending(Range(list.locked))
<1>1. ListOk(list) /\ x \in Plugins
  BY DEF InKinds, Free
<1>2. a \in Int
  BY <1>1 DEF ListOk, OwnLocks
<1>3. Range(list.locked) = {a}
  BY DEF Range
<1>4. s = <<a>> /\ Len(s) = 1 /\ s[1] = a
  BY <1>2, <1>3, OneAscends
<1>5. PICK f : LockRuns(f, list, s) /\ RefreshLoadOrder(list).list = f[Len(s)].list
  BY <1>1, LocksRun
<1> HIDE DEF s
<1>6. LockStart(list, f[0])
  BY <1>5, LocksStart
<1>7. f[1] = ApplyLock(f[0], a) /\ RefreshLoadOrder(list).list = f[1].list
  BY <1>4, <1>5 DEF LockRuns
<1> DEFINE state == f[0]
<1>8. /\ Counted(state.list) /\ state.list.locked = list.locked /\ state.place = 0
      /\ On(state.list) = On(list) /\ Reachable(state.list, x) = Reachable(list, x)
      /\ state = [list |-> state.list, place |-> 0, moved |-> FALSE]
  BY <1>6 DEF LockStart
<1> HIDE DEF state
<1>9. state = [list |-> state.list, place |-> state.place, moved |-> state.moved] /\ state.place \in Nat
  BY <1>8
<1>10. LockedTo(state.list, a) = x
  BY <1>1, <1>8, LockedAlone
<1>11. \A e \in On(state.list) : state.place <= state.list.priority[e]
  BY <1>8, PriorityInNat
<1>12. PICK e \in On(state.list) : LockSteps(state, ApplyLock(state, a), x, e, a)
  BY <1>8, <1>9, <1>10, <1>11, LockTaken
<1>13. QED
  BY <1>7, <1>12 DEF LockSteps, state

\* When a plugin goes up, no other one gets a smaller load order, and those in
\* front of its new place keep theirs.
LEMMA GoesUp ==
  ASSUME NEW list, Counted(list), NEW after, NEW x \in Plugins, NEW new \in Int,
         MovesTo(list, after, x, new), new <= list.priority[x], NEW y \in On(list), y # x
  PROVE  /\ Rank(On(list), after.priority, y) >= list.loadOrder[y]
         /\ list.priority[y] < new =>
              Rank(On(list), after.priority, y) = list.loadOrder[y]
<1> DEFINE S == On(list)
           B == Below(S, list.priority, y)
           C == Below(S, after.priority, y)
           old == list.priority[x]
<1>1. /\ IsFiniteSet(S) /\ S \subseteq Plugins
      /\ list.loadOrder[y] = Cardinality(B) /\ Rank(S, after.priority, y) = Cardinality(C)
  BY CountedFacts DEF Rank
<1>2. \A z \in Plugins : list.priority[z] \in Int
  <2>1. ListOk(list) /\ Present(list) = Plugins
    BY DEF Counted, InKinds
  <2>2. (\A z \in Plugins : list.priority[z] \in 0..(Size(list) - 1)) /\ Size(list) \in Nat
    BY <2>1, ListFacts
  <2>3. QED
    BY <2>2
<1>3. \A y1, z \in Plugins : list.priority[y1] = list.priority[z] => y1 = z
  <2>1. ListOk(list) /\ Present(list) = Plugins
    BY DEF Counted, InKinds
  <2>2. QED
    BY <2>1, ListFacts
<1>4. /\ after.priority[x] = new
      /\ \A z \in Plugins \ {x} : after.priority[z] =
           IF old < list.priority[z] /\ list.priority[z] <= new THEN list.priority[z] - 1
           ELSE IF new <= list.priority[z] /\ list.priority[z] < old THEN list.priority[z] + 1
           ELSE list.priority[z]
  BY DEF MovesTo
<1>5. old \in Int /\ new <= old
  BY <1>2
<1>6. \A z \in Plugins \ {x} : after.priority[z] =
        IF new <= list.priority[z] /\ list.priority[z] < old THEN list.priority[z] + 1
        ELSE list.priority[z]
  <2>1. TAKE z \in Plugins \ {x}
  <2>2. list.priority[z] \in Int
    BY <1>2
  <2>3. ~(old < list.priority[z] /\ list.priority[z] <= new)
    BY <1>5, <2>2
  <2>4. QED
    BY <1>4, <2>3
<1>7. y \in Plugins \ {x}
  BY <1>1
<1>8. \A z : (z \in B <=> z \in S /\ list.priority[z] < list.priority[y])
           /\ (z \in C <=> z \in S /\ after.priority[z] < after.priority[y])
  BY DEF Below
<1>9. list.priority[y] \in Int /\ list.priority[y] # old
  BY <1>2, <1>3, <1>7
<1> HIDE DEF S, B, C, old
<1>10. IsFiniteSet(B) /\ IsFiniteSet(C)
  <2>1. B \in SUBSET S /\ C \in SUBSET S
    BY <1>8
  <2>2. QED
    BY <1>1, <2>1, FS_Subset
<1>11. \A z \in S \ {x} : z \in B <=> z \in C
  <2>1. TAKE z \in S \ {x}
  <2>2. z \in Plugins \ {x} /\ list.priority[z] \in Int
    BY <1>1, <1>2
  <2>3. list.priority[z] = list.priority[y] => z = y
    BY <1>3, <1>7, <2>2
  <2>4. list.priority[z] < list.priority[y] <=> after.priority[z] < after.priority[y]
    BY <1>5, <1>6, <1>7, <1>9, <2>2, <2>3
  <2>5. QED
    BY <1>8, <2>4
<1>12. x \in B => x \in C
  <2>1. SUFFICES ASSUME x \in B PROVE x \in C
    OBVIOUS
  <2>2. x \in S /\ old < list.priority[y]
    BY <1>8, <2>1 DEF old
  <2>3. after.priority[y] = list.priority[y]
    BY <1>5, <1>6, <1>7, <1>9, <2>2
  <2>4. QED
    BY <1>4, <1>5, <1>8, <1>9, <2>2, <2>3
<1>13. B \in SUBSET C
  BY <1>8, <1>11, <1>12
<1>14. Cardinality(B) <= Cardinality(C) /\ Cardinality(B) \in Nat /\ Cardinality(C) \in Nat
  BY <1>10, <1>13, FS_Subset, FS_CardinalityType
<1>15. ASSUME list.priority[y] < new PROVE Cardinality(C) = Cardinality(B)
  <2>1. after.priority[y] = list.priority[y]
    BY <1>5, <1>6, <1>7, <1>9, <1>15
  <2>2. x \notin C
    BY <1>4, <1>5, <1>8, <1>9, <1>15, <2>1
  <2>3. C = B
    <3>1. ASSUME NEW z PROVE z \in C <=> z \in B
      BY <1>8, <1>11, <1>12, <2>2
    <3>2. QED
      BY <3>1
  <2>4. QED
    BY <2>3
<1>16. QED
  BY <1>1, <1>14, <1>15 DEF S

\* refreshLoadOrder with two locks, of plugins that do not have to go behind where
\* they are.
LEMMA TwoLocks ==
  ASSUME NEW list, InKinds(list), NEW x \in Free, NEW y \in Free, x # y,
         x \in On(list), y \in On(list), DOMAIN list.locked = {x, y},
         list.locked[x] \in Reachable(list, x), list.locked[y] \in Reachable(list, y),
         list.locked[x] < list.locked[y],
         SyncLoadOrder(list).loadOrder[x] >= list.locked[x],
         SyncLoadOrder(list).loadOrder[y] >= list.locked[y]
  PROVE  /\ RefreshLoadOrder(list).list.loadOrder[x] = list.locked[x]
         /\ RefreshLoadOrder(list).list.loadOrder[y] = list.locked[y]
<1> DEFINE a == list.locked[x]
           b == list.locked[y]
           s == Ascending(Range(list.locked))
<1>1. ListOk(list) /\ x \in Plugins /\ y \in Plugins
  BY DEF InKinds, Free
<1>2. a \in Int /\ b \in Int /\ a < b
  BY <1>1 DEF ListOk, OwnLocks
<1>3. Range(list.locked) = {a, b}
  BY DEF Range
<1>4. s = <<a, b>> /\ Len(s) = 2 /\ s[1] = a /\ s[2] = b
  BY <1>2, <1>3, TwoAscend
<1>5. PICK f : /\ LockRuns(f, list, s) /\ RefreshLoadOrder(list).list = f[Len(s)].list
               /\ \A k \in 0..Len(s) : f[k] \in LockStates(list)
  BY <1>1, LocksRun
<1> HIDE DEF s
<1>6. LockStart(list, f[0])
  BY <1>5, LocksStart
<1>7. f[1] = ApplyLock(f[0], a) /\ f[2] = ApplyLock(f[1], b) /\ RefreshLoadOrder(list).list = f[2].list
  BY <1>4, <1>5 DEF LockRuns
<1> DEFINE zero == f[0]
           one == f[1]
           two == f[2]
           on == On(list)
<1>8. /\ Counted(zero.list) /\ zero.list.locked = list.locked /\ zero.place = 0
      /\ On(zero.list) = on /\ Reachable(zero.list, x) = Reachable(list, x)
      /\ Reachable(zero.list, y) = Reachable(list, y)
      /\ zero = [list |-> zero.list, place |-> 0, moved |-> FALSE]
      /\ zero.list.loadOrder = SyncLoadOrder(list).loadOrder
  BY <1>6 DEF LockStart
<1>9. /\ one = [list |-> one.list, place |-> one.place, moved |-> one.moved] /\ one.place \in Nat
      /\ one.list.locked = list.locked
  <2>1. one \in LockStates(list)
    BY <1>4, <1>5
  <2>2. QED
    BY <2>1 DEF LockStates, SameRows
<1>10. one = ApplyLock(zero, a) /\ two = ApplyLock(one, b) /\ RefreshLoadOrder(list).list = two.list
  BY <1>7
<1> HIDE DEF zero, one, two, on
<1>11. x \in on /\ y \in on
  BY DEF on
<1>12. PICK e \in on : zero.list.loadOrder[e] = a /\ LockSteps(zero, one, x, e, a)
  <2>1. zero = [list |-> zero.list, place |-> zero.place, moved |-> zero.moved] /\ zero.place \in Nat
    BY <1>8
  <2>2. LockedTo(zero.list, a) = x
    <3>1. \A z \in DOMAIN zero.list.locked : zero.list.locked[z] = a => z = x
      BY <1>2, <1>8
    <3>2. QED
      BY <1>1, <1>8, <3>1, LockedAlone
  <2>3. \A d \in On(zero.list) : zero.place <= zero.list.priority[d]
    BY <1>8, PriorityInNat
  <2>4. a \in Reachable(zero.list, x) /\ x \in On(zero.list)
    BY <1>8, <1>11
  <2>5. \E d \in On(zero.list) : zero.list.loadOrder[d] = a /\ LockSteps(zero, ApplyLock(zero, a), x, d, a)
    BY <1>8, <2>1, <2>2, <2>3, <2>4, LockTaken
  <2>6. QED
    BY <1>8, <1>10, <2>5
<1>13. /\ Counted(one.list) /\ MovesTo(zero.list, one.list, x, zero.list.priority[e])
       /\ one.place = zero.list.priority[e] /\ one.list.loadOrder[x] = a
       /\ On(one.list) = on /\ Reachable(one.list, y) = Reachable(list, y)
  BY <1>8, <1>12 DEF LockSteps
<1>14. /\ \A z \in on : zero.list.priority[z] \in Nat /\ z \in Plugins
       /\ \A z \in on : one.list.priority[z] \in Nat
       /\ \A z \in on : zero.list.loadOrder[z] \in Int /\ one.list.loadOrder[z] \in Int
  <2>1. \A z \in on : zero.list.priority[z] \in Nat /\ z \in Plugins /\ one.list.priority[z] \in Nat
    BY <1>8, <1>13, PriorityInNat
  <2>2. ASSUME NEW l, Counted(l), On(l) = on PROVE \A z \in on : l.loadOrder[z] \in Int
    BY <2>2, CountedFacts
  <2>3. QED
    BY <1>8, <1>13, <2>1, <2>2
<1>15. zero.list.priority[e] <= zero.list.priority[x]
  <2>1. ~(zero.list.loadOrder[x] < zero.list.loadOrder[e])
    BY <1>2, <1>8, <1>11, <1>12, <1>14
  <2>2. ~(zero.list.priority[x] < zero.list.priority[e])
    BY <1>8, <1>11, <2>1, CountedFacts
  <2>3. QED
    BY <1>11, <1>14, <2>2
<1>16. one.list.loadOrder[y] >= b
  <2>1. zero.list.priority[e] \in Int /\ y \in On(zero.list)
    BY <1>8, <1>11, <1>14
  <2>2. Rank(On(zero.list), one.list.priority, y) >= zero.list.loadOrder[y]
    BY <1>1, <1>8, <1>13, <1>15, <2>1, GoesUp
  <2>3. one.list.loadOrder[y] = Rank(On(zero.list), one.list.priority, y)
    BY <1>8, <1>11, <1>13, CountedFacts
  <2>4. zero.list.loadOrder[y] >= b
    BY <1>8
  <2>5. QED
    BY <1>2, <1>11, <1>14, <2>2, <2>3, <2>4
<1>17. one.list.priority[x] = one.place
  BY <1>13 DEF MovesTo
<1>18. \A d \in on : one.list.loadOrder[d] = b => one.list.priority[x] < one.list.priority[d]
  <2>1. TAKE d \in on
  <2>2. HAVE one.list.loadOrder[d] = b
  <2>3. one.list.loadOrder[x] < one.list.loadOrder[d]
    BY <1>2, <1>13, <2>2
  <2>4. QED
    BY <1>11, <1>13, <2>3, CountedFacts
<1>19. PICK d \in on : one.list.loadOrder[d] = b /\ LockSteps(one, two, y, d, b)
  <2>1. LockedTo(one.list, b) = y
    <3>1. \A z \in DOMAIN one.list.locked : one.list.locked[z] = b => z = y
      BY <1>2, <1>9
    <3>2. QED
      BY <1>1, <1>9, <3>1, LockedAlone
  <2>2. \A c \in On(one.list) : one.list.loadOrder[c] = b => one.place <= one.list.priority[c]
    BY <1>11, <1>13, <1>14, <1>17, <1>18
  <2>3. b \in Reachable(one.list, y) /\ y \in On(one.list)
    BY <1>11, <1>13
  <2>4. \E c \in On(one.list) : one.list.loadOrder[c] = b /\ LockSteps(one, ApplyLock(one, b), y, c, b)
    BY <1>9, <1>13, <2>1, <2>2, <2>3, LockTaken
  <2>5. QED
    BY <1>10, <1>13, <2>4
<1>20. /\ Counted(two.list) /\ MovesTo(one.list, two.list, y, one.list.priority[d])
       /\ two.list.loadOrder[y] = b /\ On(two.list) = on
  BY <1>13, <1>19 DEF LockSteps
<1>21. one.list.priority[d] <= one.list.priority[y]
  <2>1. ~(one.list.loadOrder[y] < one.list.loadOrder[d])
    BY <1>2, <1>11, <1>14, <1>16, <1>19
  <2>2. ~(one.list.priority[y] < one.list.priority[d])
    BY <1>11, <1>13, <2>1, CountedFacts
  <2>3. QED
    BY <1>11, <1>14, <2>2
<1>22. two.list.loadOrder[x] = a
  <2>1. one.list.priority[d] \in Int /\ x \in On(one.list) /\ one.list.priority[x] < one.list.priority[d]
    BY <1>11, <1>13, <1>14, <1>18, <1>19
  <2>2. Rank(On(one.list), two.list.priority, x) = one.list.loadOrder[x]
    BY <1>1, <1>13, <1>20, <1>21, <2>1, GoesUp
  <2>3. two.list.loadOrder[x] = Rank(On(two.list), two.list.priority, x)
    BY <1>11, <1>20, CountedFacts
  <2>4. QED
    BY <1>13, <1>20, <2>2, <2>3
<1>23. QED
  BY <1>10, <1>20, <1>22

\* refreshLoadOrder gives the plugins that are locked their load orders: one
\* plugin any that its kind can have, and two of them if none has to go behind
\* where it is.
THEOREM LocksKept ==
  ASSUME NEW list, InKinds(list), NEW x \in Free, NEW y \in Free,
         list.enabled[x], list.enabled[y], DOMAIN list.locked = {x, y},
         \A z \in {x, y} : list.locked[z] \in Reachable(list, z),
         \/ x = y
         \/ /\ list.locked[x] # list.locked[y]
            /\ \A z \in {x, y} : SyncLoadOrder(list).loadOrder[z] >= list.locked[z]
  PROVE  \A z \in {x, y} : RefreshLoadOrder(list).list.loadOrder[z] = list.locked[z]
<1>1. ListOk(list) /\ x \in Plugins /\ y \in Plugins
  BY DEF InKinds, Free
<1>2. list.locked[x] \in Int /\ list.locked[y] \in Int
  BY <1>1 DEF ListOk, OwnLocks
<1>3. x \in On(list) /\ y \in On(list)
  BY <1>1 DEF On
<1>4. CASE x = y
  <2>1. DOMAIN list.locked = {x} /\ list.locked[x] \in Reachable(list, x)
    BY <1>4
  <2>2. RefreshLoadOrder(list).list.loadOrder[x] = list.locked[x]
    BY <1>3, <2>1, OneLock
  <2>3. QED
    BY <1>4, <2>2
<1>5. CASE x # y
  <2>0. /\ list.locked[x] # list.locked[y]
        /\ SyncLoadOrder(list).loadOrder[x] >= list.locked[x]
        /\ SyncLoadOrder(list).loadOrder[y] >= list.locked[y]
        /\ list.locked[x] \in Reachable(list, x) /\ list.locked[y] \in Reachable(list, y)
    BY <1>5
  <2>1. CASE list.locked[x] < list.locked[y]
    BY <1>3, <1>5, <2>0, <2>1, TwoLocks
  <2>2. CASE list.locked[y] < list.locked[x]
    <3>1. DOMAIN list.locked = {y, x} /\ y # x
      BY <1>5
    <3>2. /\ RefreshLoadOrder(list).list.loadOrder[y] = list.locked[y]
          /\ RefreshLoadOrder(list).list.loadOrder[x] = list.locked[x]
      BY <1>3, <2>0, <2>2, <3>1, TwoLocks
    <3>3. QED
      BY <3>2
  <2>3. QED
    BY <1>2, <2>0, <2>1, <2>2
<1>6. QED
  BY <1>4, <1>5

\* The locks that are asked about, given to a list that has none.
LEMMA LocksGiven ==
  ASSUME NEW list, InKinds(list), SyncLoadOrder(list) = list, NEW x \in Free, NEW y \in Free,
         NEW forX \in Reachable(list, x), NEW forY \in Reachable(list, y),
         NEW locks, locks = [z \in {x, y} |-> IF z = y THEN forY ELSE forX],
         list.enabled[x], list.enabled[y],
         \/ x = y
         \/ /\ forX # forY
            /\ \A z \in {x, y} : list.loadOrder[z] >= locks[z]
  PROVE  \A z \in {x, y} :
           RefreshLoadOrder([list EXCEPT !.locked = locks]).list.loadOrder[z] = locks[z]
<1> DEFINE with == [list EXCEPT !.locked = locks]
<1>1. x \in Plugins /\ y \in Plugins /\ forX \in Int /\ forY \in Int
  <2>1. \A z : Reachable(list, z) \subseteq Int
    BY DEF Reachable
  <2>2. QED
    BY <2>1 DEF Free
<1>2. DOMAIN locks = {x, y} /\ OwnLocks(locks) /\ (x # y => locks[x] = forX) /\ locks[y] = forY
  BY <1>1 DEF OwnLocks
<1>3. /\ with = [rows |-> list.rows, enabled |-> list.enabled, priority |-> list.priority,
                 loadOrder |-> list.loadOrder, locked |-> locks]
  <2>1. ListIs(list)
    BY ListFacts DEF InKinds
  <2>2. QED
    BY <2>1 DEF ListIs
<1> HIDE DEF with
<1>4. /\ with.rows = list.rows /\ with.enabled = list.enabled /\ with.priority = list.priority
      /\ with.loadOrder = list.loadOrder /\ with.locked = locks
  BY <1>3
<1>5. Present(with) = Present(list) /\ Size(with) = Size(list)
  BY <1>4 DEF Present, Size
<1>6. InKinds(with)
  <2>1. ListOk(list) /\ KindsApart(list) /\ Present(list) = Plugins /\ list \in Lists
    BY DEF InKinds, ListOk, Arranged
  <2>2. locks \in Numbers
    BY <1>2 DEF OwnLocks, Numbers
  <2>3. with \in Lists
    BY <1>3, <2>1, <2>2 DEF Lists
  <2>4. Arranged(with)
    BY <1>4, <1>5, <2>1, <2>3 DEF Arranged, ListOk
  <2>5. ListOk(with)
    BY <1>2, <1>4, <1>5, <2>1, <2>4 DEF ListOk
  <2>6. KindsApart(with)
    BY <1>4, <1>5, <2>1 DEF KindsApart
  <2>7. QED
    BY <1>5, <2>1, <2>5, <2>6 DEF InKinds
<1>7. SyncLoadOrder(with).loadOrder = list.loadOrder
  <2> DEFINE Count(l, v) == Cardinality({w \in Present(l) : l.enabled[w] /\ l.priority[w] < l.priority[v]})
             Counts(l) == [v \in DOMAIN l.loadOrder |-> IF l.enabled[v] THEN Count(l, v) ELSE -1]
  <2>1. \A l : SyncLoadOrder(l) = [l EXCEPT !.loadOrder = Counts(l)]
    BY Zenon DEF SyncLoadOrder
  <2>2. Counts(with) = Counts(list)
    BY <1>4, <1>5, Zenon
  <2>3. ListIs(list) /\ ListIs(with)
    BY <1>6, ListFacts DEF InKinds
  <2> HIDE DEF Counts
  <2>4. SyncLoadOrder(with).loadOrder = Counts(with) /\ SyncLoadOrder(list).loadOrder = Counts(list)
    BY <2>1, <2>3 DEF ListIs
  <2>5. QED
    BY <2>2, <2>4
<1>8. \A z : Reachable(with, z) = Reachable(list, z)
  BY <1>4, ReachableCounted
<1>9. \A z \in {x, y} : with.locked[z] \in Reachable(with, z)
  BY <1>2, <1>4, <1>8
<1>10. \/ x = y
       \/ /\ with.locked[x] # with.locked[y]
          /\ \A z \in {x, y} : SyncLoadOrder(with).loadOrder[z] >= with.locked[z]
  BY <1>2, <1>4, <1>7
<1>11. \A z \in {x, y} : RefreshLoadOrder(with).list.loadOrder[z] = with.locked[z]
  <2>1. with.enabled[x] /\ with.enabled[y] /\ DOMAIN with.locked = {x, y}
    BY <1>2, <1>4
  <2>2. QED
    BY <1>6, <1>9, <1>10, <2>1, LocksKept
<1>12. QED
  BY <1>4, <1>11 DEF with

\* The locks of the lists that are asked about.
LEMMA AllLocked == Locking
<1>1. SUFFICES ASSUME NEW order \in Orders, NEW off \in Plugins, NEW x \in Free, NEW y \in Free
               PROVE  LET list == Listed(order, Plugins \ {off})
                      IN \A forX \in Reachable(list, x), forY \in Reachable(list, y) :
                           LET locks == [z \in {x, y} |-> IF z = y THEN forY ELSE forX]
                               after == RefreshLoadOrder([list EXCEPT !.locked = locks]).list
                           IN (/\ list.enabled[x] /\ list.enabled[y]
                               /\ \/ x = y
                                  \/ /\ forX # forY
                                     /\ \A z \in {x, y} : list.loadOrder[z] >= locks[z]) =>
                              \A z \in {x, y} : after.loadOrder[z] = locks[z]
  BY Zenon DEF Locking
<1> DEFINE list == Listed(order, Plugins \ {off})
           Locks(forX, forY) == [z \in {x, y} |-> IF z = y THEN forY ELSE forX]
           After(forX, forY) == RefreshLoadOrder([list EXCEPT !.locked = Locks(forX, forY)]).list
<1>2. InKinds(list) /\ SyncLoadOrder(list) = list
  <2>1. Plugins \ {off} \in SUBSET Plugins
    OBVIOUS
  <2>2. QED
    BY <2>1, ListedFacts
<1>3. ASSUME NEW forX \in Reachable(list, x), NEW forY \in Reachable(list, y),
             list.enabled[x], list.enabled[y],
             \/ x = y
             \/ /\ forX # forY
                /\ \A z \in {x, y} : list.loadOrder[z] >= Locks(forX, forY)[z]
      PROVE  \A z \in {x, y} : After(forX, forY).loadOrder[z] = Locks(forX, forY)[z]
  <2> DEFINE locks == Locks(forX, forY)
  <2>1. locks = [z \in {x, y} |-> IF z = y THEN forY ELSE forX]
    OBVIOUS
  <2>2. After(forX, forY) = RefreshLoadOrder([list EXCEPT !.locked = locks]).list
    OBVIOUS
  <2>3. x = y \/ (forX # forY /\ \A z \in {x, y} : list.loadOrder[z] >= locks[z])
    BY <1>3
  <2> HIDE DEF list, locks
  <2>4. \A z \in {x, y} :
          RefreshLoadOrder([list EXCEPT !.locked = locks]).list.loadOrder[z] = locks[z]
    BY <1>2, <1>3, <2>1, <2>3, LocksGiven
  <2>5. QED
    BY <2>2, <2>4, Zenon DEF locks
<1>4. QED
  BY <1>3, Zenon

\* The calls that move plugins do what the user means by them: a plugin stays with
\* its kind, plugins that are dropped come together in their order, plugins that
\* are shifted all move, and a plugin that is locked keeps its load order.
THEOREM PluginsMoved == Spec => []PluginsMoveAsAsked
<1>1. PluginsMoveAsAsked
  BY AllSentToNearest, AllDroppedKind, AllShiftedEach, AllLocked DEF PluginsMoveAsAsked, Reordering
<1>2. QED
  BY <1>1, PTL
=============================================================================
