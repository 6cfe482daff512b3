------------------------ MODULE DownloadManagerProofs ------------------------
(***************************************************************************)
(* Theorems about DownloadManager, for any number of links, downloads,     *)
(* pieces, retries, faults and ends of the program.                        *)
(***************************************************************************)
EXTENDS DownloadManager, SequenceTheorems, FiniteSetTheorems, WellFoundedInduction, TLAPS

-----------------------------------------------------------------------------
(* The list *)

Below(at, i) == {j \in at : j < i}

Rank(at, i) == Cardinality(Below(at, i))

\* Counting what is smaller than an element of a set of n naturals gives each
\* number below n once.
LEMMA RanksAreNumbers ==
  ASSUME NEW at \in SUBSET Nat, IsFiniteSet(at)
  PROVE  /\ Cardinality(at) \in Nat
         /\ \A k \in 1..Cardinality(at) : \E i \in at : Rank(at, i) = k - 1
         /\ \A i \in at : Rank(at, i) \in 0..(Cardinality(at) - 1)
         /\ \A i, j \in at : Rank(at, i) = Rank(at, j) => i = j
<1> DEFINE n == Cardinality(at)
           rank == [i \in at |-> Rank(at, i)]
<1>1. n \in Nat
  BY FS_CardinalityType
<1>2. ASSUME NEW i \in at
      PROVE  /\ IsFiniteSet(Below(at, i)) /\ Rank(at, i) \in Nat
             /\ Rank(at, i) < n
  <2>1. Below(at, i) \in SUBSET at /\ i \notin Below(at, i)
    BY DEF Below
  <2>2. /\ IsFiniteSet(Below(at, i)) /\ Cardinality(Below(at, i)) <= n
        /\ Cardinality(Below(at, i)) # n
    BY <2>1, FS_Subset
  <2>3. Cardinality(Below(at, i)) \in Nat
    BY <2>2, FS_CardinalityType
  <2>4. QED
    BY <1>1, <2>2, <2>3 DEF Rank
<1>3. ASSUME NEW i \in at, NEW j \in at, i < j
      PROVE  Rank(at, i) < Rank(at, j)
  <2>1. \A x \in at : x \in Nat
    OBVIOUS
  <2>2. \A x \in Below(at, i) : x \in Below(at, j)
    BY <1>3, <2>1 DEF Below
  <2>3. Below(at, i) # Below(at, j)
    BY <1>3, <2>1 DEF Below
  <2>4. Rank(at, i) \in Nat /\ Rank(at, j) \in Nat /\ IsFiniteSet(Below(at, j))
    BY <1>2
  <2>5. Rank(at, i) <= Rank(at, j) /\ Rank(at, i) # Rank(at, j)
    BY <2>2, <2>3, <2>4, FS_Subset DEF Rank
  <2>6. QED
    BY <2>4, <2>5
<1>4. \A i \in at : Rank(at, i) \in 0..(n - 1)
  BY <1>1, <1>2
<1>5. \A i, j \in at : Rank(at, i) = Rank(at, j) => i = j
  <2>1. SUFFICES ASSUME NEW i \in at, NEW j \in at, i # j
                 PROVE  Rank(at, i) # Rank(at, j)
    OBVIOUS
  <2>2. CASE i < j
    BY <2>2, <1>2, <1>3
  <2>3. CASE j < i
    BY <2>3, <1>2, <1>3
  <2>4. QED
    BY <2>1, <2>2, <2>3
<1>6. rank \in Injection(at, 0..(n - 1))
  BY <1>4, <1>5 DEF Injection, IsInjective
<1>7. IsFiniteSet(0..(n - 1)) /\ Cardinality(0..(n - 1)) = Cardinality(at)
  <2> HIDE DEF n
  <2>1. n - 1 \in Int
    BY <1>1
  <2>2. IsFiniteSet(0..(n - 1)) /\ Cardinality(0..(n - 1)) = n
    BY <1>1, <2>1, FS_Interval
  <2>3. QED
    BY <2>2 DEF n
<1>8. \A i \in at : rank[i] = Rank(at, i)
  OBVIOUS
<1> HIDE DEF rank, n
<1>9. rank \in Surjection(at, 0..(n - 1))
  BY <1>6, <1>7, FS_Injection
<1>10. \A k \in 1..n : \E i \in at : rank[i] = k - 1
  BY <1>1, <1>9 DEF Surjection
<1>11. QED
  BY <1>1, <1>4, <1>5, <1>8, <1>10 DEF n

\* Among keeps a list without duplicates one, and of its elements those asked for.
LEMMA AmongKeeps ==
  ASSUME NEW S, NEW s \in Seq(S), IsInjective(s), NEW K
  PROVE  /\ Among(s, K) \in Seq(S)
         /\ IsInjective(Among(s, K))
         /\ Range(Among(s, K)) = Range(s) \cap K
<1> DEFINE at == {i \in DOMAIN s : s[i] \in K}
           pick(k) == CHOOSE i \in at : Rank(at, i) = k - 1
           n == Cardinality(at)
<1>1. at \in SUBSET Nat /\ IsFiniteSet(at)
  <2>1. IsFiniteSet(1..Len(s))
    BY FS_Interval
  <2>2. at \in SUBSET (1..Len(s))
    OBVIOUS
  <2> HIDE DEF at
  <2>3. \A i \in 1..Len(s) : i \in Nat
    OBVIOUS
  <2>4. QED
    BY <2>1, <2>2, <2>3, FS_Subset
<1>5. Among(s, K) = [k \in 1..n |-> s[pick(k)]]
  BY Zenon DEF Among, Rank, Below
<1>6. at \subseteq DOMAIN s /\ \A i \in at : s[i] \in S \cap K
  BY s \in [1..Len(s) -> S]
<1>7. \A i \in DOMAIN s : s[i] \in K => i \in at
  OBVIOUS
<1> HIDE DEF at
<1>2. /\ n \in Nat
      /\ \A k \in 1..n : \E i \in at : Rank(at, i) = k - 1
      /\ \A i \in at : Rank(at, i) \in 0..(n - 1)
      /\ \A i, j \in at : Rank(at, i) = Rank(at, j) => i = j
  BY <1>1, RanksAreNumbers
<1>3. \A k \in 1..n : pick(k) \in at /\ Rank(at, pick(k)) = k - 1
  BY <1>2
<1> HIDE DEF pick, n
<1>4. \A i \in at : \E k \in 1..n : pick(k) = i
  <2>1. SUFFICES ASSUME NEW i \in at PROVE \E k \in 1..n : pick(k) = i
    OBVIOUS
  <2> DEFINE k == Rank(at, i) + 1
  <2>2. k \in 1..n /\ Rank(at, i) = k - 1
    BY <1>2
  <2>3. pick(k) \in at /\ Rank(at, pick(k)) = Rank(at, i)
    BY <1>3, <2>2
  <2>4. pick(k) = i
    BY <1>2, <2>3
  <2>5. QED
    BY <2>2, <2>4
<1>8. Among(s, K) \in [1..n -> S]
  BY <1>3, <1>5, <1>6
<1>9. Among(s, K) \in Seq(S)
  BY <1>2, <1>8
<1>10. IsInjective(Among(s, K))
  <2>1. SUFFICES ASSUME NEW k \in 1..n, NEW l \in 1..n, s[pick(k)] = s[pick(l)]
                 PROVE  k = l
    BY <1>5 DEF IsInjective
  <2>2. pick(k) = pick(l)
    BY <1>3, <1>6, <2>1 DEF IsInjective
  <2>3. k - 1 = l - 1
    BY <1>3, <2>2
  <2>4. QED
    BY <1>2, <2>3
<1>11. Range(Among(s, K)) = Range(s) \cap K
  <2>1. ASSUME NEW k \in 1..n PROVE s[pick(k)] \in Range(s) \cap K
    BY <1>3, <1>6 DEF Range
  <2>2. ASSUME NEW x \in Range(s) \cap K PROVE \E k \in 1..n : s[pick(k)] = x
    <3>1. PICK i \in DOMAIN s : s[i] = x
      BY DEF Range
    <3>2. i \in at
      BY <1>7, <3>1
    <3>3. QED
      BY <1>4, <3>1, <3>2
  <2>3. QED
    BY <1>5, <2>1, <2>2 DEF Range
<1>12. QED
  BY <1>9, <1>10, <1>11

-----------------------------------------------------------------------------
(* The invariant, of a state of the list *)

IsWorld(w) ==
  /\ DOMAIN w = {"list", "info", "parts", "finals", "requests"}
  /\ w.list \in Seq(Ids) /\ IsInjective(w.list) /\ Range(w.list) = DOMAIN w.info
  /\ \A d \in DOMAIN w.info : w.info[d] \in Info
  /\ \A n \in DOMAIN w.parts : w.parts[n] \in Written
  /\ \A n \in DOMAIN w.finals : w.finals[n] \in Written
  /\ DOMAIN w.parts \subseteq Names /\ DOMAIN w.finals \subseteq Names
  /\ w.requests \subseteq Requests

\* The file of a row is there, unless it was deleted with another row.
HasFile(w, i) ==
  IF i.unfinished THEN i.name \in DOMAIN w.parts
  ELSE i.name \in DOMAIN w.finals \/ i.bereft

\* A row that waits for an answer has been asked for.
Waits(w, d, i) ==
  /\ i.state = "FETCHINGMODINFO" => [kind |-> "description", of |-> d] \in w.requests
  /\ i.state = "FETCHINGFILEINFO" => [kind |-> "files", of |-> d] \in w.requests

\* Two rows do not stand for one file.
Apart(i, j) ==
  i.name = j.name /\ i.unfinished = j.unfinished => ~i.unfinished /\ (i.bereft \/ j.bereft)

WorldInv(w) ==
  /\ IsWorld(w)
  /\ \A d \in DOMAIN w.info : HasFile(w, w.info[d]) /\ Waits(w, d, w.info[d])
  /\ \A d, e \in DOMAIN w.info : d # e => Apart(w.info[d], w.info[e])
  /\ \A n, m \in DOMAIN w.parts : n.link = m.link => n = m

\* From w to v nothing happens but to the row d: others may only become bereft,
\* no part appears, and only the description of d is asked for.
OnlyRow(w, v, d) ==
  /\ DOMAIN w.info \ {d} \subseteq DOMAIN v.info /\ DOMAIN v.info \subseteq DOMAIN w.info
  /\ \A e \in DOMAIN w.info \ {d} : /\ v.info[e].state = w.info[e].state
                                    /\ v.info[e].wired = w.info[e].wired
                                    /\ v.info[e].unfinished = w.info[e].unfinished
  /\ DOMAIN v.parts \subseteq DOMAIN w.parts
  /\ w.requests \subseteq v.requests
  /\ v.requests \subseteq w.requests \cup {[kind |-> "description", of |-> d]}

LEMMA OnlyRowTwice ==
  ASSUME NEW u, NEW v, NEW w, NEW d, OnlyRow(u, v, d), OnlyRow(v, w, d)
  PROVE  OnlyRow(u, w, d)
BY DEF OnlyRow

LEMMA RowsAreIds ==
  ASSUME NEW w, IsWorld(w)
  PROVE  DOMAIN w.info \subseteq Ids
BY DEF IsWorld, Range

-----------------------------------------------------------------------------
(* The steps the slots are made of *)

\* A row whose file stays the same changes.
LEMMA RowChanges ==
  ASSUME NEW w, WorldInv(w), NEW d \in DOMAIN w.info, NEW i \in Info,
         i.name = w.info[d].name, i.unfinished = w.info[d].unfinished,
         i.bereft = w.info[d].bereft, Waits(w, d, i)
  PROVE  LET v == [w EXCEPT !.info[d] = i]
         IN  /\ WorldInv(v) /\ OnlyRow(w, v, d)
             /\ DOMAIN v.info = DOMAIN w.info /\ v.info[d] = i
             /\ \A e \in DOMAIN w.info \ {d} : v.info[e] = w.info[e]
             /\ v.list = w.list /\ v.parts = w.parts /\ v.finals = w.finals
             /\ v.requests = w.requests
<1> DEFINE v == [w EXCEPT !.info[d] = i]
<1>1. /\ DOMAIN v = DOMAIN w
      /\ DOMAIN v.info = DOMAIN w.info /\ v.info[d] = i
      /\ \A e \in DOMAIN w.info \ {d} : v.info[e] = w.info[e]
      /\ v.list = w.list /\ v.parts = w.parts /\ v.finals = w.finals
      /\ v.requests = w.requests
  BY DEF WorldInv, IsWorld
<1> HIDE DEF v
<1>2. IsWorld(v)
  BY <1>1 DEF WorldInv, IsWorld
<1>3. \A e \in DOMAIN v.info : HasFile(v, v.info[e]) /\ Waits(v, e, v.info[e])
  BY <1>1 DEF WorldInv, HasFile, Waits
<1>4. \A e, f \in DOMAIN v.info : e # f => Apart(v.info[e], v.info[f])
  BY <1>1 DEF WorldInv, Apart
<1>5. WorldInv(v) /\ OnlyRow(w, v, d)
  BY <1>1, <1>2, <1>3, <1>4 DEF WorldInv, OnlyRow
<1>6. QED
  BY <1>1, <1>5 DEF v

LEMMA DataIsWritten ==
  ASSUME NEW w, WorldInv(w), NEW d \in DOMAIN w.info
  PROVE  Data(w, d) \in Written
<1>1. Nothing \in Written
  BY DownloadAssumption DEF Nothing, Written
<1>2. QED
  BY <1>1 DEF Data, WorldInv, IsWorld

\* Something is written to the file of a row.
LEMMA PutKeeps ==
  ASSUME NEW w, WorldInv(w), NEW d \in DOMAIN w.info, NEW data \in Written
  PROVE  LET v == Put(w, d, data)
         IN  /\ WorldInv(v) /\ OnlyRow(w, v, d)
             /\ v.info = w.info /\ v.list = w.list /\ v.requests = w.requests
             /\ DOMAIN v.parts = DOMAIN w.parts
             /\ DOMAIN w.finals \subseteq DOMAIN v.finals
<1> DEFINE v == Put(w, d, data)
           n == w.info[d].name
<1>1. /\ DOMAIN v = DOMAIN w
      /\ v.info = w.info /\ v.list = w.list /\ v.requests = w.requests
      /\ w.info[d].unfinished => v.parts = More(w.parts, n, data) /\ v.finals = w.finals
      /\ ~w.info[d].unfinished => v.finals = More(w.finals, n, data) /\ v.parts = w.parts
  BY DEF WorldInv, IsWorld, Put
<1>2. n \in Names /\ w.info[d].unfinished \in BOOLEAN
  BY DEF WorldInv, IsWorld, Info
<1>3. w.info[d].unfinished => n \in DOMAIN w.parts
  BY DEF WorldInv, HasFile
<1> HIDE DEF v, n
<1>4. /\ DOMAIN v.parts = DOMAIN w.parts /\ \A m \in DOMAIN v.parts : v.parts[m] \in Written
      /\ DOMAIN w.finals \subseteq DOMAIN v.finals /\ DOMAIN v.finals \subseteq Names
      /\ \A m \in DOMAIN v.finals : v.finals[m] \in Written
  BY <1>1, <1>2, <1>3 DEF WorldInv, IsWorld, More
<1>5. IsWorld(v)
  BY <1>1, <1>4 DEF WorldInv, IsWorld
<1>6. \A e \in DOMAIN v.info : HasFile(v, v.info[e]) /\ Waits(v, e, v.info[e])
  BY <1>1, <1>4 DEF WorldInv, HasFile, Waits
<1>7. WorldInv(v) /\ OnlyRow(w, v, d)
  BY <1>1, <1>4, <1>5, <1>6 DEF WorldInv, OnlyRow
<1>8. QED
  BY <1>1, <1>4, <1>7 DEF v

\* Rows are forgotten.
LEMMA OnlyKeeps ==
  ASSUME NEW w, IsWorld(w), NEW K \in SUBSET DOMAIN w.info
  PROVE  LET v == Only(w, K)
         IN  /\ IsWorld(v)
             /\ DOMAIN v.info = K /\ \A e \in K : v.info[e] = w.info[e]
             /\ v.list = Among(w.list, K)
             /\ v.parts = w.parts /\ v.finals = w.finals /\ v.requests = w.requests
<1> DEFINE v == Only(w, K)
<1>1. /\ DOMAIN v = DOMAIN w
      /\ DOMAIN v.info = K /\ \A e \in K : v.info[e] = w.info[e]
      /\ v.list = Among(w.list, K)
      /\ v.parts = w.parts /\ v.finals = w.finals /\ v.requests = w.requests
  BY DEF IsWorld, Only, Restrict
<1>2. /\ Among(w.list, K) \in Seq(Ids) /\ IsInjective(Among(w.list, K))
      /\ Range(Among(w.list, K)) = K
  <2>1. w.list \in Seq(Ids) /\ IsInjective(w.list) /\ Range(w.list) \cap K = K
    BY DEF IsWorld
  <2>2. QED
    BY <2>1, AmongKeeps
<1> HIDE DEF v
<1>3. IsWorld(v)
  BY <1>1, <1>2 DEF IsWorld
<1>4. QED
  BY <1>1, <1>3 DEF v

LEMMA ForgetKeeps ==
  ASSUME NEW w, WorldInv(w), NEW K \in SUBSET DOMAIN w.info
  PROVE  WorldInv(Only(w, K))
<1> DEFINE v == Only(w, K)
<1>1. /\ IsWorld(v)
      /\ DOMAIN v.info = K /\ \A e \in K : v.info[e] = w.info[e]
      /\ v.parts = w.parts /\ v.finals = w.finals /\ v.requests = w.requests
  BY OnlyKeeps DEF WorldInv
<1> HIDE DEF v
<1>2. \A e \in DOMAIN v.info : HasFile(v, v.info[e]) /\ Waits(v, e, v.info[e])
  BY <1>1 DEF WorldInv, HasFile, Waits
<1>3. WorldInv(v)
  BY <1>1, <1>2 DEF WorldInv
<1>4. QED
  BY <1>3 DEF v

\* A final file is deleted.
LEMMA RemoveFinalKeeps ==
  ASSUME NEW w, WorldInv(w), NEW n
  PROVE  LET v == RemoveFinal(w, n)
         IN  /\ WorldInv(v)
             /\ DOMAIN v.info = DOMAIN w.info
             /\ \A e \in DOMAIN w.info : v.info[e] = Robbed(w.info[e], n)
             /\ v.list = w.list /\ v.parts = w.parts /\ v.requests = w.requests
             /\ v.finals = Less(w.finals, n)
             /\ \A d : OnlyRow(w, v, d)
<1> DEFINE v == RemoveFinal(w, n)
<1>1. /\ DOMAIN v = DOMAIN w
      /\ DOMAIN v.info = DOMAIN w.info
      /\ \A e \in DOMAIN w.info : v.info[e] = Robbed(w.info[e], n)
      /\ v.list = w.list /\ v.parts = w.parts /\ v.requests = w.requests
      /\ v.finals = Less(w.finals, n)
  BY DEF WorldInv, IsWorld, RemoveFinal
<1> HIDE DEF v
<1>2. \A e \in DOMAIN w.info :
        /\ v.info[e] \in Info
        /\ v.info[e].name = w.info[e].name /\ v.info[e].unfinished = w.info[e].unfinished
        /\ v.info[e].state = w.info[e].state /\ v.info[e].wired = w.info[e].wired
        /\ w.info[e].bereft => v.info[e].bereft
        /\ w.info[e].name = n /\ ~w.info[e].unfinished => v.info[e].bereft
  <2>1. SUFFICES ASSUME NEW i \in Info
                 PROVE  LET j == Robbed(i, n)
                        IN  /\ j \in Info
                            /\ j.name = i.name /\ j.unfinished = i.unfinished
                            /\ j.state = i.state /\ j.wired = i.wired
                            /\ i.bereft => j.bereft
                            /\ i.name = n /\ ~i.unfinished => j.bereft
    BY <1>1 DEF WorldInv, IsWorld
  <2>2. i.bereft \in BOOLEAN /\ (i.bereft \/ (i.name = n /\ ~i.unfinished)) \in BOOLEAN
    BY DEF Info
  <2>3. QED
    BY <2>2 DEF Info, Robbed
<1>3. /\ DOMAIN v.finals = DOMAIN w.finals \ {n}
      /\ \A m \in DOMAIN v.finals : v.finals[m] = w.finals[m]
  BY <1>1 DEF Less, Restrict
<1>4. IsWorld(v)
  BY <1>1, <1>2, <1>3 DEF WorldInv, IsWorld
<1>5. \A e \in DOMAIN v.info : HasFile(v, v.info[e]) /\ Waits(v, e, v.info[e])
  BY <1>1, <1>2, <1>3 DEF WorldInv, HasFile, Waits
<1>6. \A e, f \in DOMAIN v.info : e # f => Apart(v.info[e], v.info[f])
  BY <1>1, <1>2 DEF WorldInv, Apart
<1>7. WorldInv(v) /\ \A d : OnlyRow(w, v, d)
  BY <1>1, <1>2, <1>4, <1>5, <1>6 DEF WorldInv, OnlyRow
<1>8. QED
  BY <1>1, <1>7 DEF v

-----------------------------------------------------------------------------
(* The slots of a transfer *)

\* A row is given a state in which it waits for nothing.
LEMMA StateSet ==
  ASSUME NEW w, WorldInv(w), NEW d \in DOMAIN w.info,
         NEW s \in States \ {"FETCHINGMODINFO", "FETCHINGFILEINFO"}
  PROVE  LET i == [w.info[d] EXCEPT !.state = s]
             v == [w EXCEPT !.info[d].state = s]
         IN  /\ v = [w EXCEPT !.info[d] = i]
             /\ i \in Info
             /\ WorldInv(v) /\ OnlyRow(w, v, d)
             /\ DOMAIN v.info = DOMAIN w.info /\ v.info[d] = i
             /\ v.parts = w.parts /\ v.finals = w.finals /\ v.requests = w.requests
<1> DEFINE i == [w.info[d] EXCEPT !.state = s]
           v == [w EXCEPT !.info[d].state = s]
<1>1. v = [w EXCEPT !.info[d] = i]
  BY DEF WorldInv, IsWorld
<1>2. w.info[d] \in Info
  BY DEF WorldInv, IsWorld
<1>3. /\ i \in Info /\ i.name = w.info[d].name /\ i.unfinished = w.info[d].unfinished
      /\ i.bereft = w.info[d].bereft /\ i.state = s
  BY <1>2 DEF Info
<1>4. Waits(w, d, i)
  BY <1>3 DEF Waits
<1> HIDE DEF i
<1>5. /\ WorldInv([w EXCEPT !.info[d] = i]) /\ OnlyRow(w, [w EXCEPT !.info[d] = i], d)
      /\ DOMAIN [w EXCEPT !.info[d] = i].info = DOMAIN w.info
      /\ [w EXCEPT !.info[d] = i].info[d] = i
      /\ [w EXCEPT !.info[d] = i].parts = w.parts
      /\ [w EXCEPT !.info[d] = i].finals = w.finals
      /\ [w EXCEPT !.info[d] = i].requests = w.requests
  BY <1>3, <1>4, RowChanges
<1> HIDE DEF v
<1>6. QED
  BY <1>1, <1>3, <1>5 DEF i, v

\* What else the slots change in a row.
Same(i, j) ==
  /\ i \in Info /\ i.name = j.name /\ i.unfinished = j.unfinished
  /\ i.bereft = j.bereft /\ i.state = j.state

LEMMA RowStays ==
  ASSUME NEW w, WorldInv(w), NEW d \in DOMAIN w.info, NEW i, Same(i, w.info[d])
  PROVE  LET v == [w EXCEPT !.info[d] = i]
         IN  /\ WorldInv(v) /\ OnlyRow(w, v, d)
             /\ DOMAIN v.info = DOMAIN w.info /\ v.info[d] = i
             /\ v.parts = w.parts /\ v.finals = w.finals /\ v.requests = w.requests
<1>1. Waits(w, d, w.info[d])
  BY DEF WorldInv
<1>2. Waits(w, d, i)
  BY <1>1 DEF Waits, Same
<1>3. QED
  BY <1>2, RowChanges DEF Same

\* The output of a row is deleted and the row forgotten.
LEMMA OutputForgotten ==
  ASSUME NEW w, WorldInv(w), NEW d \in DOMAIN w.info
  PROVE  LET v == Forget(RemoveOutput(w, d), d)
         IN  /\ WorldInv(v) /\ OnlyRow(w, v, d) /\ DOMAIN v.info = DOMAIN w.info \ {d}
<1> DEFINE n == w.info[d].name
           u == RemoveOutput(w, d)
           K == DOMAIN w.info \ {d}
           v == Only(u, K)
<1>1. CASE w.info[d].unfinished
  <2>1. /\ DOMAIN u = DOMAIN w /\ u.info = w.info /\ u.list = w.list
        /\ u.finals = w.finals /\ u.requests = w.requests
        /\ DOMAIN u.parts = DOMAIN w.parts \ {n}
        /\ \A m \in DOMAIN u.parts : u.parts[m] = w.parts[m]
    BY <1>1 DEF WorldInv, IsWorld, RemoveOutput, Less, Restrict
  <2>2. IsWorld(u)
    BY <2>1 DEF WorldInv, IsWorld
  <2> HIDE DEF u, n
  <2>3. /\ IsWorld(v) /\ DOMAIN v.info = K /\ \A e \in K : v.info[e] = w.info[e]
        /\ v.parts = u.parts /\ v.finals = w.finals /\ v.requests = w.requests
    BY <2>1, <2>2, OnlyKeeps
  <2> HIDE DEF v
  <2>4. \A e \in K : ~(w.info[e].unfinished /\ w.info[e].name = n)
    BY <1>1 DEF WorldInv, Apart, n
  <2>5. \A e \in DOMAIN v.info : HasFile(v, v.info[e]) /\ Waits(v, e, v.info[e])
    BY <2>1, <2>3, <2>4 DEF WorldInv, HasFile, Waits
  <2>6. WorldInv(v)
    BY <2>1, <2>3, <2>5 DEF WorldInv
  <2>7. OnlyRow(w, v, d)
    BY <2>1, <2>3 DEF OnlyRow
  <2>8. QED
    BY <2>1, <2>3, <2>6, <2>7 DEF Forget, u, v
<1>2. CASE ~w.info[d].unfinished
  <2>1. u = RemoveFinal(w, n)
    BY <1>2 DEF RemoveOutput
  <2>2. WorldInv(u) /\ OnlyRow(w, u, d) /\ DOMAIN u.info = DOMAIN w.info
    BY <2>1, RemoveFinalKeeps
  <2> HIDE DEF u
  <2>3. WorldInv(v)
    BY <2>2, ForgetKeeps
  <2>4. /\ DOMAIN v.info = K /\ \A e \in K : v.info[e] = u.info[e]
        /\ v.parts = u.parts /\ v.requests = u.requests
    BY <2>2, OnlyKeeps DEF WorldInv
  <2> HIDE DEF v
  <2>5. OnlyRow(u, v, d)
    BY <2>2, <2>4 DEF OnlyRow
  <2>6. QED
    BY <2>2, <2>3, <2>4, <2>5, OnlyRowTwice DEF Forget, u, v
<1>3. QED
  BY <1>1, <1>2

\* A file gets its final name.
LEMMA FinalizeKeeps ==
  ASSUME NEW w, WorldInv(w), NEW d \in DOMAIN w.info
  PROVE  LET v == Finalize(w, d)
         IN  WorldInv(v) /\ OnlyRow(w, v, d)
<1> DEFINE n == w.info[d].name
           i == [w.info[d] EXCEPT !.unfinished = FALSE]
           v == Finalize(w, d)
<1>1. CASE w.info[d].unfinished /\ n \in DOMAIN w.parts /\ n \notin DOMAIN w.finals
  <2>1. /\ DOMAIN v = DOMAIN w /\ v.list = w.list /\ v.requests = w.requests
        /\ DOMAIN v.info = DOMAIN w.info /\ v.info[d] = i
        /\ \A e \in DOMAIN w.info \ {d} : v.info[e] = w.info[e]
        /\ v.parts = Less(w.parts, n) /\ v.finals = More(w.finals, n, w.parts[n])
    BY <1>1 DEF WorldInv, IsWorld, Finalize
  <2>2. /\ i \in Info /\ i.name = n /\ ~i.unfinished /\ i.state = w.info[d].state
        /\ i.bereft = w.info[d].bereft /\ n \in Names
    BY DEF WorldInv, IsWorld, Info
  <2> HIDE DEF v, i
  <2>3. /\ DOMAIN v.parts = DOMAIN w.parts \ {n}
        /\ \A m \in DOMAIN v.parts : v.parts[m] = w.parts[m]
        /\ DOMAIN v.finals = DOMAIN w.finals \cup {n}
        /\ \A m \in DOMAIN v.finals :
             v.finals[m] = IF m = n THEN w.parts[n] ELSE w.finals[m]
    BY <2>1 DEF Less, Restrict, More
  <2>4. \A m \in DOMAIN v.finals : v.finals[m] \in Written
    BY <1>1, <2>3 DEF WorldInv, IsWorld
  <2>5. IsWorld(v)
    BY <2>1, <2>2, <2>3, <2>4 DEF WorldInv, IsWorld
  <2>6. \A e \in DOMAIN w.info \ {d} : ~(w.info[e].unfinished /\ w.info[e].name = n)
    BY <1>1 DEF WorldInv, Apart
  <2>7. \A e \in DOMAIN w.info \ {d} :
          ~w.info[e].unfinished /\ w.info[e].name = n => w.info[e].bereft
    BY <1>1 DEF WorldInv, HasFile
  <2> HIDE DEF n
  <2>8. \A e \in DOMAIN v.info : HasFile(v, v.info[e])
    BY <2>1, <2>2, <2>3, <2>6 DEF WorldInv, HasFile
  <2>9. \A e \in DOMAIN v.info : Waits(v, e, v.info[e])
    BY <2>1, <2>2 DEF WorldInv, Waits
  <2>10. \A e, f \in DOMAIN v.info : e # f => Apart(v.info[e], v.info[f])
    BY <2>1, <2>2, <2>7 DEF WorldInv, Apart
  <2>11. WorldInv(v)
    BY <2>3, <2>5, <2>8, <2>9, <2>10 DEF WorldInv
  <2>12. OnlyRow(w, v, d)
    BY <2>1, <2>3 DEF OnlyRow
  <2>13. QED
    BY <2>11, <2>12 DEF v
<1>2. CASE ~(w.info[d].unfinished /\ n \in DOMAIN w.parts /\ n \notin DOMAIN w.finals)
  <2>1. v = w
    BY <1>2 DEF Finalize
  <2>2. QED
    BY <2>1 DEF OnlyRow
<1>3. QED
  BY <1>1, <1>2

LEMMA AskKeeps ==
  ASSUME NEW w, WorldInv(w), NEW d \in Ids, NEW kind \in {"description", "files"}
  PROVE  LET v == Ask(w, d, kind)
         IN  /\ WorldInv(v)
             /\ v.info = w.info /\ v.parts = w.parts /\ v.finals = w.finals
             /\ v.requests = w.requests \cup {[kind |-> kind, of |-> d]}
<1> DEFINE v == Ask(w, d, kind)
<1>1. /\ DOMAIN v = DOMAIN w /\ v.list = w.list
      /\ v.info = w.info /\ v.parts = w.parts /\ v.finals = w.finals
      /\ v.requests = w.requests \cup {[kind |-> kind, of |-> d]}
  BY DEF WorldInv, IsWorld, Ask
<1>2. [kind |-> kind, of |-> d] \in Requests
  BY DEF Requests
<1> HIDE DEF v
<1>3. IsWorld(v)
  BY <1>1, <1>2 DEF WorldInv, IsWorld
<1>4. \A e \in DOMAIN v.info : HasFile(v, v.info[e]) /\ Waits(v, e, v.info[e])
  BY <1>1 DEF WorldInv, HasFile, Waits
<1>5. WorldInv(v)
  BY <1>1, <1>3, <1>4 DEF WorldInv
<1>6. QED
  BY <1>1, <1>5 DEF v

\* A reply is started and appended to the file.
LEMMA StartReplyKeeps ==
  ASSUME NEW w, WorldInv(w), NEW d \in DOMAIN w.info, NEW position \in Nat \ {0}
  PROVE  LET v == StartReply(w, d, position)
         IN  WorldInv(v) /\ OnlyRow(w, v, d)
<1> DEFINE i == [w.info[d] EXCEPT !.state = "DOWNLOADING",
                                  !.reply = "running",
                                  !.position = IF position > Size THEN Size + 2 ELSE position,
                                  !.open = TRUE,
                                  !.wired = TRUE,
                                  !.awaited = FALSE]
           u == [w EXCEPT !.info[d] = i]
<1>2. w.info[d] \in Info
  BY DEF WorldInv, IsWorld
<1>3. (IF position > Size THEN Size + 2 ELSE position) \in 1..Size + 2
  BY DownloadAssumption
<1>4. /\ i \in Info /\ i.name = w.info[d].name /\ i.unfinished = w.info[d].unfinished
      /\ i.bereft = w.info[d].bereft /\ i.state = "DOWNLOADING"
  BY <1>2, <1>3 DEF Info, States
<1>5. Waits(w, d, i)
  BY <1>4 DEF Waits
<1>6. StartReply(w, d, position) = Put(u, d, Data(w, d))
  BY DEF StartReply
<1> HIDE DEF i
<1>7. WorldInv(u) /\ OnlyRow(w, u, d) /\ DOMAIN u.info = DOMAIN w.info
  BY <1>4, <1>5, RowChanges
<1>8. Data(w, d) \in Written
  BY DataIsWritten
<1> HIDE DEF u
<1>9. WorldInv(Put(u, d, Data(w, d))) /\ OnlyRow(u, Put(u, d, Data(w, d)), d)
  BY <1>7, <1>8, PutKeeps
<1>10. QED
  BY <1>6, <1>7, <1>9, OnlyRowTwice

LEMMA RetryKeeps ==
  ASSUME NEW w, WorldInv(w), NEW d \in DOMAIN w.info, ~GiveUp(w, d)
  PROVE  WorldInv(Retry(w, d)) /\ OnlyRow(w, Retry(w, d), d)
<1> DEFINE i == [w.info[d] EXCEPT !.tries = @ - 1]
           u == [w EXCEPT !.info[d] = i]
<1>1. u = [w EXCEPT !.info[d].tries = @ - 1]
  BY DEF WorldInv, IsWorld
<1>2. w.info[d] \in Info
  BY DEF WorldInv, IsWorld
<1>3. w.info[d].tries - 1 \in 0..Retries
  BY <1>2, DownloadAssumption DEF Info, GiveUp
<1>4. Same(i, w.info[d])
  BY <1>2, <1>3 DEF Info, Same
<1> HIDE DEF i
<1>5. WorldInv(u) /\ OnlyRow(w, u, d) /\ DOMAIN u.info = DOMAIN w.info
  BY <1>4, RowStays
<1>6. Retry(w, d) = StartReply(u, d, 1)
  BY <1>1 DEF Retry
<1> HIDE DEF u
<1>7. WorldInv(StartReply(u, d, 1)) /\ OnlyRow(u, StartReply(u, d, 1), d)
  BY <1>5, StartReplyKeeps
<1>8. QED
  BY <1>5, <1>6, <1>7, OnlyRowTwice

\* What downloadFinished begins with.
Closed(w, d) ==
  [w EXCEPT !.info[d] = [w.info[d] EXCEPT !.open = FALSE, !.reply = "none",
                                          !.position = 1, !.wired = FALSE]]

LEMMA ClosedKeeps ==
  ASSUME NEW w, WorldInv(w), NEW d \in DOMAIN w.info
  PROVE  LET v == Closed(w, d)
         IN  /\ WorldInv(v) /\ OnlyRow(w, v, d)
             /\ DOMAIN v.info = DOMAIN w.info
             /\ v.info[d].state = w.info[d].state /\ v.info[d].tries = w.info[d].tries
             /\ v.info[d].name = w.info[d].name /\ v.info[d].unfinished = w.info[d].unfinished
<1> DEFINE i == [w.info[d] EXCEPT !.open = FALSE, !.reply = "none",
                                  !.position = 1, !.wired = FALSE]
           v == [w EXCEPT !.info[d] = i]
<1>1. Closed(w, d) = v
  BY DEF Closed
<1>2. w.info[d] \in Info /\ 1 \in 1..Size + 2
  BY DownloadAssumption DEF WorldInv, IsWorld
<1>3. Same(i, w.info[d]) /\ i.tries = w.info[d].tries
  BY <1>2 DEF Info, Same
<1> HIDE DEF i
<1>4. WorldInv(v) /\ OnlyRow(w, v, d) /\ DOMAIN v.info = DOMAIN w.info /\ v.info[d] = i
  BY <1>3, RowStays
<1> HIDE DEF v
<1>5. QED
  BY <1>1, <1>3, <1>4 DEF Same

\* downloadFinished
LEMMA FinishedKeeps ==
  ASSUME NEW w, WorldInv(w), NEW d \in DOMAIN w.info
  PROVE  WorldInv(Finished(w, d)) /\ OnlyRow(w, Finished(w, d), d)
<1> DEFINE c == Closed(w, d)
           f == Finished(w, d)
<1>1. /\ WorldInv(c) /\ OnlyRow(w, c, d) /\ DOMAIN c.info = DOMAIN w.info
      /\ c.info[d].state = w.info[d].state /\ c.info[d].tries = w.info[d].tries
  BY ClosedKeeps
<1>2. CASE Failed(w, d) /\ GiveUp(w, d)
  <2>1. f = Forget(RemoveOutput(c, d), d)
    BY <1>2 DEF Finished, Closed
  <2> HIDE DEF c, f
  <2>2. QED
    BY <1>1, <2>1, OutputForgotten, OnlyRowTwice DEF f
<1>3. CASE Failed(w, d) /\ ~GiveUp(w, d)
  <2>1. f = Retry(c, d)
    BY <1>3 DEF Finished, Closed
  <2>2. ~GiveUp(c, d)
    BY <1>1, <1>3 DEF GiveUp
  <2> HIDE DEF c, f
  <2>3. QED
    BY <1>1, <2>1, <2>2, RetryKeeps, OnlyRowTwice DEF f
<1>4. CASE ~Failed(w, d) /\ w.info[d].state \in {"CANCELING", "CANCELED"}
  <2>1. f = Forget(RemoveOutput(c, d), d)
    BY <1>4 DEF Finished, Closed
  <2> HIDE DEF c, f
  <2>2. QED
    BY <1>1, <2>1, OutputForgotten, OnlyRowTwice DEF f
<1>5. CASE ~Failed(w, d) /\ w.info[d].state \in {"PAUSING", "PAUSED"}
  <2>1. f = [c EXCEPT !.info[d].state = "PAUSED"]
    BY <1>5 DEF Finished, Closed
  <2>2. "PAUSED" \in States \ {"FETCHINGMODINFO", "FETCHINGFILEINFO"}
    BY DEF States
  <2> HIDE DEF c, f
  <2>3. WorldInv(f) /\ OnlyRow(c, f, d)
    BY <1>1, <2>1, <2>2, StateSet
  <2>4. QED
    BY <1>1, <2>3, OnlyRowTwice DEF f
<1>6. CASE /\ ~Failed(w, d)
           /\ w.info[d].state \notin {"CANCELING", "CANCELED", "PAUSING", "PAUSED"}
  <2> DEFINE a == Ask(c, d, "description")
             i == [a.info[d] EXCEPT !.state = "FETCHINGMODINFO"]
             v == [a EXCEPT !.info[d] = i]
  <2>1. f = Finalize(Ask([c EXCEPT !.info[d].state = "FETCHINGMODINFO"], d, "description"), d)
    BY <1>6 DEF Finished, Closed
  <2>2. Ask([c EXCEPT !.info[d].state = "FETCHINGMODINFO"], d, "description") = v
    <3> HIDE DEF c
    <3>1. QED
      BY <1>1 DEF Ask, WorldInv, IsWorld
  <2> HIDE DEF c, f
  <2>3. d \in Ids
    BY RowsAreIds DEF WorldInv
  <2>4. /\ WorldInv(a) /\ a.info = c.info /\ a.parts = c.parts
        /\ a.requests = c.requests \cup {[kind |-> "description", of |-> d]}
    BY <1>1, <2>3, AskKeeps
  <2>5. OnlyRow(c, a, d)
    BY <2>4 DEF OnlyRow
  <2> HIDE DEF a
  <2>6. a.info[d] \in Info
    BY <1>1, <2>4 DEF WorldInv, IsWorld
  <2>7. /\ i \in Info /\ i.name = a.info[d].name /\ i.unfinished = a.info[d].unfinished
        /\ i.bereft = a.info[d].bereft /\ i.state = "FETCHINGMODINFO"
    BY <2>6 DEF Info, States
  <2>8. Waits(a, d, i)
    BY <2>4, <2>7 DEF Waits
  <2> HIDE DEF i
  <2>9. WorldInv(v) /\ OnlyRow(a, v, d) /\ DOMAIN v.info = DOMAIN a.info
    BY <1>1, <2>4, <2>7, <2>8, RowChanges
  <2>10. f = Finalize(v, d)
    BY <2>1, <2>2
  <2> HIDE DEF v
  <2>11. WorldInv(f) /\ OnlyRow(v, f, d)
    BY <1>1, <2>4, <2>9, <2>10, FinalizeKeeps
  <2>12. QED
    BY <1>1, <2>5, <2>9, <2>11, OnlyRowTwice DEF f
<1>7. QED
  BY <1>2, <1>3, <1>4, <1>5, <1>6

\* A download a question is open about: startDownload has not connected it, so that no
\* end of its transfer is noticed.
HeldRow(i) == i.state \in {"PAUSING", "PAUSED", "CANCELED"} /\ ~i.wired /\ i.unfinished

StillHeld(w, v, d) ==
  HeldRow(w.info[d]) =>
    d \in DOMAIN v.info /\ HeldRow(v.info[d]) /\ v.requests = w.requests

\* QNetworkReply::abort: what is not connected keeps its state.
LEMMA AbortKeeps ==
  ASSUME NEW w, WorldInv(w), NEW d \in DOMAIN w.info
  PROVE  LET v == Abort(w, d)
         IN  /\ WorldInv(v) /\ OnlyRow(w, v, d)
             /\ HeldRow(w.info[d]) => /\ d \in DOMAIN v.info /\ HeldRow(v.info[d])
                                      /\ v.requests = w.requests
<1> DEFINE i == [w.info[d] EXCEPT !.reply = "aborted"]
           u == [w EXCEPT !.info[d] = i]
<1>1. u = [w EXCEPT !.info[d].reply = "aborted"]
  BY DEF WorldInv, IsWorld
<1>2. w.info[d] \in Info
  BY DEF WorldInv, IsWorld
<1>3. Same(i, w.info[d]) /\ i.wired = w.info[d].wired
  BY <1>2 DEF Info, Same
<1>4. Abort(w, d) = IF w.info[d].reply # "running" THEN w
                    ELSE IF w.info[d].wired THEN Finished(u, d) ELSE u
  BY <1>1 DEF Abort
<1> HIDE DEF i
<1>5. /\ WorldInv(u) /\ OnlyRow(w, u, d) /\ DOMAIN u.info = DOMAIN w.info
      /\ u.info[d] = i /\ u.requests = w.requests
  BY <1>3, RowStays
<1> HIDE DEF u
<1>6. WorldInv(Finished(u, d)) /\ OnlyRow(w, Finished(u, d), d)
  BY <1>5, FinishedKeeps, OnlyRowTwice
<1>7. HeldRow(w.info[d]) => HeldRow(u.info[d]) /\ ~w.info[d].wired
  BY <1>3, <1>5 DEF HeldRow, Same
<1>8. WorldInv(w) /\ OnlyRow(w, w, d)
  BY DEF OnlyRow
<1>9. QED
  BY <1>4, <1>5, <1>6, <1>7, <1>8

LEMMA CancelKeeps ==
  ASSUME NEW w, WorldInv(w), NEW d \in DOMAIN w.info
  PROVE  LET v == Cancel(w, d)
         IN  WorldInv(v) /\ OnlyRow(w, v, d) /\ StillHeld(w, v, d)
<1> DEFINE u == [w EXCEPT !.info[d].state = "CANCELED"]
<1>1. "CANCELED" \in States \ {"FETCHINGMODINFO", "FETCHINGFILEINFO"}
  BY DEF States
<1>2. /\ WorldInv(u) /\ OnlyRow(w, u, d) /\ DOMAIN u.info = DOMAIN w.info
      /\ u.info[d] = [w.info[d] EXCEPT !.state = "CANCELED"] /\ u.requests = w.requests
  BY <1>1, StateSet
<1>3. w.info[d] \in Info
  BY DEF WorldInv, IsWorld
<1>4. HeldRow(w.info[d]) => HeldRow(u.info[d])
  BY <1>2, <1>3 DEF HeldRow, Info
<1>5. Cancel(w, d) = Abort(u, d)
  BY DEF Cancel
<1> HIDE DEF u
<1>6. /\ WorldInv(Abort(u, d)) /\ OnlyRow(u, Abort(u, d), d)
      /\ HeldRow(u.info[d]) => /\ d \in DOMAIN Abort(u, d).info /\ HeldRow(Abort(u, d).info[d])
                               /\ Abort(u, d).requests = u.requests
  BY <1>2, AbortKeeps
<1>7. QED
  BY <1>2, <1>4, <1>5, <1>6, OnlyRowTwice DEF StillHeld

LEMMA CloseKeeps ==
  ASSUME NEW w, WorldInv(w), NEW d \in DOMAIN w.info
  PROVE  LET v == [w EXCEPT !.info[d].open = FALSE]
         IN  WorldInv(v) /\ OnlyRow(w, v, d) /\ StillHeld(w, v, d)
<1> DEFINE i == [w.info[d] EXCEPT !.open = FALSE]
           v == [w EXCEPT !.info[d] = i]
<1>1. [w EXCEPT !.info[d].open = FALSE] = v
  BY DEF WorldInv, IsWorld
<1>2. w.info[d] \in Info
  BY DEF WorldInv, IsWorld
<1>3. Same(i, w.info[d]) /\ i.wired = w.info[d].wired
  BY <1>2 DEF Info, Same
<1> HIDE DEF i
<1>4. /\ WorldInv(v) /\ OnlyRow(w, v, d) /\ DOMAIN v.info = DOMAIN w.info /\ v.info[d] = i
      /\ v.requests = w.requests
  BY <1>3, RowStays
<1> HIDE DEF v
<1>5. StillHeld(w, v, d)
  BY <1>3, <1>4 DEF StillHeld, HeldRow, Same
<1>6. QED
  BY <1>1, <1>4, <1>5

LEMMA PauseKeeps ==
  ASSUME NEW w, WorldInv(w), NEW d \in DOMAIN w.info
  PROVE  LET v == Pause(w, d)
         IN  WorldInv(v) /\ OnlyRow(w, v, d) /\ StillHeld(w, v, d)
<1> DEFINE u == [w EXCEPT !.info[d].state = "PAUSED"]
           a == Abort(u, d)
<1>1. "PAUSED" \in States \ {"FETCHINGMODINFO", "FETCHINGFILEINFO"}
  BY DEF States
<1>2. /\ WorldInv(u) /\ OnlyRow(w, u, d) /\ DOMAIN u.info = DOMAIN w.info
      /\ u.info[d] = [w.info[d] EXCEPT !.state = "PAUSED"] /\ u.requests = w.requests
  BY <1>1, StateSet
<1>3. w.info[d] \in Info
  BY DEF WorldInv, IsWorld
<1>4. HeldRow(w.info[d]) => HeldRow(u.info[d])
  BY <1>2, <1>3 DEF HeldRow, Info
<1>5. Pause(w, d) = IF d \in DOMAIN a.info THEN [a EXCEPT !.info[d].open = FALSE] ELSE a
  BY DEF Pause
<1> HIDE DEF u
<1>6. /\ WorldInv(a) /\ OnlyRow(w, a, d)
      /\ HeldRow(w.info[d]) => /\ d \in DOMAIN a.info /\ HeldRow(a.info[d])
                               /\ a.requests = w.requests
  BY <1>2, <1>4, AbortKeeps, OnlyRowTwice
<1> HIDE DEF a
<1>7. CASE d \in DOMAIN a.info
  <2> DEFINE v == [a EXCEPT !.info[d].open = FALSE]
  <2>1. WorldInv(a)
    BY <1>6
  <2>2. WorldInv(v) /\ OnlyRow(a, v, d) /\ StillHeld(a, v, d)
    BY <1>7, <2>1, CloseKeeps
  <2>3. Pause(w, d) = v
    BY <1>5, <1>7
  <2> HIDE DEF v
  <2>4. QED
    BY <1>6, <2>2, <2>3, OnlyRowTwice DEF StillHeld
<1>8. CASE d \notin DOMAIN a.info
  BY <1>5, <1>6, <1>8 DEF StillHeld
<1>9. QED
  BY <1>7, <1>8

LEMMA ProgressKeeps ==
  ASSUME NEW w, WorldInv(w), NEW d \in DOMAIN w.info
  PROVE  LET v == Progress(w, d)
         IN  WorldInv(v) /\ OnlyRow(w, v, d) /\ StillHeld(w, v, d)
<1>1. Progress(w, d) \in {Cancel(w, d), Pause(w, d), w}
  BY DEF Progress
<1>2. OnlyRow(w, w, d) /\ StillHeld(w, w, d)
  BY DEF OnlyRow, StillHeld
<1>3. QED
  BY <1>1, <1>2, CancelKeeps, PauseKeeps

LEMMA FinishedAtKeeps ==
  ASSUME NEW w, WorldInv(w), NEW d \in DOMAIN w.info
  PROVE  WorldInv(FinishedAt(w, d)) /\ OnlyRow(w, FinishedAt(w, d), d)
<1>1. FinishedAt(w, d) \in {w, Finished(w, d), Cancel(w, d), Pause(w, d)}
  BY DEF FinishedAt
<1>2. OnlyRow(w, w, d)
  BY DEF OnlyRow
<1>3. QED
  BY <1>1, <1>2, FinishedKeeps, CancelKeeps, PauseKeeps

LEMMA ResumedKeeps ==
  ASSUME NEW w, WorldInv(w), NEW d \in DOMAIN w.info
  PROVE  WorldInv(Resumed(w, d)) /\ OnlyRow(w, Resumed(w, d), d)
<1> DEFINE p == IF w.info[d].state = "PAUSING" /\ w.info[d].open THEN Pause(w, d) ELSE w
<1>1. WorldInv(p) /\ OnlyRow(w, p, d)
  BY PauseKeeps DEF OnlyRow
<1>2. Resumed(w, d) = IF d \in DOMAIN p.info THEN StartReply(p, d, Data(p, d).length + 1) ELSE p
  BY DEF Resumed
<1> HIDE DEF p
<1>3. CASE d \in DOMAIN p.info
  <2> DEFINE position == Data(p, d).length + 1
  <2>1. position \in Nat \ {0}
    BY <1>1, <1>3, DataIsWritten, DownloadAssumption DEF Written
  <2> HIDE DEF position
  <2>2. WorldInv(StartReply(p, d, position)) /\ OnlyRow(p, StartReply(p, d, position), d)
    BY <1>1, <1>3, <2>1, StartReplyKeeps
  <2>3. QED
    BY <1>1, <1>2, <1>3, <2>2, OnlyRowTwice DEF position
<1>4. QED
  BY <1>1, <1>2, <1>3

LEMMA FinishedAgainKeeps ==
  ASSUME NEW w, WorldInv(w), NEW d \in DOMAIN w.info
  PROVE  LET v == FinishedAt([w EXCEPT !.info[d].state = "DOWNLOADING"], d)
         IN  WorldInv(v) /\ OnlyRow(w, v, d)
<1> DEFINE u == [w EXCEPT !.info[d].state = "DOWNLOADING"]
<1>1. "DOWNLOADING" \in States \ {"FETCHINGMODINFO", "FETCHINGFILEINFO"}
  BY DEF States
<1>2. /\ WorldInv(u) /\ OnlyRow(w, u, d) /\ DOMAIN u.info = DOMAIN w.info
      /\ u.info[d] = [w.info[d] EXCEPT !.state = "DOWNLOADING"]
  BY <1>1, StateSet
<1> HIDE DEF u
<1>3. WorldInv(FinishedAt(u, d)) /\ OnlyRow(u, FinishedAt(u, d), d)
  BY <1>2, FinishedAtKeeps
<1>4. QED
  BY <1>2, <1>3, OnlyRowTwice DEF u

\* resumeDownload
LEMMA ResumeOfKeeps ==
  ASSUME NEW w, WorldInv(w), NEW d \in DOMAIN w.info
  PROVE  WorldInv(ResumeOf(w, d)) /\ OnlyRow(w, ResumeOf(w, d), d)
<1> DEFINE i == [w.info[d] EXCEPT !.tries = Retries]
           v == [w EXCEPT !.info[d] = i]
           f == FinishedAt([v EXCEPT !.info[d].state = "DOWNLOADING"], d)
<1>1. v = [w EXCEPT !.info[d].tries = Retries]
  BY DEF WorldInv, IsWorld
<1>2. w.info[d] \in Info /\ Retries \in 0..Retries
  BY DownloadAssumption DEF WorldInv, IsWorld
<1>3. Same(i, w.info[d])
  BY <1>2 DEF Info, Same
<1> HIDE DEF i
<1>4. WorldInv(v) /\ OnlyRow(w, v, d) /\ DOMAIN v.info = DOMAIN w.info
  BY <1>3, RowStays
<1>5. ResumeOf(w, d) \in {f, Resumed(v, d), v}
  BY <1>1 DEF ResumeOf
<1> HIDE DEF v
<1>6. WorldInv(v) /\ d \in DOMAIN v.info
  BY <1>4
<1>7. WorldInv(f) /\ OnlyRow(v, f, d)
  BY <1>6, FinishedAgainKeeps
<1>8. WorldInv(Resumed(v, d)) /\ OnlyRow(v, Resumed(v, d), d)
  BY <1>6, ResumedKeeps
<1> HIDE DEF f
<1>9. QED
  BY <1>4, <1>5, <1>7, <1>8, OnlyRowTwice

-----------------------------------------------------------------------------
(* refreshList *)

LEMMA PairsAreFinite ==
  ASSUME NEW S, NEW P, NEW Q, IsFiniteSet(P), IsFiniteSet(Q),
         NEW f \in [S -> P \X Q], IsInjective(f)
  PROVE  IsFiniteSet(S)
<1>1. IsFiniteSet(P \X Q)
  BY FS_Product
<1>2. f \in Injection(S, P \X Q)
  BY DEF Injection
<1>3. QED
  BY <1>1, <1>2, FS_Injection

\* There are finitely many names a file in the directory can have.
LEMMA FilesAreFinite == IsFiniteSet([name : Names, unfinished : BOOLEAN])
<1>1. IsFiniteSet(Links) /\ IsFiniteSet(0..Copies)
  BY DownloadAssumption, FS_Interval
<1>2. IsFiniteSet(Names)
  <2> DEFINE f == [n \in Names |-> <<n.link, n.copy>>]
  <2>1. f \in [Names -> Links \X (0..Copies)] /\ IsInjective(f)
    BY DEF Names, IsInjective
  <2> HIDE DEF f
  <2>2. QED
    BY <1>1, <2>1, PairsAreFinite
<1>3. IsFiniteSet(BOOLEAN)
  <2>1. IsFiniteSet({TRUE}) /\ IsFiniteSet({FALSE})
    BY FS_Singleton
  <2>2. IsFiniteSet({TRUE} \cup {FALSE})
    BY <2>1, FS_Union
  <2>3. BOOLEAN = {TRUE} \cup {FALSE}
    OBVIOUS
  <2>4. QED
    BY <2>2, <2>3
<1>4. QED
  <2> DEFINE F == [name : Names, unfinished : BOOLEAN]
             f == [n \in F |-> <<n.name, n.unfinished>>]
  <2>1. f \in [F -> Names \X BOOLEAN] /\ IsInjective(f)
    BY DEF IsInjective
  <2> HIDE DEF f
  <2>2. QED
    BY <1>2, <1>3, <2>1, PairsAreFinite

LEMMA SetToSeqLists ==
  ASSUME NEW S, IsFiniteSet(S)
  PROVE  SetToSeq(S) \in Seq(S) /\ IsInjective(SetToSeq(S)) /\ Range(SetToSeq(S)) = S
<1> DEFINE n == Cardinality(S)
<1>1. n \in Nat /\ ExistsBijection(1..n, S)
  BY FS_CardinalityType
<1>2. PICK f : f \in Bijection(1..n, S)
  BY <1>1 DEF ExistsBijection
<1>3. f \in [1..n -> S] /\ IsInjective(f)
  BY <1>2 DEF Bijection, Injection
<1>4. SetToSeq(S) \in [1..n -> S] /\ IsInjective(SetToSeq(S))
  BY <1>3 DEF SetToSeq
<1>5. IsFiniteSet(1..n) /\ Cardinality(1..n) = n
  <2> HIDE DEF n
  <2>1. QED
    BY <1>1, FS_Interval
<1>6. SetToSeq(S) \in Injection(1..n, S)
  BY <1>4 DEF Injection
<1> HIDE DEF n
<1>7. SetToSeq(S) \in Surjection(1..n, S)
  BY <1>5, <1>6, FS_Injection DEF n
<1>8. Range(SetToSeq(S)) = S
  BY <1>4, <1>7 DEF Range, Surjection
<1>9. QED
  BY <1>1, <1>4, <1>8

LEMMA FromMetaIsInfo ==
  ASSUME NEW f \in [name : Names, unfinished : BOOLEAN]
  PROVE  /\ FromMeta(f) \in Info
         /\ FromMeta(f).name = f.name /\ FromMeta(f).unfinished = f.unfinished
         /\ FromMeta(f).state = IF f.unfinished THEN "PAUSED" ELSE "READY"
         /\ FromMeta(f).bereft = FALSE /\ FromMeta(f).reply = "none"
<1>1. 1 \in 1..Size + 2 /\ 0 \in 0..Retries
  BY DownloadAssumption
<1>2. f.name \in Names /\ f.unfinished \in BOOLEAN
  OBVIOUS
<1>3. (IF f.unfinished THEN "PAUSED" ELSE "READY") \in States
  BY DEF States
<1>4. QED
  BY <1>1, <1>2, <1>3 DEF FromMeta, Info

LEMMA OnDiskAreFiles ==
  ASSUME NEW w, IsWorld(w)
  PROVE  OnDisk(w) \subseteq [name : Names, unfinished : BOOLEAN]
BY DEF IsWorld, OnDisk

\* The rows that refreshList keeps.
NotReady(w) == {d \in DOMAIN w.info : w.info[d].state # "READY"}

\* Numbering the files that are found.
LEMMA FoundAreNumbered ==
  ASSUME NEW w, NEW kept, NEW found \in SUBSET OnDisk(w), EnoughIds(w),
         DOMAIN kept.info \subseteq DOMAIN w.info, kept.requests = w.requests,
         NEW id, id = CHOOSE g \in [found -> Fresh(kept)] : IsInjective(g)
  PROVE  id \in [found -> Fresh(kept)] /\ IsInjective(id)
<1>1. PICK g \in [OnDisk(w) -> Fresh(w)] : IsInjective(g)
  BY DEF EnoughIds
<1>2. Fresh(w) \subseteq Fresh(kept)
  BY DEF Fresh
<1> DEFINE h == [f \in found |-> g[f]]
<1>3. h \in [found -> Fresh(kept)] /\ IsInjective(h)
  BY <1>1, <1>2 DEF IsInjective
<1> HIDE DEF h
<1>4. QED
  BY <1>3

LEMMA ListsJoin ==
  ASSUME NEW S, NEW s \in Seq(S), NEW t \in Seq(S), IsInjective(s), IsInjective(t),
         Range(s) \cap Range(t) = {}
  PROVE  s \o t \in Seq(S) /\ IsInjective(s \o t) /\ Range(s \o t) = Range(s) \cup Range(t)
<1> DEFINE u == s \o t
<1>1. /\ u \in Seq(S) /\ Len(s) \in Nat /\ Len(t) \in Nat /\ DOMAIN u = 1..Len(s) + Len(t)
      /\ DOMAIN s = 1..Len(s) /\ DOMAIN t = 1..Len(t)
      /\ \A i \in 1..Len(s) + Len(t) : u[i] = IF i <= Len(s) THEN s[i] ELSE t[i - Len(s)]
  OBVIOUS
<1> HIDE DEF u
<1>2. /\ \A i \in DOMAIN u : i <= Len(s) => i \in DOMAIN s /\ u[i] = s[i]
      /\ \A i \in DOMAIN u : ~(i <= Len(s)) => i - Len(s) \in DOMAIN t /\ u[i] = t[i - Len(s)]
  BY <1>1
<1>3. \A i \in DOMAIN s, j \in DOMAIN t : s[i] # t[j]
  BY DEF Range
<1>4. IsInjective(u)
  <2>1. SUFFICES ASSUME NEW i \in DOMAIN u, NEW j \in DOMAIN u, u[i] = u[j] PROVE i = j
    BY DEF IsInjective
  <2>2. CASE i <= Len(s) /\ j <= Len(s)
    BY <1>2, <2>1, <2>2 DEF IsInjective
  <2>3. CASE ~(i <= Len(s)) /\ ~(j <= Len(s))
    <3>1. i - Len(s) = j - Len(s)
      BY <1>2, <2>1, <2>3 DEF IsInjective
    <3>2. QED
      BY <1>1, <3>1
  <2>4. QED
    BY <1>2, <1>3, <2>1, <2>2, <2>3
<1>5. \A i \in DOMAIN s : i \in DOMAIN u /\ u[i] = s[i]
  BY <1>1
<1>6. \A j \in DOMAIN t : j + Len(s) \in DOMAIN u /\ u[j + Len(s)] = t[j]
  BY <1>1
<1>7. Range(u) = Range(s) \cup Range(t)
  BY <1>2, <1>5, <1>6 DEF Range
<1>8. QED
  BY <1>1, <1>4, <1>7 DEF u

LEMMA RefreshedKeeps ==
  ASSUME NEW w, WorldInv(w), EnoughIds(w)
  PROVE  LET v == Refreshed(w)
         IN  /\ WorldInv(v)
             /\ v.parts = w.parts /\ v.finals = w.finals /\ v.requests = w.requests
             /\ NotReady(w) \subseteq DOMAIN v.info
             /\ \A e \in NotReady(w) : v.info[e] = w.info[e]
             /\ \A e \in DOMAIN v.info \ NotReady(w) :
                  /\ e \in Ids /\ \A r \in w.requests : r.of # e
                  /\ \E f \in OnDisk(w) : v.info[e] = FromMeta(f)
<1> DEFINE kept  == Only(w, NotReady(w))
           found == Unseen(kept)
           order == SetToSeq(found)
           id    == CHOOSE g \in [found -> Fresh(kept)] : IsInjective(g)
           new   == {id[f] : f \in found}
           v     == Refreshed(w)
           file(d) == CHOOSE f \in found : id[f] = d
           front == [k \in DOMAIN order |-> id[order[k]]]
<1>1. /\ DOMAIN v = DOMAIN kept
      /\ v.list = front \o kept.list
      /\ v.parts = kept.parts /\ v.finals = kept.finals /\ v.requests = kept.requests
      /\ DOMAIN v.info = new \cup DOMAIN kept.info
      /\ \A d \in DOMAIN v.info :
           v.info[d] = IF d \in new THEN FromMeta(file(d)) ELSE kept.info[d]
  <2>1. DOMAIN kept = {"list", "info", "parts", "finals", "requests"}
    BY DEF WorldInv, IsWorld, Only
  <2> HIDE DEF kept
  <2>2. v = [kept EXCEPT !.list = front \o kept.list,
                         !.info = [d \in new \cup DOMAIN kept.info |->
                                     IF d \in new THEN FromMeta(file(d)) ELSE kept.info[d]]]
    BY DEF Refreshed, kept, NotReady
  <2> HIDE DEF front, new, file, v
  <2>3. QED
    BY <2>1, <2>2
<1> HIDE DEF v
<1>2. /\ WorldInv(kept) /\ DOMAIN kept.info = NotReady(w)
      /\ \A e \in NotReady(w) : kept.info[e] = w.info[e]
      /\ kept.parts = w.parts /\ kept.finals = w.finals /\ kept.requests = w.requests
  <2>1. IsWorld(w) /\ NotReady(w) \in SUBSET DOMAIN w.info
    BY DEF WorldInv, NotReady
  <2>2. QED
    BY <2>1, ForgetKeeps, OnlyKeeps
<1> HIDE DEF kept
<1>3. /\ found \subseteq OnDisk(w)
      /\ \A f \in found, d \in DOMAIN kept.info :
           kept.info[d].name # f.name \/ (f.unfinished /\ ~kept.info[d].unfinished)
  BY <1>2 DEF Unseen, OnDisk
<1>4. found \subseteq [name : Names, unfinished : BOOLEAN] /\ IsFiniteSet(found)
  BY <1>3, OnDiskAreFiles, FilesAreFinite, FS_Subset DEF WorldInv
<1>5. order \in Seq(found) /\ IsInjective(order) /\ Range(order) = found
  BY <1>4, SetToSeqLists
<1>6. id \in [found -> Fresh(kept)] /\ IsInjective(id)
  <2>1. DOMAIN kept.info \subseteq DOMAIN w.info
    BY <1>2 DEF NotReady
  <2>2. QED
    BY <1>2, <1>3, <2>1, FoundAreNumbered
<1> HIDE DEF found, order, id
<1>7. \A f \in found : id[f] \in Ids /\ id[f] \notin DOMAIN kept.info
                       /\ \A r \in w.requests : r.of # id[f]
  BY <1>2, <1>6 DEF Fresh
<1>8. \A d \in new : file(d) \in found /\ id[file(d)] = d
  OBVIOUS
<1>9. \A d \in new : d \in Ids /\ d \notin DOMAIN kept.info /\ \A r \in w.requests : r.of # d
  BY <1>7
<1>10. front \in Seq(Ids) /\ IsInjective(front) /\ Range(front) = new
  <2>1. /\ Len(order) \in Nat /\ DOMAIN order = 1..Len(order)
        /\ \A k \in DOMAIN order : order[k] \in found
    BY <1>5
  <2>2. \A k \in DOMAIN order : id[order[k]] \in Ids
    BY <1>7, <2>1
  <2>3. front \in Seq(Ids)
    BY <2>1, <2>2
  <2>4. IsInjective(front)
    BY <1>5, <1>6, <2>1 DEF IsInjective
  <2>5. \A f \in found : \E k \in DOMAIN order : order[k] = f
    BY <1>5 DEF Range
  <2>6. Range(front) = new
    BY <2>1, <2>5 DEF Range
  <2>7. QED
    BY <2>3, <2>4, <2>6
<1> HIDE DEF front, file
<1>11. /\ v.list \in Seq(Ids) /\ IsInjective(v.list)
       /\ Range(v.list) = new \cup DOMAIN kept.info
  <2>1. kept.list \in Seq(Ids) /\ IsInjective(kept.list) /\ Range(kept.list) = DOMAIN kept.info
    BY <1>2 DEF WorldInv, IsWorld
  <2>2. Range(front) \cap Range(kept.list) = {}
    BY <1>9, <1>10, <2>1
  <2> HIDE DEF new
  <2>3. QED
    BY <1>1, <1>10, <2>1, <2>2, ListsJoin
<1>12. \A d \in new : /\ v.info[d] \in Info
                      /\ v.info[d].name = file(d).name
                      /\ v.info[d].unfinished = file(d).unfinished
                      /\ v.info[d].state \in {"PAUSED", "READY"}
  <2>1. SUFFICES ASSUME NEW d \in new
                 PROVE  /\ v.info[d] \in Info
                        /\ v.info[d].name = file(d).name
                        /\ v.info[d].unfinished = file(d).unfinished
                        /\ v.info[d].state \in {"PAUSED", "READY"}
    OBVIOUS
  <2> DEFINE g == file(d)
  <2>2. v.info[d] = FromMeta(g) /\ g \in [name : Names, unfinished : BOOLEAN]
    BY <1>1, <1>4, <1>8
  <2> HIDE DEF g, file
  <2>3. /\ v.info[d] \in Info
        /\ v.info[d].name = g.name
        /\ v.info[d].unfinished = g.unfinished
        /\ v.info[d].state = IF g.unfinished THEN "PAUSED" ELSE "READY"
    BY <2>2, FromMetaIsInfo
  <2>4. QED
    BY <2>3 DEF g
<1>13. \A d \in DOMAIN kept.info : v.info[d] = w.info[d] /\ w.info[d] = kept.info[d]
  BY <1>1, <1>2, <1>9
<1> HIDE DEF new
<1>14. IsWorld(v)
  BY <1>1, <1>2, <1>11, <1>12, <1>13 DEF WorldInv, IsWorld
<1>15. \A d \in DOMAIN v.info : HasFile(v, v.info[d]) /\ Waits(v, d, v.info[d])
  <2>1. ASSUME NEW d \in new PROVE HasFile(v, v.info[d]) /\ Waits(v, d, v.info[d])
    <3>1. file(d) \in OnDisk(w)
      BY <1>3, <1>8
    <3>2. IF file(d).unfinished THEN file(d).name \in DOMAIN w.parts
          ELSE file(d).name \in DOMAIN w.finals
      BY <3>1 DEF OnDisk
    <3>3. QED
      BY <1>1, <1>2, <1>12, <3>2 DEF HasFile, Waits
  <2>2. ASSUME NEW d \in DOMAIN kept.info PROVE HasFile(v, v.info[d]) /\ Waits(v, d, v.info[d])
    BY <1>1, <1>2, <1>13 DEF WorldInv, HasFile, Waits
  <2>3. QED
    BY <1>1, <2>1, <2>2
<1>16. \A d, e \in DOMAIN v.info : d # e => Apart(v.info[d], v.info[e])
  <2>1. ASSUME NEW d \in new, NEW e \in new, d # e PROVE Apart(v.info[d], v.info[e])
    <3>1. file(d) # file(e)
      BY <1>8, <2>1
    <3>2. ~(file(d).name = file(e).name /\ file(d).unfinished = file(e).unfinished)
      BY <1>4, <1>8, <3>1
    <3>3. QED
      BY <1>12, <3>2 DEF Apart
  <2>2. ASSUME NEW d \in new, NEW e \in DOMAIN kept.info
        PROVE  Apart(v.info[d], v.info[e]) /\ Apart(v.info[e], v.info[d])
    <3>1. kept.info[e].name # file(d).name \/ (file(d).unfinished /\ ~kept.info[e].unfinished)
      BY <1>3, <1>8
    <3>2. QED
      BY <1>12, <1>13, <3>1 DEF Apart
  <2>3. ASSUME NEW d \in DOMAIN kept.info, NEW e \in DOMAIN kept.info, d # e
        PROVE  Apart(v.info[d], v.info[e])
    BY <1>2, <1>13, <2>3 DEF WorldInv
  <2>4. QED
    BY <1>1, <2>1, <2>2, <2>3
<1>17. WorldInv(v)
  BY <1>1, <1>2, <1>14, <1>15, <1>16 DEF WorldInv
<1>18. \A e \in DOMAIN v.info \ NotReady(w) :
         /\ e \in Ids /\ \A r \in w.requests : r.of # e
         /\ \E f \in OnDisk(w) : v.info[e] = FromMeta(f)
  BY <1>1, <1>2, <1>3, <1>8, <1>9
<1>19. QED
  BY <1>1, <1>2, <1>13, <1>17, <1>18 DEF v

-----------------------------------------------------------------------------
(* Rows that go, come and change their name *)

\* removeFile and the entry's end in removeDownload
LEMMA RemovalKeeps ==
  ASSUME NEW w, WorldInv(w), NEW d \in DOMAIN w.info
  PROVE  LET v == Forget(RemoveFile(w, d), d)
         IN  /\ WorldInv(v) /\ OnlyRow(w, v, d) /\ DOMAIN v.info = DOMAIN w.info \ {d}
<1>1. CASE w.info[d].state = "PAUSED"
  <2>1. RemoveFile(w, d) = RemoveOutput(w, d)
    BY <1>1 DEF RemoveFile
  <2>2. QED
    BY <2>1, OutputForgotten
<1>2. CASE w.info[d].state # "PAUSED"
  <2> DEFINE n == w.info[d].name
             u == RemoveFinal(w, n)
             K == DOMAIN w.info \ {d}
             v == Only(u, K)
  <2>1. RemoveFile(w, d) = u
    BY <1>2 DEF RemoveFile
  <2>2. WorldInv(u) /\ OnlyRow(w, u, d) /\ DOMAIN u.info = DOMAIN w.info
    BY RemoveFinalKeeps
  <2> HIDE DEF u
  <2>3. WorldInv(v)
    BY <2>2, ForgetKeeps
  <2>4. /\ DOMAIN v.info = K /\ \A e \in K : v.info[e] = u.info[e]
        /\ v.parts = u.parts /\ v.requests = u.requests
    BY <2>2, OnlyKeeps DEF WorldInv
  <2>5. Forget(RemoveFile(w, d), d) = v
    BY <2>1, <2>2 DEF Forget
  <2> HIDE DEF v
  <2>6. OnlyRow(u, v, d)
    BY <2>2, <2>4 DEF OnlyRow
  <2>7. QED
    BY <2>2, <2>3, <2>4, <2>5, <2>6, OnlyRowTwice
<1>3. QED
  BY <1>1, <1>2

\* setName of a part, to a name of the same file that no final file has.
LEMMA RenamedKeeps ==
  ASSUME NEW w, WorldInv(w), NEW d \in DOMAIN w.info, w.info[d].unfinished,
         NEW n \in Names \ DOMAIN w.finals, n.link = w.info[d].name.link
  PROVE  LET v == Renamed(w, d, n)
         IN  /\ WorldInv(v)
             /\ DOMAIN v.info = DOMAIN w.info
             /\ \A e \in DOMAIN w.info \ {d} : v.info[e] = w.info[e]
             /\ v.info[d].state = w.info[d].state /\ v.info[d].wired = w.info[d].wired
             /\ v.requests = w.requests
             /\ \A m \in DOMAIN v.parts : \E k \in DOMAIN w.parts : k.link = m.link
<1> DEFINE o == w.info[d].name
           data == Data(w, d)
           u == RemoveOutput(w, d)
           kept == w.info[d].state \in {"DOWNLOADING", "PAUSED"}
           i == [u.info[d] EXCEPT !.name = n, !.unfinished = kept, !.open = FALSE]
           r == [u EXCEPT !.info[d] = i]
           v == Renamed(w, d, n)
<1>1. data \in Written
  BY DataIsWritten
<1>2. w.info[d] \in Info /\ o \in Names /\ o \in DOMAIN w.parts /\ n \in Names
  BY DEF WorldInv, IsWorld, HasFile, Info
<1>3. v = Put(r, d, data)
  BY DEF Renamed
<1>4. /\ DOMAIN u = DOMAIN w /\ u.info = w.info /\ u.list = w.list
      /\ u.finals = w.finals /\ u.requests = w.requests /\ u.parts = Less(w.parts, o)
  BY DEF WorldInv, IsWorld, RemoveOutput
<1>5. /\ i \in Info /\ i.name = n /\ i.unfinished = kept /\ i.bereft = w.info[d].bereft
      /\ i.state = w.info[d].state /\ i.wired = w.info[d].wired
  <2>1. kept \in BOOLEAN
    OBVIOUS
  <2> HIDE DEF u, kept
  <2>2. QED
    BY <1>2, <1>4, <2>1 DEF Info
<1> HIDE DEF u, i
<1>6. /\ DOMAIN r = DOMAIN w /\ DOMAIN r.info = DOMAIN w.info /\ r.info[d] = i
      /\ \A e \in DOMAIN w.info \ {d} : r.info[e] = w.info[e]
      /\ r.list = w.list /\ r.finals = w.finals /\ r.requests = w.requests
      /\ r.parts = Less(w.parts, o)
  BY <1>4 DEF WorldInv, IsWorld
<1> HIDE DEF r, v, data
<1>7. /\ DOMAIN v = DOMAIN w /\ v.info = r.info /\ v.list = w.list /\ v.requests = w.requests
      /\ kept => v.parts = More(r.parts, n, data) /\ v.finals = w.finals
      /\ ~kept => v.finals = More(w.finals, n, data) /\ v.parts = r.parts
  BY <1>3, <1>5, <1>6 DEF WorldInv, IsWorld, Put
<1> HIDE DEF kept, o
<1>8. /\ DOMAIN r.parts = DOMAIN w.parts \ {o}
      /\ \A m \in DOMAIN r.parts : r.parts[m] = w.parts[m]
  BY <1>6 DEF Less, Restrict
<1>9. /\ kept => DOMAIN v.parts = (DOMAIN w.parts \ {o}) \cup {n} /\ v.finals = w.finals
      /\ ~kept => DOMAIN v.parts = DOMAIN w.parts \ {o} /\ DOMAIN v.finals = DOMAIN w.finals \cup {n}
      /\ \A m \in DOMAIN v.parts : v.parts[m] \in Written
      /\ \A m \in DOMAIN v.finals : v.finals[m] \in Written
  BY <1>1, <1>7, <1>8 DEF WorldInv, IsWorld, More
<1>10. IsWorld(v)
  BY <1>2, <1>5, <1>6, <1>7, <1>9 DEF WorldInv, IsWorld
<1>11. /\ \A m \in DOMAIN v.parts : \E k \in DOMAIN w.parts : k.link = m.link
       /\ \A m, k \in DOMAIN v.parts : m.link = k.link => m = k
  BY <1>2, <1>9 DEF WorldInv, o
<1>12. \A e \in DOMAIN w.info \ {d} : ~(w.info[e].unfinished /\ w.info[e].name \in {o, n})
  <2>1. SUFFICES ASSUME NEW e \in DOMAIN w.info \ {d}, w.info[e].unfinished,
                        w.info[e].name \in {o, n}
                 PROVE  FALSE
    OBVIOUS
  <2>2. w.info[e].name \in DOMAIN w.parts
    BY <2>1 DEF WorldInv, HasFile
  <2>3. w.info[e].name = o
    BY <1>2, <2>1, <2>2 DEF WorldInv, o
  <2>4. QED
    BY <2>1, <2>3 DEF WorldInv, Apart, o
<1>13. \A e \in DOMAIN w.info \ {d} :
         ~w.info[e].unfinished /\ w.info[e].name = n => w.info[e].bereft
  BY DEF WorldInv, HasFile
<1>14. \A e \in DOMAIN v.info : HasFile(v, v.info[e])
  <2>1. HasFile(v, v.info[d])
    BY <1>5, <1>6, <1>7, <1>9 DEF HasFile
  <2>2. ASSUME NEW e \in DOMAIN w.info \ {d} PROVE HasFile(v, v.info[e])
    BY <1>6, <1>7, <1>9, <1>12 DEF WorldInv, HasFile
  <2>3. QED
    BY <1>6, <1>7, <2>1, <2>2
<1>15. \A e \in DOMAIN v.info : Waits(v, e, v.info[e])
  <2>1. \A e \in DOMAIN w.info : Waits(w, e, w.info[e])
    BY DEF WorldInv
  <2>2. \A e \in DOMAIN w.info : v.info[e].state = w.info[e].state
    BY <1>5, <1>6, <1>7
  <2>3. QED
    BY <1>6, <1>7, <2>1, <2>2 DEF Waits
<1>16. \A e, f \in DOMAIN v.info : e # f => Apart(v.info[e], v.info[f])
  BY <1>5, <1>6, <1>7, <1>12, <1>13 DEF WorldInv, Apart
<1>17. WorldInv(v)
  BY <1>10, <1>11, <1>14, <1>15, <1>16 DEF WorldInv
<1>18. QED
  BY <1>5, <1>6, <1>7, <1>11, <1>17 DEF v

\* The row that startDownload lists, and its part.
WithRow(w, d, i) ==
  Put([w EXCEPT !.list = Append(w.list, d), !.info = More(w.info, d, i)], d, Nothing)

LEMMA NewRow ==
  ASSUME NEW w, WorldInv(w), NEW d \in Ids \ DOMAIN w.info,
         NEW i \in Info, i.unfinished, i.state \in {"PAUSING", "DOWNLOADING"},
         \A m \in DOMAIN w.parts : m.link # i.name.link
  PROVE  LET v == WithRow(w, d, i)
         IN  /\ WorldInv(v)
             /\ DOMAIN v.info = DOMAIN w.info \cup {d} /\ v.info[d] = i
             /\ \A e \in DOMAIN w.info : v.info[e] = w.info[e]
             /\ DOMAIN v.parts = DOMAIN w.parts \cup {i.name}
             /\ \A m \in DOMAIN w.parts : v.parts[m] = w.parts[m]
             /\ v.finals = w.finals /\ v.requests = w.requests
<1> DEFINE u == [w EXCEPT !.list = Append(w.list, d), !.info = More(w.info, d, i)]
           v == WithRow(w, d, i)
           n == i.name
<1>15. v = Put(u, d, Nothing)
  BY DEF WithRow
<1>1. /\ DOMAIN u = DOMAIN w /\ u.list = Append(w.list, d) /\ u.info = More(w.info, d, i)
      /\ u.parts = w.parts /\ u.finals = w.finals /\ u.requests = w.requests
  BY DEF WorldInv, IsWorld
<1> HIDE DEF u
<1>2. /\ DOMAIN u.info = DOMAIN w.info \cup {d} /\ u.info[d] = i
      /\ \A e \in DOMAIN w.info : u.info[e] = w.info[e]
  BY <1>1 DEF More
<1>3. /\ DOMAIN v = DOMAIN w /\ v.list = u.list /\ v.info = u.info
      /\ v.parts = More(w.parts, n, Nothing) /\ v.finals = w.finals /\ v.requests = w.requests
  BY <1>1, <1>2, <1>15 DEF WorldInv, IsWorld, Put
<1> HIDE DEF v
<1>4. Nothing \in Written /\ n \in Names
  BY DownloadAssumption DEF Nothing, Written, Info
<1> HIDE DEF n
<1>5. /\ DOMAIN v.parts = DOMAIN w.parts \cup {n}
      /\ \A m \in DOMAIN v.parts : v.parts[m] \in Written
  BY <1>3, <1>4 DEF WorldInv, IsWorld, More
<1>6. v.list \in Seq(Ids) /\ IsInjective(v.list) /\ Range(v.list) = DOMAIN v.info
  <2> DEFINE s == w.list
  <2>1. s \in Seq(Ids) /\ IsInjective(s) /\ Range(s) = DOMAIN w.info
    BY DEF WorldInv, IsWorld
  <2> HIDE DEF s
  <2>2. \A k \in DOMAIN s : s[k] # d
    BY <2>1 DEF Range
  <2>3. /\ Append(s, d) \in Seq(Ids) /\ DOMAIN Append(s, d) = 1..Len(s) + 1
        /\ DOMAIN s = 1..Len(s) /\ Len(s) \in Nat
        /\ \A k \in 1..Len(s) + 1 : Append(s, d)[k] = IF k = Len(s) + 1 THEN d ELSE s[k]
    BY <2>1
  <2>4. IsInjective(Append(s, d))
    BY <2>1, <2>2, <2>3 DEF IsInjective
  <2>5. Range(Append(s, d)) = Range(s) \cup {d}
    <3>1. \A k \in 1..Len(s) : k \in 1..Len(s) + 1 /\ Append(s, d)[k] = s[k]
      BY <2>3
    <3>2. Len(s) + 1 \in 1..Len(s) + 1 /\ Append(s, d)[Len(s) + 1] = d
      BY <2>3
    <3>3. \A k \in 1..Len(s) + 1 : k \in 1..Len(s) \/ k = Len(s) + 1
      BY <2>3
    <3>4. QED
      BY <2>3, <3>1, <3>2, <3>3 DEF Range
  <2>6. QED
    BY <1>1, <1>2, <1>3, <2>1, <2>3, <2>4, <2>5 DEF s
<1>7. IsWorld(v)
  BY <1>2, <1>3, <1>4, <1>5, <1>6 DEF WorldInv, IsWorld
<1>8. \A e \in DOMAIN w.info : ~(w.info[e].unfinished /\ w.info[e].name = n)
  BY DEF WorldInv, HasFile, n
<1>9. \A e \in DOMAIN v.info : HasFile(v, v.info[e])
  BY <1>2, <1>3, <1>5 DEF WorldInv, HasFile, n
<1>10. \A e \in DOMAIN v.info : Waits(v, e, v.info[e])
  BY <1>2, <1>3 DEF WorldInv, Waits
<1>11. \A e, f \in DOMAIN v.info : e # f => Apart(v.info[e], v.info[f])
  BY <1>2, <1>3, <1>8 DEF WorldInv, Apart, n
<1>12. \A m, k \in DOMAIN v.parts : m.link = k.link => m = k
  BY <1>5 DEF WorldInv, n
<1>13. WorldInv(v)
  BY <1>7, <1>9, <1>10, <1>11, <1>12 DEF WorldInv
<1>14. \A m \in DOMAIN w.parts : v.parts[m] = w.parts[m]
  <2>1. \A m \in DOMAIN w.parts : m # n
    BY DEF n
  <2>2. QED
    BY <1>3, <2>1 DEF More
<1>16. QED
  BY <1>2, <1>3, <1>5, <1>13, <1>14 DEF v, n

-----------------------------------------------------------------------------
(* The inductive invariant *)

\* A queued link is asked for once, and nothing of the file is there yet.
Queues(w, P) ==
  /\ P \subseteq Links
  /\ \A l \in Links, kind \in {"file", "urls"} :
       [kind |-> kind, of |-> l] \in w.requests =>
         l \in P /\ l \notin Browsed /\ \A n \in DOMAIN w.parts : n.link # l
  /\ \A l \in Links :
       ~([kind |-> "file", of |-> l] \in w.requests /\ [kind |-> "urls", of |-> l] \in w.requests)
  /\ \A l \in P : \E kind \in {"file", "urls"} : [kind |-> kind, of |-> l] \in w.requests

\* A download that a question is about: no slot takes its row away.
HeldIn(w, d) ==
  /\ d \in DOMAIN w.info /\ HeldRow(w.info[d])
  /\ \A kind \in {"description", "files"} : [kind |-> kind, of |-> d] \notin w.requests

Holds(w, S) ==
  /\ S \in Seq([of : Ids, asked : BOOLEAN])
  /\ \A i, j \in DOMAIN S : S[i].of = S[j].of => i = j
  /\ \A i \in DOMAIN S : S[i].asked => HeldIn(w, S[i].of)

Inv == WorldInv(world) /\ Queues(world, pending) /\ Holds(world, starting)

LEMMA OnlyRowQueues ==
  ASSUME NEW w, NEW v, NEW d, NEW P, OnlyRow(w, v, d), Queues(w, P)
  PROVE  Queues(v, P)
<1>1. \A l, kind : kind \in {"file", "urls"} =>
        ([kind |-> kind, of |-> l] \in v.requests <=> [kind |-> kind, of |-> l] \in w.requests)
  BY DEF OnlyRow
<1>2. QED
  BY <1>1 DEF OnlyRow, Queues

LEMMA OnlyRowHolds ==
  ASSUME NEW w, NEW v, NEW d, NEW S, OnlyRow(w, v, d), Holds(w, S),
         StillHeld(w, v, d) \/ \A i \in DOMAIN S : S[i].asked => S[i].of # d
  PROVE  Holds(v, S)
<1>1. SUFFICES ASSUME NEW i \in DOMAIN S, S[i].asked PROVE HeldIn(v, S[i].of)
  BY DEF Holds
<1>2. HeldIn(w, S[i].of)
  BY <1>1 DEF Holds
<1>3. CASE S[i].of # d
  BY <1>2, <1>3 DEF HeldIn, HeldRow, OnlyRow
<1>4. CASE S[i].of = d
  BY <1>1, <1>2, <1>4 DEF HeldIn, StillHeld
<1>5. QED
  BY <1>3, <1>4

\* The list as it is, and as a slot makes it.
LEMMA Fields ==
  /\ DOMAIN world = {"list", "info", "parts", "finals", "requests"}
  /\ world.list = list /\ world.info = info /\ world.parts = parts
  /\ world.finals = finals /\ world.requests = requests
BY DEF world

LEMMA InvAfter ==
  ASSUME NEW v, Becomes(v), WorldInv(v), Queues(v, pending'), Holds(v, starting')
  PROVE  Inv'
<1>1. /\ world'.list = v.list /\ world'.info = v.info /\ world'.parts = v.parts
      /\ world'.finals = v.finals /\ world'.requests = v.requests
      /\ DOMAIN (world') = {"list", "info", "parts", "finals", "requests"}
  BY DEF world, Becomes
<1>2. WorldInv(world')
  BY <1>1 DEF WorldInv, IsWorld, HasFile, Waits
<1>3. Queues(world', pending')
  BY <1>1 DEF Queues
<1>4. Holds(world', starting')
  BY <1>1 DEF Holds, HeldIn
<1>5. QED
  BY <1>2, <1>3, <1>4 DEF Inv

LEMMA RowStep ==
  ASSUME Inv, UNCHANGED <<pending, starting>>, NEW v, NEW d, Becomes(v), WorldInv(v),
         OnlyRow(world, v, d),
         StillHeld(world, v, d) \/ \A i \in DOMAIN starting : starting[i].asked => starting[i].of # d
  PROVE  Inv'
<1>1. Queues(v, pending) /\ Holds(v, starting)
  BY OnlyRowQueues, OnlyRowHolds DEF Inv
<1>2. Queues(v, pending') /\ Holds(v, starting')
  BY <1>1
<1>3. QED
  BY <1>2, InvAfter

-----------------------------------------------------------------------------
(* The replies *)

LEMMA StillHeldTwice ==
  ASSUME NEW u, NEW v, NEW w, NEW d, StillHeld(u, v, d), StillHeld(v, w, d)
  PROVE  StillHeld(u, w, d)
BY DEF StillHeld

\* A step of a slot, of the row d.
Slot(w, v, d) == WorldInv(v) /\ OnlyRow(w, v, d) /\ StillHeld(w, v, d)

LEMMA SlotTwice ==
  ASSUME NEW u, NEW v, NEW w, NEW d, Slot(u, v, d), Slot(v, w, d)
  PROVE  Slot(u, w, d)
BY OnlyRowTwice, StillHeldTwice DEF Slot

\* A piece is read from the reply.
PieceRead(w, d) == [w EXCEPT !.info[d].position = @ + 1]

LEMMA PieceReadKeeps ==
  ASSUME NEW w, WorldInv(w), NEW d \in DOMAIN w.info, w.info[d].position <= Size
  PROVE  Slot(w, PieceRead(w, d), d) /\ d \in DOMAIN PieceRead(w, d).info
<1> DEFINE i == [w.info[d] EXCEPT !.position = @ + 1]
           v == [w EXCEPT !.info[d] = i]
<1>1. PieceRead(w, d) = v
  BY DEF WorldInv, IsWorld, PieceRead
<1>2. w.info[d] \in Info /\ w.info[d].position + 1 \in 1..Size + 2
  <2>1. w.info[d] \in Info
    BY DEF WorldInv, IsWorld
  <2>2. w.info[d].position \in 1..Size + 2
    BY <2>1 DEF Info
  <2>3. QED
    BY <2>1, <2>2, DownloadAssumption
<1>3. Same(i, w.info[d]) /\ i.wired = w.info[d].wired
  BY <1>2 DEF Info, Same
<1> HIDE DEF i
<1>4. /\ WorldInv(v) /\ OnlyRow(w, v, d) /\ DOMAIN v.info = DOMAIN w.info /\ v.info[d] = i
      /\ v.requests = w.requests
  BY <1>3, RowStays
<1> HIDE DEF v
<1>5. StillHeld(w, v, d)
  BY <1>3, <1>4 DEF StillHeld, HeldRow, Same
<1>6. QED
  BY <1>1, <1>4, <1>5 DEF Slot

\* The reply comes to an end.
ReplyOver(w, d, outcome) == [w EXCEPT !.info[d].reply = outcome]

LEMMA ReplyOverKeeps ==
  ASSUME NEW w, WorldInv(w), NEW d \in DOMAIN w.info, NEW outcome \in {"complete", "failed"}
  PROVE  LET v == ReplyOver(w, d, outcome)
         IN  Slot(w, v, d) /\ d \in DOMAIN v.info /\ v.info[d].wired = w.info[d].wired
<1> DEFINE i == [w.info[d] EXCEPT !.reply = outcome]
           v == [w EXCEPT !.info[d] = i]
<1>1. ReplyOver(w, d, outcome) = v
  BY DEF WorldInv, IsWorld, ReplyOver
<1>2. w.info[d] \in Info
  BY DEF WorldInv, IsWorld
<1>3. Same(i, w.info[d]) /\ i.wired = w.info[d].wired
  BY <1>2 DEF Info, Same
<1> HIDE DEF i
<1>4. /\ WorldInv(v) /\ OnlyRow(w, v, d) /\ DOMAIN v.info = DOMAIN w.info /\ v.info[d] = i
      /\ v.requests = w.requests
  <2>1. Same(i, w.info[d])
    BY <1>3
  <2>2. QED
    BY <2>1, RowStays
<1> HIDE DEF v
<1>5. StillHeld(w, v, d)
  BY <1>3, <1>4 DEF StillHeld, HeldRow, Same
<1>6. QED
  BY <1>1, <1>3, <1>4, <1>5 DEF Slot

LEMMA LongerIsWritten ==
  ASSUME NEW data \in Written, NEW piece \in 1..Size
  PROVE  Longer(data, piece) \in Written
<1>1. data.length \in 0..Size + 1
  BY DEF Written
<1>2. (IF data.length > Size THEN data.length ELSE data.length + 1) \in 0..Size + 1
  BY <1>1, DownloadAssumption
<1>3. piece \in 0..Size
  OBVIOUS
<1>4. QED
  BY <1>2, <1>3 DEF Longer, Written

LEMMA ReceiveKeeps ==
  ASSUME Inv, NEW d \in DOMAIN info, Receive(d)
  PROVE  Inv'
<1> DEFINE read == PieceRead(world, d)
           wrote == Put(read, d, Longer(Data(world, d), info[d].position))
<1>1. WorldInv(world) /\ d \in DOMAIN world.info /\ world.info = info
  BY Fields DEF Inv
<1>2. info[d].position \in 1..Size
  <2>1. info[d] \in Info /\ info[d].position <= Size
    BY <1>1 DEF WorldInv, IsWorld, Receive
  <2>2. info[d].position \in 1..Size + 2
    BY <2>1 DEF Info
  <2>3. QED
    BY <2>1, <2>2, DownloadAssumption
<1>3. /\ Becomes(Cancel(read, d)) \/ Becomes(wrote) \/ Becomes(Progress(wrote, d))
      /\ UNCHANGED <<pending, starting>>
  BY DEF Receive, PieceRead, rest
<1>4. Slot(world, read, d) /\ d \in DOMAIN read.info
  BY <1>1, <1>2, PieceReadKeeps
<1> HIDE DEF read
<1>5. Longer(Data(world, d), info[d].position) \in Written
  BY <1>1, <1>2, DataIsWritten, LongerIsWritten
<1>6. WorldInv(wrote) /\ OnlyRow(read, wrote, d) /\ wrote.info = read.info
      /\ wrote.requests = read.requests
  <2>1. WorldInv(read)
    BY <1>4 DEF Slot
  <2>2. QED
    BY <1>4, <1>5, <2>1, PutKeeps
<1> HIDE DEF wrote
<1>7. Slot(read, wrote, d) /\ d \in DOMAIN wrote.info
  BY <1>4, <1>6 DEF Slot, StillHeld
<1>8. Slot(read, Cancel(read, d), d)
  BY <1>4, CancelKeeps DEF Slot
<1>9. Slot(wrote, Progress(wrote, d), d)
  BY <1>7, ProgressKeeps DEF Slot
<1>10. /\ Slot(world, Cancel(read, d), d)
       /\ Slot(world, wrote, d)
       /\ Slot(world, Progress(wrote, d), d)
  BY <1>4, <1>7, <1>8, <1>9, SlotTwice
<1>11. QED
  BY <1>3, <1>10, RowStep DEF Slot

LEMMA EndsKeeps ==
  ASSUME Inv, NEW d \in DOMAIN info, NEW outcome \in {"complete", "failed"}, Ends(d, outcome),
         UNCHANGED <<pending, starting>>
  PROVE  Inv'
<1> DEFINE w == ReplyOver(world, d, outcome)
<1>1. WorldInv(world) /\ d \in DOMAIN world.info /\ world.info = info
  BY Fields DEF Inv
<1>2. Becomes(IF info[d].wired THEN Finished(w, d) ELSE w)
  BY DEF Ends, ReplyOver
<1>3. Slot(world, w, d) /\ d \in DOMAIN w.info /\ w.info[d].wired = info[d].wired
  BY <1>1, ReplyOverKeeps
<1> HIDE DEF w
<1>4. WorldInv(Finished(w, d)) /\ OnlyRow(w, Finished(w, d), d)
  BY <1>3, FinishedKeeps DEF Slot
<1>5. w.info[d].wired => Slot(w, Finished(w, d), d)
  BY <1>4 DEF Slot, StillHeld, HeldRow
<1>6. w.info[d].wired => Slot(world, Finished(w, d), d)
  BY <1>3, <1>5, SlotTwice
<1>7. CASE info[d].wired
  BY <1>2, <1>3, <1>6, <1>7, RowStep DEF Slot
<1>8. CASE ~info[d].wired
  BY <1>2, <1>3, <1>8, RowStep DEF Slot
<1>9. QED
  BY <1>7, <1>8

LEMMA TransferKeeps ==
  ASSUME Inv, NEW d \in DOMAIN info, Transfer(d) \/ Break(d) \/ WriteFails(d)
  PROVE  Inv'
<1>1. CASE Receive(d)
  BY <1>1, ReceiveKeeps
<1>2. CASE Complete(d)
  BY <1>2, EndsKeeps DEF Complete, rest
<1>3. CASE Refuse(d)
  BY <1>3, EndsKeeps DEF Refuse, rest
<1>4. CASE Break(d)
  BY <1>4, EndsKeeps DEF Break, Fault
<1>5. CASE WriteFails(d)
  <2> DEFINE read == PieceRead(world, d)
  <2>1. WorldInv(world) /\ d \in DOMAIN world.info /\ world.info[d].position <= Size
    BY <1>5, Fields DEF Inv, WriteFails
  <2>2. Becomes(Cancel(read, d)) /\ UNCHANGED <<pending, starting>>
    BY <1>5 DEF WriteFails, PieceRead, Fault
  <2>3. Slot(world, read, d) /\ d \in DOMAIN read.info
    BY <2>1, PieceReadKeeps
  <2> HIDE DEF read
  <2>4. Slot(read, Cancel(read, d), d)
    BY <2>3, CancelKeeps DEF Slot
  <2>5. Slot(world, Cancel(read, d), d)
    BY <2>3, <2>4, SlotTwice
  <2>6. QED
    BY <2>2, <2>5, RowStep DEF Slot
<1>6. QED
  BY <1>1, <1>2, <1>3, <1>4, <1>5 DEF Transfer

-----------------------------------------------------------------------------
(* What the user asks for *)

LEMMA NoneAsked ==
  ASSUME NoQuestion
  PROVE  \A i \in DOMAIN starting : ~starting[i].asked
BY DEF NoQuestion, Range

LEMMA StateStep ==
  ASSUME Inv, NEW d \in DOMAIN info, NEW s \in States \ {"FETCHINGMODINFO", "FETCHINGFILEINFO"},
         Becomes([world EXCEPT !.info[d].state = s]), UNCHANGED <<pending, starting>>,
         \A i \in DOMAIN starting : starting[i].asked => starting[i].of # d
  PROVE  Inv'
<1> DEFINE v == [world EXCEPT !.info[d].state = s]
<1>1. WorldInv(world) /\ d \in DOMAIN world.info
  BY Fields DEF Inv
<1>2. WorldInv(v) /\ OnlyRow(world, v, d) /\ v.info[d] = [world.info[d] EXCEPT !.state = s]
  BY <1>1, StateSet
<1>3. Becomes(v)
  OBVIOUS
<1> HIDE DEF v
<1>4. QED
  BY <1>2, <1>3, RowStep

LEMMA PauseOfIsInfo ==
  ASSUME NEW i \in Info
  PROVE  LET j == PauseOf(i)
         IN  /\ j \in Info /\ j.name = i.name /\ j.unfinished = i.unfinished
             /\ j.bereft = i.bereft /\ j.wired = i.wired
             /\ j.state \notin {"FETCHINGMODINFO", "FETCHINGFILEINFO"}
<1>1. CASE i.state = "DOWNLOADING" /\ i.reply = "running"
  <2>1. PauseOf(i) = [i EXCEPT !.state = "PAUSING"]
    BY <1>1 DEF PauseOf
  <2>2. QED
    BY <2>1 DEF Info, States
<1>2. CASE i.state = "DOWNLOADING" /\ i.reply # "running"
  <2>1. PauseOf(i) = [i EXCEPT !.state = "PAUSED", !.open = FALSE]
    BY <1>2 DEF PauseOf
  <2>2. QED
    BY <2>1 DEF Info, States
<1>3. CASE i.state \in {"FETCHINGMODINFO", "FETCHINGFILEINFO"}
  <2>1. PauseOf(i) = [i EXCEPT !.state = "READY"]
    BY <1>3 DEF PauseOf
  <2>2. QED
    BY <2>1 DEF Info, States
<1>4. CASE i.state \notin {"DOWNLOADING", "FETCHINGMODINFO", "FETCHINGFILEINFO"}
  BY <1>4 DEF PauseOf
<1>5. QED
  BY <1>1, <1>2, <1>3, <1>4

LEMMA PauseDownloadKeeps ==
  ASSUME Inv, NEW d \in DOMAIN info, PauseDownload(d)
  PROVE  Inv'
<1> DEFINE i == PauseOf(info[d])
           v == [world EXCEPT !.info[d] = i]
<1>1. WorldInv(world) /\ d \in DOMAIN world.info /\ world.info = info
  BY Fields DEF Inv
<1>2. Becomes(v) /\ UNCHANGED <<pending, starting>>
  BY DEF PauseDownload, rest
<1>3. info[d] \in Info
  BY <1>1 DEF WorldInv, IsWorld
<1>4. /\ i \in Info /\ i.name = world.info[d].name /\ i.unfinished = world.info[d].unfinished
      /\ i.bereft = world.info[d].bereft
      /\ i.state \notin {"FETCHINGMODINFO", "FETCHINGFILEINFO"}
  BY <1>1, <1>3, PauseOfIsInfo
<1>5. Waits(world, d, i)
  BY <1>4 DEF Waits
<1> HIDE DEF i
<1>6. WorldInv(v) /\ OnlyRow(world, v, d) /\ v.info[d] = i
  BY <1>1, <1>4, <1>5, RowChanges
<1> HIDE DEF v
<1>7. QED
  BY <1>2, <1>6, NoneAsked, RowStep DEF PauseDownload

LEMMA PauseAllKeeps ==
  ASSUME Inv, PauseAll
  PROVE  Inv'
<1> DEFINE v == [world EXCEPT !.info = [d \in DOMAIN info |-> PauseOf(info[d])]]
<1>1. WorldInv(world) /\ world.info = info
  BY Fields DEF Inv
<1>2. Becomes(v) /\ UNCHANGED <<pending, starting>>
  BY DEF PauseAll, rest
<1>3. /\ DOMAIN v = DOMAIN world /\ v.list = world.list /\ v.parts = world.parts
      /\ v.finals = world.finals /\ v.requests = world.requests
      /\ DOMAIN v.info = DOMAIN world.info
      /\ \A d \in DOMAIN world.info : v.info[d] = PauseOf(world.info[d])
  BY <1>1, Fields
<1> HIDE DEF v
<1>4. \A d \in DOMAIN world.info :
        /\ v.info[d] \in Info
        /\ v.info[d].name = world.info[d].name
        /\ v.info[d].unfinished = world.info[d].unfinished
        /\ v.info[d].bereft = world.info[d].bereft
        /\ v.info[d].state \notin {"FETCHINGMODINFO", "FETCHINGFILEINFO"}
  BY <1>1, <1>3, PauseOfIsInfo DEF WorldInv, IsWorld
<1>5. IsWorld(v)
  BY <1>1, <1>3, <1>4 DEF WorldInv, IsWorld
<1>6. \A d \in DOMAIN v.info : HasFile(v, v.info[d]) /\ Waits(v, d, v.info[d])
  BY <1>1, <1>3, <1>4 DEF WorldInv, HasFile, Waits
<1>7. \A d, e \in DOMAIN v.info : d # e => Apart(v.info[d], v.info[e])
  BY <1>1, <1>3, <1>4 DEF WorldInv, Apart
<1>8. WorldInv(v)
  BY <1>1, <1>3, <1>5, <1>6, <1>7 DEF WorldInv
<1>9. Queues(v, pending')
  BY <1>2, <1>3 DEF Inv, Queues
<1>10. Holds(v, starting')
  BY <1>2, NoneAsked DEF Inv, Holds, PauseAll
<1>11. QED
  BY <1>2, <1>8, <1>9, <1>10, InvAfter

LEMMA ResumeDownloadKeeps ==
  ASSUME Inv, NEW d \in DOMAIN info, ResumeDownload(d)
  PROVE  Inv'
<1>1. WorldInv(world) /\ d \in DOMAIN world.info
  BY Fields DEF Inv
<1>2. WorldInv(ResumeOf(world, d)) /\ OnlyRow(world, ResumeOf(world, d), d)
  BY <1>1, ResumeOfKeeps
<1>3. QED
  BY <1>2, NoneAsked, RowStep DEF ResumeDownload, rest

\* What refreshList takes away is no row that a question is about.
LEMMA RefreshStep ==
  ASSUME NEW w, WorldInv(w), EnoughIds(w), Becomes(Refreshed(w)),
         Queues(w, pending'), Holds(w, starting')
  PROVE  Inv'
<1> DEFINE v == Refreshed(w)
<1>1. /\ WorldInv(v) /\ v.parts = w.parts /\ v.requests = w.requests
      /\ NotReady(w) \subseteq DOMAIN v.info /\ \A e \in NotReady(w) : v.info[e] = w.info[e]
  BY RefreshedKeeps
<1>2. Becomes(v)
  OBVIOUS
<1> HIDE DEF v
<1>3. Queues(v, pending')
  BY <1>1 DEF Queues
<1>4. \A d : HeldIn(w, d) => HeldIn(v, d)
  BY <1>1 DEF HeldIn, HeldRow, NotReady
<1>5. Holds(v, starting')
  BY <1>4 DEF Holds
<1>6. QED
  BY <1>1, <1>2, <1>3, <1>5, InvAfter

LEMMA RemoveDownloadKeeps ==
  ASSUME Inv, NEW d \in DOMAIN info, RemoveDownload(d)
  PROVE  Inv'
<1> DEFINE w == Forget(RemoveFile(world, d), d)
<1>1. WorldInv(world) /\ d \in DOMAIN world.info
  BY Fields DEF Inv
<1>2. EnoughIds(w) /\ Becomes(Refreshed(w)) /\ UNCHANGED <<pending, starting>>
  BY DEF RemoveDownload, rest
<1>3. WorldInv(w) /\ OnlyRow(world, w, d)
  BY <1>1, RemovalKeeps
<1> HIDE DEF w
<1>4. Queues(w, pending')
  BY <1>2, <1>3, OnlyRowQueues DEF Inv
<1>5. Holds(w, starting')
  BY <1>2, NoneAsked DEF Inv, Holds, RemoveDownload
<1>6. QED
  BY <1>2, <1>3, <1>4, <1>5, RefreshStep

LEMMA DirectoryChangedKeeps ==
  ASSUME Inv, DirectoryChanged
  PROVE  Inv'
<1>1. Queues(world, pending') /\ Holds(world, starting')
  BY DEF Inv, DirectoryChanged, rest
<1>2. QED
  BY <1>1, RefreshStep DEF Inv, DirectoryChanged

LEMMA ListedKeeps ==
  ASSUME Inv, Listed
  PROVE  Inv'
<1>1. PICK d \in DOMAIN info :
        \/ Transfer(d) \/ Break(d) \/ WriteFails(d)
        \/ CancelDownload(d) \/ PauseDownload(d) \/ ResumeDownload(d) \/ RemoveDownload(d)
  BY DEF Listed
<1>2. CASE Transfer(d) \/ Break(d) \/ WriteFails(d)
  BY <1>2, TransferKeeps
<1>3. CASE CancelDownload(d)
  <2>1. "CANCELING" \in States \ {"FETCHINGMODINFO", "FETCHINGFILEINFO"}
    BY DEF States
  <2>2. \A i \in DOMAIN starting : ~starting[i].asked
    BY <1>3, NoneAsked DEF CancelDownload
  <2>3. QED
    BY <1>3, <2>1, <2>2, StateStep DEF CancelDownload, rest
<1>4. CASE PauseDownload(d)
  BY <1>4, PauseDownloadKeeps
<1>5. CASE ResumeDownload(d)
  BY <1>5, ResumeDownloadKeeps
<1>6. CASE RemoveDownload(d)
  BY <1>6, RemoveDownloadKeeps
<1>7. QED
  BY <1>1, <1>2, <1>3, <1>4, <1>5, <1>6

-----------------------------------------------------------------------------
(* What the Nexus answers *)

LEMMA LinkStep ==
  ASSUME Inv, UNCHANGED <<files, starting>>, requests' \subseteq Requests,
         \A d, kind : kind \in {"description", "files"} =>
           ([kind |-> kind, of |-> d] \in requests' <=> [kind |-> kind, of |-> d] \in requests),
         Queues(world', pending')
  PROVE  Inv'
<1>1. /\ DOMAIN (world') = {"list", "info", "parts", "finals", "requests"}
      /\ world'.list = world.list /\ world'.info = world.info /\ world'.parts = world.parts
      /\ world'.finals = world.finals /\ world'.requests = requests'
      /\ world.requests = requests /\ starting' = starting
  BY DEF world, files
<1>2. WorldInv(world) /\ Holds(world, starting)
  BY DEF Inv
<1>3. IsWorld(world')
  BY <1>1, <1>2 DEF WorldInv, IsWorld
<1>4. \A d \in DOMAIN world'.info : HasFile(world', world'.info[d]) /\ Waits(world', d, world'.info[d])
  BY <1>1, <1>2 DEF WorldInv, HasFile, Waits
<1>5. WorldInv(world')
  BY <1>1, <1>2, <1>3, <1>4 DEF WorldInv
<1>6. Holds(world', starting')
  BY <1>1, <1>2 DEF Holds, HeldIn
<1>7. QED
  BY <1>5, <1>6 DEF Inv

LEMMA RequestKinds ==
  ASSUME NEW l, NEW k, NEW m, NEW j
  PROVE  [kind |-> k, of |-> l] = [kind |-> j, of |-> m] <=> k = j /\ l = m
<1>1. [kind |-> k, of |-> l].kind = k /\ [kind |-> j, of |-> m].kind = j
  OBVIOUS
<1>2. [kind |-> k, of |-> l].of = l /\ [kind |-> j, of |-> m].of = m
  OBVIOUS
<1>3. QED
  BY <1>1, <1>2

LEMMA AddNXMDownloadKeeps ==
  ASSUME Inv, NEW l \in Links, AddNXMDownload(l)
  PROVE  Inv'
<1>1. /\ l \notin Browsed /\ l \notin pending /\ \A n \in DOMAIN parts : n.link # l
      /\ pending' = pending \cup {l}
      /\ requests' = requests \cup {[kind |-> "file", of |-> l]}
      /\ UNCHANGED <<files, starting>>
  BY DEF AddNXMDownload, Wanted
<1>2. Queues(world, pending) /\ WorldInv(world)
  BY DEF Inv
<1>3. world'.parts = parts /\ world'.requests = requests' /\ world.parts = parts
      /\ world.requests = requests
  BY <1>1 DEF world, files
<1>4. \A k, m : [kind |-> k, of |-> m] \in requests' <=>
                [kind |-> k, of |-> m] \in requests \/ (k = "file" /\ m = l)
  BY <1>1, RequestKinds
<1>5. Queues(world', pending')
  BY <1>1, <1>2, <1>3, <1>4 DEF Queues
<1>6. requests' \subseteq Requests
  <2>1. requests \subseteq Requests
    BY <1>2, <1>3 DEF WorldInv, IsWorld
  <2>2. QED
    BY <1>1, <2>1 DEF Requests
<1>7. QED
  BY <1>1, <1>4, <1>5, <1>6, LinkStep

LEMMA FileInfoAvailableKeeps ==
  ASSUME Inv, NEW l \in Links, FileInfoAvailable(l)
  PROVE  Inv'
<1>1. /\ [kind |-> "file", of |-> l] \in requests /\ pending' = pending
      /\ requests' = (requests \ {[kind |-> "file", of |-> l]}) \cup {[kind |-> "urls", of |-> l]}
      /\ UNCHANGED <<files, starting>>
  BY DEF FileInfoAvailable, Answered
<1>2. Queues(world, pending) /\ WorldInv(world)
  BY DEF Inv
<1>3. world'.parts = parts /\ world'.requests = requests' /\ world.parts = parts
      /\ world.requests = requests
  BY <1>1 DEF world, files
<1>4. \A k, m : [kind |-> k, of |-> m] \in requests' <=>
                \/ [kind |-> k, of |-> m] \in requests /\ ~(k = "file" /\ m = l)
                \/ k = "urls" /\ m = l
  BY <1>1, RequestKinds
<1>5. Queues(world', pending')
  BY <1>1, <1>2, <1>3, <1>4 DEF Queues
<1>6. requests' \subseteq Requests
  <2>1. requests \subseteq Requests
    BY <1>2, <1>3 DEF WorldInv, IsWorld
  <2>2. QED
    BY <1>1, <2>1 DEF Requests
<1>7. QED
  BY <1>1, <1>4, <1>5, <1>6, LinkStep

LEMMA NotAvailableKeeps ==
  ASSUME Inv, NEW l \in Links, NotAvailable(l)
  PROVE  Inv'
<1>1. PICK kind \in {"file", "urls"} :
        /\ [kind |-> kind, of |-> l] \in requests /\ pending' = pending \ {l}
        /\ requests' = requests \ {[kind |-> kind, of |-> l]}
        /\ UNCHANGED <<files, starting>>
  BY DEF NotAvailable, Answered
<1>2. Queues(world, pending) /\ WorldInv(world)
  BY DEF Inv
<1>3. world'.parts = parts /\ world'.requests = requests' /\ world.parts = parts
      /\ world.requests = requests
  BY <1>1 DEF world, files
<1>4. \A k, m : [kind |-> k, of |-> m] \in requests' <=>
                [kind |-> k, of |-> m] \in requests /\ ~(k = kind /\ m = l)
  BY <1>1, RequestKinds
<1>5. Queues(world', pending')
  BY <1>1, <1>2, <1>3, <1>4 DEF Queues
<1>6. requests' \subseteq Requests
  BY <1>1, <1>2, <1>3 DEF WorldInv, IsWorld
<1>7. QED
  BY <1>1, <1>4, <1>5, <1>6, LinkStep

\* An answer about a download, and what it makes of its row.
LEMMA Answer ==
  ASSUME Inv, NEW d, NEW kind \in {"description", "files"}, [kind |-> kind, of |-> d] \in requests,
         NEW v, DOMAIN v = {"list", "info", "parts", "finals", "requests"},
         v.list = list, v.parts = parts, v.finals = finals, DOMAIN v.info = DOMAIN info,
         \A e \in DOMAIN info : e # d => v.info[e] = info[e],
         d \in DOMAIN info =>
           /\ v.info[d] \in Info /\ v.info[d].name = info[d].name
           /\ v.info[d].unfinished = info[d].unfinished /\ v.info[d].bereft = info[d].bereft
           /\ Waits(v, d, v.info[d]),
         v.requests \subseteq Requests,
         \A k, e : (e # d \/ k \in {"file", "urls"}) =>
           ([kind |-> k, of |-> e] \in v.requests <=> [kind |-> k, of |-> e] \in requests)
  PROVE  /\ WorldInv(v) /\ Queues(v, pending) /\ Holds(v, starting)
         /\ \A i \in DOMAIN starting : starting[i].asked => starting[i].of # d
<1>1. /\ WorldInv(world) /\ Queues(world, pending) /\ Holds(world, starting)
      /\ world.list = list /\ world.info = info /\ world.parts = parts
      /\ world.finals = finals /\ world.requests = requests
  BY Fields DEF Inv
<1>2. IsWorld(v)
  BY <1>1 DEF WorldInv, IsWorld
<1>3. \A e \in DOMAIN v.info : HasFile(v, v.info[e])
  BY <1>1 DEF WorldInv, HasFile
<1>4. \A e \in DOMAIN v.info : Waits(v, e, v.info[e])
  BY <1>1 DEF WorldInv, Waits
<1>5. \A e, f \in DOMAIN v.info : e # f => Apart(v.info[e], v.info[f])
  BY <1>1 DEF WorldInv, Apart
<1>6. WorldInv(v)
  BY <1>1, <1>2, <1>3, <1>4, <1>5 DEF WorldInv
<1>7. Queues(v, pending)
  BY <1>1 DEF Queues
<1>8. ~HeldIn(world, d)
  BY <1>1 DEF HeldIn
<1>9. \A i \in DOMAIN starting : starting[i].asked => starting[i].of # d
  BY <1>1, <1>8 DEF Holds
<1>10. \A e : e # d /\ HeldIn(world, e) => HeldIn(v, e)
  BY <1>1 DEF HeldIn
<1>11. Holds(v, starting)
  BY <1>1, <1>9, <1>10 DEF Holds
<1>12. QED
  BY <1>6, <1>7, <1>9, <1>11

LEMMA WithoutFields ==
  ASSUME NEW d, NEW kind
  PROVE  LET w == Without(d, kind)
         IN  /\ DOMAIN w = {"list", "info", "parts", "finals", "requests"}
             /\ w.list = list /\ w.info = info /\ w.parts = parts /\ w.finals = finals
             /\ w.requests = requests \ {[kind |-> kind, of |-> d]}
BY DEF Without, world

\* setState(STATE_READY) of the download that is answered, if it is still there.
LEMMA ReadyKeeps ==
  ASSUME Inv, NEW d \in Ids, NEW kind \in {"description", "files"},
         [kind |-> kind, of |-> d] \in requests,
         Becomes(Ready(Without(d, kind), d)), UNCHANGED <<pending, starting>>
  PROVE  Inv'
<1> DEFINE w == Without(d, kind)
           v == Ready(w, d)
<1>1. /\ DOMAIN w = {"list", "info", "parts", "finals", "requests"}
      /\ w.list = list /\ w.info = info /\ w.parts = parts /\ w.finals = finals
      /\ w.requests = requests \ {[kind |-> kind, of |-> d]}
  BY WithoutFields
<1> HIDE DEF w
<1>2. /\ DOMAIN v = {"list", "info", "parts", "finals", "requests"}
      /\ v.list = list /\ v.parts = parts /\ v.finals = finals /\ DOMAIN v.info = DOMAIN info
      /\ v.requests = w.requests
      /\ \A e \in DOMAIN info : e # d => v.info[e] = info[e]
      /\ d \in DOMAIN info => v.info[d] = [info[d] EXCEPT !.state = "READY"]
  BY <1>1 DEF Ready
<1>3. \A e \in DOMAIN info : info[e] \in Info
  BY Fields DEF Inv, WorldInv, IsWorld
<1>4. requests \subseteq Requests
  BY Fields DEF Inv, WorldInv, IsWorld
<1>5. Becomes(v)
  BY DEF w
<1> HIDE DEF v
<1>6. d \in DOMAIN info =>
        /\ v.info[d] \in Info /\ v.info[d].name = info[d].name
        /\ v.info[d].unfinished = info[d].unfinished /\ v.info[d].bereft = info[d].bereft
        /\ v.info[d].state = "READY"
  BY <1>2, <1>3 DEF Info, States
<1>7. d \in DOMAIN info => Waits(v, d, v.info[d])
  BY <1>6 DEF Waits
<1>8. \A k, e : (e # d \/ k \in {"file", "urls"}) =>
        ([kind |-> k, of |-> e] \in v.requests <=> [kind |-> k, of |-> e] \in requests)
  BY <1>1, <1>2, RequestKinds
<1>9. WorldInv(v) /\ Queues(v, pending) /\ Holds(v, starting)
  <2>1. v.requests \subseteq Requests
    BY <1>1, <1>2, <1>4
  <2>2. QED
    BY <1>2, <1>6, <1>7, <1>8, <2>1, Answer
<1>10. QED
  BY <1>5, <1>9, InvAfter

LEMMA DescriptionAvailableKeeps ==
  ASSUME Inv, NEW d \in Ids, DescriptionAvailable(d)
  PROVE  Inv'
<1> DEFINE w == Without(d, "description")
           v == Ask([w EXCEPT !.info[d].state = "FETCHINGFILEINFO"], d, "files")
<1>1. [kind |-> "description", of |-> d] \in requests /\ UNCHANGED <<pending, starting>>
  BY DEF DescriptionAvailable, Answered
<1>2. CASE ~(d \in DOMAIN info /\ info[d].name.link \in Browsed)
  BY <1>1, <1>2, ReadyKeeps DEF DescriptionAvailable
<1>3. CASE d \in DOMAIN info /\ info[d].name.link \in Browsed
  <2>1. /\ DOMAIN w = {"list", "info", "parts", "finals", "requests"}
        /\ w.list = list /\ w.info = info /\ w.parts = parts /\ w.finals = finals
        /\ w.requests = requests \ {[kind |-> "description", of |-> d]}
    BY WithoutFields
  <2>2. Becomes(v)
    BY <1>3 DEF DescriptionAvailable
  <2> HIDE DEF w
  <2>3. /\ DOMAIN v = {"list", "info", "parts", "finals", "requests"}
        /\ v.list = list /\ v.parts = parts /\ v.finals = finals /\ DOMAIN v.info = DOMAIN info
        /\ v.requests = w.requests \cup {[kind |-> "files", of |-> d]}
        /\ \A e \in DOMAIN info : e # d => v.info[e] = info[e]
        /\ v.info[d] = [info[d] EXCEPT !.state = "FETCHINGFILEINFO"]
    BY <1>3, <2>1 DEF Ask
  <2>4. info[d] \in Info /\ requests \subseteq Requests
    BY <1>3, Fields DEF Inv, WorldInv, IsWorld
  <2> HIDE DEF v
  <2>5. /\ v.info[d] \in Info /\ v.info[d].name = info[d].name
        /\ v.info[d].unfinished = info[d].unfinished /\ v.info[d].bereft = info[d].bereft
        /\ v.info[d].state = "FETCHINGFILEINFO"
    BY <2>3, <2>4 DEF Info, States
  <2>6. Waits(v, d, v.info[d])
    BY <2>3, <2>5 DEF Waits
  <2>7. \A k, e : (e # d \/ k \in {"file", "urls"}) =>
          ([kind |-> k, of |-> e] \in v.requests <=> [kind |-> k, of |-> e] \in requests)
    BY <2>1, <2>3, RequestKinds
  <2>8. WorldInv(v) /\ Queues(v, pending) /\ Holds(v, starting)
    <3>1. v.requests \subseteq Requests
      BY <2>1, <2>3, <2>4 DEF Requests
    <3>2. QED
      BY <1>1, <2>3, <2>5, <2>6, <2>7, <3>1, Answer
  <2>9. QED
    BY <1>1, <2>2, <2>8, InvAfter
<1>4. QED
  BY <1>2, <1>3

LEMMA RequestFailedKeeps ==
  ASSUME Inv, NEW d \in Ids, RequestFailed(d)
  PROVE  Inv'
<1> DEFINE early == {"DOWNLOADING", "CANCELING", "PAUSING", "CANCELED", "PAUSED"}
<1>1. PICK kind \in {"description", "files"} :
        /\ [kind |-> kind, of |-> d] \in requests
        /\ Becomes(IF d \in DOMAIN info /\ info[d].state \in early
                   THEN Forget(Without(d, kind), d) ELSE Ready(Without(d, kind), d))
        /\ UNCHANGED <<pending, starting>>
  BY DEF RequestFailed, Answered
<1>2. CASE ~(d \in DOMAIN info /\ info[d].state \in early)
  BY <1>1, <1>2, ReadyKeeps
<1>3. CASE d \in DOMAIN info /\ info[d].state \in early
  <2> DEFINE w == Without(d, kind)
             K == DOMAIN w.info \ {d}
             v == Only(w, K)
  <2>1. /\ DOMAIN w = {"list", "info", "parts", "finals", "requests"}
        /\ w.list = list /\ w.info = info /\ w.parts = parts /\ w.finals = finals
        /\ w.requests = requests \ {[kind |-> kind, of |-> d]}
    BY WithoutFields
  <2>2. Becomes(v)
    BY <1>1, <1>3 DEF Forget
  <2> HIDE DEF w
  <2>3. info[d] \in Info /\ requests \subseteq Requests
    BY <1>3, Fields DEF Inv, WorldInv, IsWorld
  <2>4. Waits(w, d, w.info[d])
    BY <1>3, <2>1 DEF Waits
  <2>5. \A k, e : (e # d \/ k \in {"file", "urls"}) =>
          ([kind |-> k, of |-> e] \in w.requests <=> [kind |-> k, of |-> e] \in requests)
    BY <2>1, RequestKinds
  <2>6. /\ WorldInv(w) /\ Queues(w, pending) /\ Holds(w, starting)
        /\ \A i \in DOMAIN starting : starting[i].asked => starting[i].of # d
    BY <1>1, <2>1, <2>3, <2>4, <2>5, Answer
  <2>7. WorldInv(v)
    BY <2>6, ForgetKeeps
  <2>8. /\ DOMAIN v.info = K /\ \A e \in K : v.info[e] = w.info[e]
        /\ v.parts = w.parts /\ v.requests = w.requests
    BY <2>6, OnlyKeeps DEF WorldInv
  <2> HIDE DEF v
  <2>9. OnlyRow(w, v, d)
    BY <2>8 DEF OnlyRow
  <2>10. Queues(v, pending) /\ Holds(v, starting)
    BY <2>6, <2>9, OnlyRowQueues, OnlyRowHolds
  <2>11. QED
    BY <1>1, <2>2, <2>7, <2>10, InvAfter
<1>4. QED
  BY <1>2, <1>3

-----------------------------------------------------------------------------
(* startDownload *)

LEMMA LeastNatural ==
  ASSUME NEW T \in SUBSET Nat, T # {}
  PROVE  \E n \in T : \A m \in T : n <= m
<1>1. IsWellFoundedOn(OpToRel(<, Nat), Nat)
  BY NatLessThanWellFounded
<1>2. \E n \in T : \A m \in T : ~(<<m, n>> \in OpToRel(<, Nat))
  BY <1>1, WFMin, Zenon
<1>3. ASSUME NEW n \in T, NEW m \in T, m < n
      PROVE  <<m, n>> \in OpToRel(<, Nat)
  BY <1>3, m \in Nat, n \in Nat DEF OpToRel
<1>4. PICK n \in T : \A m \in T : ~(<<m, n>> \in OpToRel(<, Nat))
  BY <1>2
<1>5. \A m \in T : ~(m < n)
  BY <1>3, <1>4, Zenon
<1>6. \A m \in T : n <= m
  BY <1>5, T \subseteq Nat
<1>7. QED
  BY <1>6

LEMMA NextIDIsFresh ==
  ASSUME NEW w, Fresh(w) # {}
  PROVE  NextID(w) \in Fresh(w)
<1>1. Fresh(w) \in SUBSET Nat
  BY DownloadAssumption DEF Fresh
<1>2. QED
  BY <1>1, LeastNatural DEF NextID

LEMMA FreeCopyIsFree ==
  ASSUME NEW l \in Links, HasFreeCopy(l)
  PROVE  FreeCopy(l) \in Names \ DOMAIN finals /\ FreeCopy(l).link = l
<1> DEFINE c == CHOOSE x \in FreeCopies(l) : \A y \in FreeCopies(l) : x <= y
<1>1. FreeCopies(l) \in SUBSET Nat
  BY DownloadAssumption DEF FreeCopies
<1>2. c \in FreeCopies(l)
  BY <1>1, LeastNatural DEF HasFreeCopy
<1>3. FreeCopy(l) = [link |-> l, copy |-> c]
  BY DEF FreeCopy
<1> HIDE DEF c
<1>4. c \in 1..Copies /\ [link |-> l, copy |-> c] \notin DOMAIN finals
  BY <1>2 DEF FreeCopies
<1>5. c \in 0..Copies
  BY <1>4, DownloadAssumption
<1>6. QED
  BY <1>3, <1>4, <1>5 DEF Names

LEMMA LastAndFront ==
  ASSUME NEW C, NEW S \in Seq(C), S # <<>>
  PROVE  /\ Len(S) \in DOMAIN S /\ Last(S) = S[Len(S)] /\ Last(S) \in C
         /\ Front(S) \in Seq(C)
         /\ \A i \in DOMAIN Front(S) : i \in DOMAIN S /\ i # Len(S) /\ Front(S)[i] = S[i]
<1> DEFINE n == Len(S)
<1>1. n \in Nat /\ n # 0 /\ DOMAIN S = 1..n /\ \A i \in 1..n : S[i] \in C
  OBVIOUS
<1>2. Last(S) = S[n] /\ Front(S) = SubSeq(S, 1, n - 1)
  BY DEF Last, Front
<1>3. n - 1 \in Nat /\ n \in 1..n /\ 1..n - 1 \subseteq 1..n /\ n \notin 1..n - 1
  BY <1>1
<1>4. Front(S) = [i \in 1..n - 1 |-> S[i]]
  BY <1>1, <1>2
<1> HIDE DEF n
<1>5. Front(S) \in [1..n - 1 -> C]
  BY <1>1, <1>3, <1>4
<1>6. Front(S) \in Seq(C)
  BY <1>3, <1>5
<1>7. \A i \in DOMAIN Front(S) : i \in 1..n /\ i # n /\ Front(S)[i] = S[i]
  BY <1>3, <1>4
<1>8. QED
  BY <1>1, <1>2, <1>3, <1>6, <1>7 DEF n

\* The last call of startDownload is another one than those around it.
LEMMA Calls ==
  ASSUME NEW w, NEW S, Holds(w, S), S # <<>>
  PROVE  /\ Last(S) \in [of : Ids, asked : BOOLEAN]
         /\ Last(S).asked => HeldIn(w, Last(S).of)
         /\ Holds(w, Front(S))
         /\ \A i \in DOMAIN Front(S) : Front(S)[i].of # Last(S).of
<1> DEFINE C == [of : Ids, asked : BOOLEAN]
<1>1. S \in Seq(C)
  BY DEF Holds
<1>2. /\ Len(S) \in DOMAIN S /\ Last(S) = S[Len(S)] /\ Last(S) \in C
      /\ Front(S) \in Seq(C)
      /\ \A i \in DOMAIN Front(S) : i \in DOMAIN S /\ i # Len(S) /\ Front(S)[i] = S[i]
  <2> HIDE DEF C
  <2>1. QED
    BY <1>1, LastAndFront
<1>3. /\ \A i, j \in DOMAIN S : S[i].of = S[j].of => i = j
      /\ \A i \in DOMAIN S : S[i].asked => HeldIn(w, S[i].of)
  BY DEF Holds
<1>4. /\ \A i, j \in DOMAIN Front(S) : Front(S)[i].of = Front(S)[j].of => i = j
      /\ \A i \in DOMAIN Front(S) : Front(S)[i].asked => HeldIn(w, Front(S)[i].of)
  BY <1>2, <1>3
<1>5. Holds(w, Front(S))
  BY <1>2, <1>4 DEF Holds
<1>6. \A i \in DOMAIN Front(S) : Front(S)[i].of # Last(S).of
  BY <1>2, <1>3
<1>7. QED
  BY <1>2, <1>3, <1>5, <1>6

LEMMA CallAdded ==
  ASSUME NEW w, NEW S, Holds(w, S), NEW d \in Ids, NEW asked \in BOOLEAN,
         \A i \in DOMAIN S : S[i].of # d, asked => HeldIn(w, d)
  PROVE  Holds(w, Append(S, [of |-> d, asked |-> asked]))
<1> DEFINE s == [of |-> d, asked |-> asked]
           T == Append(S, s)
<1>1. S \in Seq([of : Ids, asked : BOOLEAN]) /\ s \in [of : Ids, asked : BOOLEAN]
      /\ s.of = d /\ s.asked = asked
  BY DEF Holds
<1> HIDE DEF s
<1>2. /\ T \in Seq([of : Ids, asked : BOOLEAN]) /\ DOMAIN T = 1..Len(S) + 1
      /\ Len(S) \in Nat /\ DOMAIN S = 1..Len(S)
      /\ \A i \in 1..Len(S) + 1 : T[i] = IF i = Len(S) + 1 THEN s ELSE S[i]
  BY <1>1
<1> HIDE DEF T
<1>3. \A i \in 1..Len(S) + 1 : i # Len(S) + 1 => i \in DOMAIN S
  BY <1>2
<1>4. \A i, j \in DOMAIN T : T[i].of = T[j].of => i = j
  BY <1>1, <1>2, <1>3 DEF Holds
<1>5. \A i \in DOMAIN T : T[i].asked => HeldIn(w, T[i].of)
  BY <1>1, <1>2, <1>3 DEF Holds
<1>6. QED
  BY <1>2, <1>4, <1>5 DEF Holds, T, s

LEMMA StartedKeeps ==
  ASSUME NEW w, WorldInv(w), NEW l \in Links, Started(w, l), Holds(w, starting),
         Queues(w, pending \ {l}), \A m \in DOMAIN w.parts : m.link # l
  PROVE  Inv'
<1> DEFINE d == NextID(w)
           n == [link |-> l, copy |-> 0]
           asked == n \in DOMAIN w.finals
           state == IF asked THEN "PAUSING" ELSE "DOWNLOADING"
           i == [name |-> n, unfinished |-> TRUE, state |-> state,
                 tries |-> Retries, reply |-> "running", position |-> 1, awaited |-> TRUE,
                 open |-> TRUE, wired |-> Connected(asked), bereft |-> FALSE]
           v == WithRow(w, d, i)
<1>1. /\ Fresh(w) # {} /\ Becomes(v) /\ pending' = pending \ {l}
      /\ starting' = Append(starting, [of |-> d, asked |-> asked])
  BY DEF Started, WithRow
<1>2. d \in Fresh(w)
  BY <1>1, NextIDIsFresh
<1>3. /\ d \in Ids \ DOMAIN w.info
      /\ \A r \in w.requests : r.of # d
      /\ \A j \in DOMAIN starting : starting[j].of # d
  BY <1>2 DEF Fresh, Range
<1>4. n \in Names /\ n.link = l
  BY DownloadAssumption DEF Names
<1>5. asked \in BOOLEAN /\ state \in States /\ Connected(asked) \in BOOLEAN
  BY DEF States, Connected
<1>6. 1 \in 1..Size + 2 /\ Retries \in 0..Retries
  BY DownloadAssumption
<1>7. /\ i \in Info /\ i.name = n /\ i.unfinished /\ i.state = state
      /\ i.wired = Connected(asked)
  <2> HIDE DEF n, asked, state
  <2>1. QED
    BY <1>4, <1>5, <1>6 DEF Info
<1> HIDE DEF d, n, i
<1>8. /\ WorldInv(v)
      /\ DOMAIN v.info = DOMAIN w.info \cup {d} /\ v.info[d] = i
      /\ \A e \in DOMAIN w.info : v.info[e] = w.info[e]
      /\ DOMAIN v.parts = DOMAIN w.parts \cup {n}
      /\ v.requests = w.requests
  <2>1. /\ i \in Info /\ i.unfinished /\ i.state \in {"PAUSING", "DOWNLOADING"}
        /\ \A m \in DOMAIN w.parts : m.link # i.name.link
    BY <1>4, <1>7
  <2>2. i.name = n
    BY <1>7
  <2> HIDE DEF asked, state
  <2>3. d \in Ids \ DOMAIN w.info
    BY <1>3
  <2>4. /\ WorldInv(v)
        /\ DOMAIN v.info = DOMAIN w.info \cup {d} /\ v.info[d] = i
        /\ \A e \in DOMAIN w.info : v.info[e] = w.info[e]
        /\ DOMAIN v.parts = DOMAIN w.parts \cup {i.name}
        /\ v.requests = w.requests
    BY <2>1, <2>3, NewRow
  <2>5. QED
    BY <2>2, <2>4
<1> HIDE DEF v
<1>9. asked => HeldIn(v, d)
  <2>1. asked => i.state = "PAUSING" /\ ~i.wired /\ i.unfinished
    BY <1>7 DEF Connected
  <2> HIDE DEF asked
  <2>2. QED
    BY <1>3, <1>8, <2>1 DEF HeldIn, HeldRow
<1>10. \A e : HeldIn(w, e) => HeldIn(v, e)
  BY <1>8 DEF HeldIn
<1>11. Holds(v, starting)
  BY <1>10 DEF Holds
<1>12. Holds(v, starting')
  <2> HIDE DEF asked
  <2>1. QED
    BY <1>1, <1>3, <1>5, <1>9, <1>11, CallAdded
<1>13. Queues(v, pending')
  BY <1>1, <1>4, <1>8 DEF Queues
<1>14. QED
  BY <1>1, <1>8, <1>12, <1>13, InvAfter

LEMMA URLsAvailableKeeps ==
  ASSUME Inv, NEW l \in Links, URLsAvailable(l)
  PROVE  Inv'
<1> DEFINE w == [world EXCEPT !.requests = @ \ {[kind |-> "urls", of |-> l]}]
<1>1. [kind |-> "urls", of |-> l] \in requests /\ Started(w, l)
  BY DEF URLsAvailable, Answered
<1>2. /\ DOMAIN w = {"list", "info", "parts", "finals", "requests"}
      /\ w.list = list /\ w.info = info /\ w.parts = parts /\ w.finals = finals
      /\ w.requests = requests \ {[kind |-> "urls", of |-> l]}
  BY DEF world
<1>3. /\ WorldInv(world) /\ Queues(world, pending) /\ Holds(world, starting)
      /\ world.list = list /\ world.info = info /\ world.parts = parts
      /\ world.finals = finals /\ world.requests = requests
  BY Fields DEF Inv
<1> HIDE DEF w
<1>4. \A k, m : [kind |-> k, of |-> m] \in w.requests <=>
                [kind |-> k, of |-> m] \in requests /\ ~(k = "urls" /\ m = l)
  BY <1>2, RequestKinds
<1>5. IsWorld(w)
  BY <1>2, <1>3 DEF WorldInv, IsWorld
<1>6. \A e \in DOMAIN w.info : HasFile(w, w.info[e]) /\ Waits(w, e, w.info[e])
  BY <1>2, <1>3, <1>4 DEF WorldInv, HasFile, Waits
<1>7. WorldInv(w)
  BY <1>2, <1>3, <1>5, <1>6 DEF WorldInv
<1>8. Holds(w, starting)
  BY <1>2, <1>3, <1>4 DEF Holds, HeldIn
<1>9. \A m \in DOMAIN w.parts : m.link # l
  BY <1>1, <1>2, <1>3 DEF Queues
<1>10. Queues(w, pending \ {l})
  BY <1>1, <1>2, <1>3, <1>4 DEF Queues
<1>11. QED
  BY <1>1, <1>7, <1>8, <1>9, <1>10, StartedKeeps

LEMMA BrowserDownloadKeeps ==
  ASSUME Inv, NEW l \in Links, BrowserDownload(l)
  PROVE  Inv'
<1>1. /\ l \in Browsed /\ l \notin pending /\ \A n \in DOMAIN parts : n.link # l
      /\ Started(world, l)
  BY DEF BrowserDownload, Wanted
<1>2. WorldInv(world) /\ Queues(world, pending) /\ Holds(world, starting) /\ world.parts = parts
  BY Fields DEF Inv
<1>3. Queues(world, pending \ {l})
  <2>1. pending \ {l} = pending
    BY <1>1
  <2>2. QED
    BY <1>2, <2>1
<1>4. QED
  BY <1>1, <1>2, <1>3, StartedKeeps

LEMMA InnermostCall ==
  ASSUME Inv, NEW d, NEW asked \in BOOLEAN, Innermost(d, asked)
  PROVE  /\ asked => HeldIn(world, d)
         /\ d \in Ids
         /\ Holds(world, Front(starting))
         /\ \A i \in DOMAIN Front(starting) : Front(starting)[i].of # d
         /\ pending' = pending
<1>1. starting # <<>> /\ Last(starting) = [of |-> d, asked |-> asked] /\ pending' = pending
  BY DEF Innermost
<1>2. Last(starting).of = d /\ Last(starting).asked = asked
  BY <1>1
<1>3. Holds(world, starting)
  BY DEF Inv
<1>4. /\ Last(starting) \in [of : Ids, asked : BOOLEAN]
      /\ Last(starting).asked => HeldIn(world, Last(starting).of)
      /\ Holds(world, Front(starting))
      /\ \A i \in DOMAIN Front(starting) : Front(starting)[i].of # Last(starting).of
  BY <1>1, <1>3, Calls
<1>5. QED
  BY <1>1, <1>2, <1>4

\* The call goes on without a question, after what it did to the row.
LEMMA CallGoesOnFrom ==
  ASSUME NEW u, Queues(u, pending), Holds(u, Front(starting)),
         NEW d \in Ids, NEW v, Becomes(v), WorldInv(v), OnlyRow(u, v, d),
         \A i \in DOMAIN Front(starting) : Front(starting)[i].of # d,
         pending' = pending,
         starting' \in {Front(starting), Append(Front(starting), [of |-> d, asked |-> FALSE])}
  PROVE  Inv'
<1>1. Queues(v, pending)
  BY OnlyRowQueues
<1>2. Holds(v, Front(starting))
  BY OnlyRowHolds
<1>3. Holds(v, Append(Front(starting), [of |-> d, asked |-> FALSE]))
  BY <1>2, CallAdded
<1>4. QED
  BY <1>1, <1>2, <1>3, InvAfter

LEMMA CallGoesOn ==
  ASSUME Inv, NEW d \in Ids, NEW v, Becomes(v), WorldInv(v), OnlyRow(world, v, d),
         Holds(world, Front(starting)), \A i \in DOMAIN Front(starting) : Front(starting)[i].of # d,
         pending' = pending,
         starting' \in {Front(starting), Append(Front(starting), [of |-> d, asked |-> FALSE])}
  PROVE  Inv'
BY CallGoesOnFrom DEF Inv

LEMMA AnswerNoKeeps ==
  ASSUME Inv, NEW d \in Ids, AnswerNo(d)
  PROVE  Inv'
<1> DEFINE v == [world EXCEPT !.info[d].state = "CANCELING"]
<1>1. /\ Innermost(d, TRUE) /\ Becomes(IF info[d].reply = "running" THEN v ELSE Cancel(v, d))
      /\ starting' = Append(Front(starting), [of |-> d, asked |-> FALSE])
  BY DEF AnswerNo
<1>2. /\ HeldIn(world, d) /\ Holds(world, Front(starting))
      /\ \A i \in DOMAIN Front(starting) : Front(starting)[i].of # d
      /\ pending' = pending
  BY <1>1, InnermostCall
<1>3. WorldInv(world) /\ d \in DOMAIN world.info
  BY <1>2 DEF Inv, HeldIn
<1>4. "CANCELING" \in States \ {"FETCHINGMODINFO", "FETCHINGFILEINFO"}
  BY DEF States
<1>5. /\ WorldInv(v) /\ OnlyRow(world, v, d) /\ DOMAIN v.info = DOMAIN world.info
      /\ v.info[d] = [world.info[d] EXCEPT !.state = "CANCELING"]
  BY <1>3, <1>4, StateSet
<1> HIDE DEF v
<1>6. WorldInv(Cancel(v, d)) /\ OnlyRow(v, Cancel(v, d), d)
  BY <1>3, <1>5, CancelKeeps
<1>7. OnlyRow(world, Cancel(v, d), d)
  BY <1>5, <1>6, OnlyRowTwice
<1>8. QED
  BY <1>1, <1>2, <1>5, <1>6, <1>7, CallGoesOn

LEMMA StartEndsKeeps ==
  ASSUME Inv, NEW d \in Ids, StartEnds(d)
  PROVE  Inv'
<1> DEFINE i == [world.info[d] EXCEPT !.awaited = FALSE]
           w == [world EXCEPT !.info[d] = i]
<1>1. Innermost(d, FALSE) /\ starting' = Front(starting)
  BY DEF StartEnds
<1>2. /\ Holds(world, Front(starting))
      /\ \A j \in DOMAIN Front(starting) : Front(starting)[j].of # d
      /\ pending' = pending
  BY <1>1, InnermostCall
<1>3. WorldInv(world) /\ OnlyRow(world, world, d) /\ world.info = info
  BY Fields DEF Inv, OnlyRow
<1>4. CASE d \notin DOMAIN info
  <2>1. Becomes(world)
    BY <1>4 DEF StartEnds
  <2>2. QED
    BY <1>1, <1>2, <1>3, <2>1, CallGoesOn
<1>5. CASE d \in DOMAIN info
  <2>1. w = [world EXCEPT !.info[d].awaited = FALSE]
    BY <1>3, <1>5 DEF WorldInv, IsWorld
  <2>2. Becomes(FinishedAt(w, d)) \/ Becomes(w)
    BY <1>5, <2>1 DEF StartEnds
  <2>3. world.info[d] \in Info
    BY <1>3, <1>5 DEF WorldInv, IsWorld
  <2>4. Same(i, world.info[d])
    BY <2>3 DEF Info, Same
  <2> HIDE DEF i
  <2>5. WorldInv(w) /\ OnlyRow(world, w, d) /\ DOMAIN w.info = DOMAIN world.info /\ w.info[d] = i
    BY <1>3, <1>5, <2>4, RowStays
  <2> HIDE DEF w
  <2>6. WorldInv(FinishedAt(w, d)) /\ OnlyRow(w, FinishedAt(w, d), d)
    BY <1>3, <1>5, <2>5, FinishedAtKeeps
  <2>7. OnlyRow(world, FinishedAt(w, d), d)
    BY <2>5, <2>6, OnlyRowTwice
  <2>8. QED
    BY <1>1, <1>2, <2>2, <2>5, <2>6, <2>7, CallGoesOn
<1>6. QED
  BY <1>4, <1>5

LEMMA AnswerYesKeeps ==
  ASSUME Inv, NEW d \in Ids, AnswerYes(d)
  PROVE  Inv'
<1> DEFINE l == info[d].name.link
           v == Renamed(world, d, FreeCopy(l))
           r == [v EXCEPT !.info[d].state = "DOWNLOADING"]
<1>1. /\ Innermost(d, TRUE) /\ HasFreeCopy(l)
      /\ Becomes(IF info[d].state = "PAUSED" THEN ResumeOf(v, d) ELSE r)
      /\ starting' = Append(Front(starting), [of |-> d, asked |-> FALSE])
  BY DEF AnswerYes
<1>2. /\ HeldIn(world, d) /\ Holds(world, Front(starting))
      /\ \A i \in DOMAIN Front(starting) : Front(starting)[i].of # d
      /\ pending' = pending
  BY <1>1, InnermostCall
<1>3. /\ WorldInv(world) /\ Queues(world, pending) /\ d \in DOMAIN world.info
      /\ world.info[d].unfinished /\ world.info = info /\ world.finals = finals
  BY <1>2, Fields DEF Inv, HeldIn, HeldRow
<1>4. l \in Links /\ l = world.info[d].name.link
  BY <1>3 DEF WorldInv, IsWorld, Info, Names
<1>5. FreeCopy(l) \in Names \ DOMAIN world.finals /\ FreeCopy(l).link = world.info[d].name.link
  BY <1>1, <1>3, <1>4, FreeCopyIsFree
<1>6. /\ WorldInv(v)
      /\ DOMAIN v.info = DOMAIN world.info
      /\ \A e \in DOMAIN world.info \ {d} : v.info[e] = world.info[e]
      /\ v.requests = world.requests
      /\ \A m \in DOMAIN v.parts : \E k \in DOMAIN world.parts : k.link = m.link
  BY <1>3, <1>5, RenamedKeeps
<1> HIDE DEF v
<1>7. Queues(v, pending)
  BY <1>3, <1>6 DEF Queues
<1>8. \A e : e # d /\ HeldIn(world, e) => HeldIn(v, e)
  BY <1>6 DEF HeldIn
<1>9. Holds(v, Front(starting))
  BY <1>2, <1>8 DEF Holds
<1>10. CASE info[d].state = "PAUSED"
  <2>1. WorldInv(ResumeOf(v, d)) /\ OnlyRow(v, ResumeOf(v, d), d)
    BY <1>3, <1>6, ResumeOfKeeps
  <2>2. QED
    BY <1>1, <1>2, <1>7, <1>9, <1>10, <2>1, CallGoesOnFrom
<1>11. CASE info[d].state # "PAUSED"
  <2>1. "DOWNLOADING" \in States \ {"FETCHINGMODINFO", "FETCHINGFILEINFO"}
    BY DEF States
  <2>2. /\ WorldInv(r) /\ OnlyRow(v, r, d)
        /\ r.info[d] = [v.info[d] EXCEPT !.state = "DOWNLOADING"]
    BY <1>3, <1>6, <2>1, StateSet
  <2> HIDE DEF r
  <2>3. QED
    BY <1>1, <1>2, <1>7, <1>9, <1>11, <2>2, CallGoesOnFrom
<1>12. QED
  BY <1>10, <1>11

LEMMA RestartKeeps ==
  ASSUME Inv, Restart
  PROVE  Inv'
<1> DEFINE w == [world EXCEPT !.list = <<>>, !.info = <<>>, !.requests = {}]
<1>1. EnoughIds(w) /\ Becomes(Refreshed(w)) /\ pending' = {} /\ starting' = <<>>
  BY DEF Restart
<1>2. /\ DOMAIN w = {"list", "info", "parts", "finals", "requests"}
      /\ w.list = <<>> /\ w.info = <<>> /\ w.parts = world.parts /\ w.finals = world.finals
      /\ w.requests = {}
  BY DEF world
<1> HIDE DEF w
<1>3. w.list \in Seq(Ids) /\ IsInjective(w.list) /\ Range(w.list) = {} /\ DOMAIN w.info = {}
  BY <1>2 DEF IsInjective, Range
<1>4. IsWorld(w)
  BY <1>2, <1>3 DEF Inv, WorldInv, IsWorld
<1>5. WorldInv(w)
  BY <1>2, <1>3, <1>4 DEF Inv, WorldInv
<1>6. Queues(w, pending')
  BY <1>1, <1>2 DEF Queues
<1>7. Holds(w, starting')
  BY <1>1 DEF Holds
<1>8. QED
  BY <1>1, <1>5, <1>6, <1>7, RefreshStep

LEMMA AskedKeeps ==
  ASSUME Inv, Asked
  PROVE  Inv'
<1>1. ASSUME NEW l \in Links,
             \/ AddNXMDownload(l) \/ BrowserDownload(l)
             \/ FileInfoAvailable(l) \/ NotAvailable(l) \/ URLsAvailable(l)
      PROVE  Inv'
  BY <1>1, AddNXMDownloadKeeps, BrowserDownloadKeeps, FileInfoAvailableKeeps,
     NotAvailableKeeps, URLsAvailableKeeps
<1>2. ASSUME NEW d \in Ids,
             \/ DescriptionAvailable(d) \/ FilesAvailable(d) \/ RequestFailed(d)
             \/ AnswerNo(d) \/ AnswerYes(d) \/ StartEnds(d)
      PROVE  Inv'
  <2>1. CASE FilesAvailable(d)
    BY <2>1, ReadyKeeps DEF FilesAvailable, Answered
  <2>2. QED
    BY <1>2, <2>1, DescriptionAvailableKeeps, RequestFailedKeeps, AnswerNoKeeps, AnswerYesKeeps,
       StartEndsKeeps
<1>3. QED
  BY <1>1, <1>2 DEF Asked

LEMMA InvInit == Init => Inv
<1>1. SUFFICES ASSUME Init PROVE Inv
  OBVIOUS
<1>2. /\ list = <<>> /\ info = <<>> /\ parts = <<>> /\ finals = <<>> /\ requests = {}
      /\ pending = {} /\ starting = <<>>
  BY <1>1 DEF Init
<1>3. list \in Seq(Ids) /\ IsInjective(list) /\ Range(list) = {}
  BY <1>2 DEF IsInjective, Range
<1>4. IsWorld(world)
  BY <1>2, <1>3, Fields DEF IsWorld
<1>5. WorldInv(world)
  BY <1>2, <1>4, Fields DEF WorldInv
<1>6. Queues(world, pending) /\ Holds(world, starting)
  BY <1>2, Fields DEF Queues, Holds
<1>7. QED
  BY <1>5, <1>6 DEF Inv

LEMMA InvNext ==
  ASSUME Inv, [Next]_vars
  PROVE  Inv'
<1>1. CASE UNCHANGED vars
  <2>1. UNCHANGED <<list, info, parts, finals, requests, pending, starting>>
    BY <1>1 DEF vars, files, rest
  <2>2. Becomes(world) /\ Queues(world, pending') /\ Holds(world, starting')
    BY <2>1, Fields DEF Becomes, Inv
  <2>3. QED
    BY <2>2, InvAfter DEF Inv
<1>2. QED
  BY <1>1, ListedKeeps, AskedKeeps, PauseAllKeeps, DirectoryChangedKeeps, RestartKeeps DEF Next

THEOREM Invariance == Spec => []Inv
BY InvInit, InvNext, PTL DEF Spec

\* The list shows each download once, in a state it can have, and tries and pieces
\* are counted within their bounds.
THEOREM TypeCorrect == Spec => []TypeOK
<1>1. Inv => TypeOK
  BY Fields DEF Inv, WorldInv, IsWorld, Queues, Holds, TypeOK
<1>2. QED
  BY <1>1, Invariance, PTL

\* Nothing waits for the Nexus in vain: what it is asked about is put on record before
\* a row or a queued link waits for it, and no slot takes the record away before the wait
\* is over.
THEOREM WaitersRequested == Spec => []WaitersAreRequested
<1>1. Inv => FetchingIsRequested
  BY Fields DEF Inv, WorldInv, Waits, FetchingIsRequested
<1>2. Inv => PendingIsRequested
  BY Fields DEF Inv, Queues, PendingIsRequested
<1>3. Inv => WaitersAreRequested
  BY <1>1, <1>2 DEF WaitersAreRequested
<1>4. QED
  BY <1>3, Invariance, PTL

\* No two rows stand for one file, unless one lost its own to another row's removal.
THEOREM OneEntry == Spec => []OneEntryPerFile
<1>1. Inv => OneEntryPerFile
  BY Fields DEF Inv, WorldInv, Apart, OneEntryPerFile
<1>2. QED
  BY <1>1, Invariance, PTL

\* The download that a question is about is listed as long as the question is open.
THEOREM AskedListed == Spec => []AskedIsListed
<1>1. Inv => AskedIsListed
  BY Fields DEF Inv, Holds, HeldIn, AskedIsListed, Range
<1>2. QED
  BY <1>1, Invariance, PTL

-----------------------------------------------------------------------------
(* Whole files, of a program that never has to ask "Download again?" *)

\* The states of a row whose file has its final name.
Over == {"FETCHINGMODINFO", "FETCHINGFILEINFO", "READY"}

\* A row has a part until it is over, and finished() of its reply is connected.
Plain(i) ==
  /\ i.bereft = FALSE
  /\ i.unfinished = (i.state \notin Over)
  /\ i.state \in Over => i.reply = "none"
  /\ i.reply \in {"none", "running"}
  /\ i.reply = "running" => i.wired

\* What has been read to its end was written to its end.
ReadToEnd(w, i) == i.reply = "running" /\ i.position = Size + 1 => w.parts[i.name].last = Size

\* The Nexus is asked about rows that are over.
AskedOver(w, d) ==
  \A kind \in {"description", "files"} :
    [kind |-> kind, of |-> d] \in w.requests => w.info[d].state \in Over

WholeFile(w, n) == n \in DOMAIN w.finals => n \notin DOMAIN w.parts /\ w.finals[n].last = Size

Whole(w) ==
  /\ \A n : WholeFile(w, n)
  /\ \A d \in DOMAIN w.info :
       Plain(w.info[d]) /\ ReadToEnd(w, w.info[d]) /\ AskedOver(w, d)

\* The same but for the row d and the file of the name n.
WholeBut(w, d, n) ==
  /\ \A m : m # n => WholeFile(w, m)
  /\ \A e \in DOMAIN w.info \ {d} :
       /\ Plain(w.info[e]) /\ ReadToEnd(w, w.info[e]) /\ AskedOver(w, e)
       /\ w.info[e].name # n

\* And of that row and file.
WholeRow(w, d, n) ==
  /\ WholeFile(w, n)
  /\ d \in DOMAIN w.info =>
       /\ w.info[d].name = n
       /\ Plain(w.info[d]) /\ ReadToEnd(w, w.info[d]) /\ AskedOver(w, d)

\* No other row and no other file changes from w to v, and no file appears.
OnlyFile(w, v, d, n) ==
  /\ DOMAIN w.info \ {d} \subseteq DOMAIN v.info /\ DOMAIN v.info \subseteq DOMAIN w.info
  /\ \A e \in DOMAIN w.info \ {d} : v.info[e] = w.info[e]
  /\ \A m : m # n => (m \in DOMAIN v.parts <=> m \in DOMAIN w.parts)
  /\ \A m : m # n => (m \in DOMAIN v.finals <=> m \in DOMAIN w.finals)
  /\ \A m \in DOMAIN w.parts : m # n => v.parts[m] = w.parts[m]
  /\ \A m \in DOMAIN w.finals : m # n => v.finals[m] = w.finals[m]
  /\ DOMAIN v.parts \cup DOMAIN v.finals \subseteq DOMAIN w.parts \cup DOMAIN w.finals
  /\ \A e, kind : e # d /\ [kind |-> kind, of |-> e] \in v.requests =>
                    [kind |-> kind, of |-> e] \in w.requests

LEMMA OnlyFileTwice ==
  ASSUME NEW u, NEW v, NEW w, NEW d, NEW n, OnlyFile(u, v, d, n), OnlyFile(v, w, d, n)
  PROVE  OnlyFile(u, w, d, n)
BY DEF OnlyFile

\* Rows have names of their own.
LEMMA NamesDiffer ==
  ASSUME NEW w, WorldInv(w), Whole(w), NEW d \in DOMAIN w.info, NEW e \in DOMAIN w.info, d # e
  PROVE  w.info[d].name # w.info[e].name
<1>1. /\ HasFile(w, w.info[d]) /\ HasFile(w, w.info[e]) /\ Apart(w.info[d], w.info[e])
      /\ w.info[d].bereft = FALSE /\ w.info[e].bereft = FALSE
      /\ \A n : WholeFile(w, n)
  BY DEF WorldInv, Whole, Plain
<1>2. w.info[d].unfinished \in BOOLEAN /\ w.info[e].unfinished \in BOOLEAN
  BY DEF WorldInv, IsWorld, Info
<1>3. SUFFICES ASSUME w.info[d].name = w.info[e].name PROVE FALSE
  OBVIOUS
<1>4. w.info[d].unfinished # w.info[e].unfinished
  BY <1>1, <1>3 DEF Apart
<1>5. QED
  BY <1>1, <1>2, <1>3, <1>4 DEF HasFile, WholeFile

\* Whole is a matter of each row and the rest.
LEMMA WholeParts ==
  ASSUME NEW w, WorldInv(w), Whole(w), NEW d \in DOMAIN w.info, NEW n, n = w.info[d].name
  PROVE  WholeBut(w, d, n) /\ WholeRow(w, d, n)
<1>1. \A e \in DOMAIN w.info \ {d} : w.info[e].name # n
  BY NamesDiffer
<1>2. QED
  BY <1>1 DEF Whole, WholeBut, WholeRow

LEMMA PartsWhole ==
  ASSUME NEW w, NEW d, NEW n, WholeBut(w, d, n), WholeRow(w, d, n)
  PROVE  Whole(w)
BY DEF Whole, WholeBut, WholeRow

LEMMA RestStays ==
  ASSUME NEW w, NEW v, NEW d, NEW n, WorldInv(w), WholeBut(w, d, n), OnlyFile(w, v, d, n)
  PROVE  WholeBut(v, d, n)
<1>1. \A m : m # n => WholeFile(v, m)
  BY DEF WholeBut, WholeFile, OnlyFile
<1>2. ASSUME NEW e \in DOMAIN v.info \ {d}
      PROVE  /\ Plain(v.info[e]) /\ ReadToEnd(v, v.info[e]) /\ AskedOver(v, e)
             /\ v.info[e].name # n
  <2>1. /\ e \in DOMAIN w.info \ {d} /\ v.info[e] = w.info[e]
        /\ Plain(w.info[e]) /\ ReadToEnd(w, w.info[e]) /\ AskedOver(w, e)
        /\ w.info[e].name # n
    BY DEF WholeBut, OnlyFile
  <2>2. w.info[e].reply = "running" => w.info[e].name \in DOMAIN w.parts
    <3>1. HasFile(w, w.info[e])
      BY <2>1 DEF WorldInv
    <3>2. w.info[e].reply = "running" => w.info[e].unfinished
      BY <2>1 DEF Plain
    <3>3. QED
      BY <3>1, <3>2 DEF HasFile
  <2>3. w.info[e].reply = "running" => v.parts[w.info[e].name] = w.parts[w.info[e].name]
    BY <2>1, <2>2 DEF OnlyFile
  <2>4. \A kind : [kind |-> kind, of |-> e] \in v.requests => [kind |-> kind, of |-> e] \in w.requests
    BY DEF OnlyFile
  <2>5. ReadToEnd(v, v.info[e])
    BY <2>1, <2>3 DEF ReadToEnd
  <2>6. AskedOver(v, e)
    BY <2>1, <2>4 DEF AskedOver
  <2>7. QED
    BY <2>1, <2>5, <2>6
<1>3. QED
  BY <1>1, <1>2 DEF WholeBut

\* A part whose row is on its way.
Part(w, d, n) ==
  /\ d \in DOMAIN w.info /\ w.info[d].name = n
  /\ w.info[d].unfinished = TRUE /\ w.info[d].bereft = FALSE
  /\ n \in DOMAIN w.parts /\ n \notin DOMAIN w.finals
  /\ \A kind \in {"description", "files"} : [kind |-> kind, of |-> d] \notin w.requests

\* And whose reply, if there is one, is running and connected.
Loose(w, d, n) ==
  /\ Part(w, d, n)
  /\ w.info[d].state \notin Over
  /\ w.info[d].reply \in {"none", "running"}
  /\ w.info[d].reply = "running" => w.info[d].wired

LEMMA LooseRow ==
  ASSUME NEW w, WorldInv(w), NEW d \in DOMAIN w.info, NEW n, WholeRow(w, d, n),
         w.info[d].state \notin Over
  PROVE  Loose(w, d, n)
<1>1. w.info[d].name = n /\ Plain(w.info[d]) /\ AskedOver(w, d) /\ WholeFile(w, n)
  BY DEF WholeRow
<1>2. w.info[d].unfinished = TRUE
  BY <1>1 DEF Plain
<1>3. n \in DOMAIN w.parts
  BY <1>1, <1>2 DEF WorldInv, HasFile
<1>4. QED
  BY <1>1, <1>2, <1>3 DEF Loose, Part, WholeFile, AskedOver, Plain

\* A part has a file of the size that was written.
LEMMA PartData ==
  ASSUME NEW w, WorldInv(w), NEW d, NEW n, Part(w, d, n)
  PROVE  Data(w, d) = w.parts[n] /\ Data(w, d) \in Written
BY DEF Part, Data, WorldInv, IsWorld

\* A row that is changed and still on its way.
LEMMA PartChanged ==
  ASSUME NEW w, WorldInv(w), NEW d, NEW n, Part(w, d, n), NEW i \in Info,
         i.name = n, i.unfinished = TRUE, i.bereft = FALSE
  PROVE  LET v == [w EXCEPT !.info[d] = i]
         IN  /\ OnlyFile(w, v, d, n) /\ Part(v, d, n) /\ v.info[d] = i
             /\ v.parts = w.parts /\ v.finals = w.finals /\ v.requests = w.requests
<1> DEFINE v == [w EXCEPT !.info[d] = i]
<1>1. /\ DOMAIN v.info = DOMAIN w.info /\ v.info[d] = i
      /\ \A e \in DOMAIN w.info \ {d} : v.info[e] = w.info[e]
      /\ v.parts = w.parts /\ v.finals = w.finals /\ v.requests = w.requests
  BY DEF WorldInv, IsWorld, Part
<1> HIDE DEF v
<1>2. OnlyFile(w, v, d, n)
  BY <1>1 DEF OnlyFile
<1>3. Part(v, d, n)
  BY <1>1 DEF Part
<1>4. QED
  BY <1>1, <1>2, <1>3 DEF v

\* Such a row leaves a whole file, if its state and its reply fit.
LEMMA PartWhole ==
  ASSUME NEW v, NEW d, NEW n, Loose(v, d, n),
         v.info[d].reply = "running" /\ v.info[d].position = Size + 1 => v.parts[n].last = Size
  PROVE  WholeRow(v, d, n)
<1>1. WholeFile(v, n) /\ AskedOver(v, d) /\ v.info[d].name = n
  BY DEF Loose, Part, WholeFile, AskedOver
<1>2. Plain(v.info[d])
  BY DEF Loose, Part, Plain
<1>3. ReadToEnd(v, v.info[d])
  BY <1>1 DEF ReadToEnd
<1>4. QED
  BY <1>1, <1>2, <1>3 DEF WholeRow

\* Something is written to the part.
LEMMA PutPart ==
  ASSUME NEW w, WorldInv(w), NEW d, NEW n, Part(w, d, n), NEW data
  PROVE  LET v == Put(w, d, data)
         IN  /\ OnlyFile(w, v, d, n) /\ Part(v, d, n) /\ v.info = w.info
             /\ v.parts[n] = data
<1> DEFINE v == Put(w, d, data)
<1>1. /\ v.info = w.info /\ v.requests = w.requests
      /\ v.parts = More(w.parts, n, data) /\ v.finals = w.finals
  BY DEF WorldInv, IsWorld, Put, Part
<1> HIDE DEF v
<1>2. n \in DOMAIN w.parts
  BY DEF Part
<1>3. /\ DOMAIN v.parts = DOMAIN w.parts /\ v.parts[n] = data
      /\ \A m \in DOMAIN w.parts : m # n => v.parts[m] = w.parts[m]
  BY <1>1, <1>2 DEF More
<1>4. OnlyFile(w, v, d, n)
  BY <1>1, <1>3 DEF OnlyFile
<1>5. Part(v, d, n)
  BY <1>1, <1>3 DEF Part
<1>6. QED
  BY <1>1, <1>3, <1>4, <1>5 DEF v

\* What a slot leaves: the rest as it was, and its own row and file whole.
Left(w, v, d, n) == OnlyFile(w, v, d, n) /\ WholeRow(v, d, n)

\* A reply to a request for what is there, or for what is not, is no reply to the end.
LEMMA StartReplyPart ==
  ASSUME NEW w, WorldInv(w), NEW d, NEW n, Part(w, d, n), NEW position \in Nat \ {0}
  PROVE  LET v == StartReply(w, d, position)
         IN  Left(w, v, d, n) /\ Part(v, d, n)
<1> DEFINE p == IF position > Size THEN Size + 2 ELSE position
           i == [w.info[d] EXCEPT !.state = "DOWNLOADING",
                                  !.reply = "running",
                                  !.position = p,
                                  !.open = TRUE,
                                  !.wired = TRUE,
                                  !.awaited = FALSE]
           u == [w EXCEPT !.info[d] = i]
           v == Put(u, d, Data(w, d))
<1>1. StartReply(w, d, position) = v
  BY DEF StartReply
<1>2. w.info[d] \in Info
  BY DEF Part, WorldInv, IsWorld
<1>3. p \in 1..Size + 2 /\ p # Size + 1
  BY DownloadAssumption
<1> HIDE DEF p
<1>4. /\ i \in Info /\ i.name = n /\ i.unfinished = TRUE /\ i.bereft = FALSE
      /\ i.state = "DOWNLOADING" /\ i.reply = "running" /\ i.wired = TRUE /\ i.position = p
  BY <1>2, <1>3 DEF Part, Info, States
<1> HIDE DEF i
<1>5. Waits(w, d, i)
  <2>1. i.state = "DOWNLOADING"
    BY <1>4
  <2>2. QED
    BY <2>1 DEF Waits
<1>6. WorldInv(u)
  <2>1. /\ d \in DOMAIN w.info /\ i \in Info /\ i.name = w.info[d].name
        /\ i.unfinished = w.info[d].unfinished /\ i.bereft = w.info[d].bereft
    BY <1>4 DEF Part
  <2>2. QED
    BY <1>5, <2>1, RowChanges
<1>7. OnlyFile(w, u, d, n) /\ Part(u, d, n) /\ u.info[d] = i
  <2>1. i \in Info /\ i.name = n /\ i.unfinished = TRUE /\ i.bereft = FALSE
    BY <1>4
  <2>2. OnlyFile(w, u, d, n) /\ Part(u, d, n)
    BY <2>1, PartChanged
  <2>3. u.info[d] = i
    BY <2>1 DEF Part, WorldInv, IsWorld
  <2>4. QED
    BY <2>2, <2>3
<1> HIDE DEF u
<1>8. OnlyFile(u, v, d, n) /\ Part(v, d, n) /\ v.info = u.info
  BY <1>6, <1>7, PutPart
<1> HIDE DEF v
<1>9. Loose(v, d, n) /\ v.info[d].position # Size + 1
  BY <1>3, <1>4, <1>7, <1>8 DEF Loose, Over
<1>10. WholeRow(v, d, n)
  BY <1>9, PartWhole
<1>11. OnlyFile(w, v, d, n)
  BY <1>7, <1>8, OnlyFileTwice
<1>12. QED
  BY <1>1, <1>8, <1>10, <1>11 DEF Left

LEMMA RetryPart ==
  ASSUME NEW w, WorldInv(w), NEW d, NEW n, Part(w, d, n), ~GiveUp(w, d)
  PROVE  LET v == Retry(w, d)
         IN  Left(w, v, d, n) /\ Part(v, d, n)
<1> DEFINE i == [w.info[d] EXCEPT !.tries = @ - 1]
           u == [w EXCEPT !.info[d] = i]
<1>1. u = [w EXCEPT !.info[d].tries = @ - 1]
  BY DEF Part, WorldInv, IsWorld
<1>2. w.info[d] \in Info
  BY DEF Part, WorldInv, IsWorld
<1>3. w.info[d].tries - 1 \in 0..Retries
  BY <1>2, DownloadAssumption DEF Info, GiveUp
<1>4. Same(i, w.info[d]) /\ i \in Info
  BY <1>2, <1>3 DEF Info, Same
<1>5. i.name = n /\ i.unfinished = TRUE /\ i.bereft = FALSE
  BY <1>4 DEF Same, Part
<1> HIDE DEF i
<1>6. WorldInv(u)
  BY <1>4, RowStays DEF Part
<1>7. OnlyFile(w, u, d, n) /\ Part(u, d, n)
  BY <1>4, <1>5, PartChanged
<1>8. Retry(w, d) = StartReply(u, d, 1)
  BY <1>1 DEF Retry
<1> HIDE DEF u
<1>9. Left(u, StartReply(u, d, 1), d, n) /\ Part(StartReply(u, d, 1), d, n)
  BY <1>6, <1>7, StartReplyPart
<1>10. QED
  BY <1>7, <1>8, <1>9, OnlyFileTwice DEF Left

\* The part of a row is deleted and the row forgotten.
LEMMA PartForgotten ==
  ASSUME NEW w, WorldInv(w), NEW d, NEW n, Part(w, d, n)
  PROVE  LET v == Forget(RemoveOutput(w, d), d)
         IN  Left(w, v, d, n) /\ d \notin DOMAIN v.info
<1> DEFINE u == RemoveOutput(w, d)
           K == DOMAIN u.info \ {d}
           v == Only(u, K)
<1>1. /\ DOMAIN u = DOMAIN w /\ u.info = w.info /\ u.list = w.list
      /\ u.finals = w.finals /\ u.requests = w.requests
      /\ DOMAIN u.parts = DOMAIN w.parts \ {n}
      /\ \A m \in DOMAIN u.parts : u.parts[m] = w.parts[m]
  BY DEF Part, WorldInv, IsWorld, RemoveOutput, Less, Restrict
<1> HIDE DEF u
<1>2. IsWorld(u)
  BY <1>1 DEF WorldInv, IsWorld
<1>3. /\ DOMAIN v.info = K /\ \A e \in K : v.info[e] = u.info[e]
      /\ v.parts = u.parts /\ v.finals = u.finals /\ v.requests = u.requests
  BY <1>2, OnlyKeeps
<1>4. Forget(RemoveOutput(w, d), d) = v
  BY DEF Forget, u
<1> HIDE DEF v
<1>5. OnlyFile(w, v, d, n)
  BY <1>1, <1>3 DEF OnlyFile
<1>6. WholeFile(v, n) /\ d \notin DOMAIN v.info
  BY <1>1, <1>3 DEF Part, WholeFile
<1>7. QED
  BY <1>4, <1>5, <1>6 DEF Left, WholeRow

\* A part that was written to its end becomes a final file.
LEMMA PartFinalized ==
  ASSUME NEW w, WorldInv(w), NEW d, NEW n, Part(w, d, n), w.parts[n].last = Size,
         w.info[d].reply = "none"
  PROVE  Left(w, Finalize(Ask([w EXCEPT !.info[d].state = "FETCHINGMODINFO"], d, "description"), d),
              d, n)
<1> DEFINE i == [w.info[d] EXCEPT !.state = "FETCHINGMODINFO"]
           a == Ask([w EXCEPT !.info[d] = i], d, "description")
           j == [i EXCEPT !.unfinished = FALSE]
           v == Finalize(a, d)
<1>1. [w EXCEPT !.info[d].state = "FETCHINGMODINFO"] = [w EXCEPT !.info[d] = i]
  BY DEF Part, WorldInv, IsWorld
<1>2. w.info[d] \in Info /\ d \in DOMAIN w.info
  BY DEF Part, WorldInv, IsWorld
<1>3. /\ i.name = n /\ i.unfinished = TRUE /\ i.bereft = FALSE
      /\ j.name = n /\ j.unfinished = FALSE /\ j.bereft = FALSE
      /\ j.state = "FETCHINGMODINFO" /\ j.reply = "none"
  BY <1>2 DEF Part, Info
<1> HIDE DEF i
<1>4. /\ DOMAIN a = DOMAIN w
      /\ DOMAIN a.info = DOMAIN w.info /\ a.info[d] = i
      /\ \A e \in DOMAIN w.info \ {d} : a.info[e] = w.info[e]
      /\ a.parts = w.parts /\ a.finals = w.finals
      /\ a.requests = w.requests \cup {[kind |-> "description", of |-> d]}
  BY <1>2 DEF WorldInv, IsWorld, Ask
<1> HIDE DEF a
<1>5. n \in DOMAIN w.parts /\ n \notin DOMAIN w.finals
  BY DEF Part
<1>6. /\ DOMAIN v.info = DOMAIN a.info /\ v.info[d] = j
      /\ \A e \in DOMAIN a.info \ {d} : v.info[e] = a.info[e]
      /\ v.parts = Less(a.parts, n) /\ v.finals = More(a.finals, n, a.parts[n])
      /\ v.requests = a.requests
  <2>1. v = [a EXCEPT !.finals = More(@, n, a.parts[n]),
                      !.parts = Less(@, n),
                      !.info[d].unfinished = FALSE]
    BY <1>3, <1>4, <1>5 DEF Finalize
  <2> HIDE DEF v
  <2>2. QED
    BY <1>2, <1>4, <2>1 DEF WorldInv, IsWorld
<1> HIDE DEF v, j
<1>7. /\ DOMAIN v.parts = DOMAIN w.parts \ {n}
      /\ \A m \in DOMAIN v.parts : v.parts[m] = w.parts[m]
      /\ DOMAIN v.finals = DOMAIN w.finals \cup {n} /\ v.finals[n] = w.parts[n]
      /\ \A m \in DOMAIN w.finals : m # n => v.finals[m] = w.finals[m]
  BY <1>4, <1>6 DEF Less, Restrict, More
<1>8. OnlyFile(w, v, d, n)
  <2>1. \A e, kind : e # d => [kind |-> kind, of |-> e] # [kind |-> "description", of |-> d]
    BY RequestKinds
  <2>2. \A e, kind : e # d /\ [kind |-> kind, of |-> e] \in v.requests =>
                       [kind |-> kind, of |-> e] \in w.requests
    BY <1>4, <1>6, <2>1
  <2>3. QED
    BY <1>4, <1>5, <1>6, <1>7, <2>2 DEF OnlyFile
<1>9. WholeFile(v, n)
  BY <1>7 DEF WholeFile
<1>10. Plain(v.info[d]) /\ ReadToEnd(v, v.info[d]) /\ AskedOver(v, d) /\ v.info[d].name = n
  BY <1>3, <1>6 DEF Plain, ReadToEnd, AskedOver, Over
<1>11. QED
  BY <1>1, <1>8, <1>9, <1>10 DEF Left, WholeRow, v, a

LEMMA OnlyFileOnce ==
  ASSUME NEW w, NEW d, NEW n
  PROVE  OnlyFile(w, w, d, n)
BY DEF OnlyFile

LEMMA LeftTwice ==
  ASSUME NEW u, NEW v, NEW w, NEW d, NEW n, OnlyFile(u, v, d, n), Left(v, w, d, n)
  PROVE  Left(u, w, d, n)
BY OnlyFileTwice DEF Left

\* What else the slots change in the row of a part.
LEMMA PartStays ==
  ASSUME NEW w, WorldInv(w), NEW d, NEW n, Part(w, d, n), NEW i, Same(i, w.info[d])
  PROVE  LET v == [w EXCEPT !.info[d] = i]
         IN  /\ WorldInv(v) /\ OnlyFile(w, v, d, n) /\ Part(v, d, n) /\ v.info[d] = i
             /\ v.parts = w.parts
<1> DEFINE v == [w EXCEPT !.info[d] = i]
<1>1. d \in DOMAIN w.info
  BY DEF Part
<1>2. i \in Info /\ i.name = n /\ i.unfinished = TRUE /\ i.bereft = FALSE
  BY DEF Same, Part
<1>3. WorldInv(v) /\ v.info[d] = i /\ v.parts = w.parts
  BY <1>1, RowStays
<1>4. OnlyFile(w, v, d, n) /\ Part(v, d, n)
  BY <1>2, PartChanged
<1> HIDE DEF v
<1>5. QED
  BY <1>3, <1>4 DEF v

\* downloadFinished of a part
LEMMA FinishedPart ==
  ASSUME NEW w, WorldInv(w), NEW d, NEW n, Part(w, d, n), w.info[d].state \notin Over,
         \/ w.info[d].state \in {"CANCELING", "CANCELED", "PAUSING", "PAUSED"}
         \/ w.info[d].reply \in {"complete", "failed"},
         w.info[d].reply = "complete" => w.parts[n].last = Size
  PROVE  LET v == Finished(w, d)
         IN  /\ Left(w, v, d, n)
             /\ w.info[d].state = "PAUSED" /\ d \in DOMAIN v.info => Part(v, d, n)
<1> DEFINE i == [w.info[d] EXCEPT !.open = FALSE, !.reply = "none",
                                  !.position = 1, !.wired = FALSE]
           c == [w EXCEPT !.info[d] = i]
           f == Finished(w, d)
<1>1. w.info[d] \in Info /\ d \in DOMAIN w.info /\ 1 \in 1..Size + 2
  BY DownloadAssumption DEF Part, WorldInv, IsWorld
<1>2. /\ Same(i, w.info[d]) /\ i.tries = w.info[d].tries
      /\ i.reply = "none" /\ i.state = w.info[d].state
  BY <1>1 DEF Info, Same
<1> HIDE DEF i
<1>3. /\ WorldInv(c) /\ OnlyFile(w, c, d, n) /\ Part(c, d, n) /\ c.info[d] = i
      /\ c.parts = w.parts
  BY <1>2, PartStays
<1>4. CASE Failed(w, d) /\ GiveUp(w, d)
  <2>1. f = Forget(RemoveOutput(c, d), d)
    BY <1>4 DEF Finished, i
  <2> HIDE DEF c, f
  <2>2. Left(c, f, d, n) /\ d \notin DOMAIN f.info
    BY <1>3, <2>1, PartForgotten
  <2>3. QED
    BY <1>3, <2>2, LeftTwice DEF f
<1>5. CASE Failed(w, d) /\ ~GiveUp(w, d)
  <2>1. f = Retry(c, d)
    BY <1>5 DEF Finished, i
  <2> HIDE DEF c, f
  <2>2. ~GiveUp(c, d)
    BY <1>2, <1>3, <1>5 DEF GiveUp
  <2>3. Left(c, f, d, n) /\ Part(f, d, n)
    BY <1>3, <2>1, <2>2, RetryPart
  <2>4. QED
    BY <1>3, <2>3, LeftTwice DEF f
<1>6. CASE ~Failed(w, d) /\ w.info[d].state \in {"CANCELING", "CANCELED"}
  <2>1. f = Forget(RemoveOutput(c, d), d)
    BY <1>6 DEF Finished, i
  <2> HIDE DEF c, f
  <2>2. Left(c, f, d, n) /\ d \notin DOMAIN f.info
    BY <1>3, <2>1, PartForgotten
  <2>3. QED
    BY <1>3, <2>2, LeftTwice DEF f
<1>7. CASE ~Failed(w, d) /\ w.info[d].state \in {"PAUSING", "PAUSED"}
  <2> DEFINE j == [c.info[d] EXCEPT !.state = "PAUSED"]
  <2>1. f = [c EXCEPT !.info[d].state = "PAUSED"]
    BY <1>7 DEF Finished, i
  <2> HIDE DEF c, f
  <2>2. f = [c EXCEPT !.info[d] = j]
    BY <1>3, <2>1 DEF Part, WorldInv, IsWorld
  <2>3. c.info[d] \in Info
    BY <1>3 DEF Part, WorldInv, IsWorld
  <2>4. /\ j \in Info /\ j.name = n /\ j.unfinished = TRUE /\ j.bereft = FALSE
        /\ j.state = "PAUSED" /\ j.reply = "none"
    BY <1>2, <1>3, <2>3 DEF Part, Info, States
  <2> HIDE DEF j
  <2> DEFINE g == [c EXCEPT !.info[d] = j]
  <2>5. OnlyFile(c, f, d, n) /\ Part(f, d, n) /\ f.info[d] = j
    <3>1. j \in Info /\ j.name = n /\ j.unfinished = TRUE /\ j.bereft = FALSE
      BY <2>4
    <3>2. WorldInv(c) /\ Part(c, d, n)
      BY <1>3
    <3>3. OnlyFile(c, g, d, n) /\ Part(g, d, n)
      BY <3>1, <3>2, PartChanged
    <3>4. g.info[d] = j
      BY <3>2 DEF Part, WorldInv, IsWorld
    <3>5. QED
      BY <2>2, <3>3, <3>4
  <2>6. Loose(f, d, n) /\ f.info[d].reply # "running"
    BY <2>4, <2>5 DEF Loose, Over
  <2>7. WholeRow(f, d, n)
    BY <2>6, PartWhole
  <2>8. QED
    BY <1>3, <2>5, <2>7, LeftTwice DEF Left, f
<1>8. CASE /\ ~Failed(w, d)
           /\ w.info[d].state \notin {"CANCELING", "CANCELED", "PAUSING", "PAUSED"}
  <2>1. f = Finalize(Ask([c EXCEPT !.info[d].state = "FETCHINGMODINFO"], d, "description"), d)
    BY <1>8 DEF Finished, i
  <2> HIDE DEF c, f
  <2>2. w.parts[n].last = Size
    BY <1>8 DEF Failed
  <2>3. Left(c, f, d, n)
    BY <1>2, <1>3, <2>1, <2>2, PartFinalized
  <2>4. QED
    BY <1>3, <1>8, <2>3, LeftTwice DEF f
<1>9. QED
  BY <1>4, <1>5, <1>6, <1>7, <1>8

\* And of a row that is over: there is a file with its final name, so that the
\* description is asked for once more.
LEMMA FinishedOver ==
  ASSUME NEW w, WorldInv(w), NEW d \in DOMAIN w.info, NEW n, WholeRow(w, d, n),
         w.info[d].state \in Over
  PROVE  Left(w, Finished(w, d), d, n)
<1> DEFINE i == [w.info[d] EXCEPT !.open = FALSE, !.reply = "none",
                                  !.position = 1, !.wired = FALSE]
           c == [w EXCEPT !.info[d] = i]
           j == [i EXCEPT !.state = "FETCHINGMODINFO"]
           a == Ask([c EXCEPT !.info[d].state = "FETCHINGMODINFO"], d, "description")
           v == Finished(w, d)
<1>1. /\ w.info[d].name = n /\ w.info[d].unfinished = FALSE /\ w.info[d].bereft = FALSE
      /\ w.info[d].reply = "none" /\ n \in DOMAIN w.finals /\ w.finals[n].last = Size
  BY DEF WholeRow, Plain, WholeFile, WorldInv, HasFile
<1>2. ~Failed(w, d)
  <2>1. Data(w, d).last # 0
    BY <1>1, DownloadAssumption DEF Data
  <2>2. Nothing.last = 0
    BY DEF Nothing
  <2>3. QED
    BY <1>1, <2>1, <2>2 DEF Failed
<1>3. w.info[d].state \notin {"CANCELING", "CANCELED", "PAUSING", "PAUSED"}
  BY DEF Over
<1>4. w.info[d] \in Info
  BY DEF WorldInv, IsWorld
<1>5. /\ j.name = n /\ j.unfinished = FALSE /\ j.bereft = FALSE
      /\ j.state = "FETCHINGMODINFO" /\ j.reply = "none"
  BY <1>1, <1>4 DEF Info
<1>6. v = Finalize(a, d)
  BY <1>2, <1>3 DEF Finished
<1> HIDE DEF v
<1>7. /\ DOMAIN c = DOMAIN w /\ DOMAIN c.info = DOMAIN w.info /\ c.info[d] = i
      /\ \A e \in DOMAIN w.info \ {d} : c.info[e] = w.info[e]
      /\ c.parts = w.parts /\ c.finals = w.finals /\ c.requests = w.requests
  BY DEF WorldInv, IsWorld
<1> HIDE DEF c, i
<1>8. /\ DOMAIN a.info = DOMAIN w.info /\ a.info[d] = j
      /\ \A e \in DOMAIN w.info \ {d} : a.info[e] = w.info[e]
      /\ a.parts = w.parts /\ a.finals = w.finals
      /\ a.requests = w.requests \cup {[kind |-> "description", of |-> d]}
  BY <1>7 DEF WorldInv, IsWorld, Ask
<1> HIDE DEF a, j
<1>9. v = a
  BY <1>5, <1>6, <1>8 DEF Finalize
<1>10. OnlyFile(w, v, d, n)
  <2>1. \A e, kind : e # d => [kind |-> kind, of |-> e] # [kind |-> "description", of |-> d]
    BY RequestKinds
  <2>2. \A e, kind : e # d /\ [kind |-> kind, of |-> e] \in v.requests =>
                       [kind |-> kind, of |-> e] \in w.requests
    BY <1>8, <1>9, <2>1
  <2>3. QED
    BY <1>8, <1>9, <2>2 DEF OnlyFile
<1>11. WholeFile(v, n)
  BY <1>8, <1>9 DEF WholeRow, WholeFile
<1>12. Plain(v.info[d]) /\ ReadToEnd(v, v.info[d]) /\ AskedOver(v, d) /\ v.info[d].name = n
  BY <1>5, <1>8, <1>9 DEF Plain, ReadToEnd, AskedOver, Over
<1>13. QED
  BY <1>10, <1>11, <1>12 DEF Left, WholeRow, v

\* A part whose row is closed, as the rest of it stays.
LEMMA ClosedLeft ==
  ASSUME NEW w, WorldInv(w), NEW d, NEW n, Part(w, d, n), WholeRow(w, d, n)
  PROVE  LET v == [w EXCEPT !.info[d].open = FALSE]
         IN  Left(w, v, d, n) /\ Part(v, d, n)
<1> DEFINE i == [w.info[d] EXCEPT !.open = FALSE]
           v == [w EXCEPT !.info[d] = i]
<1>1. [w EXCEPT !.info[d].open = FALSE] = v
  BY DEF Part, WorldInv, IsWorld
<1>2. w.info[d] \in Info /\ d \in DOMAIN w.info
  BY DEF Part, WorldInv, IsWorld
<1>3. /\ Same(i, w.info[d]) /\ i.wired = w.info[d].wired /\ i.reply = w.info[d].reply
      /\ i.position = w.info[d].position
  BY <1>2 DEF Info, Same
<1> HIDE DEF i
<1>4. OnlyFile(w, v, d, n) /\ Part(v, d, n) /\ v.info[d] = i /\ v.parts = w.parts
  BY <1>3, PartStays
<1> HIDE DEF v
<1>5. /\ Plain(w.info[d]) /\ ReadToEnd(w, w.info[d]) /\ w.info[d].name = n
      /\ w.info[d].unfinished = TRUE
  BY <1>2 DEF Part, WholeRow
<1>6. i.state \notin Over /\ i.reply \in {"none", "running"} /\ (i.reply = "running" => i.wired)
  BY <1>3, <1>5 DEF Plain, Same
<1>7. Loose(v, d, n)
  BY <1>4, <1>6 DEF Loose
<1>8. v.info[d].reply = "running" /\ v.info[d].position = Size + 1 => v.parts[n].last = Size
  BY <1>3, <1>4, <1>5 DEF ReadToEnd
<1>9. WholeRow(v, d, n)
  BY <1>7, <1>8, PartWhole
<1>10. QED
  BY <1>1, <1>4, <1>9 DEF Left

\* abort() of a download that is canceled or paused
LEMMA AbortLeft ==
  ASSUME NEW w, WorldInv(w), NEW d, NEW n, Loose(w, d, n),
         w.info[d].state \in {"CANCELED", "PAUSED"}
  PROVE  LET v == Abort(w, d)
         IN  /\ Left(w, v, d, n)
             /\ w.info[d].state = "PAUSED" /\ d \in DOMAIN v.info => Part(v, d, n)
<1>1. Part(w, d, n)
  BY DEF Loose
<1>2. CASE w.info[d].reply # "running"
  <2>1. Abort(w, d) = w
    BY <1>2 DEF Abort
  <2>2. WholeRow(w, d, n)
    BY <1>2, PartWhole
  <2>3. QED
    BY <1>1, <2>1, <2>2, OnlyFileOnce DEF Left
<1>3. CASE w.info[d].reply = "running"
  <2> DEFINE i == [w.info[d] EXCEPT !.reply = "aborted"]
             u == [w EXCEPT !.info[d] = i]
  <2>1. u = [w EXCEPT !.info[d].reply = "aborted"]
    BY <1>1 DEF Part, WorldInv, IsWorld
  <2>2. w.info[d] \in Info
    BY <1>1 DEF Part, WorldInv, IsWorld
  <2>3. Same(i, w.info[d]) /\ i.reply = "aborted" /\ i.state = w.info[d].state
    BY <2>2 DEF Info, Same
  <2>4. Abort(w, d) = Finished(u, d)
    BY <1>3, <2>1 DEF Abort, Loose
  <2> HIDE DEF i
  <2>5. WorldInv(u) /\ OnlyFile(w, u, d, n) /\ Part(u, d, n) /\ u.info[d] = i
    BY <1>1, <2>3, PartStays
  <2> HIDE DEF u
  <2>6. /\ u.info[d].state = w.info[d].state /\ u.info[d].state \notin Over
        /\ u.info[d].state \in {"CANCELING", "CANCELED", "PAUSING", "PAUSED"}
        /\ u.info[d].reply # "complete"
    BY <2>3, <2>5 DEF Over
  <2>7. /\ Left(u, Finished(u, d), d, n)
        /\ u.info[d].state = "PAUSED" /\ d \in DOMAIN Finished(u, d).info =>
             Part(Finished(u, d), d, n)
    BY <2>5, <2>6, FinishedPart
  <2>8. QED
    BY <2>4, <2>5, <2>6, <2>7, LeftTwice
<1>4. QED
  BY <1>2, <1>3

\* setState(STATE_CANCELED) and setState(STATE_PAUSED), up to abort()
LEMMA StateLoose ==
  ASSUME NEW w, WorldInv(w), NEW d, NEW n, Loose(w, d, n),
         NEW s \in {"CANCELED", "PAUSED", "CANCELING", "PAUSING"}
  PROVE  LET v == [w EXCEPT !.info[d].state = s]
         IN  /\ WorldInv(v) /\ OnlyFile(w, v, d, n) /\ Loose(v, d, n)
             /\ v.info[d].state = s
             /\ v.info[d].reply = w.info[d].reply /\ v.info[d].position = w.info[d].position
             /\ v.parts = w.parts
<1> DEFINE i == [w.info[d] EXCEPT !.state = s]
           v == [w EXCEPT !.info[d].state = s]
           u == [w EXCEPT !.info[d] = i]
<1>1. d \in DOMAIN w.info /\ Part(w, d, n)
  BY DEF Loose, Part
<1>2. s \in States \ {"FETCHINGMODINFO", "FETCHINGFILEINFO"} /\ s \notin Over
  BY DEF States, Over
<1>3. v = u /\ WorldInv(v)
  BY <1>1, <1>2, StateSet
<1>4. w.info[d] \in Info
  BY <1>1 DEF WorldInv, IsWorld
<1>5. /\ i \in Info /\ i.name = n /\ i.unfinished = TRUE /\ i.bereft = FALSE
      /\ i.reply = w.info[d].reply /\ i.position = w.info[d].position
      /\ i.wired = w.info[d].wired /\ i.state = s
  BY <1>1, <1>2, <1>4 DEF Part, Info
<1> HIDE DEF i
<1>6. OnlyFile(w, u, d, n) /\ Part(u, d, n) /\ u.info[d] = i /\ u.parts = w.parts
  <2>1. i \in Info /\ i.name = n /\ i.unfinished = TRUE /\ i.bereft = FALSE
    BY <1>5
  <2>2. OnlyFile(w, u, d, n) /\ Part(u, d, n)
    BY <1>1, <2>1, PartChanged
  <2>3. u.info[d] = i /\ u.parts = w.parts
    BY <1>1 DEF WorldInv, IsWorld
  <2>4. QED
    BY <2>2, <2>3
<1> HIDE DEF u, v
<1>7. v = u /\ WorldInv(v)
  BY <1>3
<1>8. Loose(u, d, n)
  BY <1>2, <1>5, <1>6 DEF Loose
<1>9. /\ u.info[d].state = s
      /\ u.info[d].reply = w.info[d].reply /\ u.info[d].position = w.info[d].position
  BY <1>5, <1>6
<1>10. QED
  BY <1>6, <1>7, <1>8, <1>9 DEF v

LEMMA CancelLeft ==
  ASSUME NEW w, WorldInv(w), NEW d, NEW n, Loose(w, d, n)
  PROVE  Left(w, Cancel(w, d), d, n)
<1> DEFINE u == [w EXCEPT !.info[d].state = "CANCELED"]
<1>1. /\ WorldInv(u) /\ OnlyFile(w, u, d, n) /\ Loose(u, d, n)
      /\ u.info[d].state = "CANCELED"
  BY StateLoose
<1>2. Cancel(w, d) = Abort(u, d)
  BY DEF Cancel
<1> HIDE DEF u
<1>3. Left(u, Abort(u, d), d, n)
  BY <1>1, AbortLeft
<1>4. QED
  BY <1>1, <1>2, <1>3, LeftTwice

LEMMA PauseLeft ==
  ASSUME NEW w, WorldInv(w), NEW d, NEW n, Loose(w, d, n)
  PROVE  LET v == Pause(w, d)
         IN  Left(w, v, d, n) /\ (d \in DOMAIN v.info => Part(v, d, n))
<1> DEFINE u == [w EXCEPT !.info[d].state = "PAUSED"]
           a == Abort(u, d)
           c == [a EXCEPT !.info[d].open = FALSE]
<1>1. /\ WorldInv(u) /\ OnlyFile(w, u, d, n) /\ Loose(u, d, n)
      /\ u.info[d].state = "PAUSED"
  BY StateLoose
<1>2. Pause(w, d) = IF d \in DOMAIN a.info THEN c ELSE a
  BY DEF Pause
<1> HIDE DEF u
<1>3. WorldInv(a)
  BY <1>1, AbortKeeps DEF Loose, Part
<1>4. Left(u, a, d, n) /\ (d \in DOMAIN a.info => Part(a, d, n))
  BY <1>1, AbortLeft
<1> HIDE DEF a
<1>5. d \in DOMAIN a.info => Left(a, c, d, n) /\ Part(c, d, n)
  BY <1>3, <1>4, ClosedLeft DEF Left
<1> HIDE DEF c
<1>6. OnlyFile(w, a, d, n)
  BY <1>1, <1>4, OnlyFileTwice DEF Left
<1>7. QED
  BY <1>2, <1>4, <1>5, <1>6, LeftTwice DEF Left

\* downloadProgress
LEMMA ProgressLeft ==
  ASSUME NEW w, WorldInv(w), NEW d, NEW n, Loose(w, d, n), WholeRow(w, d, n)
  PROVE  Left(w, Progress(w, d), d, n)
<1>1. Progress(w, d) \in {Cancel(w, d), Pause(w, d), w}
  BY DEF Progress
<1>2. Left(w, w, d, n)
  BY OnlyFileOnce DEF Left
<1>3. QED
  BY <1>1, <1>2, CancelLeft, PauseLeft

\* downloadFinished(index), where startDownload comes to its end.
LEMMA FinishedAtLeft ==
  ASSUME NEW w, WorldInv(w), NEW d \in DOMAIN w.info, NEW n, WholeRow(w, d, n),
         w.info[d].state \notin {"DOWNLOADING", "READY", "FETCHINGMODINFO"}
  PROVE  Left(w, FinishedAt(w, d), d, n)
<1>1. Left(w, w, d, n)
  BY OnlyFileOnce DEF Left
<1>2. Plain(w.info[d]) /\ w.info[d].state \in States
  BY DEF WholeRow, WorldInv, IsWorld, Info
<1>3. CASE w.info[d].reply = "running"
  <2>1. w.info[d].state \notin Over
    BY <1>2, <1>3 DEF Plain
  <2>2. Loose(w, d, n)
    BY <2>1, LooseRow
  <2>3. FinishedAt(w, d) \in {w, Cancel(w, d), Pause(w, d)}
    BY <1>3 DEF FinishedAt
  <2>4. QED
    BY <1>1, <2>2, <2>3, CancelLeft, PauseLeft
<1>4. CASE w.info[d].reply # "running"
  <2>1. FinishedAt(w, d) \in {w, Finished(w, d)}
    BY <1>4 DEF FinishedAt
  <2>2. CASE w.info[d].state \in Over
    BY <1>1, <2>1, <2>2, FinishedOver
  <2>3. CASE w.info[d].state \notin Over
    <3>1. Part(w, d, n)
      BY <2>3, LooseRow DEF Loose
    <3>2. w.info[d].state \in {"CANCELING", "CANCELED", "PAUSING", "PAUSED"}
      BY <1>2, <2>3 DEF Over, States
    <3>3. w.info[d].reply # "complete"
      BY <1>2 DEF Plain
    <3>4. Left(w, Finished(w, d), d, n)
      BY <2>3, <3>1, <3>2, <3>3, FinishedPart
    <3>5. QED
      BY <1>1, <2>1, <3>4
  <2>4. QED
    BY <2>2, <2>3
<1>5. QED
  BY <1>3, <1>4

LEMMA ResumedLeft ==
  ASSUME NEW w, WorldInv(w), NEW d, NEW n, Loose(w, d, n)
  PROVE  Left(w, Resumed(w, d), d, n)
<1> DEFINE p == IF w.info[d].state = "PAUSING" /\ w.info[d].open THEN Pause(w, d) ELSE w
<1>1. d \in DOMAIN w.info /\ Part(w, d, n)
  BY DEF Loose, Part
<1>2. WorldInv(p)
  BY <1>1, PauseKeeps
<1>3. OnlyFile(w, p, d, n) /\ (d \in DOMAIN p.info => Part(p, d, n))
  BY <1>1, OnlyFileOnce, PauseLeft DEF Left
<1>4. d \notin DOMAIN p.info => WholeRow(p, d, n)
  BY <1>1, PauseLeft DEF Left
<1>5. Resumed(w, d) = IF d \in DOMAIN p.info THEN StartReply(p, d, Data(p, d).length + 1) ELSE p
  BY DEF Resumed
<1> HIDE DEF p
<1>6. CASE d \in DOMAIN p.info
  <2> DEFINE position == Data(p, d).length + 1
  <2>1. position \in Nat \ {0}
    BY <1>2, <1>6, DataIsWritten, DownloadAssumption DEF Written
  <2>2. Resumed(w, d) = StartReply(p, d, position)
    BY <1>5, <1>6
  <2> HIDE DEF position
  <2>3. Left(p, StartReply(p, d, position), d, n)
    BY <1>2, <1>3, <1>6, <2>1, StartReplyPart
  <2>4. QED
    BY <1>3, <2>2, <2>3, LeftTwice
<1>7. CASE d \notin DOMAIN p.info
  BY <1>3, <1>4, <1>5, <1>7 DEF Left
<1>8. QED
  BY <1>6, <1>7

\* resumeDownload
LEMMA ResumeOfLeft ==
  ASSUME NEW w, WorldInv(w), NEW d \in DOMAIN w.info, NEW n, WholeRow(w, d, n),
         w.info[d].state \in {"PAUSED", "PAUSING"}
  PROVE  Left(w, ResumeOf(w, d), d, n)
<1> DEFINE i == [w.info[d] EXCEPT !.tries = Retries]
           v == [w EXCEPT !.info[d] = i]
<1>1. v = [w EXCEPT !.info[d].tries = Retries]
  BY DEF WorldInv, IsWorld
<1>2. w.info[d] \in Info /\ Retries \in 0..Retries
  BY DownloadAssumption DEF WorldInv, IsWorld
<1>3. Loose(w, d, n)
  BY LooseRow DEF Over
<1>4. /\ Same(i, w.info[d]) /\ i.wired = w.info[d].wired /\ i.reply = w.info[d].reply
  BY <1>2 DEF Info, Same
<1> HIDE DEF i
<1>5. WorldInv(v) /\ OnlyFile(w, v, d, n) /\ Part(v, d, n) /\ v.info[d] = i
  BY <1>3, <1>4, PartStays DEF Loose
<1>6. ResumeOf(w, d) = CASE IsComplete(v, d) -> FinishedAt([v EXCEPT !.info[d].state = "DOWNLOADING"], d)
                         [] ~IsComplete(v, d) /\ v.info[d].state \in {"PAUSED", "PAUSING"} -> Resumed(v, d)
                         [] OTHER -> v
  BY <1>1 DEF ResumeOf
<1> HIDE DEF v
<1>7. Loose(v, d, n) /\ v.info[d].state \in {"PAUSED", "PAUSING"} /\ ~IsComplete(v, d)
  BY <1>3, <1>4, <1>5 DEF Loose, Same, IsComplete
<1>8. ResumeOf(w, d) = Resumed(v, d)
  BY <1>6, <1>7
<1>9. Left(v, Resumed(v, d), d, n)
  BY <1>5, <1>7, ResumedLeft
<1>10. QED
  BY <1>5, <1>8, <1>9, LeftTwice

-----------------------------------------------------------------------------
(* The steps, where nobody is asked *)

\* What is queued is not there.
Ahead(w, P) == \A l \in P : \A n \in DOMAIN w.parts \cup DOMAIN w.finals : n.link # l

Unasked(S) == \A k \in DOMAIN S : S[k].asked = FALSE

FilesInv == Whole(world) /\ Ahead(world, pending) /\ Unasked(starting)

LEMMA FilesAfter ==
  ASSUME NEW v, Becomes(v), Whole(v), Ahead(v, pending'), Unasked(starting')
  PROVE  FilesInv'
<1>1. /\ world'.info = v.info /\ world'.parts = v.parts
      /\ world'.finals = v.finals /\ world'.requests = v.requests
  BY DEF world, Becomes
<1>2. Whole(world')
  BY <1>1 DEF Whole, WholeFile, ReadToEnd, AskedOver
<1>3. Ahead(world', pending')
  BY <1>1 DEF Ahead
<1>4. QED
  BY <1>2, <1>3 DEF FilesInv

\* The row d of the list, and its file.
LEMMA RowOfList ==
  ASSUME Inv, FilesInv, NEW d \in DOMAIN info
  PROVE  /\ WorldInv(world) /\ world.info = info /\ d \in DOMAIN world.info
         /\ WholeBut(world, d, info[d].name) /\ WholeRow(world, d, info[d].name)
         /\ Plain(info[d])
<1>1. WorldInv(world) /\ world.info = info /\ d \in DOMAIN world.info /\ Whole(world)
  BY Fields DEF Inv, FilesInv
<1>2. WholeBut(world, d, info[d].name) /\ WholeRow(world, d, info[d].name)
  BY <1>1, WholeParts
<1>3. QED
  BY <1>1, <1>2 DEF Whole

LEMMA LeftWhole ==
  ASSUME Inv, FilesInv, NEW d \in DOMAIN info, NEW v, Left(world, v, d, info[d].name)
  PROVE  Whole(v) /\ Ahead(v, pending)
<1>1. /\ WorldInv(world) /\ WholeBut(world, d, info[d].name)
  BY RowOfList
<1>2. WholeBut(v, d, info[d].name) /\ WholeRow(v, d, info[d].name)
  BY <1>1, RestStays DEF Left
<1>3. Whole(v)
  BY <1>2, PartsWhole
<1>4. Ahead(v, pending)
  BY DEF FilesInv, Ahead, Left, OnlyFile
<1>5. QED
  BY <1>3, <1>4

LEMMA LeftStep ==
  ASSUME Inv, FilesInv, NEW d \in DOMAIN info, NEW v, Becomes(v),
         Left(world, v, d, info[d].name), pending' = pending, Unasked(starting')
  PROVE  FilesInv'
BY LeftWhole, FilesAfter

LEMMA PieceReadLeft ==
  ASSUME NEW w, WorldInv(w), NEW d, NEW n, Loose(w, d, n), w.info[d].position <= Size
  PROVE  LET v == PieceRead(w, d)
         IN  /\ WorldInv(v) /\ OnlyFile(w, v, d, n) /\ Loose(v, d, n)
             /\ v.info[d].position = w.info[d].position + 1
<1> DEFINE i == [w.info[d] EXCEPT !.position = @ + 1]
           v == [w EXCEPT !.info[d] = i]
<1>1. d \in DOMAIN w.info /\ Part(w, d, n)
  BY DEF Loose, Part
<1>2. PieceRead(w, d) = v
  BY <1>1 DEF WorldInv, IsWorld, PieceRead
<1>3. w.info[d] \in Info /\ w.info[d].position + 1 \in 1..Size + 2
  <2>1. w.info[d] \in Info
    BY <1>1 DEF WorldInv, IsWorld
  <2>2. w.info[d].position \in 1..Size + 2
    BY <2>1 DEF Info
  <2>3. QED
    BY <2>1, <2>2, DownloadAssumption
<1>4. /\ Same(i, w.info[d]) /\ i.wired = w.info[d].wired /\ i.reply = w.info[d].reply
      /\ i.position = w.info[d].position + 1
  BY <1>3 DEF Info, Same
<1> HIDE DEF i
<1>5. WorldInv(v) /\ OnlyFile(w, v, d, n) /\ Part(v, d, n) /\ v.info[d] = i
  BY <1>1, <1>4, PartStays
<1> HIDE DEF v
<1>6. Loose(v, d, n)
  BY <1>4, <1>5 DEF Loose, Same
<1>7. QED
  BY <1>2, <1>4, <1>5, <1>6

LEMMA ReceiveWhole ==
  ASSUME Inv, FilesInv, NEW d \in DOMAIN info, Receive(d)
  PROVE  FilesInv'
<1> DEFINE n == info[d].name
           read == PieceRead(world, d)
           piece == info[d].position
           data == Longer(Data(world, d), piece)
           wrote == Put(read, d, data)
<1>1. /\ WorldInv(world) /\ world.info = info /\ d \in DOMAIN world.info
      /\ WholeRow(world, d, n) /\ Plain(info[d])
  BY RowOfList
<1>2. /\ Becomes(Cancel(read, d)) \/ Becomes(wrote) \/ Becomes(Progress(wrote, d))
      /\ pending' = pending /\ starting' = starting
      /\ info[d].reply = "running" /\ piece <= Size
  BY DEF Receive, PieceRead, rest
<1>3. Loose(world, d, n)
  BY <1>1, <1>2, LooseRow DEF Plain
<1>4. piece \in 1..Size
  <2>1. info[d] \in Info
    BY <1>1 DEF WorldInv, IsWorld
  <2>2. info[d].position \in 1..Size + 2
    BY <2>1 DEF Info
  <2>3. QED
    BY <1>2, <2>2, DownloadAssumption
<1> HIDE DEF n
<1>5. /\ WorldInv(read) /\ OnlyFile(world, read, d, n) /\ Loose(read, d, n)
      /\ read.info[d].position = piece + 1
  BY <1>1, <1>2, <1>3, PieceReadLeft
<1> HIDE DEF read
<1>6. data.last = piece
  BY DEF Longer
<1>7. data \in Written
  BY <1>1, <1>4, DataIsWritten, LongerIsWritten
<1> HIDE DEF data, piece
<1>8. /\ OnlyFile(read, wrote, d, n) /\ Part(wrote, d, n) /\ wrote.info = read.info
      /\ wrote.parts[n] = data
  BY <1>5, PutPart DEF Loose
<1>9. WorldInv(wrote)
  BY <1>5, <1>7, PutKeeps DEF Loose, Part
<1> HIDE DEF wrote
<1>10. Loose(wrote, d, n)
  BY <1>5, <1>8 DEF Loose
<1>11. wrote.info[d].position = Size + 1 => wrote.parts[n].last = Size
  BY <1>4, <1>5, <1>6, <1>8, DownloadAssumption
<1>12. WholeRow(wrote, d, n)
  BY <1>10, <1>11, PartWhole
<1>13. OnlyFile(world, wrote, d, n)
  BY <1>5, <1>8, OnlyFileTwice
<1>14. Left(world, wrote, d, n)
  BY <1>12, <1>13 DEF Left
<1>15. Left(world, Cancel(read, d), d, n)
  BY <1>5, CancelLeft, LeftTwice
<1>16. Left(world, Progress(wrote, d), d, n)
  BY <1>9, <1>10, <1>12, <1>13, ProgressLeft, LeftTwice
<1>17. Unasked(starting')
  BY <1>2 DEF FilesInv
<1>18. QED
  BY <1>2, <1>14, <1>15, <1>16, <1>17, LeftStep DEF n

LEMMA EndsWhole ==
  ASSUME Inv, FilesInv, NEW d \in DOMAIN info, NEW outcome \in {"complete", "failed"},
         Ends(d, outcome), outcome = "complete" => info[d].position = Size + 1,
         UNCHANGED <<pending, starting>>
  PROVE  FilesInv'
<1> DEFINE n == info[d].name
           i == [world.info[d] EXCEPT !.reply = outcome]
           w == [world EXCEPT !.info[d] = i]
<1>1. /\ WorldInv(world) /\ world.info = info /\ d \in DOMAIN world.info
      /\ WholeRow(world, d, n) /\ Plain(info[d]) /\ info[d].name = n
  BY RowOfList
<1>2. info[d].reply = "running"
  BY DEF Ends
<1>3. w = [world EXCEPT !.info[d].reply = outcome]
  BY <1>1 DEF WorldInv, IsWorld
<1>4. Becomes(Finished(w, d))
  <2>1. info[d].wired
    BY <1>1, <1>2 DEF Plain
  <2>2. QED
    BY <1>3, <2>1 DEF Ends
<1>5. Loose(world, d, n)
  BY <1>1, <1>2, LooseRow DEF Plain
<1>6. world.info[d] \in Info
  BY <1>1 DEF WorldInv, IsWorld
<1>7. Same(i, world.info[d]) /\ i.reply = outcome
  BY <1>6 DEF Info, Same
<1>8. outcome = "complete" => world.parts[n].last = Size
  BY <1>1, <1>2 DEF WholeRow, ReadToEnd
<1> HIDE DEF i, n
<1>9. /\ WorldInv(w) /\ OnlyFile(world, w, d, n) /\ Part(w, d, n) /\ w.info[d] = i
      /\ w.parts = world.parts
  BY <1>1, <1>5, <1>7, PartStays DEF Loose
<1> HIDE DEF w
<1>10. /\ w.info[d].state \notin Over /\ w.info[d].reply \in {"complete", "failed"}
       /\ w.info[d].reply = "complete" => w.parts[n].last = Size
  BY <1>5, <1>7, <1>8, <1>9 DEF Loose, Same
<1>11. Left(w, Finished(w, d), d, n)
  BY <1>9, <1>10, FinishedPart
<1>12. Left(world, Finished(w, d), d, n)
  BY <1>9, <1>11, LeftTwice
<1>13. Unasked(starting') /\ pending' = pending
  BY DEF FilesInv
<1>14. QED
  BY <1>4, <1>12, <1>13, LeftStep DEF n

LEMMA TransferWhole ==
  ASSUME Inv, FilesInv, NEW d \in DOMAIN info, Transfer(d) \/ Break(d) \/ WriteFails(d)
  PROVE  FilesInv'
<1>1. CASE Receive(d)
  BY <1>1, ReceiveWhole
<1>2. CASE Complete(d)
  BY <1>2, EndsWhole DEF Complete, rest
<1>3. CASE Refuse(d)
  BY <1>3, EndsWhole DEF Refuse, rest
<1>4. CASE Break(d)
  BY <1>4, EndsWhole DEF Break, Fault
<1>5. CASE WriteFails(d)
  <2> DEFINE read == PieceRead(world, d)
             n == info[d].name
  <2>1. /\ WorldInv(world) /\ world.info = info /\ d \in DOMAIN world.info
        /\ WholeRow(world, d, n) /\ Plain(info[d])
    BY RowOfList
  <2>2. /\ Becomes(Cancel(read, d)) /\ pending' = pending /\ starting' = starting
        /\ info[d].reply = "running" /\ info[d].position <= Size
    BY <1>5 DEF WriteFails, PieceRead, Fault
  <2>3. Loose(world, d, n)
    BY <2>1, <2>2, LooseRow DEF Plain
  <2> HIDE DEF n
  <2>4. WorldInv(read) /\ OnlyFile(world, read, d, n) /\ Loose(read, d, n)
    BY <2>1, <2>2, <2>3, PieceReadLeft
  <2> HIDE DEF read
  <2>5. Left(world, Cancel(read, d), d, n)
    BY <2>4, CancelLeft, LeftTwice
  <2>6. Unasked(starting')
    BY <2>2 DEF FilesInv
  <2>7. QED
    BY <2>2, <2>5, <2>6, LeftStep DEF n
<1>6. QED
  BY <1>1, <1>2, <1>3, <1>4, <1>5 DEF Transfer

\* Rows change, and the files do not.
LEMMA RowsWhole ==
  ASSUME NEW w, Whole(w), NEW v, v.parts = w.parts, v.finals = w.finals,
         \A e \in DOMAIN v.info :
           /\ e \in DOMAIN w.info
           /\ v.info[e].name = w.info[e].name
           /\ v.info[e].reply = w.info[e].reply /\ v.info[e].position = w.info[e].position
           /\ Plain(v.info[e]) /\ AskedOver(v, e)
  PROVE  Whole(v)
<1>1. \A n : WholeFile(v, n)
  BY DEF Whole, WholeFile
<1>2. \A e \in DOMAIN v.info : ReadToEnd(v, v.info[e])
  BY DEF Whole, ReadToEnd
<1>3. QED
  BY <1>1, <1>2 DEF Whole

LEMMA PauseOfPlain ==
  ASSUME NEW i \in Info, Plain(i)
  PROVE  LET j == PauseOf(i)
         IN  /\ Plain(j) /\ j.name = i.name /\ j.reply = i.reply /\ j.position = i.position
             /\ i.state \in Over => j.state \in Over
<1>1. CASE i.state = "DOWNLOADING" /\ i.reply = "running"
  <2>1. PauseOf(i) = [i EXCEPT !.state = "PAUSING"]
    BY <1>1 DEF PauseOf
  <2>2. QED
    BY <1>1, <2>1 DEF Info, Plain, Over
<1>2. CASE i.state = "DOWNLOADING" /\ i.reply # "running"
  <2>1. PauseOf(i) = [i EXCEPT !.state = "PAUSED", !.open = FALSE]
    BY <1>2 DEF PauseOf
  <2>2. QED
    BY <1>2, <2>1 DEF Info, Plain, Over
<1>3. CASE i.state \in {"FETCHINGMODINFO", "FETCHINGFILEINFO"}
  <2>1. PauseOf(i) = [i EXCEPT !.state = "READY"]
    BY <1>3 DEF PauseOf
  <2>2. QED
    BY <1>3, <2>1 DEF Info, Plain, Over
<1>4. CASE i.state \notin {"DOWNLOADING", "FETCHINGMODINFO", "FETCHINGFILEINFO"}
  BY <1>4 DEF PauseOf
<1>5. QED
  BY <1>1, <1>2, <1>3, <1>4

\* pauseDownload of some of the rows
LEMMA PausedWhole ==
  ASSUME Inv, FilesInv, NEW S \in SUBSET DOMAIN info, NEW v, Becomes(v),
         v.parts = parts, v.finals = finals, v.requests = requests, DOMAIN v.info = DOMAIN info,
         \A e \in DOMAIN info : v.info[e] = IF e \in S THEN PauseOf(info[e]) ELSE info[e],
         UNCHANGED <<pending, starting>>
  PROVE  FilesInv'
<1>1. /\ WorldInv(world) /\ Whole(world) /\ world.info = info /\ world.parts = parts
      /\ world.finals = finals /\ world.requests = requests
  BY Fields DEF Inv, FilesInv
<1>2. \A e \in DOMAIN info :
        /\ Plain(v.info[e]) /\ v.info[e].name = info[e].name
        /\ v.info[e].reply = info[e].reply /\ v.info[e].position = info[e].position
        /\ info[e].state \in Over => v.info[e].state \in Over
  <2>1. \A e \in DOMAIN info : info[e] \in Info /\ Plain(info[e])
    BY <1>1 DEF WorldInv, IsWorld, Whole
  <2>2. QED
    BY <2>1, PauseOfPlain
<1>3. \A e \in DOMAIN info : AskedOver(v, e)
  BY <1>1, <1>2 DEF Whole, AskedOver
<1>4. Whole(v)
  BY <1>1, <1>2, <1>3, RowsWhole
<1>5. Ahead(v, pending') /\ Unasked(starting')
  BY <1>1 DEF FilesInv, Ahead
<1>6. QED
  BY <1>4, <1>5, FilesAfter

LEMMA PauseDownloadWhole ==
  ASSUME Inv, FilesInv, NEW d \in DOMAIN info, PauseDownload(d)
  PROVE  FilesInv'
<1> DEFINE v == [world EXCEPT !.info[d] = PauseOf(info[d])]
<1>1. Becomes(v) /\ UNCHANGED <<pending, starting>>
  BY DEF PauseDownload, rest
<1>2. /\ v.parts = parts /\ v.finals = finals /\ v.requests = requests
      /\ DOMAIN v.info = DOMAIN info
      /\ \A e \in DOMAIN info : v.info[e] = IF e \in {d} THEN PauseOf(info[e]) ELSE info[e]
  BY Fields
<1> HIDE DEF v
<1>3. {d} \in SUBSET DOMAIN info
  OBVIOUS
<1>4. QED
  BY <1>1, <1>2, <1>3, PausedWhole

LEMMA PauseAllWhole ==
  ASSUME Inv, FilesInv, PauseAll
  PROVE  FilesInv'
<1> DEFINE v == [world EXCEPT !.info = [d \in DOMAIN info |-> PauseOf(info[d])]]
<1>1. Becomes(v) /\ UNCHANGED <<pending, starting>>
  BY DEF PauseAll, rest
<1>2. /\ v.parts = parts /\ v.finals = finals /\ v.requests = requests
      /\ DOMAIN v.info = DOMAIN info
      /\ \A e \in DOMAIN info :
           v.info[e] = IF e \in DOMAIN info THEN PauseOf(info[e]) ELSE info[e]
  BY Fields
<1> HIDE DEF v
<1>3. QED
  BY <1>1, <1>2, PausedWhole

LEMMA CancelingLeft ==
  ASSUME NEW w, WorldInv(w), NEW d, NEW n, Loose(w, d, n), WholeRow(w, d, n)
  PROVE  Left(w, [w EXCEPT !.info[d].state = "CANCELING"], d, n)
<1> DEFINE v == [w EXCEPT !.info[d].state = "CANCELING"]
<1>1. OnlyFile(w, v, d, n) /\ Loose(v, d, n)
  BY StateLoose
<1>2. d \in DOMAIN w.info
  BY DEF Loose, Part
<1>3. /\ v.info[d].reply = w.info[d].reply /\ v.info[d].position = w.info[d].position
      /\ v.parts = w.parts
  <2>1. w.info[d] \in Info
    BY <1>2 DEF WorldInv, IsWorld
  <2>2. v.info[d] = [w.info[d] EXCEPT !.state = "CANCELING"] /\ v.parts = w.parts
    BY <1>2 DEF WorldInv, IsWorld
  <2>3. QED
    BY <2>1, <2>2 DEF Info
<1> HIDE DEF v
<1>4. v.info[d].reply = "running" /\ v.info[d].position = Size + 1 => v.parts[n].last = Size
  BY <1>2, <1>3 DEF WholeRow, ReadToEnd
<1>5. WholeRow(v, d, n)
  BY <1>1, <1>4, PartWhole
<1>6. QED
  BY <1>1, <1>5 DEF Left, v

LEMMA CancelDownloadWhole ==
  ASSUME Inv, FilesInv, NEW d \in DOMAIN info, CancelDownload(d)
  PROVE  FilesInv'
<1>1. /\ Becomes([world EXCEPT !.info[d].state = "CANCELING"])
      /\ pending' = pending /\ starting' = starting /\ info[d].state = "DOWNLOADING"
  BY DEF CancelDownload, rest
<1>2. /\ WorldInv(world) /\ world.info = info /\ d \in DOMAIN world.info
      /\ WholeRow(world, d, info[d].name)
  BY RowOfList
<1>3. Loose(world, d, info[d].name)
  BY <1>1, <1>2, LooseRow DEF Over
<1>4. Left(world, [world EXCEPT !.info[d].state = "CANCELING"], d, info[d].name)
  BY <1>2, <1>3, CancelingLeft
<1>5. Unasked(starting')
  BY <1>1 DEF FilesInv
<1>6. QED
  BY <1>1, <1>4, <1>5, LeftStep

LEMMA ResumeDownloadWhole ==
  ASSUME Inv, FilesInv, NEW d \in DOMAIN info, ResumeDownload(d)
  PROVE  FilesInv'
<1>1. /\ WorldInv(world) /\ world.info = info /\ d \in DOMAIN world.info
      /\ WholeRow(world, d, info[d].name)
  BY RowOfList
<1>2. /\ Becomes(ResumeOf(world, d)) /\ pending' = pending /\ starting' = starting
      /\ info[d].state \in {"PAUSED", "PAUSING"}
  BY DEF ResumeDownload, rest
<1>3. Left(world, ResumeOf(world, d), d, info[d].name)
  BY <1>1, <1>2, ResumeOfLeft
<1>4. Unasked(starting')
  BY <1>2 DEF FilesInv
<1>5. QED
  BY <1>2, <1>3, <1>4, LeftStep

\* What refreshList finds is a part, or a file with its final name: as its row says.
LEMMA RefreshedWhole ==
  ASSUME NEW w, WorldInv(w), EnoughIds(w), Whole(w)
  PROVE  Whole(Refreshed(w))
<1> DEFINE v == Refreshed(w)
<1>1. /\ v.parts = w.parts /\ v.finals = w.finals /\ v.requests = w.requests
      /\ \A e \in NotReady(w) : v.info[e] = w.info[e]
      /\ \A e \in DOMAIN v.info \ NotReady(w) :
           /\ \A r \in w.requests : r.of # e
           /\ \E f \in OnDisk(w) : v.info[e] = FromMeta(f)
  BY RefreshedKeeps
<1> HIDE DEF v
<1>2. \A n : WholeFile(v, n)
  BY <1>1 DEF Whole, WholeFile
<1>3. ASSUME NEW e \in DOMAIN v.info, e \in NotReady(w)
      PROVE  Plain(v.info[e]) /\ ReadToEnd(v, v.info[e]) /\ AskedOver(v, e)
  <2>1. e \in DOMAIN w.info /\ v.info[e] = w.info[e]
    BY <1>1, <1>3 DEF NotReady
  <2>2. QED
    BY <1>1, <2>1 DEF Whole, ReadToEnd, AskedOver
<1>4. ASSUME NEW e \in DOMAIN v.info, e \notin NotReady(w)
      PROVE  Plain(v.info[e]) /\ ReadToEnd(v, v.info[e]) /\ AskedOver(v, e)
  <2>1. PICK f \in OnDisk(w) : v.info[e] = FromMeta(f)
    BY <1>1, <1>4
  <2>2. f \in [name : Names, unfinished : BOOLEAN]
    BY OnDiskAreFiles DEF WorldInv
  <2>3. /\ v.info[e].unfinished = f.unfinished /\ v.info[e].bereft = FALSE
        /\ v.info[e].state = IF f.unfinished THEN "PAUSED" ELSE "READY"
        /\ v.info[e].reply = "none" /\ f.unfinished \in BOOLEAN
    BY <2>1, <2>2, FromMetaIsInfo
  <2>4. Plain(v.info[e])
    BY <2>3 DEF Plain, Over
  <2>5. ReadToEnd(v, v.info[e])
    BY <2>3 DEF ReadToEnd
  <2>6. AskedOver(v, e)
    BY <1>1, <1>4 DEF AskedOver
  <2>7. QED
    BY <2>4, <2>5, <2>6
<1>5. QED
  BY <1>2, <1>3, <1>4 DEF Whole, v

LEMMA RefreshWhole ==
  ASSUME NEW w, WorldInv(w), EnoughIds(w), Becomes(Refreshed(w)), Whole(w),
         Ahead(w, pending'), Unasked(starting')
  PROVE  FilesInv'
<1> DEFINE v == Refreshed(w)
<1>1. v.parts = w.parts /\ v.finals = w.finals
  BY RefreshedKeeps
<1>2. Whole(v) /\ Becomes(v)
  BY RefreshedWhole
<1> HIDE DEF v
<1>3. Ahead(v, pending')
  BY <1>1 DEF Ahead
<1>4. QED
  BY <1>2, <1>3, FilesAfter

\* removeDownload takes no other row's file: names differ.
LEMMA RemovalLeft ==
  ASSUME NEW w, WorldInv(w), NEW d \in DOMAIN w.info, NEW n,
         WholeBut(w, d, n), WholeRow(w, d, n),
         w.info[d].state \in {"PAUSED", "PAUSING", "READY"}
  PROVE  Left(w, Forget(RemoveFile(w, d), d), d, n)
<1>1. CASE w.info[d].state = "PAUSED"
  <2>1. RemoveFile(w, d) = RemoveOutput(w, d)
    BY <1>1 DEF RemoveFile
  <2>2. Part(w, d, n)
    BY <1>1, LooseRow DEF Loose, Over
  <2>3. QED
    BY <2>1, <2>2, PartForgotten
<1>2. CASE w.info[d].state # "PAUSED"
  <2> DEFINE u == RemoveFinal(w, n)
             K == DOMAIN u.info \ {d}
             v == Only(u, K)
  <2>1. w.info[d].name = n
    BY DEF WholeRow
  <2>2. /\ WorldInv(u) /\ DOMAIN u.info = DOMAIN w.info
        /\ \A e \in DOMAIN w.info : u.info[e] = Robbed(w.info[e], n)
        /\ u.parts = w.parts /\ u.requests = w.requests
        /\ u.finals = Less(w.finals, n)
    BY RemoveFinalKeeps
  <2>3. Forget(RemoveFile(w, d), d) = v
    BY <1>2, <2>1 DEF RemoveFile, Forget
  <2> HIDE DEF u
  <2>4. /\ DOMAIN u.finals = DOMAIN w.finals \ {n}
        /\ \A m \in DOMAIN u.finals : u.finals[m] = w.finals[m]
    BY <2>2 DEF Less, Restrict
  <2>5. \A e \in DOMAIN w.info \ {d} : u.info[e] = w.info[e]
    <3>1. SUFFICES ASSUME NEW e \in DOMAIN w.info \ {d} PROVE Robbed(w.info[e], n) = w.info[e]
      BY <2>2
    <3>2. w.info[e] \in Info /\ w.info[e].bereft = FALSE /\ w.info[e].name # n
      BY DEF WholeBut, Plain, WorldInv, IsWorld
    <3>3. (w.info[e].bereft \/ (w.info[e].name = n /\ ~w.info[e].unfinished)) = FALSE
      BY <3>2
    <3>4. Robbed(w.info[e], n) = [w.info[e] EXCEPT !.bereft = FALSE]
      BY <3>3 DEF Robbed
    <3>5. QED
      BY <3>2, <3>4 DEF Info
  <2>6. /\ DOMAIN v.info = K /\ \A e \in K : v.info[e] = u.info[e]
        /\ v.parts = u.parts /\ v.finals = u.finals /\ v.requests = u.requests
    BY <2>2, OnlyKeeps DEF WorldInv
  <2> HIDE DEF v
  <2>7. OnlyFile(w, v, d, n)
    BY <2>2, <2>4, <2>5, <2>6 DEF OnlyFile
  <2>8. WholeFile(v, n) /\ d \notin DOMAIN v.info
    BY <2>4, <2>6 DEF WholeFile
  <2>9. QED
    BY <2>3, <2>7, <2>8 DEF Left, WholeRow
<1>3. QED
  BY <1>1, <1>2

LEMMA RemoveDownloadWhole ==
  ASSUME Inv, FilesInv, NEW d \in DOMAIN info, RemoveDownload(d)
  PROVE  FilesInv'
<1> DEFINE w == Forget(RemoveFile(world, d), d)
<1>1. /\ EnoughIds(w) /\ Becomes(Refreshed(w)) /\ pending' = pending /\ starting' = starting
      /\ info[d].state \in {"PAUSED", "PAUSING", "READY"}
  BY DEF RemoveDownload, rest
<1>2. /\ WorldInv(world) /\ world.info = info /\ d \in DOMAIN world.info
      /\ WholeBut(world, d, info[d].name) /\ WholeRow(world, d, info[d].name)
  BY RowOfList
<1>3. WorldInv(w)
  BY <1>2, RemovalKeeps
<1>4. Left(world, w, d, info[d].name)
  BY <1>1, <1>2, RemovalLeft
<1> HIDE DEF w
<1>5. Whole(w) /\ Ahead(w, pending') /\ Unasked(starting')
  BY <1>1, <1>4, LeftWhole DEF FilesInv
<1>6. QED
  BY <1>1, <1>3, <1>5, RefreshWhole

LEMMA DirectoryChangedWhole ==
  ASSUME Inv, FilesInv, DirectoryChanged
  PROVE  FilesInv'
<1>1. /\ WorldInv(world) /\ EnoughIds(world) /\ Becomes(Refreshed(world)) /\ Whole(world)
      /\ Ahead(world, pending') /\ Unasked(starting')
  BY DEF Inv, FilesInv, DirectoryChanged, rest
<1>2. QED
  BY <1>1, RefreshWhole

LEMMA RestartWhole ==
  ASSUME Inv, FilesInv, Restart
  PROVE  FilesInv'
<1> DEFINE w == [world EXCEPT !.list = <<>>, !.info = <<>>, !.requests = {}]
<1>1. EnoughIds(w) /\ Becomes(Refreshed(w)) /\ pending' = {} /\ starting' = <<>>
  BY DEF Restart
<1>2. /\ DOMAIN w = {"list", "info", "parts", "finals", "requests"}
      /\ w.list = <<>> /\ w.info = <<>> /\ w.parts = world.parts /\ w.finals = world.finals
      /\ w.requests = {}
  BY DEF world
<1> HIDE DEF w
<1>3. w.list \in Seq(Ids) /\ IsInjective(w.list) /\ Range(w.list) = {} /\ DOMAIN w.info = {}
  BY <1>2 DEF IsInjective, Range
<1>4. IsWorld(w)
  BY <1>2, <1>3 DEF Inv, WorldInv, IsWorld
<1>5. WorldInv(w)
  BY <1>2, <1>3, <1>4 DEF Inv, WorldInv
<1>6. Whole(w)
  BY <1>2, <1>3 DEF FilesInv, Whole, WholeFile
<1>7. Ahead(w, pending') /\ Unasked(starting')
  BY <1>1 DEF Ahead, Unasked
<1>8. QED
  BY <1>1, <1>5, <1>6, <1>7, RefreshWhole

LEMMA ListedWhole ==
  ASSUME Inv, FilesInv, Listed
  PROVE  FilesInv'
BY TransferWhole, CancelDownloadWhole, PauseDownloadWhole, ResumeDownloadWhole,
   RemoveDownloadWhole DEF Listed

\* An answer about a download: only rows that are over are asked about.
LEMMA AnswerWhole ==
  ASSUME Inv, FilesInv, NEW d, NEW kind \in {"description", "files"},
         [kind |-> kind, of |-> d] \in requests,
         NEW v, v.parts = parts, v.finals = finals, DOMAIN v.info = DOMAIN info,
         \A e \in DOMAIN info : e # d => v.info[e] = info[e],
         NEW s \in Over, d \in DOMAIN info => v.info[d] = [info[d] EXCEPT !.state = s],
         \A k, e : e # d /\ [kind |-> k, of |-> e] \in v.requests => [kind |-> k, of |-> e] \in requests
  PROVE  Whole(v)
<1>1. /\ WorldInv(world) /\ Whole(world) /\ world.info = info /\ world.parts = parts
      /\ world.finals = finals /\ world.requests = requests
  BY Fields DEF Inv, FilesInv
<1>2. \A e \in DOMAIN info : info[e] \in Info /\ Plain(info[e]) /\ AskedOver(world, e)
  BY <1>1 DEF WorldInv, IsWorld, Whole
<1>3. ASSUME d \in DOMAIN info
      PROVE  /\ v.info[d].name = info[d].name /\ v.info[d].reply = info[d].reply
             /\ v.info[d].position = info[d].position
             /\ Plain(v.info[d]) /\ AskedOver(v, d)
  <2>1. info[d].state \in Over
    BY <1>1, <1>2, <1>3 DEF AskedOver
  <2>2. info[d] \in Info /\ Plain(info[d])
    BY <1>2, <1>3
  <2>3. /\ v.info[d].name = info[d].name /\ v.info[d].reply = info[d].reply
        /\ v.info[d].position = info[d].position /\ v.info[d].state = s
        /\ v.info[d].unfinished = info[d].unfinished /\ v.info[d].bereft = info[d].bereft
        /\ v.info[d].wired = info[d].wired
    BY <1>3, <2>2 DEF Info
  <2>4. Plain(v.info[d])
    BY <2>1, <2>2, <2>3 DEF Plain
  <2>5. AskedOver(v, d)
    BY <2>3 DEF AskedOver
  <2>6. QED
    BY <2>3, <2>4, <2>5
<1>4. \A e \in DOMAIN info : e # d => AskedOver(v, e)
  BY <1>1, <1>2 DEF AskedOver
<1>5. \A e \in DOMAIN v.info :
        /\ e \in DOMAIN world.info
        /\ v.info[e].name = world.info[e].name
        /\ v.info[e].reply = world.info[e].reply /\ v.info[e].position = world.info[e].position
        /\ Plain(v.info[e]) /\ AskedOver(v, e)
  BY <1>1, <1>2, <1>3, <1>4
<1>6. QED
  BY <1>1, <1>5, RowsWhole

LEMMA AnswerStep ==
  ASSUME FilesInv, UNCHANGED <<pending, starting>>, NEW v, Becomes(v), Whole(v),
         v.parts = parts, v.finals = finals
  PROVE  FilesInv'
<1>1. Ahead(v, pending') /\ Unasked(starting')
  BY Fields DEF FilesInv, Ahead
<1>2. QED
  BY <1>1, FilesAfter

LEMMA ReadyWhole ==
  ASSUME Inv, FilesInv, NEW d \in Ids, NEW kind \in {"description", "files"},
         [kind |-> kind, of |-> d] \in requests,
         Becomes(Ready(Without(d, kind), d)), UNCHANGED <<pending, starting>>
  PROVE  FilesInv'
<1> DEFINE w == Without(d, kind)
           v == Ready(w, d)
<1>1. /\ DOMAIN w = {"list", "info", "parts", "finals", "requests"}
      /\ w.info = info /\ w.parts = parts /\ w.finals = finals
      /\ w.requests = requests \ {[kind |-> kind, of |-> d]}
  BY WithoutFields
<1> HIDE DEF w
<1>2. /\ v.parts = parts /\ v.finals = finals /\ DOMAIN v.info = DOMAIN info
      /\ v.requests = w.requests
      /\ \A e \in DOMAIN info : e # d => v.info[e] = info[e]
      /\ d \in DOMAIN info => v.info[d] = [info[d] EXCEPT !.state = "READY"]
  BY <1>1 DEF Ready
<1>3. Becomes(v)
  BY DEF w
<1> HIDE DEF v
<1>4. \A k, e : [kind |-> k, of |-> e] \in v.requests => [kind |-> k, of |-> e] \in requests
  BY <1>1, <1>2
<1>5. "READY" \in Over
  BY DEF Over
<1>6. Whole(v)
  BY <1>2, <1>4, <1>5, AnswerWhole
<1>7. QED
  BY <1>2, <1>3, <1>6, AnswerStep

LEMMA DescriptionAvailableWhole ==
  ASSUME Inv, FilesInv, NEW d \in Ids, DescriptionAvailable(d)
  PROVE  FilesInv'
<1> DEFINE w == Without(d, "description")
           v == Ask([w EXCEPT !.info[d].state = "FETCHINGFILEINFO"], d, "files")
<1>1. [kind |-> "description", of |-> d] \in requests /\ UNCHANGED <<pending, starting>>
  BY DEF DescriptionAvailable, Answered
<1>2. CASE ~(d \in DOMAIN info /\ info[d].name.link \in Browsed)
  BY <1>1, <1>2, ReadyWhole DEF DescriptionAvailable
<1>3. CASE d \in DOMAIN info /\ info[d].name.link \in Browsed
  <2>1. /\ DOMAIN w = {"list", "info", "parts", "finals", "requests"}
        /\ w.info = info /\ w.parts = parts /\ w.finals = finals
        /\ w.requests = requests \ {[kind |-> "description", of |-> d]}
    BY WithoutFields
  <2>2. Becomes(v)
    BY <1>3 DEF DescriptionAvailable
  <2> HIDE DEF w
  <2>3. /\ v.parts = parts /\ v.finals = finals /\ DOMAIN v.info = DOMAIN info
        /\ v.requests = w.requests \cup {[kind |-> "files", of |-> d]}
        /\ \A e \in DOMAIN info : e # d => v.info[e] = info[e]
        /\ v.info[d] = [info[d] EXCEPT !.state = "FETCHINGFILEINFO"]
    BY <1>3, <2>1 DEF Ask
  <2> HIDE DEF v
  <2>4. \A k, e : e # d /\ [kind |-> k, of |-> e] \in v.requests => [kind |-> k, of |-> e] \in requests
    BY <2>1, <2>3, RequestKinds
  <2>5. "FETCHINGFILEINFO" \in Over
    BY DEF Over
  <2>6. Whole(v)
    BY <1>1, <2>3, <2>4, <2>5, AnswerWhole
  <2>7. QED
    BY <1>1, <2>2, <2>3, <2>6, AnswerStep
<1>4. QED
  BY <1>2, <1>3

\* A failed answer finds no row that is on its way, and none is forgotten.
LEMMA RequestFailedWhole ==
  ASSUME Inv, FilesInv, NEW d \in Ids, RequestFailed(d)
  PROVE  FilesInv'
<1> DEFINE early == {"DOWNLOADING", "CANCELING", "PAUSING", "CANCELED", "PAUSED"}
<1>1. PICK kind \in {"description", "files"} :
        /\ [kind |-> kind, of |-> d] \in requests
        /\ Becomes(IF d \in DOMAIN info /\ info[d].state \in early
                   THEN Forget(Without(d, kind), d) ELSE Ready(Without(d, kind), d))
        /\ UNCHANGED <<pending, starting>>
  BY DEF RequestFailed, Answered
<1>2. d \in DOMAIN info => info[d].state \in Over
  BY <1>1, Fields DEF FilesInv, Whole, AskedOver
<1>3. ~(d \in DOMAIN info /\ info[d].state \in early)
  BY <1>2 DEF Over
<1>4. QED
  BY <1>1, <1>3, ReadyWhole

\* A link is queued, asked for once more, or given up.
LEMMA QueueWhole ==
  ASSUME Inv, FilesInv, UNCHANGED <<files, starting>>,
         \A d, kind : kind \in {"description", "files"} =>
           ([kind |-> kind, of |-> d] \in requests' <=> [kind |-> kind, of |-> d] \in requests),
         Ahead(world, pending')
  PROVE  FilesInv'
<1>1. /\ world'.info = world.info /\ world'.parts = world.parts
      /\ world'.finals = world.finals /\ world'.requests = requests'
      /\ world.requests = requests /\ starting' = starting
  BY DEF world, files
<1>2. Whole(world')
  BY <1>1 DEF FilesInv, Whole, WholeFile, ReadToEnd, AskedOver
<1>3. Ahead(world', pending') /\ Unasked(starting')
  BY <1>1 DEF Ahead, FilesInv
<1>4. QED
  BY <1>2, <1>3 DEF FilesInv

LEMMA AddNXMDownloadWhole ==
  ASSUME Inv, FilesInv, Answers = {}, NEW l \in Links, AddNXMDownload(l)
  PROVE  FilesInv'
<1>1. /\ \A n \in DOMAIN parts : n.link # l
      /\ \A n \in DOMAIN finals : n.link # l
      /\ pending' = pending \cup {l}
      /\ requests' = requests \cup {[kind |-> "file", of |-> l]}
      /\ UNCHANGED <<files, starting>>
  BY DEF AddNXMDownload, Wanted
<1>2. \A k, m : [kind |-> k, of |-> m] \in requests' <=>
                [kind |-> k, of |-> m] \in requests \/ (k = "file" /\ m = l)
  BY <1>1, RequestKinds
<1>3. Ahead(world, pending')
  BY <1>1, Fields DEF FilesInv, Ahead
<1>4. QED
  BY <1>1, <1>2, <1>3, QueueWhole

LEMMA FileInfoAvailableWhole ==
  ASSUME Inv, FilesInv, NEW l \in Links, FileInfoAvailable(l)
  PROVE  FilesInv'
<1>1. /\ pending' = pending
      /\ requests' = (requests \ {[kind |-> "file", of |-> l]}) \cup {[kind |-> "urls", of |-> l]}
      /\ UNCHANGED <<files, starting>>
  BY DEF FileInfoAvailable
<1>2. \A k, m : [kind |-> k, of |-> m] \in requests' <=>
                \/ [kind |-> k, of |-> m] \in requests /\ ~(k = "file" /\ m = l)
                \/ k = "urls" /\ m = l
  BY <1>1, RequestKinds
<1>3. Ahead(world, pending')
  BY <1>1 DEF FilesInv
<1>4. QED
  BY <1>1, <1>2, <1>3, QueueWhole

LEMMA NotAvailableWhole ==
  ASSUME Inv, FilesInv, NEW l \in Links, NotAvailable(l)
  PROVE  FilesInv'
<1>1. PICK kind \in {"file", "urls"} :
        /\ pending' = pending \ {l}
        /\ requests' = requests \ {[kind |-> kind, of |-> l]}
        /\ UNCHANGED <<files, starting>>
  BY DEF NotAvailable, Answered
<1>2. \A k, m : [kind |-> k, of |-> m] \in requests' <=>
                [kind |-> k, of |-> m] \in requests /\ ~(k = kind /\ m = l)
  BY <1>1, RequestKinds
<1>3. Ahead(world, pending')
  BY <1>1 DEF FilesInv, Ahead
<1>4. QED
  BY <1>1, <1>2, <1>3, QueueWhole

\* startDownload of a file of which there is nothing
LEMMA StartedWhole ==
  ASSUME NEW w, WorldInv(w), Whole(w), NEW l \in Links, Started(w, l),
         \A m \in DOMAIN w.parts \cup DOMAIN w.finals : m.link # l,
         Ahead(w, pending \ {l}), Unasked(starting), starting \in Seq([of : Ids, asked : BOOLEAN])
  PROVE  FilesInv'
<1> DEFINE d == NextID(w)
           n == [link |-> l, copy |-> 0]
           i == [name |-> n, unfinished |-> TRUE, state |-> "DOWNLOADING",
                 tries |-> Retries, reply |-> "running", position |-> 1, awaited |-> TRUE,
                 open |-> TRUE, wired |-> Connected(FALSE), bereft |-> FALSE]
           v == WithRow(w, d, i)
<1>1. n.link = l /\ n \notin DOMAIN w.finals /\ n \notin DOMAIN w.parts
  <2>1. n.link = l
    OBVIOUS
  <2> HIDE DEF n
  <2>2. QED
    BY <2>1
<1>2. /\ Fresh(w) # {} /\ Becomes(v) /\ pending' = pending \ {l}
      /\ starting' = Append(starting, [of |-> d, asked |-> FALSE])
  <2>1. (n \in DOMAIN w.finals) = FALSE
    BY <1>1
  <2>2. QED
    BY <2>1 DEF Started, WithRow
<1>3. d \in Fresh(w)
  BY <1>2, NextIDIsFresh
<1>4. d \in Ids \ DOMAIN w.info /\ \A r \in w.requests : r.of # d
  BY <1>3 DEF Fresh
<1>5. n \in Names
  BY DownloadAssumption DEF Names
<1>6. 1 \in 1..Size + 2 /\ Retries \in 0..Retries /\ 1 # Size + 1
  BY DownloadAssumption
<1>7. Connected(FALSE) = TRUE
  BY DEF Connected
<1>8. /\ i \in Info /\ i.name = n /\ i.unfinished = TRUE /\ i.bereft = FALSE
      /\ i.state = "DOWNLOADING" /\ i.reply = "running" /\ i.position = 1 /\ i.wired = TRUE
  <2> HIDE DEF n
  <2>1. QED
    BY <1>5, <1>6, <1>7 DEF Info, States
<1> HIDE DEF d, n, i
<1>9. /\ DOMAIN v.info = DOMAIN w.info \cup {d} /\ v.info[d] = i
      /\ \A e \in DOMAIN w.info : v.info[e] = w.info[e]
      /\ DOMAIN v.parts = DOMAIN w.parts \cup {i.name}
      /\ \A m \in DOMAIN w.parts : v.parts[m] = w.parts[m]
      /\ v.finals = w.finals /\ v.requests = w.requests
  <2>1. /\ i \in Info /\ i.unfinished /\ i.state \in {"PAUSING", "DOWNLOADING"}
        /\ \A m \in DOMAIN w.parts : m.link # i.name.link
    BY <1>1, <1>8
  <2>2. QED
    BY <1>4, <2>1, NewRow
<1> HIDE DEF v
<1>10. \A m : WholeFile(v, m)
  BY <1>1, <1>8, <1>9 DEF Whole, WholeFile
<1>11. ASSUME NEW e \in DOMAIN w.info
       PROVE  Plain(v.info[e]) /\ ReadToEnd(v, v.info[e]) /\ AskedOver(v, e)
  <2>1. /\ Plain(w.info[e]) /\ ReadToEnd(w, w.info[e]) /\ AskedOver(w, e)
        /\ HasFile(w, w.info[e])
    BY DEF Whole, WorldInv
  <2>2. w.info[e].reply = "running" => w.info[e].name \in DOMAIN w.parts
    BY <2>1 DEF Plain, HasFile
  <2>3. ReadToEnd(v, v.info[e])
    BY <1>9, <2>1, <2>2 DEF ReadToEnd
  <2>4. QED
    BY <1>9, <2>1, <2>3 DEF AskedOver
<1>12. Plain(v.info[d]) /\ ReadToEnd(v, v.info[d]) /\ AskedOver(v, d)
  <2>1. Plain(i)
    BY <1>8 DEF Plain, Over
  <2>2. i.position # Size + 1
    BY <1>6, <1>8
  <2>3. \A kind : [kind |-> kind, of |-> d].of = d
    OBVIOUS
  <2>4. \A kind : [kind |-> kind, of |-> d] \notin w.requests
    BY <1>4, <2>3
  <2>5. QED
    BY <1>9, <2>1, <2>2, <2>4 DEF ReadToEnd, AskedOver
<1>13. Whole(v)
  BY <1>9, <1>10, <1>11, <1>12 DEF Whole
<1>14. Ahead(v, pending')
  BY <1>1, <1>2, <1>8, <1>9 DEF Ahead
<1>15. Unasked(starting')
  <2> DEFINE s == [of |-> d, asked |-> FALSE]
  <2>1. s \in [of : Ids, asked : BOOLEAN] /\ s.asked = FALSE
    BY <1>4
  <2> HIDE DEF s
  <2>2. \A k \in DOMAIN Append(starting, s) :
          \/ k \in DOMAIN starting /\ Append(starting, s)[k] = starting[k]
          \/ Append(starting, s)[k] = s
    BY <2>1
  <2>3. QED
    BY <1>2, <2>1, <2>2 DEF Unasked, s
<1>16. QED
  BY <1>2, <1>13, <1>14, <1>15, FilesAfter

LEMMA URLsAvailableWhole ==
  ASSUME Inv, FilesInv, NEW l \in Links, URLsAvailable(l)
  PROVE  FilesInv'
<1> DEFINE w == [world EXCEPT !.requests = @ \ {[kind |-> "urls", of |-> l]}]
<1>1. [kind |-> "urls", of |-> l] \in requests /\ Started(w, l)
  BY DEF URLsAvailable, Answered
<1>2. /\ DOMAIN w = {"list", "info", "parts", "finals", "requests"}
      /\ w.list = list /\ w.info = info /\ w.parts = parts /\ w.finals = finals
      /\ w.requests = requests \ {[kind |-> "urls", of |-> l]}
  BY DEF world
<1>3. /\ WorldInv(world) /\ Queues(world, pending) /\ Holds(world, starting)
      /\ Whole(world) /\ Ahead(world, pending) /\ Unasked(starting)
      /\ world.list = list /\ world.info = info /\ world.parts = parts
      /\ world.finals = finals /\ world.requests = requests
  BY Fields DEF Inv, FilesInv
<1> HIDE DEF w
<1>4. \A k, m : [kind |-> k, of |-> m] \in w.requests <=>
                [kind |-> k, of |-> m] \in requests /\ ~(k = "urls" /\ m = l)
  BY <1>2, RequestKinds
<1>5. IsWorld(w)
  BY <1>2, <1>3 DEF WorldInv, IsWorld
<1>6. \A e \in DOMAIN w.info : HasFile(w, w.info[e]) /\ Waits(w, e, w.info[e])
  BY <1>2, <1>3, <1>4 DEF WorldInv, HasFile, Waits
<1>7. WorldInv(w)
  BY <1>2, <1>3, <1>5, <1>6 DEF WorldInv
<1>8. Whole(w)
  BY <1>2, <1>3, <1>4 DEF Whole, WholeFile, ReadToEnd, AskedOver
<1>9. l \in pending
  BY <1>1, <1>3 DEF Queues
<1>10. \A m \in DOMAIN w.parts \cup DOMAIN w.finals : m.link # l
  BY <1>2, <1>3, <1>9 DEF Ahead
<1>11. Ahead(w, pending \ {l})
  BY <1>2, <1>3 DEF Ahead
<1>12. starting \in Seq([of : Ids, asked : BOOLEAN])
  BY <1>3 DEF Holds
<1>13. QED
  BY <1>1, <1>3, <1>7, <1>8, <1>10, <1>11, <1>12, StartedWhole

LEMMA BrowserDownloadWhole ==
  ASSUME Inv, FilesInv, Answers = {}, NEW l \in Links, BrowserDownload(l)
  PROVE  FilesInv'
<1>1. /\ \A n \in DOMAIN parts : n.link # l
      /\ \A n \in DOMAIN finals : n.link # l
      /\ Started(world, l)
  BY DEF BrowserDownload, Wanted
<1>2. /\ WorldInv(world) /\ Whole(world) /\ Ahead(world, pending) /\ Unasked(starting)
      /\ starting \in Seq([of : Ids, asked : BOOLEAN])
      /\ world.parts = parts /\ world.finals = finals
  BY Fields DEF Inv, FilesInv, Holds
<1>3. \A m \in DOMAIN world.parts \cup DOMAIN world.finals : m.link # l
  BY <1>1, <1>2
<1>4. Ahead(world, pending \ {l})
  BY <1>2 DEF Ahead
<1>5. QED
  BY <1>1, <1>2, <1>3, <1>4, StartedWhole

\* The end of startDownload
LEMMA StartEndsWhole ==
  ASSUME Inv, FilesInv, NEW d \in Ids, StartEnds(d)
  PROVE  FilesInv'
<1> DEFINE i == [world.info[d] EXCEPT !.awaited = FALSE]
           w == [world EXCEPT !.info[d] = i]
<1>1. Innermost(d, FALSE) /\ starting' = Front(starting)
  BY DEF StartEnds
<1>2. pending' = pending /\ starting # <<>>
  BY <1>1 DEF Innermost
<1>3. Unasked(starting')
  <2>1. starting \in Seq([of : Ids, asked : BOOLEAN]) /\ Unasked(starting)
    BY DEF Inv, Holds, FilesInv
  <2>2. \A k \in DOMAIN Front(starting) : k \in DOMAIN starting /\ Front(starting)[k] = starting[k]
    <3> DEFINE C == [of : Ids, asked : BOOLEAN]
    <3>1. starting \in Seq(C)
      BY <2>1
    <3> HIDE DEF C
    <3>2. QED
      BY <1>2, <3>1, LastAndFront
  <2>3. QED
    BY <1>1, <2>1, <2>2 DEF Unasked
<1>4. CASE d \notin DOMAIN info
  <2>1. Becomes(world)
    BY <1>4 DEF StartEnds
  <2>2. Whole(world) /\ Ahead(world, pending')
    BY <1>2 DEF FilesInv
  <2>3. QED
    BY <1>3, <2>1, <2>2, FilesAfter
<1>5. CASE d \in DOMAIN info
  <2> DEFINE n == info[d].name
  <2>1. /\ WorldInv(world) /\ world.info = info /\ d \in DOMAIN world.info
        /\ Whole(world) /\ WholeRow(world, d, n) /\ n = info[d].name
    BY <1>5, RowOfList DEF FilesInv
  <2> HIDE DEF n
  <2>2. w = [world EXCEPT !.info[d].awaited = FALSE]
    BY <2>1 DEF WorldInv, IsWorld
  <2>3. \/ Becomes(w)
        \/ /\ Becomes(FinishedAt(w, d))
           /\ info[d].state \notin {"DOWNLOADING", "READY", "FETCHINGMODINFO"}
    BY <1>5, <2>2 DEF StartEnds
  <2>4. world.info[d] \in Info
    BY <2>1 DEF WorldInv, IsWorld
  <2>5. /\ Same(i, world.info[d]) /\ i.wired = world.info[d].wired
        /\ i.reply = world.info[d].reply /\ i.position = world.info[d].position
    BY <2>4 DEF Info, Same
  <2> HIDE DEF i
  <2>6. /\ DOMAIN w.info = DOMAIN world.info /\ w.info[d] = i
        /\ \A e \in DOMAIN world.info \ {d} : w.info[e] = world.info[e]
        /\ w.parts = world.parts /\ w.finals = world.finals /\ w.requests = world.requests
    BY <2>1 DEF WorldInv, IsWorld
  <2>7. WorldInv(w)
    BY <2>1, <2>5, RowStays
  <2> HIDE DEF w
  <2>8. OnlyFile(world, w, d, n)
    BY <2>1, <2>6 DEF OnlyFile
  <2>9. WholeRow(w, d, n)
    BY <2>1, <2>5, <2>6 DEF WholeRow, WholeFile, Plain, ReadToEnd, AskedOver, Same
  <2>10. Left(world, w, d, n)
    BY <2>8, <2>9 DEF Left
  <2>11. CASE Becomes(w)
    BY <1>2, <1>3, <1>5, <2>1, <2>10, <2>11, LeftStep
  <2>12. CASE /\ Becomes(FinishedAt(w, d))
              /\ info[d].state \notin {"DOWNLOADING", "READY", "FETCHINGMODINFO"}
    <3>1. w.info[d].state \notin {"DOWNLOADING", "READY", "FETCHINGMODINFO"}
      BY <2>1, <2>5, <2>6, <2>12 DEF Same
    <3>2. Left(w, FinishedAt(w, d), d, n)
      BY <2>1, <2>6, <2>7, <2>9, <3>1, FinishedAtLeft
    <3>3. Left(world, FinishedAt(w, d), d, n)
      BY <2>8, <3>2, LeftTwice
    <3>4. QED
      BY <1>2, <1>3, <1>5, <2>1, <2>12, <3>3, LeftStep
  <2>13. QED
    BY <2>3, <2>11, <2>12
<1>6. QED
  BY <1>4, <1>5

LEMMA AskedWhole ==
  ASSUME Inv, FilesInv, Answers = {}, Asked
  PROVE  FilesInv'
<1>1. ASSUME NEW l \in Links,
             \/ AddNXMDownload(l) \/ BrowserDownload(l)
             \/ FileInfoAvailable(l) \/ NotAvailable(l) \/ URLsAvailable(l)
      PROVE  FilesInv'
  BY <1>1, AddNXMDownloadWhole, BrowserDownloadWhole, FileInfoAvailableWhole,
     NotAvailableWhole, URLsAvailableWhole
<1>2. ASSUME NEW d \in Ids,
             \/ DescriptionAvailable(d) \/ FilesAvailable(d) \/ RequestFailed(d)
             \/ AnswerNo(d) \/ AnswerYes(d) \/ StartEnds(d)
      PROVE  FilesInv'
  <2>1. CASE FilesAvailable(d)
    BY <2>1, ReadyWhole DEF FilesAvailable, Answered
  <2>2. ~AnswerNo(d) /\ ~AnswerYes(d)
    BY DEF AnswerNo, AnswerYes
  <2>3. QED
    BY <1>2, <2>1, <2>2, DescriptionAvailableWhole, RequestFailedWhole, StartEndsWhole
<1>3. QED
  BY <1>1, <1>2 DEF Asked

LEMMA FilesInit == Init => FilesInv
<1>1. SUFFICES ASSUME Init PROVE FilesInv
  OBVIOUS
<1>2. /\ info = <<>> /\ parts = <<>> /\ finals = <<>> /\ requests = {}
      /\ pending = {} /\ starting = <<>>
  BY <1>1 DEF Init
<1>3. Whole(world)
  BY <1>2, Fields DEF Whole, WholeFile
<1>4. Ahead(world, pending) /\ Unasked(starting)
  BY <1>2 DEF Ahead, Unasked
<1>5. QED
  BY <1>3, <1>4 DEF FilesInv

LEMMA FilesNext ==
  ASSUME Inv, FilesInv, Answers = {}, [Next]_vars
  PROVE  FilesInv'
<1>1. CASE UNCHANGED vars
  <2>1. UNCHANGED <<list, info, parts, finals, requests, pending, starting>>
    BY <1>1 DEF vars, files, rest
  <2>2. Becomes(world) /\ Whole(world) /\ Ahead(world, pending') /\ Unasked(starting')
    BY <2>1, Fields DEF Becomes, FilesInv
  <2>3. QED
    BY <2>2, FilesAfter
<1>2. QED
  BY <1>1, ListedWhole, AskedWhole, PauseAllWhole, DirectoryChangedWhole, RestartWhole DEF Next

\* Where nobody is asked "Download again?", a file has its final name only when its last
\* piece was the last one written: whatever is paused, resumed, retried, canceled,
\* removed, refused or read again after the program's end.  Elsewhere it need
\* not be so: after "yes" setName takes ".unfinished" off while the transfer is PAUSING,
\* whatever has been written; after "no" a transfer that broke is tried again, and
\* removing it deletes the file that was here, whose own startDownload may try it again
\* under its final name.
THEOREM FinishedWhole == ASSUME Answers = {} PROVE Spec => []FinishedReachEnd
<1>1. FilesInv => FinishedReachEnd
  BY Fields DEF FilesInv, Whole, WholeFile, FinishedReachEnd
<1>2. Inv /\ FilesInv /\ [Next]_vars => FilesInv'
  BY FilesNext
<1>3. QED
  BY <1>1, <1>2, FilesInit, Invariance, PTL DEF Spec

=============================================================================
