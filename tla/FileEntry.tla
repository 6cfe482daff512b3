------------------------------ MODULE FileEntry ------------------------------
(***************************************************************************)
(* One file of the virtual data directory and the origins that provide it: *)
(* FileEntry::addOrigin, removeOrigin and sortOrigins of                   *)
(* shared/fileentry.cpp, as operators.  Each runs under m_OriginsMutex, so *)
(* each is one atomic change of an entry.                                  *)
(*                                                                         *)
(* A provider stands for the pair (origin id, DataArchiveOrigin): whether  *)
(* the file comes out of an archive, and the position of the archive's     *)
(* plugin in the load order (-1 when it has none).  An entry's "main" is   *)
(* m_Origin together with m_Archive; times and sizes are left out.  The    *)
(* parameter prio maps each origin to FilesOrigin::m_Priority.             *)
(***************************************************************************)
EXTENDS Integers, Sequences, FiniteSets, Functions

CONSTANT
  NoOrigin,   \* InvalidOriginID
  Unset       \* INT_MAX, the rank of a negative priority or archive order

ASSUME UnsetAssumption == Unset \in Nat

Provider(Origins) == [origin : Origins, archived : BOOLEAN, order : Int]

NoProvider == [origin |-> NoOrigin, archived |-> FALSE, order |-> -1]

Entry(Origins, Files) ==
  [name : Files,
   main : Provider(Origins) \cup {NoProvider},
   alternatives : Seq(Provider(Origins))]

NewEntry(f) == [name |-> f, main |-> NoProvider, alternatives |-> <<>>]

ProvidersOf(e) == Range(e.alternatives) \cup ({e.main} \ {NoProvider})

\* The origins an entry lists: its main one and the alternatives.
OriginsOf(e) == {p.origin : p \in ProvidersOf(e)}

LeastIndex(S) == CHOOSE i \in S : \A j \in S : i <= j

-----------------------------------------------------------------------------
(* addOrigin *)

\* The provider p takes over from the entry's current provider q.
TakesOver(prio, p, q) ==
  prio[p.origin] > prio[q.origin] \/ (~p.archived /\ q.archived)

HasAlternative(e, o) == \E p \in Range(e.alternatives) : p.origin = o

\* The loop over m_Alternatives stops at the origin itself or at the first
\* alternative of a lower priority, whichever it meets first.
WithAlternative(prio, alts, p) ==
  LET stops == {i \in DOMAIN alts : \/ alts[i].origin = p.origin
                                    \/ prio[alts[i].origin] < prio[p.origin]}
      i     == LeastIndex(stops)
  IN  IF stops = {} THEN Append(alts, p)
      ELSE IF alts[i].origin = p.origin THEN alts
      ELSE SubSeq(alts, 1, i - 1) \o <<p>> \o SubSeq(alts, i, Len(alts))

\* Mutant: the displaced provider is forgotten.
DisplaceForgetting(e, p) == [e EXCEPT !.main = p]

\* The provider p becomes the main one, the old one an alternative.
Displace(e, p) ==
  [e EXCEPT !.main = p,
            !.alternatives = IF HasAlternative(e, e.main.origin) THEN @ ELSE Append(@, e.main)]

\* Mutant: a new entry is treated like one whose provider is displaced.
AddOriginBlindly(prio, e, p) ==
  IF e.main = NoProvider \/ TakesOver(prio, p, e.main) THEN Displace(e, p)
  ELSE IF e.main.origin = p.origin THEN e
  ELSE [e EXCEPT !.alternatives = WithAlternative(prio, @, p)]

AddOrigin(prio, e, p) ==
  IF e.main = NoProvider THEN [e EXCEPT !.main = p]
  ELSE IF TakesOver(prio, p, e.main) THEN Displace(e, p)
  ELSE IF e.main.origin = p.origin THEN e
  ELSE [e EXCEPT !.alternatives = WithAlternative(prio, @, p)]

-----------------------------------------------------------------------------
(* removeOrigin *)

\* While it looks for the successor of a removed origin, the loop moves from
\* its choice q so far to p.
PreferredTo(prio, p, q) ==
  \/ ~p.archived /\ ~q.archived /\ prio[p.origin] > prio[q.origin]
  \/ p.archived /\ q.archived /\ p.order > q.order
  \/ ~p.archived /\ q.archived

\* The loop starts at begin() without asking whose alternative that is, skips
\* the other alternatives of the removed origin, and keeps the earliest of
\* equals.
Successors(prio, alts, o) ==
  LET candidates == {1} \cup {i \in DOMAIN alts : alts[i].origin # o}
  IN  {i \in candidates :
         \A j \in candidates :
           /\ ~PreferredTo(prio, alts[j], alts[i])
           /\ j < i => PreferredTo(prio, alts[i], alts[j])}

\* What std::remove_if leaves of a sequence: the elements at the positions in
\* keep, in their order.
Kept(s, keep) ==
  {[j \in DOMAIN g |-> s[g[j]]] :
     g \in {h \in Surjection(1..Cardinality(keep), keep) :
              \A j, k \in DOMAIN h : j < k => h[j] < h[k]}}

\* The outcome of removeOrigin, a set of one entry.  The code returns true
\* exactly when that entry has no main provider.
RemoveOrigin(prio, e, o) ==
  LET alts == e.alternatives
  IN  IF e.main.origin # o
      THEN {[e EXCEPT !.alternatives = s] :
              s \in Kept(alts, {i \in DOMAIN alts : alts[i].origin # o})}
      ELSE IF alts = <<>> THEN {[e EXCEPT !.main = NoProvider]}
      ELSE {[e EXCEPT !.main = alts[i],
                      !.alternatives = SubSeq(alts, 1, i - 1)
                                         \o SubSeq(alts, i + 1, Len(alts))] :
              i \in Successors(prio, alts, o)}

-----------------------------------------------------------------------------
(* sortOrigins *)

\* Mutant: a missing priority or archive order sorts below all others.
RankRaw(n) == n

Rank(n) == IF n < 0 THEN Unset ELSE n

\* The comparison given to std::sort: archives below loose files, loose files
\* by the priority of their origin, archives by the load order.
SortsBelow(prio, p, q) ==
  \/ ~p.archived /\ ~q.archived /\ Rank(prio[p.origin]) < Rank(prio[q.origin])
  \/ p.archived /\ q.archived /\ Rank(p.order) < Rank(q.order)
  \/ p.archived /\ ~q.archived

\* std::sort leaves the order of equals open, so every sorted arrangement of
\* the providers is a possible outcome; the last one becomes the main provider.
SortOrigins(prio, e) ==
  LET all       == Append(e.alternatives, e.main)
      n         == Len(all)
      arranged  == {r \in Bijection(1..n, 1..n) :
                      \A i, j \in 1..n :
                        i < j => ~SortsBelow(prio, all[r[j]], all[r[i]])}
  IN  {[e EXCEPT !.main = all[r[n]],
                 !.alternatives = [i \in 1..(n-1) |-> all[r[i]]]] : r \in arranged}

\* FileEntry::isFromArchive(name), the archives of an origin standing for their
\* names: the entry lists the file as coming from an archive of o.
FromArchiveOf(e, o) ==
  \E p \in ProvidersOf(e) : p.archived /\ p.origin = o
=============================================================================
