------------------------------- MODULE Sorting -------------------------------
(***************************************************************************)
(* Sorting, selecting and folding without recursive operators, so that     *)
(* there are facts to prove about them. What is sorted here is sorted by   *)
(* keys that differ, so there is one result.                               *)
(***************************************************************************)
EXTENDS Integers, Sequences, FiniteSets, SequencesExt

\* The elements of S by ascending key.
SortedBy(S, key) ==
  [k \in 1..Cardinality(S) |->
     CHOOSE s \in S : Cardinality({r \in S : key[r] < key[s]}) = k - 1]

\* The numbers of a set.
Ascending(S) == SortedBy(S, [s \in S |-> s])

\* The elements of a sequence that are in S, in the order of the sequence:
\* SelectSeq without a recursive definition.
Among(s, S) ==
  LET at == Ascending({k \in DOMAIN s : s[k] \in S})
  IN [j \in DOMAIN at |-> s[at[j]]]

\* FoldLeft as a function whose equations the provers can unfold.
Through(step(_, _), start, s) ==
  LET after[k \in 0..Len(s)] == IF k = 0 THEN start ELSE step(after[k - 1], s[k])
  IN after[Len(s)]
=============================================================================
