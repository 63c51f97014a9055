-------------------------------- MODULE Rollups --------------------------------
(***************************************************************************)
(* What the derivations of a report share: counters per key, sums over a   *)
(* list, and orders cut off after their first entries.                     *)
(***************************************************************************)
EXTENDS Integers, Sequences, FiniteSets, SequencesExt

One(condition) == IF condition THEN 1 ELSE 0
SumOver(s, F(_)) == SumFunction([i \in DOMAIN s |-> F(s[i])])

(* *map.entry(k).or_insert(0) += n *)
Empty == [x \in {} |-> 0]
Plus(f, k, n) == [x \in DOMAIN f \cup {k} |->
                    (IF x \in DOMAIN f THEN f[x] ELSE 0) + (IF x = k THEN n ELSE 0)]

(* sort_by of what a hash map held: among those that compare equal the     *)
(* code's order is any, this one is one of them.                           *)
Ranked(S, Before(_, _)) ==
  CHOOSE s \in SetToSeqs(S) : \A i, j \in DOMAIN s : i < j => ~Before(s[j], s[i])

(* sort_by a total order: what has k - 1 others before it is the k-th.     *)
InOrder(S, Before(_, _)) ==
  [k \in 1 .. Cardinality(S) |->
     CHOOSE x \in S : Cardinality({y \in S : Before(y, x)}) = k - 1]

(* Some entries of a list, sorted: sort_by is stable.                      *)
Where(s, P(_)) == {i \in DOMAIN s : P(s[i])}
Listed(s, I, Before(_, _)) ==
  LET at == InOrder(I, LAMBDA i, j : \/ Before(s[i], s[j])
                                     \/ ~Before(s[j], s[i]) /\ i < j)
  IN  [k \in DOMAIN at |-> s[at[k]]]

(* truncate *)
FirstOf(s, n) == SubSeq(s, 1, IF Len(s) < n THEN Len(s) ELSE n)
=============================================================================
