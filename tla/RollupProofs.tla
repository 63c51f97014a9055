----------------------------- MODULE RollupProofs -----------------------------
(***************************************************************************)
(* Facts about finite sums and rankings, for the proofs about the roll-ups *)
(* of a report.  The library defines SumFunctionOnSet by a fold in an      *)
(* order it does not say, and states nothing about it.  The fold is shown  *)
(* to have the recursive equation that its definition asks for, whichever  *)
(* element is taken first; the other facts are inductions over the set,    *)
(* each over a set of its parts since no prover here instantiates a        *)
(* schema.  The last part follows the sweep of compute_js_coverage over    *)
(* the points of a list of ranges, for the proof about the coverage.       *)
(***************************************************************************)
EXTENDS Audits, FiniteSetTheorems, TLAPS

(* A set of naturals that is not empty has a least element.                *)
LEMMA LeastExists ==
  ASSUME NEW N \in SUBSET Nat, N # {}
  PROVE  \E k \in N : \A m \in N : k <= m
<1> DEFINE Less == {ss \in Nat \X Nat : ss[1] < ss[2]}
<1>1. IsWellFoundedOn(Less, Nat)
  BY NatLessThanWellFounded, Zenon DEF OpToRel
<1>2. PICK k \in N : \A m \in N : <<m, k>> \notin Less
  <2> HIDE DEF Less
  <2> QED
    BY <1>1, WFMin
<1>3. ASSUME NEW m \in N PROVE k <= m
  <2>1. m \in Nat /\ k \in Nat /\ ~ m < k
    BY <1>2
  <2> QED
    BY <2>1
<1> QED
  BY <1>3

(* What holds of 0 and still holds of one more holds up to n: P is the set *)
(* of the numbers it holds of.                                             *)
LEMMA UpToInduction ==
  ASSUME NEW n \in Nat, NEW P, 0 \in P, \A k \in 0 .. n - 1 : k \in P => k + 1 \in P
  PROVE  \A k \in 0 .. n : k \in P
<1> DEFINE Bad == {k \in 0 .. n : k \notin P}
<1> SUFFICES ASSUME Bad # {} PROVE FALSE
  OBVIOUS
<1>1. Bad \in SUBSET Nat
  OBVIOUS
<1>2. PICK k \in Bad : \A m \in Bad : k <= m
  <2> HIDE DEF Bad
  <2> QED
    BY <1>1, LeastExists
<1>3. k \in Nat /\ k # 0 /\ k <= n /\ k \notin P
  BY <1>2
<1>4. k - 1 \in 0 .. n - 1 /\ k - 1 \in P /\ (k - 1) + 1 = k
  BY <1>2, <1>3
<1> QED
  BY <1>3, <1>4

(* What holds of a part of a finite set as soon as it holds of the part    *)
(* without any one of its elements, holds of the whole set: P is the set   *)
(* of the parts it holds of.                                               *)
LEMMA RemovalInduction ==
  ASSUME NEW S, IsFiniteSet(S), NEW P,
         \A T \in SUBSET S : (\A x \in T : T \ {x} \in P) => T \in P
  PROVE  S \in P
<1> SUFFICES ASSUME S \notin P PROVE FALSE
  OBVIOUS
<1> DEFINE Sizes == {n \in Nat : \E T \in SUBSET S : T \notin P /\ Cardinality(T) = n}
<1>1. \A T \in SUBSET S : IsFiniteSet(T) /\ Cardinality(T) \in Nat
  BY FS_Subset, FS_CardinalityType
<1>2. PICK k \in Sizes : \A m \in Sizes : k <= m
  <2>1. Cardinality(S) \in Sizes
    BY <1>1
  <2> HIDE DEF Sizes
  <2>2. Sizes \in SUBSET Nat
    BY DEF Sizes
  <2> QED
    BY <2>1, <2>2, LeastExists
<1>3. PICK T \in SUBSET S : T \notin P /\ Cardinality(T) = k
  BY <1>2
<1>4. ASSUME NEW x \in T PROVE T \ {x} \in P
  <2> SUFFICES ASSUME T \ {x} \notin P PROVE FALSE
    OBVIOUS
  <2>1. Cardinality(T \ {x}) = Cardinality(T) - 1
    BY <1>1, <1>4, FS_RemoveElement
  <2>2. Cardinality(T \ {x}) \in Sizes
    BY <1>1
  <2>3. k <= Cardinality(T \ {x}) /\ k \in Nat
    BY <1>2, <2>2
  <2> HIDE DEF Sizes
  <2> QED
    BY <2>1, <2>3, <1>3, <1>1
<1> QED
  BY <1>3, <1>4

(* What holds of no element and still holds when one is added. *)
LEMMA SetInduction ==
  ASSUME NEW S, IsFiniteSet(S), NEW P, {} \in P,
         \A T \in SUBSET S : \A x \in S : T \in P /\ x \notin T => T \cup {x} \in P
  PROVE  S \in P
<1>1. ASSUME NEW T \in SUBSET S, \A x \in T : T \ {x} \in P
      PROVE  T \in P
  <2>1. CASE T = {}
    BY <2>1
  <2>2. CASE T # {}
    <3>1. PICK x \in T : TRUE
      BY <2>2
    <3>2. T \ {x} \in SUBSET S /\ x \in S /\ x \notin T \ {x} /\ (T \ {x}) \cup {x} = T
      BY <3>1
    <3> QED
      BY <3>1, <3>2, <1>1
  <2> QED
    BY <2>1, <2>2
<1> QED
  BY <1>1, RemovalInduction

(* The image of a finite set under a function is finite.                   *)
LEMMA ImageFinite ==
  ASSUME NEW S, IsFiniteSet(S), NEW h
  PROVE  IsFiniteSet({h[x] : x \in S})
<1> DEFINE Image(T) == {h[x] : x \in T}
           P == {T \in SUBSET S : IsFiniteSet(Image(T))}
<1>1. {} \in P
  <2>1. Image({}) = {}
    OBVIOUS
  <2> QED
    BY <2>1, FS_EmptySet
<1>2. ASSUME NEW T \in SUBSET S, NEW x \in S, T \in P, x \notin T
      PROVE  T \cup {x} \in P
  <2>1. Image(T \cup {x}) = Image(T) \cup {h[x]}
    OBVIOUS
  <2>2. IsFiniteSet(Image(T)) /\ T \cup {x} \in SUBSET S
    BY <1>2
  <2> HIDE DEF Image
  <2>3. IsFiniteSet(Image(T) \cup {h[x]})
    BY <2>2, FS_AddElement
  <2> QED
    BY <2>1, <2>2, <2>3
<1> HIDE DEF P
<1>3. S \in P
  BY <1>1, <1>2, SetInduction
<1> QED
  BY <1>3 DEF P

-----------------------------------------------------------------------------
(* Sums.                                                                   *)

(* G gives the sum of f over every part of S. *)
Sums(G, f, S) ==
  /\ G \in [SUBSET S -> Int]
  /\ \A x \in S : f[x] \in Int
  /\ G[{}] = 0
  /\ \A T \in SUBSET S : \A x \in T : G[T] = G[T \ {x}] + f[x]

LEMMA SumsExtend ==
  ASSUME NEW S, NEW f, NEW x, x \notin S, f[x] \in Int, NEW G, Sums(G, f, S)
  PROVE  \E H : Sums(H, f, S \cup {x})
<1> DEFINE H == [T \in SUBSET (S \cup {x}) |->
                   IF x \in T THEN G[T \ {x}] + f[x] ELSE G[T]]
<1>1. \A T \in SUBSET (S \cup {x}) : T \ {x} \in SUBSET S /\ (x \notin T => T \in SUBSET S)
  OBVIOUS
<1>2. \A T \in SUBSET S : G[T] \in Int
  BY DEF Sums
<1>3. H \in [SUBSET (S \cup {x}) -> Int]
  BY <1>1, <1>2
<1>4. H[{}] = 0
  BY DEF Sums
<1>5. ASSUME NEW T \in SUBSET (S \cup {x}), NEW y \in T
      PROVE  H[T] = H[T \ {y}] + f[y]
  <2>1. CASE y = x
    <3>1. H[T] = G[T \ {x}] + f[x] /\ H[T \ {x}] = G[T \ {x}]
      BY <2>1, <1>5
    <3> QED
      BY <3>1, <2>1
  <2>2. CASE y # x /\ x \in T
    <3>1. T \ {x} \in SUBSET S /\ y \in T \ {x} /\ (T \ {x}) \ {y} = (T \ {y}) \ {x}
      BY <2>2
    <3>2. G[T \ {x}] = G[(T \ {y}) \ {x}] + f[y]
      BY <3>1 DEF Sums
    <3>3. H[T] = G[T \ {x}] + f[x]
      BY <2>2
    <3>4. H[T \ {y}] = G[(T \ {y}) \ {x}] + f[x]
      BY <2>2
    <3>5. G[T \ {x}] \in Int /\ G[(T \ {y}) \ {x}] \in Int
      BY <1>1, <1>2, <3>1
    <3>6. f[y] \in Int /\ f[x] \in Int
      BY <3>1 DEF Sums
    <3> HIDE DEF H
    <3> QED
      BY <3>2, <3>3, <3>4, <3>5, <3>6
  <2>3. CASE x \notin T
    <3>1. T \in SUBSET S
      BY <2>3
    <3>2. H[T] = G[T] /\ H[T \ {y}] = G[T \ {y}]
      BY <2>3
    <3> HIDE DEF H
    <3> QED
      BY <3>1, <3>2 DEF Sums
  <2> QED
    BY <2>1, <2>2, <2>3
<1>6. \A y \in S \cup {x} : f[y] \in Int
  BY DEF Sums
<1> HIDE DEF H
<1>7. Sums(H, f, S \cup {x})
  BY <1>3, <1>4, <1>5, <1>6 DEF Sums
<1> QED
  BY <1>7

(* There is such a G for every finite set. *)
LEMMA SumsExist ==
  ASSUME NEW S, IsFiniteSet(S), NEW f, \A x \in S : f[x] \in Int
  PROVE  \E G : Sums(G, f, S)
<1> DEFINE P == {T \in SUBSET S : \E G : Sums(G, f, T)}
<1>1. {} \in P
  <2>1. Sums([T \in SUBSET {} |-> 0], f, {})
    BY DEF Sums
  <2> QED
    BY <2>1
<1>2. ASSUME NEW T \in SUBSET S, NEW x \in S, T \in P, x \notin T
      PROVE  T \cup {x} \in P
  <2>1. PICK G : Sums(G, f, T)
    BY <1>2
  <2>2. \A y \in T \cup {x} : f[y] \in Int
    BY <1>2
  <2>3. \E H : Sums(H, f, T \cup {x})
    BY <2>1, <2>2, <1>2, SumsExtend
  <2> QED
    BY <2>3
<1> HIDE DEF P
<1>3. S \in P
  BY <1>1, <1>2, SetInduction
<1> QED
  BY <1>3 DEF P

(* The fold is one: whichever element it takes first, it has the equation, *)
(* and nothing else has it.                                                *)
LEMMA FoldSums ==
  ASSUME NEW S, IsFiniteSet(S), NEW f, NEW G, Sums(G, f, S)
  PROVE  SumFunctionOnSet(f, S) = G[S]
<1> DEFINE first(s) == CHOOSE x \in s : TRUE
           IsFold(g) == g = [s \in SUBSET S |->
                               IF s = {} THEN 0 ELSE f[first(s)] + g[s \ {first(s)}]]
           fold == CHOOSE g : IsFold(g)
<1>1. SumFunctionOnSet(f, S) = fold[S]
  BY DEF SumFunctionOnSet, FoldFunctionOnSet, MapThenFoldSet
<1>2. \A T \in SUBSET S : T # {} => first(T) \in T
  OBVIOUS
<1>3. IsFold(G)
  <2> HIDE DEF first
  <2>1. \A T \in SUBSET S : T # {} => G[T] = f[first(T)] + G[T \ {first(T)}]
    <3> SUFFICES ASSUME NEW T \in SUBSET S, T # {}
                 PROVE  G[T] = f[first(T)] + G[T \ {first(T)}]
      OBVIOUS
    <3>1. G[T] = G[T \ {first(T)}] + f[first(T)]
      BY <1>2 DEF Sums
    <3>2. G[T] \in Int /\ G[T \ {first(T)}] \in Int
      BY DEF Sums
    <3>3. f[first(T)] \in Int
      BY <1>2 DEF Sums
    <3> QED
      BY <3>1, <3>2, <3>3
  <2>2. DOMAIN G = SUBSET S /\ G[{}] = 0 /\ G = [s \in SUBSET S |-> G[s]]
    BY DEF Sums
  <2> QED
    BY <2>1, <2>2
<1>4. IsFold(fold)
  <2> HIDE DEF IsFold
  <2> QED
    BY <1>3
<1>5. \A T \in SUBSET S : fold[T] = IF T = {} THEN 0 ELSE f[first(T)] + fold[T \ {first(T)}]
  <2> HIDE DEF fold, first
  <2> QED
    BY <1>4
<1>6. \A T \in SUBSET S : G[T] = IF T = {} THEN 0 ELSE f[first(T)] + G[T \ {first(T)}]
  <2> HIDE DEF first
  <2> QED
    BY <1>3
<1> HIDE DEF fold, first
<1> DEFINE P == {T \in SUBSET S : fold[T] = G[T]}
<1>7. ASSUME NEW T \in SUBSET S, \A x \in T : T \ {x} \in P
      PROVE  T \in P
  BY <1>2, <1>5, <1>6, <1>7
<1> HIDE DEF P
<1>8. S \in P
  BY <1>7, RemovalInduction
<1> QED
  BY <1>1, <1>8 DEF P

(* The sum over a set: a whole number, none over no element, one term more *)
(* for one element more, and the same for functions that agree on the set. *)
LEMMA SumType ==
  ASSUME NEW S, IsFiniteSet(S), NEW f, \A x \in S : f[x] \in Int
  PROVE  SumFunctionOnSet(f, S) \in Int
<1>1. PICK G : Sums(G, f, S)
  BY SumsExist
<1>2. SumFunctionOnSet(f, S) = G[S]
  BY <1>1, FoldSums
<1> QED
  BY <1>1, <1>2 DEF Sums

LEMMA SumEmpty == ASSUME NEW f PROVE SumFunctionOnSet(f, {}) = 0
<1>1. IsFiniteSet({})
  BY FS_EmptySet
<1>2. PICK G : Sums(G, f, {})
  BY <1>1, SumsExist
<1> QED
  BY <1>1, <1>2, FoldSums DEF Sums

LEMMA SumRemove ==
  ASSUME NEW S, IsFiniteSet(S), NEW f, \A y \in S : f[y] \in Int, NEW x \in S
  PROVE  SumFunctionOnSet(f, S) = SumFunctionOnSet(f, S \ {x}) + f[x]
<1>1. PICK G : Sums(G, f, S)
  BY SumsExist
<1>2. SumFunctionOnSet(f, S) = G[S]
  BY <1>1, FoldSums
<1>3. IsFiniteSet(S \ {x})
  BY FS_Subset
<1>4. Sums([T \in SUBSET (S \ {x}) |-> G[T]], f, S \ {x})
  BY <1>1 DEF Sums
<1>5. SumFunctionOnSet(f, S \ {x}) = G[S \ {x}]
  BY <1>3, <1>4, FoldSums
<1> QED
  BY <1>1, <1>2, <1>5 DEF Sums

LEMMA SumAdd ==
  ASSUME NEW S, IsFiniteSet(S), NEW f, NEW x, x \notin S,
         \A y \in S \cup {x} : f[y] \in Int
  PROVE  SumFunctionOnSet(f, S \cup {x}) = SumFunctionOnSet(f, S) + f[x]
<1>1. IsFiniteSet(S \cup {x}) /\ x \in S \cup {x} /\ (S \cup {x}) \ {x} = S
  BY FS_AddElement
<1> QED
  BY <1>1, SumRemove

LEMMA SumAgrees ==
  ASSUME NEW S, IsFiniteSet(S), NEW f, NEW g,
         \A x \in S : f[x] \in Int /\ f[x] = g[x]
  PROVE  SumFunctionOnSet(f, S) = SumFunctionOnSet(g, S)
<1>1. PICK G : Sums(G, f, S)
  BY SumsExist
<1>2. Sums(G, g, S)
  BY <1>1 DEF Sums
<1> QED
  BY <1>1, <1>2, FoldSums

-----------------------------------------------------------------------------
(* Comparing sums.                                                         *)

LEMMA SumMonotone ==
  ASSUME NEW S, IsFiniteSet(S), NEW f, NEW g,
         \A x \in S : f[x] \in Int /\ g[x] \in Int /\ f[x] <= g[x]
  PROVE  SumFunctionOnSet(f, S) <= SumFunctionOnSet(g, S)
<1> DEFINE P == {T \in SUBSET S : SumFunctionOnSet(f, T) <= SumFunctionOnSet(g, T)}
<1>1. {} \in P
  BY SumEmpty
<1>2. ASSUME NEW T \in SUBSET S, NEW x \in S, T \in P, x \notin T
      PROVE  T \cup {x} \in P
  <2>1. IsFiniteSet(T) /\ T \cup {x} \in SUBSET S
    BY FS_Subset
  <2>2. \A y \in T \cup {x} : f[y] \in Int /\ g[y] \in Int /\ f[y] <= g[y]
    OBVIOUS
  <2>3. /\ SumFunctionOnSet(f, T) \in Int /\ SumFunctionOnSet(g, T) \in Int
        /\ SumFunctionOnSet(f, T \cup {x}) = SumFunctionOnSet(f, T) + f[x]
        /\ SumFunctionOnSet(g, T \cup {x}) = SumFunctionOnSet(g, T) + g[x]
    BY <2>1, <2>2, <1>2, SumType, SumAdd
  <2>4. SumFunctionOnSet(f, T) <= SumFunctionOnSet(g, T)
    BY <1>2
  <2>5. SumFunctionOnSet(f, T \cup {x}) <= SumFunctionOnSet(g, T \cup {x})
    BY <2>2, <2>3, <2>4
  <2> QED
    BY <2>1, <2>5
<1> HIDE DEF P
<1>3. S \in P
  BY <1>1, <1>2, SetInduction
<1> QED
  BY <1>3 DEF P

(* The sum over two sets that have nothing in common.                      *)
LEMMA SumDisjoint ==
  ASSUME NEW S, IsFiniteSet(S), NEW T, IsFiniteSet(T), S \cap T = {},
         NEW f, \A x \in S \cup T : f[x] \in Int
  PROVE  SumFunctionOnSet(f, S \cup T) = SumFunctionOnSet(f, S) + SumFunctionOnSet(f, T)
<1> DEFINE P == {U \in SUBSET T :
                   SumFunctionOnSet(f, S \cup U)
                     = SumFunctionOnSet(f, S) + SumFunctionOnSet(f, U)}
<1>1. {} \in P
  <2>1. S \cup {} = S /\ SumFunctionOnSet(f, S) \in Int
    BY SumType
  <2> QED
    BY <2>1, SumEmpty
<1>2. ASSUME NEW U \in SUBSET T, NEW x \in T, U \in P, x \notin U
      PROVE  U \cup {x} \in P
  <2>1. IsFiniteSet(U) /\ IsFiniteSet(S \cup U)
    BY FS_Subset, FS_Union
  <2>2. x \notin S \cup U /\ S \cup (U \cup {x}) = (S \cup U) \cup {x}
    BY <1>2
  <2>3. \A y \in (S \cup U) \cup {x} : f[y] \in Int
    OBVIOUS
  <2>4. /\ SumFunctionOnSet(f, (S \cup U) \cup {x}) = SumFunctionOnSet(f, S \cup U) + f[x]
        /\ SumFunctionOnSet(f, U \cup {x}) = SumFunctionOnSet(f, U) + f[x]
        /\ SumFunctionOnSet(f, S) \in Int /\ SumFunctionOnSet(f, U) \in Int
    BY <2>1, <2>2, <2>3, SumAdd, SumType
  <2>5. SumFunctionOnSet(f, S \cup U) = SumFunctionOnSet(f, S) + SumFunctionOnSet(f, U)
    BY <1>2
  <2>6. f[x] \in Int
    OBVIOUS
  <2> HIDE DEF P
  <2>7. SumFunctionOnSet(f, S \cup (U \cup {x})) = SumFunctionOnSet(f, (S \cup U) \cup {x})
    BY <2>2, Zenon
  <2>8. SumFunctionOnSet(f, S \cup (U \cup {x}))
          = SumFunctionOnSet(f, S) + SumFunctionOnSet(f, U \cup {x})
    BY <2>4, <2>5, <2>6, <2>7
  <2> QED
    BY <2>8 DEF P
<1> HIDE DEF P
<1>3. T \in P
  BY <1>1, <1>2, SetInduction
<1> QED
  BY <1>3 DEF P

(* No term below zero: the sum is none, and what is left out can only add. *)
LEMMA SumPart ==
  ASSUME NEW S, IsFiniteSet(S), NEW f, \A x \in S : f[x] \in Nat, NEW T \in SUBSET S
  PROVE  /\ SumFunctionOnSet(f, T) \in Nat
         /\ SumFunctionOnSet(f, T) <= SumFunctionOnSet(f, S)
<1> DEFINE z == [x \in S |-> 0]
<1>1. \A U \in SUBSET S : IsFiniteSet(U)
  BY FS_Subset
<1>2. \A U \in SUBSET S : SumFunctionOnSet(z, U) = 0
  <2> DEFINE P == {U \in SUBSET S : SumFunctionOnSet(z, U) = 0}
  <2>1. {} \in P
    BY SumEmpty
  <2>2. ASSUME NEW U \in SUBSET S, NEW x \in S, U \in P, x \notin U
        PROVE  U \cup {x} \in P
    <3>1. IsFiniteSet(U) /\ (\A y \in U \cup {x} : z[y] \in Int) /\ z[x] = 0
      BY <1>1
    <3>2. SumFunctionOnSet(z, U) = 0 /\ x \notin U
      BY <2>2
    <3> HIDE DEF z
    <3>3. SumFunctionOnSet(z, U \cup {x}) = SumFunctionOnSet(z, U) + z[x]
      BY <3>1, <3>2, SumAdd
    <3> QED
      BY <3>1, <3>2, <3>3
  <2>3. ASSUME NEW U \in SUBSET S PROVE U \in P
    <3> DEFINE Q == P \cap SUBSET U
    <3>1. {} \in Q /\ IsFiniteSet(U)
      BY <2>1, <1>1
    <3>2. \A V \in SUBSET U : \A x \in U : V \in Q /\ x \notin V => V \cup {x} \in Q
      BY <2>2
    <3> HIDE DEF Q
    <3>3. U \in Q
      BY <3>1, <3>2, SetInduction
    <3> QED
      BY <3>3 DEF Q
  <2> QED
    BY <2>3
<1>3. ASSUME NEW U \in SUBSET S PROVE SumFunctionOnSet(f, U) \in Nat
  <2>1. /\ \A x \in U : z[x] \in Int /\ f[x] \in Int /\ z[x] <= f[x]
        /\ SumFunctionOnSet(z, U) = 0 /\ IsFiniteSet(U)
    BY <1>1, <1>2
  <2> HIDE DEF z
  <2>2. SumFunctionOnSet(z, U) <= SumFunctionOnSet(f, U)
    BY <2>1, SumMonotone
  <2>3. SumFunctionOnSet(f, U) \in Int
    BY <2>1, SumType
  <2> QED
    BY <2>1, <2>2, <2>3
<1>4. /\ T \cup (S \ T) = S /\ T \cap (S \ T) = {} /\ S \ T \in SUBSET S
      /\ \A x \in T \cup (S \ T) : f[x] \in Int
  OBVIOUS
<1>5. SumFunctionOnSet(f, S) = SumFunctionOnSet(f, T) + SumFunctionOnSet(f, S \ T)
  BY <1>1, <1>4, SumDisjoint
<1> HIDE DEF z
<1>6. SumFunctionOnSet(f, T) \in Nat /\ SumFunctionOnSet(f, S \ T) \in Nat
  BY <1>3, <1>4
<1> QED
  BY <1>5, <1>6

(* One term is no more than the sum of terms that are not below zero.      *)
LEMMA SumMember ==
  ASSUME NEW S, IsFiniteSet(S), NEW f, \A y \in S : f[y] \in Nat, NEW x \in S
  PROVE  f[x] <= SumFunctionOnSet(f, S)
<1>1. SumFunctionOnSet(f, S) = SumFunctionOnSet(f, S \ {x}) + f[x]
  <2>1. \A y \in S : f[y] \in Int
    OBVIOUS
  <2> QED
    BY <2>1, SumRemove
<1>2. S \ {x} \in SUBSET S
  OBVIOUS
<1>3. SumFunctionOnSet(f, S \ {x}) \in Nat
  BY <1>2, SumPart
<1> QED
  BY <1>1, <1>3

-----------------------------------------------------------------------------
(* Sums of combined terms.                                                 *)

LEMMA SumPlus ==
  ASSUME NEW S, IsFiniteSet(S), NEW f, NEW g, NEW h,
         \A x \in S : f[x] \in Int /\ g[x] \in Int /\ h[x] = f[x] + g[x]
  PROVE  SumFunctionOnSet(h, S) = SumFunctionOnSet(f, S) + SumFunctionOnSet(g, S)
<1> DEFINE P == {T \in SUBSET S : SumFunctionOnSet(h, T)
                                    = SumFunctionOnSet(f, T) + SumFunctionOnSet(g, T)}
<1>1. {} \in P
  BY SumEmpty
<1>2. ASSUME NEW T \in SUBSET S, NEW x \in S, T \in P, x \notin T
      PROVE  T \cup {x} \in P
  <2>1. IsFiniteSet(T) /\ T \cup {x} \in SUBSET S /\ x \notin T
    BY <1>2, FS_Subset
  <2>2. \A y \in T \cup {x} : f[y] \in Int /\ g[y] \in Int /\ h[y] \in Int
    OBVIOUS
  <2>3. /\ SumFunctionOnSet(f, T) \in Int /\ SumFunctionOnSet(g, T) \in Int
        /\ SumFunctionOnSet(f, T \cup {x}) = SumFunctionOnSet(f, T) + f[x]
        /\ SumFunctionOnSet(g, T \cup {x}) = SumFunctionOnSet(g, T) + g[x]
        /\ SumFunctionOnSet(h, T \cup {x}) = SumFunctionOnSet(h, T) + h[x]
    BY ONLY <2>1, <2>2, SumType, SumAdd
  <2>4. SumFunctionOnSet(h, T) = SumFunctionOnSet(f, T) + SumFunctionOnSet(g, T)
    BY <1>2
  <2>5. f[x] \in Int /\ g[x] \in Int /\ h[x] = f[x] + g[x]
    BY <2>1
  <2>6. SumFunctionOnSet(h, T \cup {x})
          = SumFunctionOnSet(f, T \cup {x}) + SumFunctionOnSet(g, T \cup {x})
    BY <2>3, <2>4, <2>5
  <2> QED
    BY <2>1, <2>6
<1> HIDE DEF P
<1>3. S \in P
  BY <1>1, <1>2, SetInduction
<1> QED
  BY <1>3 DEF P

LEMMA SumTimes ==
  ASSUME NEW S, IsFiniteSet(S), NEW f, NEW g, NEW c \in Int,
         \A x \in S : f[x] \in Int /\ g[x] = c * f[x]
  PROVE  SumFunctionOnSet(g, S) = c * SumFunctionOnSet(f, S)
<1> DEFINE P == {T \in SUBSET S : SumFunctionOnSet(g, T) = c * SumFunctionOnSet(f, T)}
<1>1. {} \in P
  BY SumEmpty
<1>2. ASSUME NEW T \in SUBSET S, NEW x \in S, T \in P, x \notin T
      PROVE  T \cup {x} \in P
  <2>1. IsFiniteSet(T) /\ T \cup {x} \in SUBSET S /\ x \notin T
    BY <1>2, FS_Subset
  <2>2. \A y \in T \cup {x} : f[y] \in Int /\ g[y] \in Int
    OBVIOUS
  <2>3. /\ SumFunctionOnSet(f, T) \in Int
        /\ SumFunctionOnSet(f, T \cup {x}) = SumFunctionOnSet(f, T) + f[x]
        /\ SumFunctionOnSet(g, T \cup {x}) = SumFunctionOnSet(g, T) + g[x]
    BY ONLY <2>1, <2>2, SumType, SumAdd
  <2>4. SumFunctionOnSet(g, T) = c * SumFunctionOnSet(f, T)
    BY <1>2
  <2>5. f[x] \in Int /\ g[x] = c * f[x]
    OBVIOUS
  <2>6. \A a, b \in Int : c * a + c * b = c * (a + b)
    OBVIOUS
  <2>7. SumFunctionOnSet(g, T \cup {x}) = c * SumFunctionOnSet(f, T \cup {x})
    BY <2>3, <2>4, <2>5, <2>6
  <2> QED
    BY <2>1, <2>7
<1> HIDE DEF P
<1>3. S \in P
  BY <1>1, <1>2, SetInduction
<1> QED
  BY <1>3 DEF P

(* As many ones as the set has elements. *)
LEMMA SumOnes ==
  ASSUME NEW S, IsFiniteSet(S), NEW f, \A x \in S : f[x] = 1
  PROVE  SumFunctionOnSet(f, S) = Cardinality(S)
<1> DEFINE P == {T \in SUBSET S : SumFunctionOnSet(f, T) = Cardinality(T)}
<1>1. {} \in P
  BY SumEmpty, FS_EmptySet
<1>2. ASSUME NEW T \in SUBSET S, NEW x \in S, T \in P, x \notin T
      PROVE  T \cup {x} \in P
  <2>1. IsFiniteSet(T) /\ T \cup {x} \in SUBSET S /\ x \notin T
    BY <1>2, FS_Subset
  <2>2. \A y \in T \cup {x} : f[y] \in Int
    OBVIOUS
  <2>3. SumFunctionOnSet(f, T \cup {x}) = SumFunctionOnSet(f, T) + f[x]
    BY ONLY <2>1, <2>2, SumAdd
  <2>4. Cardinality(T \cup {x}) = Cardinality(T) + 1
    BY <2>1, <1>2, FS_AddElement
  <2> QED
    BY <2>1, <2>3, <2>4, <1>2
<1> HIDE DEF P
<1>3. S \in P
  BY <1>1, <1>2, SetInduction
<1> QED
  BY <1>3 DEF P

(* No term above a bound.                                                  *)
LEMMA SumBounded ==
  ASSUME NEW S, IsFiniteSet(S), NEW f, NEW c \in Int, \A x \in S : f[x] \in Int /\ f[x] <= c
  PROVE  SumFunctionOnSet(f, S) <= c * Cardinality(S)
<1> DEFINE one == [x \in S |-> 1]
           g == [x \in S |-> c]
<1>1. \A x \in S : one[x] = 1 /\ one[x] \in Int /\ g[x] = c /\ g[x] = c * one[x]
  OBVIOUS
<1> HIDE DEF one, g
<1>2. SumFunctionOnSet(one, S) = Cardinality(S)
  BY <1>1, SumOnes
<1>3. SumFunctionOnSet(g, S) = c * SumFunctionOnSet(one, S)
  BY <1>1, SumTimes
<1>4. \A x \in S : f[x] \in Int /\ g[x] \in Int /\ f[x] <= g[x]
  BY <1>1
<1>5. SumFunctionOnSet(f, S) <= SumFunctionOnSet(g, S)
  BY <1>4, SumMonotone
<1> QED
  BY <1>2, <1>3, <1>5

-----------------------------------------------------------------------------
(* Sums taken another way: element by element or group by group.           *)

(* Elements renamed one to one. *)
LEMMA SumRenamed ==
  ASSUME NEW S, IsFiniteSet(S), NEW f, NEW g, NEW h,
         \A x \in S : f[x] = g[h[x]] /\ f[x] \in Int,
         \A x, y \in S : h[x] = h[y] => x = y
  PROVE  SumFunctionOnSet(f, S) = SumFunctionOnSet(g, {h[x] : x \in S})
<1> DEFINE Named(T) == {h[x] : x \in T}
           P == {T \in SUBSET S : SumFunctionOnSet(f, T) = SumFunctionOnSet(g, Named(T))}
<1>1. {} \in P
  <2>1. Named({}) = {}
    OBVIOUS
  <2> QED
    BY <2>1, SumEmpty
<1>2. ASSUME NEW T \in SUBSET S, NEW x \in S, T \in P, x \notin T
      PROVE  T \cup {x} \in P
  <2>1. IsFiniteSet(T) /\ T \cup {x} \in SUBSET S /\ x \notin T
    BY <1>2, FS_Subset
  <2>2. \A y \in T \cup {x} : f[y] \in Int
    OBVIOUS
  <2>3. SumFunctionOnSet(f, T \cup {x}) = SumFunctionOnSet(f, T) + f[x]
    BY ONLY <2>1, <2>2, SumAdd
  <2>4. Named(T \cup {x}) = Named(T) \cup {h[x]} /\ h[x] \notin Named(T)
    BY <1>2
  <2>5. IsFiniteSet(Named(T))
    BY <2>1, ImageFinite
  <2>6. \A k \in Named(T) \cup {h[x]} : g[k] \in Int
    OBVIOUS
  <2> HIDE DEF Named
  <2>7. SumFunctionOnSet(g, Named(T) \cup {h[x]}) = SumFunctionOnSet(g, Named(T)) + g[h[x]]
    BY ONLY <2>4, <2>5, <2>6, SumAdd
  <2>8. SumFunctionOnSet(f, T) = SumFunctionOnSet(g, Named(T)) /\ f[x] = g[h[x]]
    BY <1>2
  <2> QED
    BY <2>1, <2>3, <2>4, <2>7, <2>8
<1> HIDE DEF P
<1>3. S \in P
  BY <1>1, <1>2, SetInduction
<1> QED
  BY <1>3 DEF P

(* Elements in groups: those of group k are in part[k], with the sum g[k]. *)
LEMMA SumGroups ==
  ASSUME NEW S, IsFiniteSet(S), NEW K, IsFiniteSet(K), NEW f, NEW g, NEW h, NEW part,
         \A x \in S : f[x] \in Int /\ h[x] \in K,
         \A k \in K : \A x : x \in part[k] <=> x \in S /\ h[x] = k,
         \A k \in K : g[k] = SumFunctionOnSet(f, part[k])
  PROVE  /\ \A k \in K : g[k] \in Int
         /\ SumFunctionOnSet(g, K) = SumFunctionOnSet(f, S)
<1> DEFINE In(L) == {x \in S : h[x] \in L}
           P == {L \in SUBSET K : SumFunctionOnSet(g, L) = SumFunctionOnSet(f, In(L))}
<1>0. \A k \in K : part[k] \in SUBSET S /\ IsFiniteSet(part[k])
  BY FS_Subset
<1>1. \A k \in K : g[k] \in Int
  <2> SUFFICES ASSUME NEW k \in K PROVE g[k] \in Int
    OBVIOUS
  <2> DEFINE T == part[k]
  <2>1. IsFiniteSet(T) /\ (\A x \in T : f[x] \in Int) /\ g[k] = SumFunctionOnSet(f, T)
    BY <1>0
  <2> HIDE DEF T
  <2> QED
    BY <2>1, SumType
<1>2. {} \in P
  <2>1. In({}) = {}
    OBVIOUS
  <2> QED
    BY <2>1, SumEmpty
<1>3. ASSUME NEW L \in SUBSET K, NEW k \in K, L \in P, k \notin L
      PROVE  L \cup {k} \in P
  <2> DEFINE T == part[k]
  <2>1. /\ IsFiniteSet(L) /\ L \cup {k} \in SUBSET K /\ k \notin L
        /\ \A l \in L \cup {k} : g[l] \in Int
    BY <1>1, <1>3, FS_Subset
  <2>2. SumFunctionOnSet(g, L \cup {k}) = SumFunctionOnSet(g, L) + g[k]
    BY ONLY <2>1, SumAdd
  <2>3. In(L \cup {k}) = In(L) \cup T /\ In(L) \cap T = {}
    BY <1>3
  <2>4. IsFiniteSet(In(L)) /\ IsFiniteSet(T) /\ (\A x \in In(L) \cup T : f[x] \in Int)
    BY <1>0, FS_Subset
  <2>5. g[k] = SumFunctionOnSet(f, T)
    OBVIOUS
  <2> HIDE DEF T, In
  <2>6. SumFunctionOnSet(f, In(L) \cup T)
          = SumFunctionOnSet(f, In(L)) + SumFunctionOnSet(f, T)
    BY <2>3, <2>4, SumDisjoint
  <2>7. SumFunctionOnSet(g, L) = SumFunctionOnSet(f, In(L))
    BY <1>3
  <2> QED
    BY <2>1, <2>2, <2>3, <2>5, <2>6, <2>7
<1>4. In(K) = S
  OBVIOUS
<1> HIDE DEF P, In
<1>5. K \in P
  BY <1>2, <1>3, SetInduction
<1>6. SumFunctionOnSet(g, K) = SumFunctionOnSet(f, In(K))
  BY <1>5 DEF P
<1> QED
  BY <1>1, <1>4, <1>6

(* The same, with what is asked of the groups under one name.              *)
SharedOut(S, K, f, g, h, part) ==
  /\ IsFiniteSet(S) /\ IsFiniteSet(K)
  /\ \A x \in S : f[x] \in Int /\ h[x] \in K
  /\ \A k \in K : \A x : x \in part[k] <=> x \in S /\ h[x] = k
  /\ \A k \in K : g[k] = SumFunctionOnSet(f, part[k])
LEMMA SumShares ==
  ASSUME NEW S, NEW K, NEW f, NEW g, NEW h, NEW part, SharedOut(S, K, f, g, h, part)
  PROVE  SumFunctionOnSet(g, K) = SumFunctionOnSet(f, S)
<1>1. /\ IsFiniteSet(S) /\ IsFiniteSet(K)
      /\ \A x \in S : f[x] \in Int /\ h[x] \in K
      /\ \A k \in K : \A x : x \in part[k] <=> x \in S /\ h[x] = k
      /\ \A k \in K : g[k] = SumFunctionOnSet(f, part[k])
  BY DEF SharedOut
<1> QED
  BY ONLY <1>1, SumGroups, SMTT(30)

LEMMA ShareIsInt ==
  ASSUME NEW S, NEW K, NEW f, NEW g, NEW h, NEW part, SharedOut(S, K, f, g, h, part)
  PROVE  \A k \in K : g[k] \in Int
<1>1. /\ IsFiniteSet(S) /\ IsFiniteSet(K)
      /\ \A x \in S : f[x] \in Int /\ h[x] \in K
      /\ \A k \in K : \A x : x \in part[k] <=> x \in S /\ h[x] = k
      /\ \A k \in K : g[k] = SumFunctionOnSet(f, part[k])
  BY DEF SharedOut
<1> QED
  BY ONLY <1>1, SumGroups, SMTT(30)

(* One term more at the end of a list. *)
LEMMA SumLonger ==
  ASSUME NEW n \in Nat, NEW f, NEW g, \A i \in 1 .. n + 1 : g[i] \in Int,
         \A i \in 1 .. n : g[i] = f[i]
  PROVE  SumFunctionOnSet(g, 1 .. n + 1) = SumFunctionOnSet(f, 1 .. n) + g[n + 1]
<1>1. IsFiniteSet(1 .. n) /\ n + 1 \notin 1 .. n /\ (1 .. n) \cup {n + 1} = 1 .. n + 1
  BY FS_Interval
<1> DEFINE I == 1 .. n
           e == n + 1
<1>2. /\ IsFiniteSet(I) /\ e \notin I /\ \A i \in I \cup {e} : g[i] \in Int
      /\ \A i \in I : g[i] \in Int /\ g[i] = f[i]
  BY <1>1
<1>3. I \cup {e} = 1 .. n + 1
  BY <1>1
<1> HIDE DEF I, e
<1>4. SumFunctionOnSet(g, I \cup {e}) = SumFunctionOnSet(g, I) + g[e]
  BY ONLY <1>2, SumAdd
<1>5. SumFunctionOnSet(g, I) = SumFunctionOnSet(f, I)
  BY ONLY <1>2, SumAgrees
<1>6. SumFunctionOnSet(g, 1 .. n + 1) = SumFunctionOnSet(g, I \cup {e})
  BY ONLY <1>3, Zenon
<1> QED
  BY <1>4, <1>5, <1>6 DEF I, e

(* A counter bumped under one key. *)
LEMMA PlusAdds ==
  ASSUME NEW f, IsFiniteSet(DOMAIN f), \A x \in DOMAIN f : f[x] \in Nat,
         NEW k, NEW n \in Nat
  PROVE  /\ IsFiniteSet(DOMAIN Plus(f, k, n))
         /\ \A x \in DOMAIN Plus(f, k, n) : Plus(f, k, n)[x] \in Nat
         /\ SumFunction(Plus(f, k, n)) = SumFunction(f) + n
<1> DEFINE D == DOMAIN f
           g == Plus(f, k, n)
           R == D \ {k}
<1>1. /\ DOMAIN g = D \cup {k} /\ R \cup {k} = D \cup {k} /\ k \notin R
      /\ \A x \in R \cup {k} : g[x] \in Nat /\ g[x] \in Int
      /\ \A x \in R : g[x] = f[x] /\ f[x] \in Int
      /\ g[k] = (IF k \in D THEN f[k] ELSE 0) + n
  BY DEF Plus
<1>2. /\ IsFiniteSet(R) /\ IsFiniteSet(D \cup {k}) /\ IsFiniteSet(D)
      /\ \A x \in D : f[x] \in Int /\ f[x] \in Nat
  BY FS_Subset, FS_AddElement
<1>3. SumFunction(g) = SumFunctionOnSet(g, D \cup {k}) /\ SumFunction(f) = SumFunctionOnSet(f, D)
  BY <1>1 DEF SumFunction
<1>d. k \in D => D \ {k} = R
  OBVIOUS
<1>e. k \notin D => D = R
  OBVIOUS
<1> HIDE DEF D, g, R
<1>4. SumFunctionOnSet(g, R \cup {k}) = SumFunctionOnSet(g, R) + g[k]
  BY ONLY <1>1, <1>2, SumAdd
<1>5. SumFunctionOnSet(g, R) = SumFunctionOnSet(f, R) /\ SumFunctionOnSet(f, R) \in Int
  BY ONLY <1>1, <1>2, SumAgrees, SumType
<1>6. SumFunctionOnSet(f, D) = SumFunctionOnSet(f, R) + (IF k \in D THEN f[k] ELSE 0)
  <2>1. CASE k \in D
    <3>1. SumFunctionOnSet(f, D) = SumFunctionOnSet(f, D \ {k}) + f[k]
      BY ONLY <2>1, <1>2, SumRemove
    <3> QED
      BY <3>1, <2>1, <1>d
  <2>2. CASE k \notin D
    BY <2>2, <1>e, <1>5
  <2> QED
    BY <2>1, <2>2
<1>7. SumFunctionOnSet(g, D \cup {k}) = SumFunctionOnSet(f, D) + n
  <2>1. (IF k \in D THEN f[k] ELSE 0) \in Int
    BY <1>2
  <2>2. SumFunctionOnSet(g, D \cup {k}) = SumFunctionOnSet(g, R \cup {k})
    BY <1>1, Zenon
  <2> QED
    BY <1>1, <1>4, <1>5, <1>6, <2>1, <2>2
<1>8. SumFunction(g) = SumFunction(f) + n
  BY <1>3, <1>7
<1>9. IsFiniteSet(DOMAIN g) /\ \A x \in DOMAIN g : g[x] \in Nat
  BY <1>1, <1>2
<1> QED
  BY <1>8, <1>9 DEF g

-----------------------------------------------------------------------------
(* Rankings.                                                               *)

(* An order is a set R of pairs: <<x, y>> when x may stand before y.  In a *)
(* finite set some element may stand after all the others.                 *)
LEMMA LastExists ==
  ASSUME NEW S, IsFiniteSet(S), S # {}, NEW R,
         \A x, y \in S : <<x, y>> \in R \/ <<y, x>> \in R,
         \A x, y, z \in S : <<x, y>> \in R /\ <<y, z>> \in R => <<x, z>> \in R
  PROVE  \E x \in S : \A y \in S : <<y, x>> \in R
<1> DEFINE P == {T \in SUBSET S : T # {} => \E x \in T : \A y \in T : <<y, x>> \in R}
<1>1. {} \in P
  OBVIOUS
<1>2. ASSUME NEW T \in SUBSET S, NEW x \in S, T \in P, x \notin T
      PROVE  T \cup {x} \in P
  <2>1. CASE T = {}
    BY <2>1
  <2>2. CASE T # {}
    <3>1. PICK z \in T : \A y \in T : <<y, z>> \in R
      BY <1>2, <2>2
    <3>2. CASE <<x, z>> \in R
      BY <3>1, <3>2
    <3>3. CASE <<z, x>> \in R
      <4>1. \A y \in T \cup {x} : <<y, x>> \in R
        BY <3>1, <3>3
      <4> QED
        BY <4>1
    <3> QED
      BY <3>2, <3>3
  <2> QED
    BY <2>1, <2>2
<1> HIDE DEF P
<1>3. S \in P
  BY <1>1, <1>2, SetInduction
<1> QED
  BY <1>3 DEF P

(* So every finite set can be ranked. *)
LEMMA RankingExists ==
  ASSUME NEW S, IsFiniteSet(S), NEW R,
         \A x, y \in S : <<x, y>> \in R \/ <<y, x>> \in R,
         \A x, y, z \in S : <<x, y>> \in R /\ <<y, z>> \in R => <<x, z>> \in R
  PROVE  \E s \in SetToSeqs(S) : \A i, j \in DOMAIN s : i < j => <<s[i], s[j]>> \in R
<1> DEFINE Sorted(s) == \A i, j \in DOMAIN s : i < j => <<s[i], s[j]>> \in R
           P == {T \in SUBSET S : \E s \in SetToSeqs(T) : Sorted(s)}
<1>1. ASSUME NEW T \in SUBSET S, \A x \in T : T \ {x} \in P
      PROVE  T \in P
  <2>1. IsFiniteSet(T) /\ Cardinality(T) \in Nat
    BY FS_Subset, FS_CardinalityType
  <2>2. CASE T = {}
    <3>1. Cardinality(T) = 0
      BY <2>2, FS_EmptySet
    <3>2. << >> \in SetToSeqs(T) /\ Sorted(<< >>)
      BY <3>1 DEF SetToSeqs
    <3> QED
      BY <3>2
  <2>3. CASE T # {}
    <3>1. PICK x \in T : \A y \in T : <<y, x>> \in R
      <4>1. /\ \A x, y \in T : <<x, y>> \in R \/ <<y, x>> \in R
            /\ \A x, y, z \in T : <<x, y>> \in R /\ <<y, z>> \in R => <<x, z>> \in R
        OBVIOUS
      <4> QED
        BY ONLY <4>1, <2>1, <2>3, LastExists
    <3>2. PICK s \in SetToSeqs(T \ {x}) : Sorted(s)
      BY <1>1, <3>1
    <3> DEFINE n == Cardinality(T \ {x})
               r == [i \in 1 .. n + 1 |-> IF i = n + 1 THEN x ELSE s[i]]
    <3>3. n \in Nat /\ Cardinality(T) = n + 1
      <4>1. IsFiniteSet(T \ {x}) /\ Cardinality(T \ {x}) = Cardinality(T) - 1
        BY <2>1, <3>1, FS_RemoveElement
      <4>2. Cardinality(T \ {x}) \in Nat
        BY <4>1, FS_CardinalityType
      <4> QED
        BY <4>1, <4>2, <2>1
    <3>4. s \in [1 .. n -> T \ {x}] /\ \A i, j \in 1 .. n : i # j => s[i] # s[j]
      BY <3>2 DEF SetToSeqs
    <3>5. \A i \in 1 .. n + 1 : i # n + 1 => i \in 1 .. n /\ i < n + 1
      BY <3>3
    <3> HIDE DEF n
    <3>6. r \in [1 .. n + 1 -> T] /\ \A i, j \in 1 .. n + 1 : i # j => r[i] # r[j]
      BY <3>3, <3>4, <3>5
    <3>7. Sorted(r)
      <4> SUFFICES ASSUME NEW i \in 1 .. n + 1, NEW j \in 1 .. n + 1, i < j
                   PROVE  <<r[i], r[j]>> \in R
        OBVIOUS
      <4>1. i # n + 1 /\ i \in 1 .. n /\ r[i] = s[i] /\ r[i] \in T
        BY <3>3, <3>4, <3>5
      <4>2. CASE j = n + 1
        BY <4>1, <4>2, <3>1
      <4>3. CASE j # n + 1
        <5>1. j \in 1 .. n /\ r[j] = s[j] /\ DOMAIN s = 1 .. n
          BY <4>3, <3>4, <3>5
        <5> QED
          BY <5>1, <4>1, <3>2
      <4> QED
        BY <4>2, <4>3
    <3> HIDE DEF r
    <3>8. r \in SetToSeqs(T)
      BY <3>3, <3>6 DEF SetToSeqs
    <3> QED
      BY <3>7, <3>8
  <2> QED
    BY <2>2, <2>3
<1> HIDE DEF P
<1>2. S \in P
  BY <1>1, RemovalInduction
<1> QED
  BY <1>2 DEF P

(* A ranking has every element of its set, once. *)
LEMMA RankingIsComplete ==
  ASSUME NEW S, IsFiniteSet(S), NEW s \in SetToSeqs(S)
  PROVE  /\ Cardinality(S) \in Nat /\ s \in Seq(S) /\ Len(s) = Cardinality(S)
         /\ s \in [1 .. Cardinality(S) -> S]
         /\ {s[i] : i \in DOMAIN s} = S
         /\ \A i, j \in DOMAIN s : s[i] = s[j] => i = j
<1> DEFINE n == Cardinality(S)
<1>1. n \in Nat
  BY FS_CardinalityType
<1>2. s \in [1 .. n -> S] /\ \A i, j \in 1 .. n : i # j => s[i] # s[j]
  BY DEF SetToSeqs
<1>3. Cardinality(1 .. n) = n
  <2>1. 1 \in Int /\ n \in Int
    BY <1>1
  <2> HIDE DEF n
  <2>2. Cardinality(1 .. n) = IF 1 > n THEN 0 ELSE n - 1 + 1
    BY <2>1, FS_Interval
  <2> QED
    BY <2>2, <1>1
<1> HIDE DEF n
<1>4. s \in Injection(1 .. n, S)
  BY <1>2 DEF Injection, IsInjective
<1>5. s \in Surjection(1 .. n, S)
  BY <1>3, <1>4, FS_Injection DEF n
<1>6. {s[i] : i \in 1 .. n} = S
  BY <1>2, <1>5 DEF Surjection
<1>7. DOMAIN s = 1 .. n /\ s \in Seq(S) /\ Len(s) = n
  BY <1>1, <1>2
<1> QED
  BY <1>1, <1>2, <1>6, <1>7 DEF n

(* What is left of a list that was cut off. *)
LEMMA FirstOfIs ==
  ASSUME NEW S, NEW s \in Seq(S), NEW n \in Nat
  PROVE  /\ FirstOf(s, n) \in Seq(S)
         /\ Len(FirstOf(s, n)) = IF Len(s) < n THEN Len(s) ELSE n
         /\ Len(FirstOf(s, n)) \in 0 .. Len(s)
         /\ DOMAIN FirstOf(s, n) = 1 .. Len(FirstOf(s, n))
         /\ \A i \in 1 .. Len(FirstOf(s, n)) : FirstOf(s, n)[i] = s[i] /\ i \in DOMAIN s
BY DEF FirstOf

(* Summed over the first entries of a ranking, terms that are not below    *)
(* zero make at most what they make over the set, and over all of them     *)
(* exactly that.                                                           *)
LEMMA SumRanked ==
  ASSUME NEW S, IsFiniteSet(S), NEW s \in SetToSeqs(S), NEW f, NEW g,
         \A x \in S : f[x] \in Int, NEW n \in 0 .. Len(s),
         \A i \in 1 .. n : g[i] = f[s[i]]
  PROVE  /\ n = Len(s) => SumFunctionOnSet(g, 1 .. n) = SumFunctionOnSet(f, S)
         /\ (\A x \in S : f[x] >= 0)
              => SumFunctionOnSet(g, 1 .. n) <= SumFunctionOnSet(f, S)
<1>1. /\ Len(s) \in Nat /\ DOMAIN s = 1 .. Len(s) /\ {s[i] : i \in 1 .. Len(s)} = S
      /\ \A i, j \in 1 .. Len(s) : s[i] = s[j] => i = j
      /\ \A i \in 1 .. Len(s) : s[i] \in S
  BY RankingIsComplete
<1>2. n \in Nat /\ 1 .. n \subseteq 1 .. Len(s)
  BY <1>1
<1> DEFINE T == {s[i] : i \in 1 .. n}
<1>3. /\ \A i \in 1 .. n : g[i] = f[s[i]] /\ g[i] \in Int
      /\ \A i, j \in 1 .. n : s[i] = s[j] => i = j
  BY <1>1, <1>2
<1>4. IsFiniteSet(1 .. n)
  BY <1>2, FS_Interval
<1>5. SumFunctionOnSet(g, 1 .. n) = SumFunctionOnSet(f, T)
  <2> DEFINE I == 1 .. n
  <2>1. /\ \A i \in I : g[i] = f[s[i]] /\ g[i] \in Int
        /\ \A i, j \in I : s[i] = s[j] => i = j
        /\ IsFiniteSet(I)
    BY <1>3, <1>4
  <2> HIDE DEF I
  <2>2. SumFunctionOnSet(g, I) = SumFunctionOnSet(f, {s[i] : i \in I})
    BY ONLY <2>1, SumRenamed
  <2> QED
    BY <2>2 DEF I
<1>6. n = Len(s) => T = S
  BY <1>1
<1>7. T \in SUBSET S
  BY <1>1, <1>2
<1> HIDE DEF T
<1>8. ASSUME \A x \in S : f[x] >= 0
      PROVE  SumFunctionOnSet(f, T) <= SumFunctionOnSet(f, S)
  <2>1. \A x \in S : f[x] \in Nat
    BY <1>8
  <2> QED
    BY <2>1, <1>7, SumPart
<1> QED
  BY <1>5, <1>6, <1>8

-----------------------------------------------------------------------------
(* Sorting by a total order R, a set of pairs: <<x, y>> when x comes       *)
(* before y.  below[x] is what comes before x.                             *)
StrictOrder(S, R) ==
  /\ \A x \in S : <<x, x>> \notin R
  /\ \A x, y \in S : x # y => <<x, y>> \in R \/ <<y, x>> \in R
  /\ \A x, y, z \in S : <<x, y>> \in R /\ <<y, z>> \in R => <<x, z>> \in R
IsBelow(below, S, R) == \A x \in S : \A y : y \in below[x] <=> y \in S /\ <<y, x>> \in R

(* How many come before an element is below the number of elements, and    *)
(* more of them come before a later one.                                   *)
LEMMA RanksOrder ==
  ASSUME NEW S, IsFiniteSet(S), NEW R, StrictOrder(S, R), NEW below, IsBelow(below, S, R)
  PROVE  /\ \A x \in S : Cardinality(below[x]) \in 0 .. Cardinality(S) - 1
         /\ \A x, y \in S : <<x, y>> \in R => Cardinality(below[x]) < Cardinality(below[y])
<1>1. \A x \in S : below[x] \in SUBSET (S \ {x})
  BY DEF StrictOrder, IsBelow
<1>2. \A x \in S : /\ IsFiniteSet(S \ {x}) /\ Cardinality(S \ {x}) = Cardinality(S) - 1
                   /\ Cardinality(S \ {x}) \in Nat
  <2> SUFFICES ASSUME NEW x \in S
               PROVE  /\ IsFiniteSet(S \ {x}) /\ Cardinality(S \ {x}) = Cardinality(S) - 1
                      /\ Cardinality(S \ {x}) \in Nat
    OBVIOUS
  <2>1. IsFiniteSet(S \ {x}) /\ Cardinality(S \ {x}) = Cardinality(S) - 1
    BY FS_RemoveElement
  <2> QED
    BY <2>1, FS_CardinalityType
<1>3. \A x \in S : /\ IsFiniteSet(below[x]) /\ Cardinality(below[x]) \in Nat
                   /\ Cardinality(below[x]) <= Cardinality(S) - 1
  <2> SUFFICES ASSUME NEW x \in S
               PROVE  /\ IsFiniteSet(below[x]) /\ Cardinality(below[x]) \in Nat
                      /\ Cardinality(below[x]) <= Cardinality(S) - 1
    OBVIOUS
  <2> DEFINE T == S \ {x}
             B == below[x]
  <2>1. IsFiniteSet(T) /\ B \in SUBSET T /\ Cardinality(T) = Cardinality(S) - 1
    BY <1>1, <1>2
  <2> HIDE DEF T, B
  <2>2. IsFiniteSet(B) /\ Cardinality(B) <= Cardinality(T)
    BY <2>1, FS_Subset
  <2>3. Cardinality(B) \in Nat
    BY <2>2, FS_CardinalityType
  <2> QED
    BY <2>1, <2>2, <2>3 DEF B
<1>4. ASSUME NEW x \in S, NEW y \in S, <<x, y>> \in R
      PROVE  Cardinality(below[x]) < Cardinality(below[y])
  <2> DEFINE B == below[x]
             C == below[y]
             D == below[x] \cup {x}
  <2>1. D \in SUBSET C /\ D = B \cup {x} /\ x \notin B
    BY <1>4 DEF StrictOrder, IsBelow
  <2>2. IsFiniteSet(B) /\ IsFiniteSet(C) /\ Cardinality(B) \in Nat /\ Cardinality(C) \in Nat
    BY <1>3
  <2> HIDE DEF B, C, D
  <2>3. Cardinality(D) = Cardinality(B) + 1
    BY <2>1, <2>2, FS_AddElement
  <2>4. Cardinality(D) <= Cardinality(C)
    BY <2>1, <2>2, FS_Subset
  <2>5. Cardinality(B) < Cardinality(C)
    BY <2>2, <2>3, <2>4
  <2> QED
    BY <2>5 DEF B, C
<1> DEFINE n == Cardinality(S)
<1>5. n \in Nat
  BY FS_CardinalityType
<1> HIDE DEF n
<1>6. \A x \in S : Cardinality(below[x]) \in 0 .. n - 1
  BY <1>3, <1>5 DEF n
<1> QED
  BY <1>4, <1>6 DEF n

(* A sequence that has at each place an element with so many before it,    *)
(* where there is one, is the elements in their order.                     *)
LEMMA OrderIs ==
  ASSUME NEW S, IsFiniteSet(S), NEW R, StrictOrder(S, R), NEW below, IsBelow(below, S, R),
         NEW T, NEW s \in [1 .. Cardinality(S) -> T],
         \A k \in DOMAIN s : (\E x \in S : Cardinality(below[x]) = k - 1)
            => s[k] \in S /\ Cardinality(below[s[k]]) = k - 1
  PROVE  /\ s \in SetToSeqs(S)
         /\ \A i, j \in DOMAIN s : i < j => <<s[i], s[j]>> \in R
<1> DEFINE n == Cardinality(S)
           c == [x \in S |-> Cardinality(below[x]) + 1]
<1>1. n \in Nat
  BY FS_CardinalityType
<1>2. /\ \A x \in S : Cardinality(below[x]) \in 0 .. n - 1
      /\ \A x, y \in S : <<x, y>> \in R => Cardinality(below[x]) < Cardinality(below[y])
  BY RanksOrder
<1>3. /\ \A x \in S : Cardinality(below[x]) \in Int
      /\ \A x, y \in S : Cardinality(below[x]) = Cardinality(below[y]) => x = y
  <2>1. \A x \in S : Cardinality(below[x]) \in Int
    BY <1>2
  <2>2. ASSUME NEW x \in S, NEW y \in S, Cardinality(below[x]) = Cardinality(below[y]), x # y
        PROVE  FALSE
    <3>1. <<x, y>> \in R \/ <<y, x>> \in R
      BY <2>2 DEF StrictOrder
    <3> QED
      BY <1>2, <2>1, <2>2, <3>1
  <2> QED
    BY <2>1, <2>2
<1> HIDE DEF n
<1>4. c \in [S -> 1 .. n] /\ \A x, y \in S : c[x] = c[y] => x = y
  BY <1>1, <1>2, <1>3
<1>5. \A x \in S : c[x] = Cardinality(below[x]) + 1
  OBVIOUS
<1> HIDE DEF c
<1>6. IsFiniteSet(1 .. n) /\ Cardinality(1 .. n) = n
  <2>1. 1 \in Int /\ n \in Int
    BY <1>1
  <2>2. IsFiniteSet(1 .. n) /\ Cardinality(1 .. n) = IF 1 > n THEN 0 ELSE n - 1 + 1
    BY ONLY <2>1, FS_Interval
  <2> QED
    BY <1>1, <2>2
<1>7. c \in Injection(S, 1 .. n)
  BY <1>4 DEF Injection, IsInjective
<1>8. c \in Surjection(S, 1 .. n)
  BY <1>6, <1>7, FS_Injection DEF n
<1>9. \A k \in 1 .. n : \E x \in S : Cardinality(below[x]) = k - 1
  <2> SUFFICES ASSUME NEW k \in 1 .. n PROVE \E x \in S : Cardinality(below[x]) = k - 1
    OBVIOUS
  <2>1. PICK x \in S : c[x] = k
    BY <1>8 DEF Surjection
  <2>2. Cardinality(below[x]) + 1 = k /\ Cardinality(below[x]) \in Int
    BY <1>3, <1>5, <2>1
  <2> QED
    BY <2>2
<1>10. \A k \in 1 .. n : s[k] \in S /\ Cardinality(below[s[k]]) = k - 1
  BY <1>9 DEF n
<1>11. DOMAIN s = 1 .. n /\ s = [k \in 1 .. n |-> s[k]]
  BY DEF n
<1>12. s \in [1 .. n -> S] /\ \A i, j \in 1 .. n : i # j => s[i] # s[j]
  BY <1>10, <1>11
<1>13. s \in SetToSeqs(S)
  BY <1>12 DEF SetToSeqs, n
<1>14. ASSUME NEW i \in 1 .. n, NEW j \in 1 .. n, i < j
       PROVE  <<s[i], s[j]>> \in R
  <2>1. /\ s[i] \in S /\ s[j] \in S /\ s[i] # s[j]
        /\ Cardinality(below[s[i]]) = i - 1 /\ Cardinality(below[s[j]]) = j - 1
    BY <1>10, <1>12, <1>14
  <2>2. CASE <<s[j], s[i]>> \in R
    <3>1. j - 1 < i - 1
      BY <1>2, <2>1, <2>2
    <3> QED
      BY <1>1, <1>14, <3>1
  <2> QED
    BY <2>1, <2>2 DEF StrictOrder
<1> QED
  BY <1>11, <1>13, <1>14

-----------------------------------------------------------------------------
(* Folds over the positions of a list.                                     *)

(* A fold over the positions 1 .. n that takes the last one of each set    *)
(* first: G gives its value on every set of positions, step is what one    *)
(* position does to the value, last[T] the last position of T.             *)
FoldsBack(G, n, A, step, base, last) ==
  /\ G \in [SUBSET (1 .. n) -> A]
  /\ G[{}] = base
  /\ \A T \in SUBSET (1 .. n) : T # {} => G[T] = step[<<G[T \ {last[T]}], last[T]>>]

LEMMA FoldExists ==
  ASSUME NEW n \in Nat, NEW A, NEW base \in A, NEW step \in [A \X (1 .. n) -> A],
         NEW last, \A T \in SUBSET (1 .. n) : T # {} => last[T] \in T
  PROVE  \E G : FoldsBack(G, n, A, step, base, last)
<1> DEFINE D == 1 .. n
           Small(k) == {T \in SUBSET D : Cardinality(T) <= k}
           Good(G, k) == /\ G \in [Small(k) -> A]
                         /\ G[{}] = base
                         /\ \A T \in Small(k) : T # {} => G[T] = step[<<G[T \ {last[T]}], last[T]>>]
           P == {k \in 0 .. n : \E G : Good(G, k)}
<1>1. IsFiniteSet(D) /\ Cardinality(D) = n
  <2>1. 1 \in Int /\ n \in Int
    OBVIOUS
  <2>2. IsFiniteSet(D) /\ Cardinality(D) = IF 1 > n THEN 0 ELSE n - 1 + 1
    BY ONLY <2>1, FS_Interval
  <2> HIDE DEF D
  <2> QED
    BY <2>2
<1>2. \A T \in SUBSET D : IsFiniteSet(T) /\ Cardinality(T) \in Nat /\ Cardinality(T) <= n
  <2> SUFFICES ASSUME NEW T \in SUBSET D
               PROVE  IsFiniteSet(T) /\ Cardinality(T) \in Nat /\ Cardinality(T) <= n
    OBVIOUS
  <2> HIDE DEF D
  <2>1. IsFiniteSet(T) /\ Cardinality(T) <= n
    BY <1>1, FS_Subset
  <2> QED
    BY <2>1, FS_CardinalityType
<1>3. \A T \in SUBSET D : T # {} =>
         /\ last[T] \in T /\ last[T] \in D /\ T \ {last[T]} \in SUBSET D
         /\ Cardinality(T \ {last[T]}) = Cardinality(T) - 1
  <2> SUFFICES ASSUME NEW T \in SUBSET D, T # {}
               PROVE  /\ last[T] \in T /\ last[T] \in D /\ T \ {last[T]} \in SUBSET D
                      /\ Cardinality(T \ {last[T]}) = Cardinality(T) - 1
    OBVIOUS
  <2>1. last[T] \in T /\ IsFiniteSet(T)
    BY <1>2
  <2>2. Cardinality(T \ {last[T]}) = Cardinality(T) - 1
    BY ONLY <2>1, FS_RemoveElement
  <2> HIDE DEF D
  <2> QED
    BY <2>1, <2>2
<1>4. Cardinality({}) = 0 /\ {} \in SUBSET D
  BY FS_EmptySet
<1>5. \A a \in A, k \in D : step[<<a, k>>] \in A
  OBVIOUS
<1>6. \A T \in SUBSET D : Cardinality(T) <= 0 => T = {}
  <2> SUFFICES ASSUME NEW T \in SUBSET D, Cardinality(T) <= 0 PROVE T = {}
    OBVIOUS
  <2>1. IsFiniteSet(T) /\ Cardinality(T) = 0
    BY <1>2
  <2> QED
    BY ONLY <2>1, FS_EmptySet
<1> HIDE DEF D
<1>7. 0 \in P
  <2>1. Small(0) = {{}}
    <3>1. {} \in Small(0)
      BY <1>4
    <3>2. \A T \in Small(0) : T = {}
      BY <1>6
    <3> HIDE DEF Small
    <3> QED
      BY <3>1, <3>2
  <2> DEFINE G == [T \in {{}} |-> base]
  <2>2. Good(G, 0)
    <3>1. G \in [{{}} -> A] /\ G[{}] = base /\ \A T \in {{}} : T = {}
      OBVIOUS
    <3> HIDE DEF Small, G
    <3>2. G \in [Small(0) -> A] /\ G[{}] = base /\ \A T \in Small(0) : T = {}
      BY <2>1, <3>1
    <3> QED
      BY ONLY <3>2
  <2>3. 0 \in 0 .. n
    OBVIOUS
  <2> HIDE DEF Good, G
  <2> QED
    BY <2>2, <2>3
<1>8. ASSUME NEW k \in 0 .. n - 1, k \in P
      PROVE  k + 1 \in P
  <2>1. PICK G : Good(G, k)
    <3> HIDE DEF Good
    <3> QED
      BY <1>8
  <2> DEFINE H == [T \in Small(k + 1) |-> IF T = {} THEN base
                     ELSE step[<<G[T \ {last[T]}], last[T]>>]]
  <2>2. k \in Nat /\ k + 1 \in 0 .. n
    BY <1>8
  <2>3. {} \in Small(k + 1) /\ {} \in Small(k) /\ \A T \in Small(k) : T \in Small(k + 1)
    BY <1>2, <1>4, <2>2
  <2>4. \A T \in Small(k + 1) : T # {} => T \ {last[T]} \in Small(k) /\ last[T] \in D
    BY <1>2, <1>3, <2>2
  <2>5. \A T \in Small(k) : G[T] \in A
    BY <2>1
  <2> HIDE DEF Small
  <2>6. H \in [Small(k + 1) -> A]
    BY <1>5, <2>4, <2>5
  <2>7. \A T \in Small(k) : H[T] = G[T]
    BY <2>1, <2>3
  <2>8. \A T \in Small(k + 1) : T # {} => H[T] = step[<<H[T \ {last[T]}], last[T]>>]
    BY <2>4, <2>7
  <2>9. H[{}] = base
    BY <2>3
  <2> HIDE DEF H
  <2>10. Good(H, k + 1)
    BY <2>6, <2>8, <2>9
  <2> HIDE DEF Good
  <2> QED
    BY <2>2, <2>10
<1>9. n \in P
  <2> HIDE DEF P
  <2>1. \A k \in 0 .. n : k \in P
    BY ONLY n \in Nat, <1>7, <1>8, UpToInduction
  <2> QED
    BY <2>1
<1>10. PICK G : Good(G, n)
  <2> HIDE DEF Good
  <2> QED
    BY <1>9
<1>11. Small(n) = SUBSET D
  BY <1>2
<1> HIDE DEF Small
<1> QED
  BY <1>10, <1>11 DEF FoldsBack, D

(* The last position of each set of positions. *)
LastOf(n) == [T \in SUBSET (1 .. n) |-> Max(T)]

LEMMA LastOfIs ==
  ASSUME NEW n \in Nat
  PROVE  /\ \A T \in SUBSET (1 .. n) : T # {} => LastOf(n)[T] \in T
         /\ \A k \in 1 .. n : LastOf(n)[1 .. k] = k
<1>1. ASSUME NEW T \in SUBSET (1 .. n), T # {}
      PROVE  Max(T) \in T
  <2> DEFINE N == {n - x : x \in T}
  <2>1. N \in SUBSET Nat /\ N # {}
    <3>1. \A x \in T : n - x \in Nat
      <4> SUFFICES ASSUME NEW x \in T PROVE n - x \in Nat
        OBVIOUS
      <4>1. x \in 1 .. n
        OBVIOUS
      <4> QED
        BY ONLY <4>1, n \in Nat
    <3> QED
      BY <1>1, <3>1
  <2>2. PICK m \in N : \A p \in N : m <= p
    <3> HIDE DEF N
    <3> QED
      BY <2>1, LeastExists
  <2>3. PICK x \in T : m = n - x
    OBVIOUS
  <2>4. \A y \in T : x >= y
    <3> SUFFICES ASSUME NEW y \in T PROVE x >= y
      OBVIOUS
    <3>1. n - y \in N
      OBVIOUS
    <3>2. n - x <= n - y /\ x \in Int /\ y \in Int
      BY <2>2, <2>3, <3>1
    <3> QED
      BY ONLY <3>2, n \in Nat
  <2> QED
    BY <2>4 DEF Max
<1>2. ASSUME NEW k \in 1 .. n
      PROVE  Max(1 .. k) = k /\ 1 .. k \in SUBSET (1 .. n)
  <2>1. k \in 1 .. k /\ \A y \in 1 .. k : k >= y
    OBVIOUS
  <2>2. \A x \in 1 .. k : (\A y \in 1 .. k : x >= y) => x = k
    BY <2>1
  <2>3. 1 .. k \in SUBSET (1 .. n)
    OBVIOUS
  <2> QED
    BY <2>1, <2>2, <2>3 DEF Max
<1> QED
  BY <1>1, <1>2 DEF LastOf

(* Such a fold over all the positions goes through them from the first to  *)
(* the last.                                                               *)
LEMMA FoldRuns ==
  ASSUME NEW n \in Nat, NEW A, NEW step, NEW base,
         NEW G, FoldsBack(G, n, A, step, base, LastOf(n))
  PROVE  \E run \in [0 .. n -> A] :
           /\ run[0] = base /\ run[n] = G[1 .. n]
           /\ \A k \in 1 .. n : run[k] = step[<<run[k - 1], k>>]
<1> DEFINE run == [k \in 0 .. n |-> G[1 .. k]]
<1>1. \A k \in 0 .. n : 1 .. k \in SUBSET (1 .. n)
  OBVIOUS
<1>2. run \in [0 .. n -> A]
  BY <1>1 DEF FoldsBack
<1>3. run[0] = base
  <2>1. 1 .. 0 = {} /\ 0 \in 0 .. n
    OBVIOUS
  <2> QED
    BY <2>1 DEF FoldsBack
<1>4. ASSUME NEW k \in 1 .. n
      PROVE  run[k] = step[<<run[k - 1], k>>]
  <2>1. 1 .. k \in SUBSET (1 .. n) /\ 1 .. k # {} /\ (1 .. k) \ {k} = 1 .. k - 1
    OBVIOUS
  <2>2. LastOf(n)[1 .. k] = k
    BY LastOfIs
  <2>3. G[1 .. k] = step[<<G[1 .. k - 1], k>>]
    <3>1. G[1 .. k] = step[<<G[(1 .. k) \ {LastOf(n)[1 .. k]}], LastOf(n)[1 .. k]>>]
      BY <2>1 DEF FoldsBack
    <3> QED
      BY ONLY <2>1, <2>2, <3>1
  <2>4. k - 1 \in 0 .. n /\ k \in 0 .. n
    OBVIOUS
  <2>5. run[k] = G[1 .. k] /\ run[k - 1] = G[1 .. k - 1]
    BY <2>4
  <2> QED
    BY ONLY <2>3, <2>5
<1>5. run[n] = G[1 .. n]
  BY n \in 0 .. n
<1> HIDE DEF run
<1> QED
  BY <1>2, <1>3, <1>4, <1>5

-----------------------------------------------------------------------------
(* The coverage of a script: the sweep over its points.                    *)

(* The sweep of compute_js_coverage, its total and what it goes through.   *)
Sweep(start, pts) == FoldLeft(SweepStep, start, pts)
Longest(pts) == FoldLeft(LAMBDA m, p : IF p.close /\ p.at > m THEN p.at ELSE m, 0, pts)
Sweeps == [used : Int, last : Int, stack : Seq(Int)]

(* n points with an offset and a count each. *)
Laid(n, pts) == /\ n \in Nat /\ DOMAIN pts = 1 .. n
                /\ \A k \in 1 .. n : pts[k].at \in Int /\ pts[k].count \in Int

(* The sweep goes through the points from the first to the last. *)
LEMMA SweepRuns ==
  ASSUME NEW n, NEW pts, Laid(n, pts), NEW start \in Sweeps
  PROVE  \E run \in [0 .. n -> Sweeps] :
           /\ run[0] = start /\ Sweep(start, pts) = run[n]
           /\ \A k \in 1 .. n : run[k] = SweepStep(run[k - 1], pts[k])
<1> DEFINE D == 1 .. n
           last == LastOf(n)
           step == [p \in Sweeps \X D |-> SweepStep(p[1], pts[p[2]])]
<1>0. n \in Nat /\ DOMAIN pts = D /\ \A k \in D : pts[k].at \in Int /\ pts[k].count \in Int
  BY DEF Laid
<1>1. \A w \in Sweeps, k \in D : SweepStep(w, pts[k]) \in Sweeps
  <2> SUFFICES ASSUME NEW w \in Sweeps, NEW k \in D PROVE SweepStep(w, pts[k]) \in Sweeps
    OBVIOUS
  <2> DEFINE p == pts[k]
             used == w.used + (IF w.stack # << >> /\ p.at > w.last /\ Last(w.stack) > 0
                                 THEN p.at - w.last ELSE 0)
             stack == IF ~p.close THEN Append(w.stack, p.count)
                      ELSE IF w.stack = << >> THEN << >> ELSE Front(w.stack)
  <2>1. p.at \in Int /\ p.count \in Int
    BY <1>0
  <2>2. w.used \in Int /\ w.last \in Int /\ w.stack \in Seq(Int)
    BY DEF Sweeps
  <2>3. SweepStep(w, p) = [used |-> used, last |-> p.at, stack |-> stack]
    BY DEF SweepStep
  <2>4. stack \in Seq(Int)
    <3> DEFINE s == w.stack
               c == p.count
    <3>1. s \in Seq(Int) /\ c \in Int
      BY <2>1, <2>2
    <3> HIDE DEF s, c, p
    <3>2. Append(s, c) \in Seq(Int) /\ << >> \in Seq(Int) /\ (s # << >> => Front(s) \in Seq(Int))
      BY ONLY <3>1 DEF Front
    <3> QED
      BY <3>2 DEF s, c
  <2>5. used \in Int
    <3> DEFINE add == IF w.stack # << >> /\ p.at > w.last /\ Last(w.stack) > 0
                        THEN p.at - w.last ELSE 0
    <3>1. add \in Int
      BY <2>1, <2>2
    <3> HIDE DEF add, p
    <3>2. w.used + add \in Int
      BY <2>2, <3>1
    <3> QED
      BY <3>2 DEF add
  <2> HIDE DEF used, stack, p
  <2> QED
    BY <2>1, <2>3, <2>4, <2>5 DEF Sweeps, p
<1>2. step \in [Sweeps \X D -> Sweeps]
  BY <1>1
<1>3. \A w \in Sweeps, k \in D : step[<<w, k>>] = SweepStep(w, pts[k])
  OBVIOUS
<1> HIDE DEF step
<1>4. \A T \in SUBSET D : T # {} => last[T] \in T /\ last[T] = Max(T)
  BY <1>0, LastOfIs DEF LastOf
<1> HIDE DEF last
<1>5. PICK G : FoldsBack(G, n, Sweeps, step, start, last)
  <2>1. /\ n \in Nat /\ start \in Sweeps /\ step \in [Sweeps \X (1 .. n) -> Sweeps]
        /\ \A T \in SUBSET (1 .. n) : T # {} => last[T] \in T
    BY <1>0, <1>2, <1>4
  <2> QED
    BY ONLY <2>1, FoldExists
<1>6. PICK run \in [0 .. n -> Sweeps] :
        /\ run[0] = start /\ run[n] = G[D]
        /\ \A k \in D : run[k] = step[<<run[k - 1], k>>]
  <2>1. FoldsBack(G, n, Sweeps, step, start, LastOf(n))
    BY <1>5 DEF last
  <2> QED
    BY ONLY <1>0, <2>1, FoldRuns
<1>7. Sweep(start, pts) = G[D]
  <2> DEFINE IsFold(g) == g = [s \in SUBSET D |->
                IF s = {} THEN start ELSE SweepStep(g[s \ {Max(s)}], pts[Max(s)])]
             fold == CHOOSE g : IsFold(g)
  <2>1. Sweep(start, pts) = fold[D]
    BY <1>0 DEF Sweep, FoldLeft, MapThenFoldSet
  <2>2. G \in [SUBSET D -> Sweeps] /\ G[{}] = start
    BY <1>5 DEF FoldsBack
  <2>3. \A T \in SUBSET D : T # {} => G[T] = SweepStep(G[T \ {Max(T)}], pts[Max(T)])
    <3> SUFFICES ASSUME NEW T \in SUBSET D, T # {}
                 PROVE  G[T] = SweepStep(G[T \ {Max(T)}], pts[Max(T)])
      OBVIOUS
    <3>1. last[T] = Max(T) /\ Max(T) \in D
      BY <1>4
    <3>2. G[T] = step[<<G[T \ {last[T]}], last[T]>>]
      BY <1>5 DEF FoldsBack
    <3>3. G[T \ {Max(T)}] \in Sweeps
      BY <2>2
    <3> HIDE DEF D
    <3> QED
      BY <1>3, <3>1, <3>2, <3>3
  <2>4. IsFold(G)
    <3> HIDE DEF D
    <3> QED
      BY <2>2, <2>3
  <2>5. IsFold(fold)
    <3> HIDE DEF IsFold
    <3> QED
      BY <2>4
  <2> DEFINE P == {T \in SUBSET D : fold[T] = G[T]}
  <2>6. \A T \in SUBSET D :
          fold[T] = IF T = {} THEN start ELSE SweepStep(fold[T \ {Max(T)}], pts[Max(T)])
    <3> HIDE DEF D, fold
    <3> QED
      BY <2>5
  <2> HIDE DEF fold
  <2>7. ASSUME NEW T \in SUBSET D, \A x \in T : T \ {x} \in P
        PROVE  T \in P
    <3>1. CASE T = {}
      BY <2>2, <2>6, <3>1
    <3>2. CASE T # {}
      <4>1. Max(T) \in T
        BY <1>4, <3>2
      <4>2. fold[T \ {Max(T)}] = G[T \ {Max(T)}]
        BY <2>7, <4>1
      <4> QED
        BY <2>3, <2>6, <3>2, <4>2
    <3> QED
      BY <3>1, <3>2
  <2>8. D \in P
    <3>1. IsFiniteSet(D)
      <4>1. 1 \in Int /\ n \in Int
        BY <1>0
      <4> QED
        BY ONLY <4>1, FS_Interval
    <3> HIDE DEF P, D
    <3> QED
      BY <2>7, <3>1, RemovalInduction
  <2> QED
    BY <2>1, <2>8
<1>8. \A k \in 1 .. n : run[k] = SweepStep(run[k - 1], pts[k])
  <2> SUFFICES ASSUME NEW k \in 1 .. n PROVE run[k] = SweepStep(run[k - 1], pts[k])
    OBVIOUS
  <2>1. run[k - 1] \in Sweeps /\ k \in D
    BY <1>0, <1>6
  <2> QED
    BY <1>3, <1>6, <2>1
<1> QED
  BY <1>6, <1>7, <1>8

(* The length of the script: the end of its last range. *)
LEMMA TotalIs ==
  ASSUME NEW n \in Nat, NEW pts, DOMAIN pts = 1 .. n, \A k \in 1 .. n : pts[k].at \in Int
  PROVE  LET total == Longest(pts)
         IN  /\ total \in Int /\ total >= 0
             /\ \A k \in 1 .. n : pts[k].close => pts[k].at <= total
             /\ total # 0 => \E k \in 1 .. n : pts[k].close /\ pts[k].at = total
<1> DEFINE D == 1 .. n
           last == LastOf(n)
           Longer(m, p) == IF p.close /\ p.at > m THEN p.at ELSE m
           step == [q \in Int \X D |-> Longer(q[1], pts[q[2]])]
           total == Longest(pts)
<1>1. \A m \in Int, k \in D : /\ Longer(m, pts[k]) \in Int /\ Longer(m, pts[k]) >= m
                              /\ pts[k].close => pts[k].at <= Longer(m, pts[k])
                              /\ \/ Longer(m, pts[k]) = m
                                 \/ pts[k].close /\ pts[k].at = Longer(m, pts[k])
  OBVIOUS
<1> HIDE DEF Longer
<1>2. step \in [Int \X D -> Int]
  BY <1>1
<1>3. \A m \in Int, k \in D : step[<<m, k>>] = Longer(m, pts[k])
  OBVIOUS
<1> HIDE DEF step
<1>4. \A T \in SUBSET D : T # {} => last[T] \in T /\ last[T] = Max(T)
  BY LastOfIs DEF LastOf
<1> HIDE DEF last
<1>5. PICK G : FoldsBack(G, n, Int, step, 0, last)
  <2>1. /\ n \in Nat /\ 0 \in Int /\ step \in [Int \X (1 .. n) -> Int]
        /\ \A T \in SUBSET (1 .. n) : T # {} => last[T] \in T
    BY <1>2, <1>4
  <2> QED
    BY ONLY <2>1, FoldExists
<1>6. PICK run \in [0 .. n -> Int] :
        /\ run[0] = 0 /\ run[n] = G[D]
        /\ \A k \in D : run[k] = step[<<run[k - 1], k>>]
  <2>1. FoldsBack(G, n, Int, step, 0, LastOf(n))
    BY <1>5 DEF last
  <2> QED
    BY ONLY n \in Nat, <2>1, FoldRuns
<1>7. total = G[D]
  <2> DEFINE IsFold(g) == g = [s \in SUBSET D |->
                IF s = {} THEN 0 ELSE Longer(g[s \ {Max(s)}], pts[Max(s)])]
             fold == CHOOSE g : IsFold(g)
  <2>1. total = fold[D]
    BY DEF Longest, FoldLeft, MapThenFoldSet, Longer
  <2> HIDE DEF total
  <2>2. G \in [SUBSET D -> Int] /\ G[{}] = 0
    BY <1>5 DEF FoldsBack
  <2>3. \A T \in SUBSET D : T # {} => G[T] = Longer(G[T \ {Max(T)}], pts[Max(T)])
    <3> SUFFICES ASSUME NEW T \in SUBSET D, T # {}
                 PROVE  G[T] = Longer(G[T \ {Max(T)}], pts[Max(T)])
      OBVIOUS
    <3>1. last[T] = Max(T) /\ Max(T) \in D
      BY <1>4
    <3>2. G[T] = step[<<G[T \ {last[T]}], last[T]>>]
      BY <1>5 DEF FoldsBack
    <3>3. G[T \ {Max(T)}] \in Int
      BY <2>2
    <3> HIDE DEF D
    <3> QED
      BY <1>3, <3>1, <3>2, <3>3
  <2>4. IsFold(G)
    <3> HIDE DEF D
    <3> QED
      BY <2>2, <2>3
  <2>5. IsFold(fold)
    <3> HIDE DEF IsFold
    <3> QED
      BY <2>4
  <2> DEFINE P == {T \in SUBSET D : fold[T] = G[T]}
  <2>6. \A T \in SUBSET D :
          fold[T] = IF T = {} THEN 0 ELSE Longer(fold[T \ {Max(T)}], pts[Max(T)])
    <3> HIDE DEF D, fold
    <3> QED
      BY <2>5
  <2> HIDE DEF fold
  <2>7. ASSUME NEW T \in SUBSET D, \A x \in T : T \ {x} \in P
        PROVE  T \in P
    <3>1. CASE T = {}
      BY <2>2, <2>6, <3>1
    <3>2. CASE T # {}
      <4>1. Max(T) \in T
        BY <1>4, <3>2
      <4>2. fold[T \ {Max(T)}] = G[T \ {Max(T)}]
        BY <2>7, <4>1
      <4> QED
        BY <2>3, <2>6, <3>2, <4>2
    <3> QED
      BY <3>1, <3>2
  <2>8. D \in P
    <3>1. IsFiniteSet(D)
      <4>1. 1 \in Int /\ n \in Int
        OBVIOUS
      <4> QED
        BY ONLY <4>1, FS_Interval
    <3> HIDE DEF P, D
    <3> QED
      BY <2>7, <3>1, RemovalInduction
  <2> QED
    BY <2>1, <2>8
<1> HIDE DEF total
<1> DEFINE Q == {k \in 0 .. n : /\ run[k] >= 0
                                /\ \A l \in 1 .. k : pts[l].close => pts[l].at <= run[k]
                                /\ run[k] # 0 => \E l \in 1 .. k : pts[l].close /\ pts[l].at = run[k]}
<1>8. 0 \in Q
  BY <1>6
<1>9. \A k \in 0 .. n - 1 : k \in Q => k + 1 \in Q
  <2> SUFFICES ASSUME NEW k \in 0 .. n - 1, k \in Q PROVE k + 1 \in Q
    OBVIOUS
  <2> DEFINE j == k + 1
             p == pts[j]
  <2>1. k \in Nat /\ j \in 1 .. n /\ j - 1 = k /\ run[k] \in Int /\ p.at \in Int
    BY <1>6
  <2>2. run[j] = Longer(run[k], p)
    <3>1. j \in D /\ run[j] = step[<<run[j - 1], j>>]
      BY <1>6, <2>1
    <3> HIDE DEF D, j, p
    <3> QED
      BY <1>3, <2>1, <3>1 DEF p
  <2>3. /\ run[j] \in Int /\ run[j] >= run[k] /\ (p.close => p.at <= run[j])
        /\ run[j] = run[k] \/ (p.close /\ p.at = run[j])
    BY <1>1, <2>1, <2>2
  <2>4. \A l \in 1 .. j : l = j \/ l \in 1 .. k
    BY <2>1
  <2>5. \A l \in 1 .. k : l \in 1 .. j /\ pts[l].at \in Int
    BY <2>1
  <2> HIDE DEF Q
  <2>6. run[k] >= 0 /\ \A l \in 1 .. k : pts[l].close => pts[l].at <= run[k]
    BY DEF Q
  <2>7. run[k] # 0 => \E l \in 1 .. k : pts[l].close /\ pts[l].at = run[k]
    BY DEF Q
  <2>8. run[j] >= 0
    BY ONLY <2>1, <2>3, <2>6
  <2>9. ASSUME NEW l \in 1 .. j, pts[l].close PROVE pts[l].at <= run[j]
    <3>1. CASE l = j
      BY <2>3, <2>9, <3>1
    <3>2. CASE l \in 1 .. k
      <4>1. pts[l].at <= run[k] /\ pts[l].at \in Int
        BY <2>5, <2>6, <2>9, <3>2
      <4> QED
        BY ONLY <2>1, <2>3, <4>1
    <3> QED
      BY <2>4, <3>1, <3>2
  <2>10. ASSUME run[j] # 0 PROVE \E l \in 1 .. j : pts[l].close /\ pts[l].at = run[j]
    <3>1. CASE run[j] = run[k]
      BY <2>5, <2>7, <2>10, <3>1
    <3>2. CASE p.close /\ p.at = run[j]
      <4>1. j \in 1 .. j
        BY <2>1
      <4> QED
        BY <3>2, <4>1
    <3> QED
      BY <2>3, <3>1, <3>2
  <2>11. j \in 0 .. n
    BY <2>1
  <2> HIDE DEF j, p
  <2>12. j \in Q
    BY <2>8, <2>9, <2>10, <2>11 DEF Q
  <2> QED
    BY <2>12 DEF j
<1>10. n \in Q
  <2> HIDE DEF Q
  <2>1. \A k \in 0 .. n : k \in Q
    BY ONLY n \in Nat, <1>8, <1>9, UpToInduction
  <2> QED
    BY <2>1
<1>11. total = run[n] /\ run[n] \in Int
  BY <1>6, <1>7
<1> QED
  BY <1>10, <1>11 DEF total

-----------------------------------------------------------------------------
(* The stack of the sweep, and the ranges it stands for.                   *)

(* u lists the set U in the order of o. *)
Stacked(u, U, o) ==
  /\ u \in Seq(U)
  /\ \A x, y \in DOMAIN u : x < y => o[u[x]] < o[u[y]]
  /\ \A i \in U : \E x \in DOMAIN u : u[x] = i

(* A range that opens later than all of them goes on top. *)
LEMMA StackPushed ==
  ASSUME NEW U, NEW u, NEW o, Stacked(u, U, o), NEW i, \A j \in U : o[j] < o[i]
  PROVE  Stacked(Append(u, i), U \cup {i}, o)
<1> DEFINE n == Len(u)
           v == Append(u, i)
           V == U \cup {i}
<1>1. n \in Nat /\ DOMAIN u = 1 .. n /\ \A x \in 1 .. n : u[x] \in U
  BY DEF Stacked
<1>2. u \in Seq(V) /\ i \in V
  BY <1>1 DEF Stacked
<1>3. v \in Seq(V) /\ Len(v) = n + 1 /\ DOMAIN v = 1 .. n + 1
      /\ v[n + 1] = i /\ \A x \in 1 .. n : v[x] = u[x]
  <2> HIDE DEF V
  <2> QED
    BY <1>2
<1> HIDE DEF n, v
<1>4. \A x \in 1 .. n + 1 : x = n + 1 \/ x \in 1 .. n
  BY <1>1
<1>5. ASSUME NEW x \in 1 .. n + 1, NEW y \in 1 .. n + 1, x < y
      PROVE  o[v[x]] < o[v[y]]
  <2>1. x \in 1 .. n
    BY <1>1, <1>5
  <2>2. CASE y = n + 1
    BY <1>1, <1>3, <2>1, <2>2
  <2>3. CASE y \in 1 .. n
    BY <1>1, <1>3, <1>5, <2>1, <2>3 DEF Stacked
  <2> QED
    BY <1>4, <2>2, <2>3
<1>6. ASSUME NEW j \in V PROVE \E x \in 1 .. n + 1 : v[x] = j
  <2>1. CASE j = i
    BY <1>1, <1>3, <2>1
  <2>2. CASE j \in U
    <3>1. PICK x \in 1 .. n : u[x] = j
      BY <1>1, <2>2 DEF Stacked
    <3>2. x \in 1 .. n + 1
      BY <1>1
    <3> QED
      BY <1>3, <3>1, <3>2
  <2> QED
    BY <2>1, <2>2
<1> HIDE DEF V
<1>7. Stacked(v, V, o)
  BY <1>3, <1>5, <1>6 DEF Stacked
<1> QED
  BY <1>7 DEF v, V

(* On top is the one that opened last, and below it are the others. *)
LEMMA StackPopped ==
  ASSUME NEW U, NEW u, NEW o, Stacked(u, U, o), \A i \in U : o[i] \in Int, U # {}
  PROVE  /\ u # << >> /\ Len(u) \in DOMAIN u /\ u[Len(u)] \in U
         /\ \A j \in U \ {u[Len(u)]} : o[j] < o[u[Len(u)]]
         /\ Stacked(SubSeq(u, 1, Len(u) - 1), U \ {u[Len(u)]}, o)
<1> DEFINE n == Len(u)
           t == u[n]
           v == SubSeq(u, 1, n - 1)
           V == U \ {t}
<1>1. n \in Nat /\ DOMAIN u = 1 .. n /\ (\A x \in 1 .. n : u[x] \in U) /\ u \in Seq(U)
  BY DEF Stacked
<1>2. n > 0
  <2>1. PICK i \in U : TRUE
    OBVIOUS
  <2>2. PICK x \in 1 .. n : u[x] = i
    BY <1>1 DEF Stacked
  <2> QED
    BY <1>1
<1>3. n \in 1 .. n /\ t \in U
  BY <1>1, <1>2
<1>4. /\ n - 1 \in Nat /\ v \in Seq(U) /\ DOMAIN v = 1 .. n - 1 /\ Len(v) = n - 1
      /\ \A x \in 1 .. n - 1 : v[x] = u[x]
  BY <1>1, <1>2
<1>5. \A x \in 1 .. n - 1 : x \in 1 .. n /\ x < n /\ u[x] \in U /\ o[u[x]] < o[t]
  <2> SUFFICES ASSUME NEW x \in 1 .. n - 1
               PROVE  x \in 1 .. n /\ x < n /\ u[x] \in U /\ o[u[x]] < o[t]
    OBVIOUS
  <2>1. x \in 1 .. n /\ x < n
    BY <1>1
  <2> HIDE DEF n
  <2> QED
    BY <1>1, <1>3, <2>1 DEF Stacked
<1>6. \A x \in 1 .. n : x = n \/ x \in 1 .. n - 1
  <2>1. n \in Nat
    BY <1>1
  <2> HIDE DEF n
  <2> QED
    BY ONLY <2>1
<1> HIDE DEF v
<1>7. v = [x \in 1 .. n - 1 |-> u[x]]
  <2>1. v = [x \in DOMAIN v |-> v[x]]
    BY ONLY <1>4
  <2> QED
    BY ONLY <1>4, <2>1
<1> HIDE DEF n
<1>8. \A x \in 1 .. n - 1 : u[x] \in V
  <2> SUFFICES ASSUME NEW x \in 1 .. n - 1 PROVE u[x] # t
    BY <1>5
  <2>1. o[u[x]] < o[t] /\ o[t] \in Int
    BY <1>3, <1>5
  <2> QED
    BY <2>1
<1>9. \A j \in V : \E x \in 1 .. n - 1 : u[x] = j
  BY <1>1, <1>6 DEF Stacked
<1>10. \A j \in V : o[j] < o[t]
  BY <1>5, <1>9
<1> HIDE DEF t, V
<1>11. v \in Seq(V)
  BY <1>4, <1>7, <1>8
<1>12. \A x, y \in 1 .. n - 1 : x < y => o[v[x]] < o[v[y]]
  BY <1>1, <1>4, <1>5 DEF Stacked
<1>13. Stacked(v, V, o)
  BY <1>4, <1>9, <1>11, <1>12 DEF Stacked
<1>14. u # << >>
  BY <1>1, <1>3
<1> QED
  BY <1>1, <1>3, <1>10, <1>13, <1>14 DEF n, t, v, V

(* The ranges L and the points of their sweep: range i goes from s[i] to   *)
(* e[i], the k-th of the n points is at the offset at[k], C are the points *)
(* that close a range, and o[i] and c[i] are the points at which range i   *)
(* opens and closes.                                                       *)
Swept(L, s, e, n, at, C, o, c) ==
  /\ IsFiniteSet(L) /\ L \subseteq Nat /\ n \in Nat /\ C \subseteq 1 .. n
  /\ \A i \in L : /\ s[i] \in Nat /\ e[i] \in Nat /\ s[i] < e[i]
                  /\ o[i] \in (1 .. n) \ C /\ at[o[i]] = s[i]
                  /\ c[i] \in C /\ at[c[i]] = e[i]
  /\ \A k \in 1 .. n : /\ at[k] \in Nat
                       /\ k \notin C => \E i \in L : o[i] = k
                       /\ k \in C => \E i \in L : c[i] = k
  /\ \A i, j \in L : i # j => o[i] # o[j] /\ c[i] # c[j]
  /\ \A k, l \in 1 .. n : k < l => at[k] < at[l] \/ (at[k] = at[l] /\ (l \in C => k \in C))

(* The ranges nest, and of those that start together the outer one opens   *)
(* first.                                                                  *)
OpenedOutwards(L, s, e, o) ==
  /\ \A i, j \in L : \/ e[i] <= s[j] \/ e[j] <= s[i]
                     \/ s[i] <= s[j] /\ e[j] <= e[i]
                     \/ s[j] <= s[i] /\ e[i] <= e[j]
  /\ \A i, j \in L : o[i] < o[j] /\ s[i] = s[j] => e[j] < e[i] \/ (e[i] = e[j] /\ i < j)

(* What the first k points have opened, or closed. *)
Passed(L, f, k) == {i \in L : f[i] <= k}

(* After k points, a being the offset of the last one.                     *)
Arrived(n, at, k, a) ==
  /\ k \in 0 .. n /\ a \in Nat
  /\ \A l \in 1 .. n : (l <= k => at[l] <= a) /\ (l > k => a <= at[l])

(* U are the ranges the stack stands for: as many as are open, among them  *)
(* every open one that ends later, and none that ended before.             *)
OnStack(L, e, o, c, k, a, U) ==
  /\ U \subseteq Passed(L, o, k)
  /\ \A i \in U : e[i] >= a
  /\ \A i \in Passed(L, o, k) : e[i] > a => i \in U
  /\ Cardinality(U) = Cardinality(Passed(L, o, k)) - Cardinality(Passed(L, c, k))

(* One point more. *)
LEMMA PassedIs ==
  ASSUME NEW L, IsFiniteSet(L), NEW f, \A i \in L : f[i] \in Int, NEW k \in Int
  PROVE  /\ IsFiniteSet(Passed(L, f, k)) /\ Cardinality(Passed(L, f, k)) \in Nat
         /\ (\A i \in L : f[i] # k + 1) => Passed(L, f, k + 1) = Passed(L, f, k)
         /\ \A i \in L : f[i] = k + 1 /\ (\A j \in L : i # j => f[i] # f[j]) =>
              /\ i \notin Passed(L, f, k)
              /\ Passed(L, f, k + 1) = Passed(L, f, k) \cup {i}
              /\ Cardinality(Passed(L, f, k + 1)) = Cardinality(Passed(L, f, k)) + 1
<1> DEFINE P == Passed(L, f, k)
           Q == Passed(L, f, k + 1)
<1>1. IsFiniteSet(P) /\ Cardinality(P) \in Nat
  <2>1. P \in SUBSET L
    BY DEF Passed
  <2> HIDE DEF P
  <2>2. IsFiniteSet(P)
    BY <2>1, FS_Subset
  <2> QED
    BY <2>2, FS_CardinalityType
<1>2. \A i \in L : f[i] <= k + 1 <=> f[i] <= k \/ f[i] = k + 1
  OBVIOUS
<1>3. (\A i \in L : f[i] # k + 1) => Q = P
  BY <1>2 DEF Passed
<1>4. ASSUME NEW i \in L, f[i] = k + 1, \A j \in L : i # j => f[i] # f[j]
      PROVE  i \notin P /\ Q = P \cup {i} /\ Cardinality(Q) = Cardinality(P) + 1
  <2>1. i \notin P
    BY <1>4 DEF Passed
  <2>2. \A j \in L : f[j] = k + 1 <=> j = i
    BY <1>4
  <2>3. Q = P \cup {i}
    BY <1>2, <2>2 DEF Passed
  <2> HIDE DEF P, Q
  <2> QED
    BY <1>1, <2>1, <2>3, FS_AddElement
<1>5. \A i \in L : f[i] = k + 1 /\ (\A j \in L : i # j => f[i] # f[j]) =>
        i \notin P /\ Q = P \cup {i} /\ Cardinality(Q) = Cardinality(P) + 1
  <2> HIDE DEF P, Q
  <2> QED
    BY <1>4, Zenon
<1> QED
  BY ONLY <1>1, <1>3, <1>5, Zenon

(* Before a point that lies further on, or that opens a range, everything  *)
(* that ends so far is closed, and the stack has all that is still open.   *)
LEMMA StackSettles ==
  ASSUME NEW L, NEW s, NEW e, NEW n, NEW at, NEW C, NEW o, NEW c,
         Swept(L, s, e, n, at, C, o, c),
         NEW k \in 0 .. n - 1, NEW a, Arrived(n, at, k, a),
         NEW U, OnStack(L, e, o, c, k, a, U), at[k + 1] > a \/ k + 1 \notin C
  PROVE  U = {i \in Passed(L, o, k) : e[i] > a}
<1> DEFINE O == Passed(L, o, k)
           K == Passed(L, c, k)
           V == {i \in O : e[i] > a}
<1>1. /\ k \in Nat /\ k + 1 \in 1 .. n /\ n \in Nat /\ a \in Nat /\ at[k + 1] \in Nat
      /\ \A i \in L : o[i] \in 1 .. n /\ c[i] \in 1 .. n /\ e[i] \in Nat /\ c[i] \in C
                      /\ at[c[i]] = e[i] /\ at[o[i]] = s[i] /\ s[i] < e[i] /\ s[i] \in Nat
  <2>1. /\ n \in Nat /\ C \subseteq 1 .. n
        /\ \A l \in 1 .. n : at[l] \in Nat
        /\ \A i \in L : /\ s[i] \in Nat /\ e[i] \in Nat /\ s[i] < e[i]
                        /\ o[i] \in (1 .. n) \ C /\ at[o[i]] = s[i]
                        /\ c[i] \in C /\ at[c[i]] = e[i]
    BY Zenon DEF Swept
  <2>2. k \in Nat /\ k + 1 \in 1 .. n /\ a \in Nat
    BY ONLY <2>1, k \in 0 .. n - 1, Arrived(n, at, k, a) DEF Arrived
  <2> QED
    BY ONLY <2>1, <2>2
<1>2. /\ IsFiniteSet(O) /\ Cardinality(O) \in Nat /\ IsFiniteSet(K) /\ Cardinality(K) \in Nat
  <2>1. IsFiniteSet(L) /\ k \in Int /\ (\A i \in L : o[i] \in Int) /\ (\A i \in L : c[i] \in Int)
    BY <1>1 DEF Swept
  <2> QED
    BY ONLY <2>1, PassedIs
<1>3. ASSUME NEW i \in L, c[i] <= k
      PROVE  o[i] <= k /\ e[i] <= a
  <2>1. e[i] <= a
    BY <1>1, <1>3 DEF Arrived
  <2>2. o[i] < c[i]
    <3>1. CASE c[i] < o[i]
      <4>1. at[c[i]] <= at[o[i]]
        BY <1>1, <3>1 DEF Swept
      <4> QED
        BY <1>1, <4>1
    <3>2. c[i] # o[i]
      BY <1>1
    <3> QED
      BY <1>1, <3>1, <3>2
  <2> QED
    BY <1>1, <1>3, <2>1, <2>2
<1>4. ASSUME NEW i \in L, o[i] <= k, e[i] <= a
      PROVE  c[i] <= k
  <2>1. SUFFICES ASSUME c[i] > k PROVE FALSE
    BY <1>1
  <2>2. at[c[i]] >= a /\ at[k + 1] >= a
    BY <1>1, <2>1 DEF Arrived
  <2>3. e[i] = a /\ (c[i] = k + 1 \/ k + 1 < c[i])
    BY <1>1, <1>4, <2>1, <2>2
  <2>4. CASE at[k + 1] > a
    <3>1. c[i] # k + 1
      BY <1>1, <2>3, <2>4
    <3>2. at[k + 1] <= at[c[i]]
      BY <1>1, <2>3, <3>1 DEF Swept
    <3> QED
      BY <1>1, <2>3, <2>4, <3>2
  <2>5. CASE at[k + 1] = a /\ k + 1 \notin C
    <3>1. c[i] # k + 1
      BY <1>1, <2>5
    <3>2. k + 1 \in C
      BY <1>1, <2>3, <2>5, <3>1 DEF Swept
    <3> QED
      BY <2>5, <3>2
  <2> QED
    BY <1>1, <2>2, <2>4, <2>5
<1>5. O = V \cup K /\ V \cap K = {} /\ V \in SUBSET U /\ V \in SUBSET O
  <2>1. \A i \in L : e[i] \in Int
    BY <1>1
  <2>2. V \in SUBSET U
    BY DEF OnStack
  <2> QED
    BY <1>1, <1>3, <1>4, <2>1, <2>2 DEF Passed
<1>6. Cardinality(U) = Cardinality(O) - Cardinality(K) /\ U \in SUBSET O
  BY DEF OnStack
<1> HIDE DEF O, K, V
<1>7. Cardinality(O) = Cardinality(V) + Cardinality(K)
  <2>1. IsFiniteSet(V)
    BY ONLY <1>2, <1>5, FS_Subset
  <2>2. Cardinality(V) \in Nat
    BY ONLY <2>1, FS_CardinalityType
  <2>3. Cardinality(V \cup K) = Cardinality(V) + Cardinality(K) - Cardinality(V \cap K)
    BY ONLY <1>2, <2>1, FS_Union
  <2>4. Cardinality(V \cap K) = 0
    BY ONLY <1>5, FS_EmptySet, Zenon
  <2>5. Cardinality(O) = Cardinality(V \cup K)
    BY ONLY <1>5, Zenon
  <2> QED
    BY ONLY <1>2, <2>2, <2>3, <2>4, <2>5
<1>8. IsFiniteSet(U) /\ IsFiniteSet(V)
  BY ONLY <1>2, <1>5, <1>6, FS_Subset
<1>9. Cardinality(V) \in Nat
  BY ONLY <1>8, FS_CardinalityType
<1>10. Cardinality(U) = Cardinality(V)
  BY ONLY <1>2, <1>6, <1>7, <1>9
<1>11. U = V
  BY ONLY <1>5, <1>8, <1>10, FS_Subset
<1> QED
  BY <1>11 DEF V, O

(* What a sweep is made of; a range opens before it closes. *)
LEMMA SweptIs ==
  ASSUME NEW L, NEW s, NEW e, NEW n, NEW at, NEW C, NEW o, NEW c,
         Swept(L, s, e, n, at, C, o, c)
  PROVE  /\ IsFiniteSet(L) /\ n \in Nat /\ C \subseteq 1 .. n
         /\ \A l \in 1 .. n : at[l] \in Nat
         /\ \A i \in L : /\ i \in Nat /\ s[i] \in Nat /\ e[i] \in Nat /\ s[i] < e[i]
                         /\ o[i] \in 1 .. n /\ o[i] \notin C /\ at[o[i]] = s[i]
                         /\ c[i] \in 1 .. n /\ c[i] \in C /\ at[c[i]] = e[i]
                         /\ o[i] < c[i]
<1>1. /\ IsFiniteSet(L) /\ L \subseteq Nat /\ n \in Nat /\ C \subseteq 1 .. n
      /\ \A l \in 1 .. n : at[l] \in Nat
      /\ \A i \in L : /\ s[i] \in Nat /\ e[i] \in Nat /\ s[i] < e[i]
                      /\ o[i] \in (1 .. n) \ C /\ at[o[i]] = s[i]
                      /\ c[i] \in C /\ at[c[i]] = e[i]
  BY Zenon DEF Swept
<1>2. \A k, l \in 1 .. n : k < l => at[k] < at[l] \/ (at[k] = at[l] /\ (l \in C => k \in C))
  BY Zenon DEF Swept
<1>3. ASSUME NEW i \in L PROVE o[i] < c[i]
  <2>1. /\ o[i] \in 1 .. n /\ c[i] \in 1 .. n /\ o[i] # c[i] /\ n \in Nat
        /\ at[o[i]] \in Nat /\ at[c[i]] \in Nat /\ at[o[i]] < at[c[i]]
    BY <1>1
  <2>2. ~ c[i] < o[i]
    BY ONLY <1>2, <2>1
  <2> QED
    BY ONLY <2>1, <2>2
<1>4. \A i \in L : i \in Nat /\ o[i] \in 1 .. n /\ o[i] \notin C /\ c[i] \in 1 .. n
  BY ONLY <1>1
<1> QED
  BY ONLY <1>1, <1>3, <1>4, Zenon

(* The next point opens a range: it goes on top. *)
LEMMA NextOpens ==
  ASSUME NEW L, NEW s, NEW e, NEW n, NEW at, NEW C, NEW o, NEW c,
         Swept(L, s, e, n, at, C, o, c),
         NEW k \in 0 .. n - 1, NEW a, Arrived(n, at, k, a),
         NEW U, OnStack(L, e, o, c, k, a, U), NEW i \in L, o[i] = k + 1
  PROVE  /\ \A j \in U : o[j] < o[i]
         /\ OnStack(L, e, o, c, k + 1, at[k + 1], U \cup {i})
<1> DEFINE O == Passed(L, o, k)
           O1 == Passed(L, o, k + 1)
           K == Passed(L, c, k)
           b == at[k + 1]
           V == U \cup {i}
<1>1. /\ IsFiniteSet(L) /\ n \in Nat
      /\ \A j \in L : /\ e[j] \in Nat /\ s[j] \in Nat /\ s[j] < e[j]
                      /\ o[j] \in 1 .. n /\ o[j] \notin C /\ c[j] \in 1 .. n /\ c[j] \in C
                      /\ at[c[j]] = e[j] /\ o[j] < c[j]
  BY SweptIs
<1>2. k \in Nat /\ k \in Int /\ k + 1 \in 1 .. n /\ k + 1 \notin C /\ a \in Nat /\ b \in Nat /\ a <= b
  <2>1. n \in Nat /\ k + 1 \in 1 .. n /\ at[k + 1] \in Nat /\ k + 1 \notin C
    BY <1>1, SweptIs
  <2> QED
    BY ONLY <2>1, k \in 0 .. n - 1, Arrived(n, at, k, a) DEF Arrived
<1>3. U = {j \in O : e[j] > a}
  <2>1. at[k + 1] > a \/ k + 1 \notin C
    BY <1>2
  <2> QED
    BY <2>1, StackSettles
<1>4. /\ i \notin O /\ O1 = O \cup {i} /\ Cardinality(O1) = Cardinality(O) + 1
      /\ IsFiniteSet(O) /\ Cardinality(O) \in Nat
  <2>1. /\ IsFiniteSet(L) /\ (\A j \in L : o[j] \in Int) /\ k \in Int /\ i \in L /\ o[i] = k + 1
        /\ \A j \in L : i # j => o[i] # o[j]
    BY <1>1, <1>2 DEF Swept
  <2> QED
    BY ONLY <2>1, PassedIs
<1>5. Passed(L, c, k + 1) = K /\ Cardinality(K) \in Nat
  <2>1. /\ IsFiniteSet(L) /\ (\A j \in L : c[j] \in Int) /\ k \in Int
        /\ \A j \in L : c[j] # k + 1
    BY <1>1, <1>2
  <2> QED
    BY ONLY <2>1, PassedIs
<1>6. ASSUME NEW j \in U
      PROVE  o[j] < o[i] /\ e[j] >= b /\ j \in L /\ o[j] <= k
  <2>1. j \in L /\ o[j] <= k /\ e[j] > a
    BY <1>3 DEF Passed
  <2>2. o[j] \in Nat /\ c[j] \in 1 .. n /\ at[c[j]] = e[j]
    BY <1>1, <2>1
  <2>3. c[j] > k
    <3>1. c[j] <= k => at[c[j]] <= a
      BY <2>2 DEF Arrived
    <3>2. e[j] \in Nat /\ c[j] \in Nat
      BY <1>1, <2>1, <2>2
    <3> QED
      BY ONLY <1>2, <2>1, <2>2, <3>1, <3>2
  <2>4. c[j] # k + 1
    BY <1>1, <1>2, <2>1
  <2>5. k + 1 < c[j]
    BY ONLY <1>2, <2>2, <2>3, <2>4
  <2>6. at[k + 1] <= at[c[j]] /\ e[j] \in Nat
    <3>1. at[k + 1] < at[c[j]] \/ at[k + 1] = at[c[j]]
      BY <1>2, <2>2, <2>5 DEF Swept
    <3> QED
      BY <1>1, <1>2, <2>1, <2>2, <3>1
  <2> QED
    BY <1>2, <2>1, <2>2, <2>6
<1>7. Cardinality(V) = Cardinality(U) + 1
  <2>1. U \in SUBSET O /\ i \notin U
    BY <1>3, <1>4
  <2>2. IsFiniteSet(U)
    BY ONLY <1>4, <2>1, FS_Subset
  <2> QED
    BY ONLY <2>1, <2>2, FS_AddElement
<1>8. Cardinality(V) = Cardinality(O1) - Cardinality(Passed(L, c, k + 1))
  <2>1. Cardinality(U) = Cardinality(O) - Cardinality(K)
    BY DEF OnStack
  <2> HIDE DEF O, O1, K, V
  <2> QED
    BY <1>4, <1>5, <1>7, <2>1
<1>9. V \subseteq O1
  BY <1>3, <1>4
<1>10. \A j \in V : e[j] >= b
  <2>1. e[i] >= b
    <3>1. at[o[i]] = s[i] /\ s[i] < e[i]
      BY SweptIs
    <3> QED
      BY <1>1, <1>2, <3>1
  <2> QED
    BY <1>6, <2>1
<1>11. \A j \in O1 : e[j] > b => j \in V
  <2> SUFFICES ASSUME NEW j \in O, e[j] > b PROVE j \in U
    BY <1>4
  <2>1. j \in L /\ e[j] \in Nat
    BY <1>1 DEF Passed
  <2>2. e[j] > a
    BY <1>2, <2>1
  <2> QED
    BY <1>3, <2>2
<1> HIDE DEF V, b
<1>12. OnStack(L, e, o, c, k + 1, b, V)
  BY <1>8, <1>9, <1>10, <1>11 DEF OnStack
<1> QED
  BY <1>6, <1>12 DEF V, b

(* The next point closes a range: the top of the stack ends there.  It may *)
(* be another range than the one that the point is of, when the two are    *)
(* alike; the stack then holds the one for the other.                      *)
LEMMA NextCloses ==
  ASSUME NEW L, NEW s, NEW e, NEW n, NEW at, NEW C, NEW o, NEW c,
         Swept(L, s, e, n, at, C, o, c), OpenedOutwards(L, s, e, o),
         NEW k \in 0 .. n - 1, NEW a, Arrived(n, at, k, a),
         NEW U, OnStack(L, e, o, c, k, a, U), NEW i \in L, c[i] = k + 1
  PROVE  /\ U # {}
         /\ \A t \in U : (\A j \in U \ {t} : o[j] < o[t])
              => OnStack(L, e, o, c, k + 1, at[k + 1], U \ {t})
<1> DEFINE O == Passed(L, o, k)
           K == Passed(L, c, k)
           K1 == Passed(L, c, k + 1)
           b == at[k + 1]
<1>1. /\ IsFiniteSet(L) /\ n \in Nat
      /\ \A j \in L : /\ e[j] \in Nat /\ s[j] \in Nat /\ s[j] < e[j]
                      /\ o[j] \in 1 .. n /\ o[j] \notin C /\ c[j] \in 1 .. n /\ c[j] \in C
                      /\ at[c[j]] = e[j] /\ at[o[j]] = s[j] /\ o[j] < c[j]
  BY SweptIs
<1>2. k \in Nat /\ k \in Int /\ k + 1 \in 1 .. n /\ k + 1 \in C /\ a \in Nat /\ b \in Nat /\ a <= b
      /\ e[i] = b
  <2>1. n \in Nat /\ k + 1 \in 1 .. n /\ at[k + 1] \in Nat /\ k + 1 \in C /\ e[i] = at[k + 1]
    BY <1>1, SweptIs
  <2> QED
    BY ONLY <2>1, k \in 0 .. n - 1, Arrived(n, at, k, a) DEF Arrived
<1>3. /\ IsFiniteSet(O) /\ Cardinality(O) \in Nat /\ IsFiniteSet(K) /\ Cardinality(K) \in Nat
  <2>1. IsFiniteSet(L) /\ k \in Int /\ (\A j \in L : o[j] \in Int) /\ (\A j \in L : c[j] \in Int)
    BY <1>1, <1>2
  <2> QED
    BY ONLY <2>1, PassedIs
<1>4. i \notin K /\ K1 = K \cup {i} /\ Cardinality(K1) = Cardinality(K) + 1
  <2>1. /\ IsFiniteSet(L) /\ (\A j \in L : c[j] \in Int) /\ k \in Int /\ i \in L /\ c[i] = k + 1
        /\ \A j \in L : i # j => c[i] # c[j]
    BY <1>1, <1>2 DEF Swept
  <2> QED
    BY ONLY <2>1, PassedIs
<1>5. Passed(L, o, k + 1) = O
  <2>1. /\ IsFiniteSet(L) /\ (\A j \in L : o[j] \in Int) /\ k \in Int
        /\ \A j \in L : o[j] # k + 1
    BY <1>1, <1>2
  <2> QED
    BY ONLY <2>1, PassedIs
<1>6. /\ U \in SUBSET O /\ U \in SUBSET L /\ IsFiniteSet(U) /\ Cardinality(U) \in Nat
      /\ Cardinality(U) = Cardinality(O) - Cardinality(K)
  <2>1. U \in SUBSET O /\ U \in SUBSET L
    BY DEF OnStack, Passed
  <2>2. IsFiniteSet(U)
    BY ONLY <1>3, <2>1, FS_Subset
  <2>3. Cardinality(U) \in Nat
    BY ONLY <2>2, FS_CardinalityType
  <2> QED
    BY <2>1, <2>2, <2>3 DEF OnStack
<1>7. ASSUME NEW j \in U
      PROVE  e[j] >= b /\ s[j] < b /\ j \in L
  <2>1. j \in L /\ o[j] \in 1 .. n /\ c[j] \in 1 .. n /\ o[j] <= k /\ e[j] \in Nat /\ s[j] \in Nat
    BY <1>1, <1>6 DEF Passed
  <2>2. s[j] < b
    <3>1. at[o[j]] = s[j] /\ o[j] \notin C
      BY <1>1, <2>1
    <3>2. o[j] < k + 1
      BY <1>2, <2>1
    <3>3. at[o[j]] < at[k + 1]
      BY <1>2, <2>1, <3>1, <3>2 DEF Swept
    <3> QED
      BY <3>1, <3>3
  <2>3. CASE b = a
    BY <2>1, <2>2, <2>3 DEF OnStack
  <2>4. CASE b > a
    <3>1. U = {l \in O : e[l] > a}
      BY <2>4, StackSettles
    <3>2. e[j] > a
      BY <3>1
    <3>3. c[j] > k
      <4>1. c[j] <= k => at[c[j]] <= a
        BY <2>1 DEF Arrived
      <4>2. at[c[j]] = e[j] /\ c[j] \in Nat
        BY <1>1, <2>1
      <4> QED
        BY ONLY <1>2, <2>1, <3>2, <4>1, <4>2
    <3>4. at[c[j]] >= b
      <4>1. c[j] = k + 1 \/ k + 1 < c[j]
        BY ONLY <1>2, <2>1, <3>3
      <4>2. k + 1 < c[j] => at[k + 1] < at[c[j]] \/ at[k + 1] = at[c[j]]
        BY <1>2, <2>1 DEF Swept
      <4>3. at[c[j]] = e[j]
        BY <1>1, <2>1
      <4> QED
        BY <1>2, <2>1, <4>1, <4>2, <4>3
    <3> QED
      BY <1>1, <2>1, <2>2, <3>4
  <2> QED
    BY <1>2, <2>3, <2>4
<1>8. PICK u \in U : e[u] = b
  <2> SUFFICES ASSUME \A u \in U : e[u] # b PROVE FALSE
    OBVIOUS
  <2>1. ASSUME NEW j \in K1 PROVE j \in O /\ j \notin U
    <3>1. j \in L /\ c[j] <= k + 1 /\ c[j] \in 1 .. n /\ o[j] \in 1 .. n /\ o[j] < c[j]
      BY <1>1, <2>1 DEF Passed
    <3>2. o[j] <= k
      BY <1>2, <3>1
    <3>3. e[j] <= b
      <4>1. at[c[j]] = e[j] /\ e[j] \in Nat
        BY <1>1, <3>1
      <4>2. c[j] = k + 1 \/ c[j] < k + 1
        BY <1>2, <3>1
      <4>3. c[j] < k + 1 => at[c[j]] < at[k + 1] \/ at[c[j]] = at[k + 1]
        BY <1>2, <3>1 DEF Swept
      <4> QED
        BY <1>2, <4>1, <4>2, <4>3
    <3>4. j \notin U
      <4>1. e[j] \in Nat
        BY <1>1, <3>1
      <4> QED
        BY <1>2, <1>7, <3>3, <4>1
    <3> QED
      BY <3>1, <3>2, <3>4 DEF Passed
  <2> DEFINE M == U \cup K1
  <2>2. M \in SUBSET O /\ U \cap K1 = {}
    BY <1>6, <2>1
  <2>3. K1 \in SUBSET O
    BY <2>1
  <2> HIDE DEF O, K, K1, M, b
  <2>4. IsFiniteSet(K1)
    BY ONLY <1>3, <2>3, FS_Subset
  <2>5. Cardinality(M) = Cardinality(U) + Cardinality(K1) - Cardinality(U \cap K1)
    BY ONLY <1>6, <2>4, FS_Union DEF M
  <2>6. Cardinality(U \cap K1) = 0
    BY ONLY <2>2, FS_EmptySet, Zenon
  <2>7. Cardinality(M) <= Cardinality(O)
    BY ONLY <1>3, <2>2, FS_Subset
  <2>8. Cardinality(K1) = Cardinality(K) + 1
    BY <1>4
  <2> QED
    BY ONLY <1>3, <1>6, <2>5, <2>6, <2>7, <2>8
<1>9. ASSUME NEW t \in U, \A j \in U \ {t} : o[j] < o[t]
      PROVE  OnStack(L, e, o, c, k + 1, b, U \ {t})
  <2> DEFINE V == U \ {t}
  <2>1. e[t] = b
    <3> SUFFICES ASSUME t # u PROVE e[t] = b
      BY <1>8
    <3>1. o[u] < o[t] /\ u \in L /\ t \in L /\ e[u] = b /\ e[t] >= b /\ s[t] < b
      BY <1>7, <1>8, <1>9
    <3>2. s[u] <= s[t]
      <4>1. o[u] \in 1 .. n /\ o[t] \in 1 .. n /\ at[o[u]] = s[u] /\ at[o[t]] = s[t]
            /\ s[u] \in Nat /\ s[t] \in Nat
        BY <1>1, <3>1
      <4>2. at[o[u]] < at[o[t]] \/ at[o[u]] = at[o[t]]
        BY <3>1, <4>1 DEF Swept
      <4> QED
        BY ONLY <4>1, <4>2
    <3>3. /\ s[u] \in Nat /\ s[t] \in Nat /\ e[u] \in Nat /\ e[t] \in Nat
          /\ s[u] < e[u] /\ s[t] < e[t]
      BY <1>1, <3>1
    <3>4. \/ e[u] <= s[t] \/ e[t] <= s[u]
          \/ s[u] <= s[t] /\ e[t] <= e[u]
          \/ s[t] <= s[u] /\ e[u] <= e[t]
      BY <3>1 DEF OpenedOutwards
    <3>5. s[u] = s[t] => e[t] < e[u] \/ e[t] = e[u]
      BY <3>1 DEF OpenedOutwards
    <3> HIDE DEF b
    <3> QED
      BY ONLY <1>2, <3>1, <3>2, <3>3, <3>4, <3>5
  <2>2. Cardinality(V) = Cardinality(U) - 1
    BY ONLY <1>6, t \in U, FS_RemoveElement
  <2>3. Cardinality(V) = Cardinality(Passed(L, o, k + 1)) - Cardinality(K1)
    <3> HIDE DEF O, K, K1, V
    <3> QED
      BY <1>3, <1>4, <1>5, <1>6, <2>2
  <2>4. V \subseteq Passed(L, o, k + 1) /\ \A j \in V : e[j] >= b
    BY <1>5, <1>6, <1>7
  <2>5. \A j \in Passed(L, o, k + 1) : e[j] > b => j \in V
    <3> SUFFICES ASSUME NEW j \in O, e[j] > b PROVE j \in V
      BY <1>5
    <3>1. j \in L /\ e[j] \in Nat
      BY <1>1 DEF Passed
    <3>2. e[j] > a /\ e[j] # b
      BY <1>2, <3>1
    <3> QED
      BY <2>1, <3>2 DEF OnStack
  <2> HIDE DEF V, b
  <2>6. OnStack(L, e, o, c, k + 1, b, V)
    BY <2>3, <2>4, <2>5 DEF OnStack
  <2> QED
    BY <2>6 DEF V
<1>10. U # {}
  BY <1>8
<1> HIDE DEF b
<1>11. \A t \in U : (\A j \in U \ {t} : o[j] < o[t]) => OnStack(L, e, o, c, k + 1, b, U \ {t})
  BY <1>9
<1> QED
  BY <1>10, <1>11 DEF b

-----------------------------------------------------------------------------
(* The bytes that the sweep counts.                                        *)

(* The ranges around the byte b, and the innermost one of a set of ranges. *)
Around(L, s, e, b) == {i \in L : s[i] <= b /\ b < e[i]}
Innermost(U, s, e) == CHOOSE i \in U : \A j \in U :
                        \/ e[i] - s[i] < e[j] - s[j]
                        \/ e[i] - s[i] = e[j] - s[j] /\ i >= j

(* Between two points the ranges around a byte are those that are open.    *)
LEMMA SettledIsAround ==
  ASSUME NEW L, NEW s, NEW e, NEW n, NEW at, NEW C, NEW o, NEW c,
         Swept(L, s, e, n, at, C, o, c),
         NEW k \in 0 .. n - 1, NEW a, Arrived(n, at, k, a),
         NEW b \in Nat, a <= b, b < at[k + 1]
  PROVE  Around(L, s, e, b) = {i \in Passed(L, o, k) : e[i] > a}
<1>1. /\ n \in Nat /\ \A l \in 1 .. n : at[l] \in Nat
      /\ \A i \in L : /\ s[i] \in Nat /\ e[i] \in Nat
                      /\ o[i] \in 1 .. n /\ at[o[i]] = s[i]
                      /\ c[i] \in 1 .. n /\ at[c[i]] = e[i]
  BY SweptIs
<1>2. k \in Nat /\ k + 1 \in 1 .. n /\ a \in Nat /\ at[k + 1] \in Nat
  BY <1>1 DEF Arrived
<1>3. \A l \in 1 .. n : (l <= k => at[l] <= a) /\ (k < l => at[k + 1] <= at[l])
  <2> SUFFICES ASSUME NEW l \in 1 .. n
               PROVE  (l <= k => at[l] <= a) /\ (k < l => at[k + 1] <= at[l])
    OBVIOUS
  <2>1. l <= k => at[l] <= a
    BY DEF Arrived
  <2>2. k + 1 < l => at[k + 1] < at[l] \/ at[k + 1] = at[l]
    BY <1>2 DEF Swept
  <2>3. at[l] \in Nat
    BY <1>1
  <2> QED
    BY ONLY <1>2, <2>1, <2>2, <2>3, l \in 1 .. n
<1>4. ASSUME NEW i \in L
      PROVE  s[i] <= b /\ b < e[i] <=> o[i] <= k /\ e[i] > a
  <2>1. /\ s[i] \in Nat /\ e[i] \in Nat /\ o[i] \in Nat /\ c[i] \in Nat
        /\ (o[i] <= k => s[i] <= a) /\ (k < o[i] => at[k + 1] <= s[i])
        /\ (c[i] <= k => e[i] <= a) /\ (k < c[i] => at[k + 1] <= e[i])
    <3>1. /\ s[i] \in Nat /\ e[i] \in Nat /\ o[i] \in 1 .. n /\ at[o[i]] = s[i]
          /\ c[i] \in 1 .. n /\ at[c[i]] = e[i]
      BY <1>1
    <3> QED
      BY ONLY <1>3, <3>1
  <2> QED
    BY ONLY <1>2, <2>1, b \in Nat, a <= b, b < at[k + 1]
<1> QED
  BY <1>4, Zenon DEF Around, Passed

(* The one on top of the stack is the innermost one.                       *)
LEMMA TopIsInnermost ==
  ASSUME NEW L, NEW s, NEW e, NEW n, NEW at, NEW C, NEW o, NEW c,
         Swept(L, s, e, n, at, C, o, c), OpenedOutwards(L, s, e, o),
         NEW b \in Nat, NEW t \in Around(L, s, e, b),
         \A j \in Around(L, s, e, b) \ {t} : o[j] < o[t]
  PROVE  Innermost(Around(L, s, e, b), s, e) = t
<1> DEFINE U == Around(L, s, e, b)
           Inner(i, j) == \/ e[i] - s[i] < e[j] - s[j]
                          \/ e[i] - s[i] = e[j] - s[j] /\ i >= j
<1>1. \A i \in U : /\ i \in L /\ i \in Nat /\ s[i] \in Nat /\ e[i] \in Nat /\ s[i] <= b /\ b < e[i]
                   /\ o[i] \in 1 .. n /\ at[o[i]] = s[i]
  BY SweptIs DEF Around
<1>2. ASSUME NEW j \in U, j # t
      PROVE  \/ e[t] - s[t] < e[j] - s[j]
             \/ e[t] - s[t] = e[j] - s[j] /\ j < t
  <2>1. o[j] < o[t]
    BY <1>2
  <2>2. s[j] <= s[t]
    <3>1. /\ o[j] \in 1 .. n /\ o[t] \in 1 .. n /\ at[o[j]] = s[j] /\ at[o[t]] = s[t]
          /\ s[j] \in Nat /\ s[t] \in Nat
      BY <1>1, <1>2
    <3>2. at[o[j]] < at[o[t]] \/ at[o[j]] = at[o[t]]
      BY <2>1, <3>1 DEF Swept
    <3> QED
      BY ONLY <3>1, <3>2
  <2>3. /\ s[j] \in Nat /\ s[t] \in Nat /\ e[j] \in Nat /\ e[t] \in Nat /\ j \in Nat /\ t \in Nat
        /\ s[j] <= b /\ b < e[j] /\ s[t] <= b /\ b < e[t] /\ j \in L /\ t \in L
    BY <1>1, <1>2
  <2>4. \/ e[j] <= s[t] \/ e[t] <= s[j]
        \/ s[j] <= s[t] /\ e[t] <= e[j]
        \/ s[t] <= s[j] /\ e[j] <= e[t]
    BY <2>3 DEF OpenedOutwards
  <2>5. s[j] = s[t] => e[t] < e[j] \/ (e[t] = e[j] /\ j < t)
    BY <2>1, <2>3 DEF OpenedOutwards
  <2> QED
    BY ONLY <2>2, <2>3, <2>4, <2>5, b \in Nat
<1>3. \A j \in U : Inner(t, j)
  <2> SUFFICES ASSUME NEW j \in U PROVE Inner(t, j)
    OBVIOUS
  <2>1. CASE j = t
    BY <1>1, <2>1
  <2>2. CASE j # t
    BY <1>1, <1>2, <2>2
  <2> QED
    BY <2>1, <2>2
<1>4. ASSUME NEW i \in U, \A j \in U : Inner(i, j)
      PROVE  i = t
  <2>1. Inner(i, t) /\ Inner(t, i)
    BY <1>3, <1>4
  <2>2. /\ s[i] \in Nat /\ s[t] \in Nat /\ e[i] \in Nat /\ e[t] \in Nat /\ i \in Nat /\ t \in Nat
    BY <1>1
  <2> QED
    BY ONLY <2>1, <2>2
<1>5. t \in U
  OBVIOUS
<1> HIDE DEF U
<1>6. Innermost(U, s, e) = t
  <2> DEFINE m == Innermost(U, s, e)
  <2>1. m \in U /\ \A j \in U : Inner(m, j)
    <3>1. \E i \in U : \A j \in U : Inner(i, j)
      BY ONLY <1>3, <1>5
    <3> QED
      BY ONLY <3>1, Zenon DEF Innermost
  <2> HIDE DEF m, Inner
  <2> QED
    BY ONLY <1>4, <2>1 DEF m
<1> QED
  BY <1>6 DEF U

(* The bytes of X below m. *)
Below(X, m) == {b \in X : b < m}

(* All the bytes between two offsets are in X, or none is. *)
LEMMA BelowGrows ==
  ASSUME NEW X \in SUBSET Nat, NEW a \in Nat, NEW b \in Nat, a <= b
  PROVE  /\ Cardinality(Below(X, a)) \in Nat
         /\ (\A m \in a .. b - 1 : m \in X)
              => Cardinality(Below(X, b)) = Cardinality(Below(X, a)) + (b - a)
         /\ (\A m \in a .. b - 1 : m \notin X) => Below(X, b) = Below(X, a)
<1> DEFINE P == Below(X, a)
           Q == Below(X, b)
           D == a .. b - 1
<1>1. IsFiniteSet(P) /\ Cardinality(P) \in Nat
  <2>1. P \in SUBSET (0 .. a)
    <3>1. \A x \in P : x \in Nat /\ x < a
      BY DEF Below
    <3> HIDE DEF P
    <3>2. \A x \in P : x \in 0 .. a
      BY ONLY <3>1, a \in Nat
    <3> QED
      BY ONLY <3>2
  <2>2. IsFiniteSet(0 .. a)
    <3>1. 0 \in Int /\ a \in Int
      OBVIOUS
    <3> QED
      BY ONLY <3>1, FS_Interval
  <2>3. IsFiniteSet(P)
    BY ONLY <2>1, <2>2, FS_Subset
  <2> QED
    BY ONLY <2>3, FS_CardinalityType
<1>2. IsFiniteSet(D) /\ Cardinality(D) = b - a
  <2>1. a \in Int /\ b - 1 \in Int
    OBVIOUS
  <2>2. IsFiniteSet(D) /\ Cardinality(D) = IF a > b - 1 THEN 0 ELSE b - 1 - a + 1
    BY ONLY <2>1, FS_Interval
  <2> HIDE DEF D
  <2> QED
    BY <2>2
<1>3. \A m \in X : m < b <=> m < a \/ m \in D
  OBVIOUS
<1>4. P \cap D = {}
  BY DEF Below
<1>5. ASSUME \A m \in D : m \in X PROVE Cardinality(Q) = Cardinality(P) + (b - a)
  <2>1. Q = P \cup D
    BY <1>3, <1>5 DEF Below
  <2> HIDE DEF P, Q, D
  <2>2. Cardinality(P \cup D) = Cardinality(P) + Cardinality(D) - Cardinality(P \cap D)
    BY ONLY <1>1, <1>2, FS_Union
  <2>3. Cardinality(P \cap D) = 0
    BY ONLY <1>4, FS_EmptySet, Zenon
  <2> QED
    BY ONLY <1>1, <1>2, <2>1, <2>2, <2>3, a \in Nat, b \in Nat
<1>6. ASSUME \A m \in D : m \notin X PROVE Q = P
  BY <1>3, <1>6 DEF Below
<1> QED
  BY <1>1, <1>5, <1>6

(* What the counts on the stack are, when the ranges on it are u. *)
Counts(u, ct) == [x \in 1 .. Len(u) |-> ct[u[x]]]

(* Pushing and popping a range pushes and pops its count. *)
LEMMA CountsAre ==
  ASSUME NEW L, NEW ct, \A i \in L : ct[i] \in Int, NEW u \in Seq(L)
  PROVE  /\ Counts(u, ct) = << >> <=> u = << >>
         /\ u # << >> => /\ Last(Counts(u, ct)) = ct[u[Len(u)]]
                         /\ Front(Counts(u, ct)) = Counts(SubSeq(u, 1, Len(u) - 1), ct)
         /\ \A i \in L : Append(Counts(u, ct), ct[i]) = Counts(Append(u, i), ct)
<1> DEFINE n == Len(u)
           w == Counts(u, ct)
<1>1. n \in Nat /\ (n = 0 <=> u = << >>) /\ (\A x \in 1 .. n : u[x] \in L) /\ u \in Seq(L)
  OBVIOUS
<1>2. w \in Seq(Int) /\ Len(w) = n /\ \A x \in 1 .. n : w[x] = ct[u[x]]
  <2> HIDE DEF n
  <2>1. w = [x \in 1 .. n |-> ct[u[x]]]
    BY DEF Counts, n
  <2> QED
    BY <1>1, <2>1
<1>3. w = << >> <=> u = << >>
  <2> HIDE DEF w
  <2> QED
    BY <1>1, <1>2
<1>4. ASSUME u # << >>
      PROVE  Last(w) = ct[u[n]] /\ Front(w) = Counts(SubSeq(u, 1, n - 1), ct)
  <2>1. n \in 1 .. n /\ n - 1 \in Nat
    BY <1>1, <1>4
  <2> DEFINE v == SubSeq(u, 1, n - 1)
  <2>2. Len(v) = n - 1 /\ \A x \in 1 .. n - 1 : v[x] = u[x] /\ x \in 1 .. n
    <3>1. \A x \in 1 .. n - 1 : x \in 1 .. n
      BY <1>1
    <3>2. v \in Seq(L) /\ Len(v) = n - 1 /\ \A x \in 1 .. n - 1 : v[x] = u[x]
      <4>1. Len(u) = n /\ DOMAIN u = 1 .. n
        OBVIOUS
      <4> HIDE DEF n
      <4> QED
        BY ONLY <1>1, <2>1, <4>1
    <3> QED
      BY <3>1, <3>2
  <2> HIDE DEF w, v, n
  <2>3. Last(w) = ct[u[n]]
    BY <1>2, <2>1 DEF Last
  <2>4. Front(w) = SubSeq(w, 1, n - 1)
    BY <1>2 DEF Front
  <2>5. SubSeq(w, 1, n - 1) = [x \in 1 .. n - 1 |-> w[x]]
    BY <1>2, <2>1
  <2>6. Counts(v, ct) = [x \in 1 .. n - 1 |-> ct[v[x]]]
    BY <2>2 DEF Counts
  <2>7. \A x \in 1 .. n - 1 : w[x] = ct[v[x]]
    BY <1>2, <2>2
  <2> QED
    BY <2>3, <2>4, <2>5, <2>6, <2>7 DEF v
<1>5. ASSUME NEW i \in L
      PROVE  Append(w, ct[i]) = Counts(Append(u, i), ct)
  <2> DEFINE v == Append(u, i)
  <2>1. Len(v) = n + 1 /\ v[n + 1] = i /\ \A x \in 1 .. n : v[x] = u[x]
    OBVIOUS
  <2> DEFINE z == ct[i]
  <2>2. z \in Int
    OBVIOUS
  <2> HIDE DEF w, n, z
  <2>3. Append(w, z) = [x \in 1 .. n + 1 |-> IF x = n + 1 THEN z ELSE w[x]]
    <3> DEFINE r == Append(w, z)
    <3>1. w \in Seq(Int) /\ Len(w) = n /\ n \in Nat
      BY <1>1, <1>2
    <3>2. DOMAIN r = 1 .. n + 1 /\ r \in Seq(Int)
      BY ONLY <2>2, <3>1
    <3>3. \A x \in 1 .. n + 1 : r[x] = IF x = n + 1 THEN z ELSE w[x]
      BY ONLY <2>2, <3>1
    <3> HIDE DEF r
    <3>4. r = [x \in 1 .. n + 1 |-> IF x = n + 1 THEN z ELSE w[x]]
      BY ONLY <3>2, <3>3
    <3> QED
      BY <3>4 DEF r
  <2> HIDE DEF v
  <2>4. \A x \in 1 .. n + 1 : (IF x = n + 1 THEN z ELSE w[x]) = ct[v[x]]
    <3>1. \A x \in 1 .. n + 1 : x = n + 1 \/ x \in 1 .. n
      BY <1>1
    <3>2. \A x \in 1 .. n : w[x] = ct[v[x]]
      BY <1>2, <2>1
    <3> QED
      BY <2>1, <3>1, <3>2 DEF z
  <2>5. Counts(v, ct) = [x \in 1 .. n + 1 |-> ct[v[x]]]
    BY <2>1 DEF Counts
  <2> QED
    BY <2>3, <2>4, <2>5 DEF v, z
<1> QED
  BY <1>3, <1>4, <1>5

(* The bytes whose innermost range was run. *)
Lit(L, s, e, ct) == {b \in Nat : /\ Around(L, s, e, b) # {}
                                 /\ ct[Innermost(Around(L, s, e, b), s, e)] > 0}

(* What the sweep w is after k points: the stack holds the counts of the   *)
(* open ranges U, in the order u in which they opened, and the bytes used  *)
(* are those of X up to here.                                              *)
Standing(L, e, n, at, o, c, ct, X, k, w, U, u) ==
  /\ Arrived(n, at, k, w.last) /\ OnStack(L, e, o, c, k, w.last, U) /\ Stacked(u, U, o)
  /\ w.stack = Counts(u, ct) /\ w.used = Cardinality(Below(X, w.last))

(* On the way to the next point the bytes in between are used when the top *)
(* of the stack was run.                                                   *)
LEMMA UsedGrows ==
  ASSUME NEW L, NEW s, NEW e, NEW n, NEW at, NEW C, NEW o, NEW c,
         Swept(L, s, e, n, at, C, o, c), OpenedOutwards(L, s, e, o),
         NEW ct, \A i \in L : ct[i] \in Int, NEW X, X = Lit(L, s, e, ct),
         NEW k \in 0 .. n - 1, NEW w \in Sweeps, NEW U, NEW u,
         Standing(L, e, n, at, o, c, ct, X, k, w, U, u)
  PROVE  Cardinality(Below(X, at[k + 1]))
           = w.used + (IF w.stack # << >> /\ at[k + 1] > w.last /\ Last(w.stack) > 0
                         THEN at[k + 1] - w.last ELSE 0)
<1> DEFINE a == w.last
           z == at[k + 1]
<1>1. /\ n \in Nat /\ z \in Nat /\ a \in Nat /\ a <= z /\ k + 1 \in 1 .. n
      /\ \A i \in L : o[i] \in Int
  <2>1. n \in Nat /\ k + 1 \in 1 .. n
    BY SweptIs
  <2>2. z \in Nat /\ \A i \in L : o[i] \in Int
    BY <2>1, SweptIs
  <2>3. a \in Nat /\ a <= z
    <3>1. Arrived(n, at, k, a)
      BY DEF Standing
    <3> QED
      BY <2>1, <3>1 DEF Arrived
  <2> QED
    BY <2>1, <2>2, <2>3
<1>2. Arrived(n, at, k, a) /\ OnStack(L, e, o, c, k, a, U) /\ Stacked(u, U, o)
      /\ w.stack = Counts(u, ct) /\ w.used = Cardinality(Below(X, a))
  BY DEF Standing
<1>3. X \in SUBSET Nat
  BY DEF Lit
<1>4. U \in SUBSET L /\ u \in Seq(L)
  BY <1>2 DEF OnStack, Passed, Stacked
<1>5. /\ w.stack = << >> <=> u = << >>
      /\ u # << >> => Last(w.stack) = ct[u[Len(u)]]
  BY <1>2, <1>4, CountsAre
<1>6. /\ Cardinality(Below(X, a)) \in Nat
      /\ (\A m \in a .. z - 1 : m \in X) => Cardinality(Below(X, z)) = Cardinality(Below(X, a)) + (z - a)
      /\ (\A m \in a .. z - 1 : m \notin X) => Below(X, z) = Below(X, a)
  BY ONLY <1>1, <1>3, BelowGrows
<1>7. CASE a = z
  <2>1. Below(X, z) = Below(X, a)
    BY <1>7
  <2> QED
    BY <1>1, <1>2, <1>6, <1>7, <2>1
<1>8. CASE a < z
  <2>1. U = {i \in Passed(L, o, k) : e[i] > a}
    BY <1>2, <1>8, StackSettles
  <2>2. \A b \in a .. z - 1 : b \in Nat /\ Around(L, s, e, b) = U
    <3> SUFFICES ASSUME NEW b \in a .. z - 1 PROVE b \in Nat /\ Around(L, s, e, b) = U
      OBVIOUS
    <3>1. b \in Nat /\ a <= b /\ b < z
      BY <1>1
    <3>2. Around(L, s, e, b) = {i \in Passed(L, o, k) : e[i] > a}
      BY <1>2, <3>1, SettledIsAround
    <3> QED
      BY <2>1, <3>1, <3>2
  <2>3. CASE U = {}
    <3>1. u = << >>
      BY <1>2, <2>3 DEF Stacked
    <3>2. \A b \in a .. z - 1 : b \notin X
      BY <2>2, <2>3 DEF Lit
    <3> QED
      BY <1>2, <1>5, <1>6, <3>1, <3>2
  <2>4. CASE U # {}
    <3> DEFINE t == u[Len(u)]
    <3>1. u # << >> /\ t \in U /\ \A j \in U \ {t} : o[j] < o[t]
      <4>1. \A i \in U : o[i] \in Int
        BY <1>1, <1>4
      <4> QED
        BY ONLY <1>2, <2>4, <4>1, StackPopped
    <3> HIDE DEF t
    <3>2. \A b \in a .. z - 1 : Innermost(U, s, e) = t
      <4> SUFFICES ASSUME NEW b \in a .. z - 1 PROVE Innermost(U, s, e) = t
        OBVIOUS
      <4>1. b \in Nat /\ Around(L, s, e, b) = U
        BY <2>2
      <4>2. Innermost(Around(L, s, e, b), s, e) = t
        <5>1. /\ t \in Around(L, s, e, b)
              /\ \A j \in Around(L, s, e, b) \ {t} : o[j] < o[t]
          BY <3>1, <4>1
        <5> QED
          BY <4>1, <5>1, TopIsInnermost
      <4> QED
        BY <4>1, <4>2
    <3>3. \A b \in a .. z - 1 : b \in X <=> ct[t] > 0
      <4> SUFFICES ASSUME NEW b \in a .. z - 1 PROVE b \in X <=> ct[t] > 0
        OBVIOUS
      <4>1. b \in Nat /\ Around(L, s, e, b) = U /\ Innermost(U, s, e) = t
        BY <2>2, <3>2
      <4>2. b \in X <=> U # {} /\ ct[Innermost(U, s, e)] > 0
        BY <4>1 DEF Lit
      <4> QED
        BY <2>4, <4>1, <4>2
    <3>4. Last(w.stack) = ct[t] /\ w.stack # << >>
      BY <1>5, <3>1 DEF t
    <3>5. CASE ct[t] > 0
      <4>1. Cardinality(Below(X, z)) = Cardinality(Below(X, a)) + (z - a)
        BY <1>6, <3>3, <3>5
      <4> QED
        BY <1>2, <1>8, <3>4, <3>5, <4>1
    <3>6. CASE ~ ct[t] > 0
      <4>1. Below(X, z) = Below(X, a)
        BY <1>6, <3>3, <3>6
      <4> QED
        BY <1>2, <1>6, <3>4, <3>6, <4>1
    <3> QED
      BY <3>5, <3>6
  <2> QED
    BY <2>3, <2>4
<1> QED
  BY <1>1, <1>7, <1>8

(* A step of the sweep. *)
LEMMA SweepSteps ==
  ASSUME NEW L, NEW s, NEW e, NEW n, NEW at, NEW C, NEW o, NEW c,
         Swept(L, s, e, n, at, C, o, c), OpenedOutwards(L, s, e, o),
         NEW ct, \A i \in L : ct[i] \in Int, NEW X, X = Lit(L, s, e, ct),
         NEW k \in 0 .. n - 1, NEW w \in Sweeps, NEW U, NEW u,
         Standing(L, e, n, at, o, c, ct, X, k, w, U, u),
         NEW p, p.at = at[k + 1], p.close <=> k + 1 \in C,
         \A i \in L : o[i] = k + 1 => p.count = ct[i]
  PROVE  \E V, v : Standing(L, e, n, at, o, c, ct, X, k + 1, SweepStep(w, p), V, v)
<1> DEFINE a == w.last
           z == at[k + 1]
           x == SweepStep(w, p)
<1>1. /\ n \in Nat /\ z \in Nat /\ k + 1 \in 1 .. n
      /\ \A i \in L : o[i] \in Int
  <2>1. n \in Nat /\ k + 1 \in 1 .. n
    BY SweptIs
  <2>2. z \in Nat /\ \A i \in L : o[i] \in Int
    BY <2>1, SweptIs
  <2> QED
    BY <2>1, <2>2
<1>2. Arrived(n, at, k, a) /\ OnStack(L, e, o, c, k, a, U) /\ Stacked(u, U, o)
      /\ w.stack = Counts(u, ct) /\ w.used = Cardinality(Below(X, a))
  BY DEF Standing
<1>3. U \in SUBSET L /\ u \in Seq(L)
  BY <1>2 DEF OnStack, Passed, Stacked
<1>4. /\ x.last = z /\ x.used = Cardinality(Below(X, z))
      /\ x.stack = IF ~p.close THEN Append(w.stack, p.count)
                   ELSE IF w.stack = << >> THEN << >> ELSE Front(w.stack)
  <2>1. Cardinality(Below(X, z)) = w.used + (IF w.stack # << >> /\ z > w.last /\ Last(w.stack) > 0
                                              THEN z - w.last ELSE 0)
    BY UsedGrows
  <2> HIDE DEF z
  <2>2. p.at = z
    BY DEF z
  <2> QED
    BY <2>1, <2>2 DEF SweepStep
<1> HIDE DEF x
<1>5. Arrived(n, at, k + 1, z)
  <2>1. \A l \in 1 .. n : at[l] \in Nat
    BY SweptIs
  <2>2. ASSUME NEW l \in 1 .. n, l <= k + 1 PROVE at[l] <= z
    <3>1. l = k + 1 \/ l < k + 1
      BY <1>1, <2>2
    <3>2. l < k + 1 => at[l] < at[k + 1] \/ at[l] = at[k + 1]
      BY <1>1 DEF Swept
    <3> QED
      BY <1>1, <2>1, <3>1, <3>2
  <2>3. ASSUME NEW l \in 1 .. n, l > k + 1 PROVE z <= at[l]
    <3>1. at[k + 1] < at[l] \/ at[k + 1] = at[l]
      BY <1>1, <2>3 DEF Swept
    <3> QED
      BY <1>1, <2>1, <3>1
  <2>4. k + 1 \in 0 .. n
    BY <1>1
  <2> HIDE DEF z
  <2> QED
    BY <1>1, <2>2, <2>3, <2>4 DEF Arrived
<1>6. CASE k + 1 \notin C
  <2>1. PICK i \in L : o[i] = k + 1
    BY <1>1, <1>6 DEF Swept
  <2> DEFINE V == U \cup {i}
             v == Append(u, i)
  <2>2. (\A j \in U : o[j] < o[i]) /\ OnStack(L, e, o, c, k + 1, z, V)
    BY <1>2, <2>1, NextOpens
  <2>3. Stacked(v, V, o)
    BY ONLY <1>2, <2>2, StackPushed
  <2>4. x.stack = Counts(v, ct)
    <3>1. x.stack = Append(Counts(u, ct), ct[i])
      BY <1>2, <1>4, <1>6, <2>1
    <3>2. Append(Counts(u, ct), ct[i]) = Counts(v, ct)
      BY <1>3, CountsAre
    <3> QED
      BY <3>1, <3>2
  <2> HIDE DEF V, v, z
  <2>5. Standing(L, e, n, at, o, c, ct, X, k + 1, x, V, v)
    BY <1>4, <1>5, <2>2, <2>3, <2>4 DEF Standing
  <2> QED
    BY <2>5 DEF x
<1>7. CASE k + 1 \in C
  <2>1. PICK i \in L : c[i] = k + 1
    BY <1>1, <1>7 DEF Swept
  <2> DEFINE t == u[Len(u)]
             V == U \ {t}
             v == SubSeq(u, 1, Len(u) - 1)
  <2>2. /\ U # {}
        /\ \A t_1 \in U : (\A j \in U \ {t_1} : o[j] < o[t_1])
              => OnStack(L, e, o, c, k + 1, z, U \ {t_1})
    BY <1>2, <2>1, NextCloses
  <2>3. u # << >> /\ t \in U /\ (\A j \in U \ {t} : o[j] < o[t]) /\ Stacked(v, V, o)
    <3>1. \A j \in U : o[j] \in Int
      BY <1>1, <1>3
    <3> QED
      BY ONLY <1>2, <2>2, <3>1, StackPopped
  <2>4. OnStack(L, e, o, c, k + 1, z, V)
    <3> HIDE DEF t, z
    <3> QED
      BY ONLY <2>2, <2>3
  <2>5. x.stack = Counts(v, ct)
    <3>1. (Counts(u, ct) = << >> <=> u = << >>) /\ Front(Counts(u, ct)) = Counts(v, ct)
      BY <1>3, <2>3, CountsAre
    <3> HIDE DEF v
    <3> QED
      BY <1>2, <1>4, <1>7, <2>3, <3>1
  <2> HIDE DEF V, v, z
  <2>6. Standing(L, e, n, at, o, c, ct, X, k + 1, x, V, v)
    BY <1>4, <1>5, <2>3, <2>4, <2>5 DEF Standing
  <2> QED
    BY <2>6 DEF x
<1> QED
  BY <1>6, <1>7

(* pts are the points of the sweep, with the counts of their ranges. *)
Labelled(pts, L, n, at, C, o, ct) ==
  /\ DOMAIN pts = 1 .. n
  /\ \A k \in 1 .. n : pts[k].at = at[k] /\ pts[k].count \in Int /\ (pts[k].close <=> k \in C)
  /\ \A i \in L : ct[i] \in Int /\ pts[o[i]].count = ct[i]

(* The sweep counts the bytes whose innermost range was run.               *)
LEMMA SweepCounts ==
  ASSUME NEW L, NEW s, NEW e, NEW n, NEW at, NEW C, NEW o, NEW c,
         Swept(L, s, e, n, at, C, o, c), OpenedOutwards(L, s, e, o), n # 0,
         NEW ct, NEW pts, Labelled(pts, L, n, at, C, o, ct)
  PROVE  Sweep([used |-> 0, last |-> pts[1].at, stack |-> << >>], pts).used
           = Cardinality(Below(Lit(L, s, e, ct), at[n]))
<1> DEFINE start == [used |-> 0, last |-> pts[1].at, stack |-> << >>]
           X == Lit(L, s, e, ct)
<1>0. /\ DOMAIN pts = 1 .. n
      /\ \A k \in 1 .. n : pts[k].at = at[k] /\ pts[k].count \in Int /\ (pts[k].close <=> k \in C)
      /\ \A i \in L : ct[i] \in Int /\ pts[o[i]].count = ct[i]
  BY DEF Labelled
<1>1. /\ n \in Nat /\ 1 \in 1 .. n /\ n \in 1 .. n /\ \A k \in 1 .. n : at[k] \in Nat
      /\ \A i \in L : /\ s[i] \in Nat /\ e[i] \in Nat
                      /\ o[i] \in 1 .. n /\ at[o[i]] = s[i] /\ c[i] \in 1 .. n
  <2>1. n \in Nat
    BY SweptIs
  <2>2. 1 \in 1 .. n /\ n \in 1 .. n
    BY ONLY <2>1, n # 0
  <2> QED
    BY <2>1, <2>2, SweptIs
<1>2. start \in Sweeps
  <2>1. pts[1].at \in Int
    BY <1>0, <1>1
  <2> QED
    BY <2>1 DEF Sweeps
<1>3. PICK run \in [0 .. n -> Sweeps] :
        /\ run[0] = start /\ Sweep(start, pts) = run[n]
        /\ \A k \in 1 .. n : run[k] = SweepStep(run[k - 1], pts[k])
  <2>1. Laid(n, pts)
    BY <1>0, <1>1 DEF Laid
  <2> HIDE DEF start
  <2> QED
    BY ONLY <1>2, <2>1, SweepRuns
<1> DEFINE P == {k \in 0 .. n : \E U, u : Standing(L, e, n, at, o, c, ct, X, k, run[k], U, u)}
<1> HIDE DEF P
<1>4. \A l \in 1 .. n : at[1] <= at[l]
  <2> SUFFICES ASSUME NEW l \in 1 .. n PROVE at[1] <= at[l]
    OBVIOUS
  <2>1. 1 < l => at[1] < at[l] \/ at[1] = at[l]
    BY <1>1 DEF Swept
  <2>2. l = 1 \/ 1 < l
    OBVIOUS
  <2> QED
    BY <1>1, <2>1, <2>2
<1>5. 0 \in P
  <2> DEFINE a == at[1]
  <2>1. run[0].last = a /\ run[0].used = 0 /\ run[0].stack = << >>
    BY <1>0, <1>1, <1>3
  <2>2. Arrived(n, at, 0, a)
    <3>1. \A l \in 1 .. n : (l <= 0 => at[l] <= a) /\ (l > 0 => a <= at[l])
      BY <1>4
    <3>2. 0 \in 0 .. n /\ a \in Nat
      BY <1>1
    <3> QED
      BY ONLY <3>1, <3>2 DEF Arrived
  <2>3. Passed(L, o, 0) = {} /\ Passed(L, c, 0) = {}
    BY <1>1 DEF Passed
  <2>4. OnStack(L, e, o, c, 0, a, {})
    <3> DEFINE none == {}
               p == Cardinality(none)
    <3>1. p = 0 /\ Passed(L, o, 0) = none /\ Passed(L, c, 0) = none
      BY <2>3, FS_EmptySet
    <3> HIDE DEF p
    <3>2. p = p - p
      BY ONLY <3>1
    <3> HIDE DEF a
    <3> QED
      BY ONLY <3>1, <3>2, Zenon DEF OnStack, p
  <2>5. Stacked(<< >>, {}, o)
    BY DEF Stacked
  <2>6. Counts(<< >>, ct) = << >>
    BY DEF Counts
  <2>7. Below(X, a) = {}
    <3>1. ASSUME NEW b \in X, b < a PROVE FALSE
      <4>1. b \in Nat /\ Around(L, s, e, b) # {}
        BY DEF Lit
      <4>2. PICK i \in L : s[i] <= b
        BY <4>1 DEF Around
      <4>3. s[i] = at[o[i]] /\ o[i] \in 1 .. n /\ s[i] \in Nat
        BY <1>1
      <4>4. a <= s[i] /\ a \in Nat
        BY <1>1, <1>4, <4>3
      <4> QED
        BY ONLY <3>1, <4>1, <4>2, <4>3, <4>4
    <3> QED
      BY <3>1 DEF Below
  <2>8. Cardinality(Below(X, a)) = 0
    BY <2>7, FS_EmptySet
  <2>9. 0 \in 0 .. n
    BY <1>1
  <2> HIDE DEF a, X, start
  <2>10. Standing(L, e, n, at, o, c, ct, X, 0, run[0], {}, << >>)
    BY <2>1, <2>2, <2>4, <2>5, <2>6, <2>8 DEF Standing
  <2> QED
    BY <2>9, <2>10 DEF P
<1>6. \A k \in 0 .. n - 1 : k \in P => k + 1 \in P
  <2> SUFFICES ASSUME NEW k \in 0 .. n - 1, k \in P PROVE k + 1 \in P
    OBVIOUS
  <2>1. PICK U, u : Standing(L, e, n, at, o, c, ct, X, k, run[k], U, u)
    <3> HIDE DEF X
    <3> QED
      BY DEF P
  <2>2. k + 1 \in 1 .. n /\ k + 1 \in 0 .. n /\ (k + 1) - 1 = k /\ k \in 0 .. n
    BY <1>1
  <2> DEFINE p == pts[k + 1]
  <2>3. /\ p.at = at[k + 1] /\ (p.close <=> k + 1 \in C)
        /\ \A i \in L : o[i] = k + 1 => p.count = ct[i]
    BY <1>0, <2>2
  <2>4. run[k] \in Sweeps /\ run[k + 1] = SweepStep(run[k], p)
    <3>1. run[k + 1] = SweepStep(run[(k + 1) - 1], pts[k + 1])
      BY <1>3, <2>2
    <3> QED
      BY <2>2, <3>1
  <2>5. \E V, v : Standing(L, e, n, at, o, c, ct, X, k + 1, SweepStep(run[k], p), V, v)
    <3> DEFINE w == run[k]
    <3>1. w \in Sweeps /\ Standing(L, e, n, at, o, c, ct, X, k, w, U, u) /\ X = Lit(L, s, e, ct)
      BY <2>1, <2>4
    <3> HIDE DEF w, p, X
    <3>2. \E V, v : Standing(L, e, n, at, o, c, ct, X, k + 1, SweepStep(w, p), V, v)
      BY <1>0, <2>3, <3>1, SweepSteps
    <3> QED
      BY <3>2 DEF w
  <2> HIDE DEF X, p
  <2> QED
    BY <2>2, <2>4, <2>5 DEF P
<1>7. n \in P
  <2>1. \A k \in 0 .. n : k \in P
    BY ONLY <1>1, <1>5, <1>6, UpToInduction
  <2> QED
    BY <1>1, <2>1
<1>8. run[n].last = at[n]
  <2>1. run[n] = SweepStep(run[n - 1], pts[n]) /\ pts[n].at = at[n]
    BY <1>0, <1>1, <1>3
  <2> QED
    BY <2>1 DEF SweepStep
<1> HIDE DEF X, start
<1>9. run[n].used = Cardinality(Below(X, at[n]))
  BY <1>7, <1>8 DEF Standing, P
<1> QED
  BY <1>3, <1>9 DEF X, start

(* The last point of a sweep is where the last range ends. *)
LEMMA SweepEnds ==
  ASSUME NEW L, NEW s, NEW e, NEW n, NEW at, NEW C, NEW o, NEW c,
         Swept(L, s, e, n, at, C, o, c), n # 0,
         NEW ct, NEW pts, Labelled(pts, L, n, at, C, o, ct)
  PROVE  /\ Longest(pts) = at[n]
         /\ at[n] \in Nat /\ (\E i \in L : e[i] = at[n]) /\ \A i \in L : e[i] <= at[n]
<1> DEFINE total == Longest(pts)
<1>0. DOMAIN pts = 1 .. n /\ \A k \in 1 .. n : pts[k].at = at[k] /\ (pts[k].close <=> k \in C)
  BY DEF Labelled
<1>1. /\ n \in Nat /\ n \in 1 .. n /\ \A k \in 1 .. n : at[k] \in Nat
      /\ \A i \in L : /\ s[i] \in Nat /\ e[i] \in Nat /\ s[i] < e[i] /\ o[i] < c[i]
                      /\ o[i] \in 1 .. n /\ c[i] \in 1 .. n /\ at[c[i]] = e[i]
  <2>1. n \in Nat
    BY SweptIs
  <2>2. n \in 1 .. n
    BY ONLY <2>1, n # 0
  <2> QED
    BY <2>1, <2>2, SweptIs
<1>2. /\ total \in Int /\ total >= 0
      /\ \A k \in 1 .. n : pts[k].close => pts[k].at <= total
      /\ total # 0 => \E k \in 1 .. n : pts[k].close /\ pts[k].at = total
  <2>1. n \in Nat /\ DOMAIN pts = 1 .. n /\ \A k \in 1 .. n : pts[k].at \in Int
    BY <1>0, <1>1
  <2> QED
    BY <2>1, TotalIs
<1> HIDE DEF total
<1>3. \A k \in 1 .. n : at[k] <= at[n]
  <2> SUFFICES ASSUME NEW k \in 1 .. n PROVE at[k] <= at[n]
    OBVIOUS
  <2>1. k = n \/ k < n
    BY <1>1
  <2>2. k < n => at[k] < at[n] \/ at[k] = at[n]
    BY <1>1 DEF Swept
  <2> QED
    BY <1>1, <2>1, <2>2
<1>4. n \in C
  <2> SUFFICES ASSUME n \notin C PROVE FALSE
    OBVIOUS
  <2>1. PICK i \in L : o[i] = n
    BY <1>1 DEF Swept
  <2> QED
    BY <1>1, <2>1
<1>5. PICK i \in L : c[i] = n
  BY <1>1, <1>4 DEF Swept
<1>6. e[i] = at[n] /\ at[n] > 0
  BY <1>1, <1>5
<1>7. \A j \in L : e[j] <= at[n]
  BY <1>1, <1>3
<1>8. total = at[n]
  <2>1. at[n] <= total
    BY <1>0, <1>1, <1>2, <1>4
  <2>2. PICK k \in 1 .. n : at[k] = total
    BY <1>0, <1>1, <1>2, <1>6, <2>1
  <2> QED
    BY <1>1, <1>2, <1>3, <2>1, <2>2
<1> QED
  BY <1>1, <1>6, <1>7, <1>8 DEF total

-----------------------------------------------------------------------------
(* The points of a list of ranges.                                         *)

(* A list of ranges, those that are not empty, and where each one starts   *)
(* and ends, its count, and the two points it makes.                       *)
Spans(rs) == /\ DOMAIN rs = 1 .. Len(rs) /\ Len(rs) \in Nat
             /\ \A i \in DOMAIN rs : rs[i].start \in Nat /\ rs[i].end \in Nat /\ rs[i].count \in Int
Nesting(rs) == \A i, j \in DOMAIN rs :
  \/ rs[i].end <= rs[j].start \/ rs[j].end <= rs[i].start
  \/ rs[i].start <= rs[j].start /\ rs[j].end <= rs[i].end
  \/ rs[j].start <= rs[i].start /\ rs[i].end <= rs[j].end
Live(rs) == {i \in DOMAIN rs : rs[i].end - rs[i].start > 0}
Starts(rs) == [i \in Live(rs) |-> rs[i].start]
Ends(rs) == [i \in Live(rs) |-> rs[i].end]
RunsOf(rs) == [i \in Live(rs) |-> rs[i].count]
Opening(rs) == [i \in Live(rs) |->
  Point(rs[i].start, FALSE, rs[i].end - rs[i].start, rs[i].count, 2 * i)]
Closing(rs) == [i \in Live(rs) |->
  Point(rs[i].end, TRUE, rs[i].end - rs[i].start, rs[i].count, 2 * i + 1)]

(* What the points are: no two of them are alike. *)
LEMMA PointsAre ==
  ASSUME NEW rs, Spans(rs)
  PROVE  /\ IsFiniteSet(Live(rs)) /\ Live(rs) \subseteq Nat
         /\ IsFiniteSet(Points(rs))
         /\ Points(rs) = {Opening(rs)[i] : i \in Live(rs)} \cup {Closing(rs)[i] : i \in Live(rs)}
         /\ \A i \in Live(rs) :
              /\ Starts(rs)[i] \in Nat /\ Ends(rs)[i] \in Nat /\ Starts(rs)[i] < Ends(rs)[i]
              /\ RunsOf(rs)[i] \in Int
              /\ LET p == Opening(rs)[i]
                     q == Closing(rs)[i]
                 IN  /\ p.at = Starts(rs)[i] /\ ~p.close /\ p.count = RunsOf(rs)[i]
                     /\ q.at = Ends(rs)[i] /\ q.close /\ q.count = RunsOf(rs)[i]
                     /\ p.len = Ends(rs)[i] - Starts(rs)[i] /\ p.seq = 2 * i
                     /\ q.len = Ends(rs)[i] - Starts(rs)[i] /\ q.seq = 2 * i + 1
                     /\ p.close \in BOOLEAN /\ q.close \in BOOLEAN
<1> DEFINE L == Live(rs)
           A == {Opening(rs)[i] : i \in L}
           B == {Closing(rs)[i] : i \in L}
<1>1. IsFiniteSet(L) /\ L \subseteq Nat
  <2>1. L \in SUBSET (1 .. Len(rs)) /\ 1 \in Int /\ Len(rs) \in Int
    BY DEF Live, Spans
  <2> HIDE DEF L
  <2>2. IsFiniteSet(1 .. Len(rs))
    BY ONLY <2>1, FS_Interval
  <2>3. IsFiniteSet(L)
    BY ONLY <2>1, <2>2, FS_Subset
  <2> QED
    BY ONLY <2>1, <2>3
<1>2. ASSUME NEW i \in L
      PROVE  /\ Starts(rs)[i] \in Nat /\ Ends(rs)[i] \in Nat /\ Starts(rs)[i] < Ends(rs)[i]
             /\ RunsOf(rs)[i] \in Int
             /\ Starts(rs)[i] = rs[i].start /\ Ends(rs)[i] = rs[i].end /\ RunsOf(rs)[i] = rs[i].count
             /\ Opening(rs)[i] = Point(rs[i].start, FALSE, rs[i].end - rs[i].start, rs[i].count, 2 * i)
             /\ Closing(rs)[i] = Point(rs[i].end, TRUE, rs[i].end - rs[i].start, rs[i].count, 2 * i + 1)
  <2>1. /\ Starts(rs)[i] = rs[i].start /\ Ends(rs)[i] = rs[i].end /\ RunsOf(rs)[i] = rs[i].count
        /\ Opening(rs)[i] = Point(rs[i].start, FALSE, rs[i].end - rs[i].start, rs[i].count, 2 * i)
        /\ Closing(rs)[i] = Point(rs[i].end, TRUE, rs[i].end - rs[i].start, rs[i].count, 2 * i + 1)
    BY Zenon DEF Starts, Ends, RunsOf, Opening, Closing
  <2>2. rs[i].start \in Nat /\ rs[i].end \in Nat /\ rs[i].count \in Int
        /\ rs[i].end - rs[i].start > 0
    BY DEF Live, Spans
  <2> QED
    BY ONLY <2>1, <2>2
<1>3. Points(rs) = A \cup B
  <2> DEFINE made(i) == LET r == rs[i]
                            len == r.end - r.start
                        IN  IF len <= 0 THEN {}
                            ELSE {Point(r.start, FALSE, len, r.count, 2 * i),
                                  Point(r.end, TRUE, len, r.count, 2 * i + 1)}
  <2>1. \A i \in DOMAIN rs : made(i) = IF i \in L THEN {Opening(rs)[i], Closing(rs)[i]} ELSE {}
    <3> SUFFICES ASSUME NEW i \in DOMAIN rs
                 PROVE  made(i) = IF i \in L THEN {Opening(rs)[i], Closing(rs)[i]} ELSE {}
      OBVIOUS
    <3> DEFINE len == rs[i].end - rs[i].start
    <3>1. rs[i].start \in Nat /\ rs[i].end \in Nat
      BY DEF Spans
    <3>2. len <= 0 <=> ~(len > 0)
      BY <3>1
    <3> HIDE DEF len
    <3>3. i \in L <=> len > 0
      BY DEF Live, len
    <3>4. CASE i \in L
      <4>1. made(i) = {Point(rs[i].start, FALSE, len, rs[i].count, 2 * i),
                       Point(rs[i].end, TRUE, len, rs[i].count, 2 * i + 1)}
        BY <3>2, <3>3, <3>4 DEF len
      <4>2. /\ Opening(rs)[i] = Point(rs[i].start, FALSE, len, rs[i].count, 2 * i)
            /\ Closing(rs)[i] = Point(rs[i].end, TRUE, len, rs[i].count, 2 * i + 1)
        BY <1>2, <3>4 DEF len
      <4> HIDE DEF made, L
      <4> QED
        BY ONLY <3>4, <4>1, <4>2
    <3>5. CASE i \notin L
      BY <3>2, <3>3, <3>5 DEF len
    <3> QED
      BY <3>4, <3>5
  <2>2. Points(rs) = UNION {made(i) : i \in DOMAIN rs}
    BY Zenon DEF Points
  <2> HIDE DEF made
  <2>3. L \in SUBSET DOMAIN rs
    BY DEF Live
  <2> HIDE DEF L
  <2> QED
    BY <2>1, <2>2, <2>3
<1>4. IsFiniteSet(A \cup B)
  <2>1. IsFiniteSet(A)
    <3> HIDE DEF L
    <3> QED
      BY <1>1, ImageFinite
  <2>2. IsFiniteSet(B)
    <3> HIDE DEF L
    <3> QED
      BY <1>1, ImageFinite
  <2> QED
    BY ONLY <2>1, <2>2, FS_Union
<1>5. ASSUME NEW i \in L
      PROVE  LET p == Opening(rs)[i]
                 q == Closing(rs)[i]
             IN  /\ p.at = Starts(rs)[i] /\ ~p.close /\ p.count = RunsOf(rs)[i]
                 /\ q.at = Ends(rs)[i] /\ q.close /\ q.count = RunsOf(rs)[i]
                 /\ p.len = Ends(rs)[i] - Starts(rs)[i] /\ p.seq = 2 * i
                 /\ q.len = Ends(rs)[i] - Starts(rs)[i] /\ q.seq = 2 * i + 1
                 /\ p.close \in BOOLEAN /\ q.close \in BOOLEAN
  <2> DEFINE p == Opening(rs)[i]
             q == Closing(rs)[i]
             a == Starts(rs)[i]
             b == Ends(rs)[i]
             m == RunsOf(rs)[i]
  <2>1. p = Point(a, FALSE, b - a, m, 2 * i) /\ q = Point(b, TRUE, b - a, m, 2 * i + 1)
    BY <1>2
  <2> HIDE DEF L, p, q, a, b, m
  <2>2. /\ p.at = a /\ p.close = FALSE /\ p.count = m /\ p.len = b - a /\ p.seq = 2 * i
    BY ONLY <2>1 DEF Point
  <2>3. /\ q.at = b /\ q.close = TRUE /\ q.count = m /\ q.len = b - a /\ q.seq = 2 * i + 1
    BY ONLY <2>1 DEF Point
  <2> QED
    BY <2>2, <2>3 DEF p, q, a, b, m
<1> HIDE DEF L, A, B
<1>6. \A i \in L : /\ Starts(rs)[i] \in Nat /\ Ends(rs)[i] \in Nat /\ Starts(rs)[i] < Ends(rs)[i]
                   /\ RunsOf(rs)[i] \in Int
  BY <1>2
<1>7. IsFiniteSet(Points(rs))
  BY <1>3, <1>4
<1>8. \A i \in L :
        LET p == Opening(rs)[i]
            q == Closing(rs)[i]
        IN  /\ p.at = Starts(rs)[i] /\ ~p.close /\ p.count = RunsOf(rs)[i]
            /\ q.at = Ends(rs)[i] /\ q.close /\ q.count = RunsOf(rs)[i]
            /\ p.len = Ends(rs)[i] - Starts(rs)[i] /\ p.seq = 2 * i
            /\ q.len = Ends(rs)[i] - Starts(rs)[i] /\ q.seq = 2 * i + 1
            /\ p.close \in BOOLEAN /\ q.close \in BOOLEAN
  BY ONLY <1>5, Zenon
<1>9. Points(rs) = {Opening(rs)[i] : i \in L} \cup {Closing(rs)[i] : i \in L}
  BY <1>3 DEF A, B
<1> QED
  BY ONLY <1>1, <1>6, <1>7, <1>8, <1>9, Zenon DEF L

(* The points are sorted by a strict order. *)
LEMMA PointsOrdered ==
  ASSUME NEW rs, Spans(rs)
  PROVE  LET pts == InOrder(Points(rs), SweepsBefore)
         IN  /\ pts \in SetToSeqs(Points(rs))
             /\ \A k, l \in DOMAIN pts : k < l => SweepsBefore(pts[k], pts[l])
<1> DEFINE S == Points(rs)
           R == {p \in S \X S : SweepsBefore(p[1], p[2])}
           Nth(x, k) == Cardinality({y \in S : SweepsBefore(y, x)}) = k - 1
           below == [x \in S |-> {y \in S : SweepsBefore(y, x)}]
           pts == InOrder(S, SweepsBefore)
<1>1. IsFiniteSet(S)
  BY PointsAre
<1>2. \A p \in S : p.at \in Int /\ p.close \in BOOLEAN /\ p.len \in Int /\ p.seq \in Int
  <2> SUFFICES ASSUME NEW p \in S
               PROVE  p.at \in Int /\ p.close \in BOOLEAN /\ p.len \in Int /\ p.seq \in Int
    OBVIOUS
  <2>1. PICK i \in Live(rs) : p = Opening(rs)[i] \/ p = Closing(rs)[i]
    BY PointsAre
  <2>2. /\ i \in Nat /\ Starts(rs)[i] \in Nat /\ Ends(rs)[i] \in Nat
        /\ p.at = Starts(rs)[i] \/ p.at = Ends(rs)[i]
        /\ p.close \in BOOLEAN /\ p.len = Ends(rs)[i] - Starts(rs)[i]
        /\ p.seq = 2 * i \/ p.seq = 2 * i + 1
    BY <2>1, PointsAre
  <2> QED
    BY ONLY <2>2
<1>3. \A p, q \in S : p.seq = q.seq => p = q
  <2> SUFFICES ASSUME NEW p \in S, NEW q \in S, p.seq = q.seq PROVE p = q
    OBVIOUS
  <2>1. PICK i \in Live(rs) : p = Opening(rs)[i] \/ p = Closing(rs)[i]
    BY PointsAre
  <2>2. PICK j \in Live(rs) : q = Opening(rs)[j] \/ q = Closing(rs)[j]
    BY PointsAre
  <2>3. /\ i \in Nat /\ j \in Nat
        /\ (p = Opening(rs)[i] /\ p.seq = 2 * i) \/ (p = Closing(rs)[i] /\ p.seq = 2 * i + 1)
        /\ (q = Opening(rs)[j] /\ q.seq = 2 * j) \/ (q = Closing(rs)[j] /\ q.seq = 2 * j + 1)
    BY <2>1, <2>2, PointsAre
  <2>4. /\ i = j
        /\ \/ p = Opening(rs)[i] /\ q = Opening(rs)[j]
           \/ p = Closing(rs)[i] /\ q = Closing(rs)[j]
    BY ONLY <2>3, p.seq = q.seq
  <2> QED
    BY ONLY <2>4
<1>4. \A p, q \in S : <<p, q>> \in R <=> SweepsBefore(p, q)
  <2> HIDE DEF S, below, pts, Nth
  <2> QED
    BY Zenon
<1> HIDE DEF S, R
<1>5. StrictOrder(S, R)
  <2>1. \A p \in S : <<p, p>> \notin R
    BY <1>2, <1>4 DEF SweepsBefore
  <2>2. \A p, q \in S : p # q => <<p, q>> \in R \/ <<q, p>> \in R
    <3> SUFFICES ASSUME NEW p \in S, NEW q \in S, p # q
                 PROVE  SweepsBefore(p, q) \/ SweepsBefore(q, p)
      BY <1>4
    <3>1. /\ p.at \in Int /\ p.close \in BOOLEAN /\ p.len \in Int /\ p.seq \in Int
          /\ q.at \in Int /\ q.close \in BOOLEAN /\ q.len \in Int /\ q.seq \in Int
          /\ p.seq # q.seq
      BY <1>2, <1>3
    <3> QED
      BY ONLY <3>1 DEF SweepsBefore
  <2>3. \A p, q, r \in S : <<p, q>> \in R /\ <<q, r>> \in R => <<p, r>> \in R
    <3> SUFFICES ASSUME NEW p \in S, NEW q \in S, NEW r \in S,
                        SweepsBefore(p, q), SweepsBefore(q, r)
                 PROVE  SweepsBefore(p, r)
      BY <1>4
    <3>1. /\ p.at \in Int /\ p.close \in BOOLEAN /\ p.len \in Int /\ p.seq \in Int
          /\ q.at \in Int /\ q.close \in BOOLEAN /\ q.len \in Int /\ q.seq \in Int
          /\ r.at \in Int /\ r.close \in BOOLEAN /\ r.len \in Int /\ r.seq \in Int
      BY <1>2
    <3> QED
      BY ONLY <3>1, SweepsBefore(p, q), SweepsBefore(q, r) DEF SweepsBefore
  <2> QED
    BY <2>1, <2>2, <2>3 DEF StrictOrder
<1>6. IsBelow(below, S, R)
  BY <1>4 DEF IsBelow
<1>7. pts = [k \in 1 .. Cardinality(S) |-> CHOOSE x \in S : Nth(x, k)]
  BY Zenon DEF InOrder
<1>8. \A x \in S, k \in 1 .. Cardinality(S) : Nth(x, k) <=> Cardinality(below[x]) = k - 1
  BY Zenon
<1> HIDE DEF Nth, below, pts
<1>9. /\ DOMAIN pts = 1 .. Cardinality(S) /\ pts = [k \in DOMAIN pts |-> pts[k]]
      /\ \A k \in DOMAIN pts : (\E x \in S : Cardinality(below[x]) = k - 1)
           => pts[k] \in S /\ Cardinality(below[pts[k]]) = k - 1
  <2>1. DOMAIN pts = 1 .. Cardinality(S) /\ pts = [k \in DOMAIN pts |-> pts[k]]
    BY <1>7
  <2>2. ASSUME NEW k \in 1 .. Cardinality(S), NEW x \in S, Cardinality(below[x]) = k - 1
        PROVE  pts[k] \in S /\ Cardinality(below[pts[k]]) = k - 1
    <3>1. Nth(x, k)
      BY <1>8, <2>2
    <3>2. pts[k] = CHOOSE y \in S : Nth(y, k)
      BY <1>7
    <3>3. pts[k] \in S /\ Nth(pts[k], k)
      BY <3>1, <3>2
    <3> QED
      BY <1>8, <3>3
  <2> QED
    BY <2>1, <2>2
<1> DEFINE V == {pts[k] : k \in DOMAIN pts}
<1>10. pts \in SetToSeqs(S) /\ \A k, l \in DOMAIN pts : k < l => <<pts[k], pts[l]>> \in R
  <2>1. /\ IsFiniteSet(S) /\ StrictOrder(S, R) /\ IsBelow(below, S, R)
        /\ pts \in [1 .. Cardinality(S) -> V]
        /\ \A k \in DOMAIN pts : (\E x \in S : Cardinality(below[x]) = k - 1)
             => pts[k] \in S /\ Cardinality(below[pts[k]]) = k - 1
    BY <1>1, <1>5, <1>6, <1>9
  <2> HIDE DEF V
  <2> QED
    BY ONLY <2>1, OrderIs
<1>11. \A k, l \in DOMAIN pts : k < l => SweepsBefore(pts[k], pts[l])
  <2>1. \A k \in DOMAIN pts : pts[k] \in S
    BY <1>1, <1>10, RankingIsComplete
  <2> QED
    BY <1>4, <1>10, <2>1
<1> QED
  BY <1>10, <1>11 DEF pts, S

(* The offsets of a list of points, and which of them close a range. *)
Offsets(pts) == [k \in 1 .. Len(pts) |-> pts[k].at]
Closes(pts) == {k \in 1 .. Len(pts) : pts[k].close}

(* The sorted points of ranges that nest make a sweep. *)
LEMMA PointsSwept ==
  ASSUME NEW rs, Spans(rs), Nesting(rs)
  PROVE  LET pts == InOrder(Points(rs), SweepsBefore)
             n == Len(pts)
         IN  /\ n \in Nat /\ DOMAIN pts = 1 .. n
             /\ \A k \in 1 .. n : pts[k].at \in Int /\ pts[k].count \in Int
             /\ \E o, c :
                  /\ Swept(Live(rs), Starts(rs), Ends(rs), n, Offsets(pts), Closes(pts), o, c)
                  /\ OpenedOutwards(Live(rs), Starts(rs), Ends(rs), o)
                  /\ \A i \in Live(rs) : pts[o[i]].count = RunsOf(rs)[i]
<1> DEFINE S == Points(rs)
           pts == InOrder(S, SweepsBefore)
           n == Len(pts)
           D == 1 .. n
           L == Live(rs)
           s == Starts(rs)
           e == Ends(rs)
           at == Offsets(pts)
           C == Closes(pts)
           o == [i \in L |-> CHOOSE k \in D : pts[k] = Opening(rs)[i]]
           c == [i \in L |-> CHOOSE k \in D : pts[k] = Closing(rs)[i]]
<1>1. /\ pts \in SetToSeqs(S) /\ IsFiniteSet(S)
      /\ \A k, l \in DOMAIN pts : k < l => SweepsBefore(pts[k], pts[l])
  BY PointsOrdered, PointsAre
<1> HIDE DEF pts
<1>2. /\ n \in Nat /\ DOMAIN pts = D
      /\ {pts[k] : k \in D} = S
      /\ \A k, l \in D : pts[k] = pts[l] => k = l
  <2>1. /\ Cardinality(S) \in Nat /\ pts \in Seq(S) /\ Len(pts) = Cardinality(S)
        /\ {pts[k] : k \in DOMAIN pts} = S
        /\ \A k, l \in DOMAIN pts : pts[k] = pts[l] => k = l
    BY ONLY <1>1, RankingIsComplete
  <2>2. DOMAIN pts = D
    BY ONLY <2>1
  <2> QED
    BY ONLY <2>1, <2>2
<1>3. /\ IsFiniteSet(L) /\ L \subseteq Nat
      /\ S = {Opening(rs)[i] : i \in L} \cup {Closing(rs)[i] : i \in L}
      /\ \A i \in L : s[i] \in Nat /\ e[i] \in Nat /\ s[i] < e[i] /\ RunsOf(rs)[i] \in Int
  BY PointsAre
<1>4. \A i \in L :
        LET p == Opening(rs)[i]
            q == Closing(rs)[i]
        IN  /\ p.at = s[i] /\ ~p.close /\ p.count = RunsOf(rs)[i]
            /\ q.at = e[i] /\ q.close /\ q.count = RunsOf(rs)[i]
            /\ p.len = e[i] - s[i] /\ p.seq = 2 * i
            /\ q.len = e[i] - s[i] /\ q.seq = 2 * i + 1
            /\ p.close \in BOOLEAN /\ q.close \in BOOLEAN
  BY PointsAre
<1>5. \A k \in D : (k \in C <=> pts[k].close) /\ at[k] = pts[k].at
  BY DEF Closes, Offsets
<1> HIDE DEF S, n, L, s, e, at, C
<1>6. \A i \in L : o[i] \in D /\ pts[o[i]] = Opening(rs)[i] /\ c[i] \in D /\ pts[c[i]] = Closing(rs)[i]
  <2> SUFFICES ASSUME NEW i \in L
               PROVE  o[i] \in D /\ pts[o[i]] = Opening(rs)[i] /\ c[i] \in D /\ pts[c[i]] = Closing(rs)[i]
    OBVIOUS
  <2>1. (\E k \in D : pts[k] = Opening(rs)[i]) /\ (\E k \in D : pts[k] = Closing(rs)[i])
    <3>1. Opening(rs)[i] \in S /\ Closing(rs)[i] \in S
      BY <1>3
    <3> HIDE DEF D
    <3> QED
      BY <1>2, <3>1
  <2>2. o[i] = (CHOOSE k \in D : pts[k] = Opening(rs)[i]) /\ c[i] = (CHOOSE k \in D : pts[k] = Closing(rs)[i])
    OBVIOUS
  <2> HIDE DEF o, c, D
  <2> QED
    BY ONLY <2>1, <2>2, Zenon
<1> HIDE DEF o, c
<1>7. \A k \in D : \E i \in L : (pts[k] = Opening(rs)[i] /\ o[i] = k) \/ (pts[k] = Closing(rs)[i] /\ c[i] = k)
  <2> SUFFICES ASSUME NEW k \in D
               PROVE  \E i \in L : (pts[k] = Opening(rs)[i] /\ o[i] = k) \/ (pts[k] = Closing(rs)[i] /\ c[i] = k)
    OBVIOUS
  <2>1. pts[k] \in S
    BY <1>2
  <2>2. PICK i \in L : pts[k] = Opening(rs)[i] \/ pts[k] = Closing(rs)[i]
    BY <1>3, <2>1
  <2> QED
    BY <1>2, <1>6, <2>2
<1>8. \A k \in D : /\ at[k] \in Nat /\ pts[k].count \in Int /\ pts[k].close \in BOOLEAN
                   /\ k \notin C => \E i \in L : o[i] = k
                   /\ k \in C => \E i \in L : c[i] = k
  <2> SUFFICES ASSUME NEW k \in D
               PROVE  /\ at[k] \in Nat /\ pts[k].count \in Int /\ pts[k].close \in BOOLEAN
                      /\ k \notin C => \E i \in L : o[i] = k
                      /\ k \in C => \E i \in L : c[i] = k
    OBVIOUS
  <2>1. PICK i \in L : (pts[k] = Opening(rs)[i] /\ o[i] = k) \/ (pts[k] = Closing(rs)[i] /\ c[i] = k)
    BY <1>7
  <2>2. (k \in C <=> pts[k].close) /\ at[k] = pts[k].at
    BY <1>5
  <2>3. s[i] \in Nat /\ e[i] \in Nat /\ RunsOf(rs)[i] \in Int
    BY <1>3
  <2>4. CASE pts[k] = Opening(rs)[i] /\ o[i] = k
    BY <1>4, <2>2, <2>3, <2>4
  <2>5. CASE pts[k] = Closing(rs)[i] /\ c[i] = k
    BY <1>4, <2>2, <2>3, <2>5
  <2> QED
    BY ONLY <2>1, <2>4, <2>5
<1>9. \A i \in L : /\ o[i] \in D \ C /\ at[o[i]] = s[i] /\ c[i] \in C /\ at[c[i]] = e[i]
                   /\ pts[o[i]].count = RunsOf(rs)[i]
  <2> SUFFICES ASSUME NEW i \in L
               PROVE  /\ o[i] \in D \ C /\ at[o[i]] = s[i] /\ c[i] \in C /\ at[c[i]] = e[i]
                      /\ pts[o[i]].count = RunsOf(rs)[i]
    OBVIOUS
  <2>1. o[i] \in D /\ pts[o[i]] = Opening(rs)[i] /\ c[i] \in D /\ pts[c[i]] = Closing(rs)[i]
    BY <1>6
  <2> QED
    BY <1>4, <1>5, <2>1
<1>10. \A i, j \in L : i # j => o[i] # o[j] /\ c[i] # c[j]
  <2> SUFFICES ASSUME NEW i \in L, NEW j \in L, i # j PROVE o[i] # o[j] /\ c[i] # c[j]
    OBVIOUS
  <2>1. /\ Opening(rs)[i].seq = 2 * i /\ Opening(rs)[j].seq = 2 * j
        /\ Closing(rs)[i].seq = 2 * i + 1 /\ Closing(rs)[j].seq = 2 * j + 1
    BY <1>4
  <2>2. i \in Nat /\ j \in Nat
    BY <1>3
  <2>3. Opening(rs)[i] # Opening(rs)[j] /\ Closing(rs)[i] # Closing(rs)[j]
    <3>1. 2 * i # 2 * j /\ 2 * i + 1 # 2 * j + 1
      BY ONLY <2>2, i # j
    <3> QED
      BY ONLY <2>1, <3>1
  <2> QED
    BY <1>6, <2>3
<1>11. \A k, l \in D : k < l => at[k] < at[l] \/ (at[k] = at[l] /\ (l \in C => k \in C))
  <2> SUFFICES ASSUME NEW k \in D, NEW l \in D, k < l
               PROVE  at[k] < at[l] \/ (at[k] = at[l] /\ (l \in C => k \in C))
    OBVIOUS
  <2>1. SweepsBefore(pts[k], pts[l])
    BY <1>1, <1>2
  <2>2. /\ (k \in C <=> pts[k].close) /\ at[k] = pts[k].at /\ pts[k].close \in BOOLEAN
        /\ (l \in C <=> pts[l].close) /\ at[l] = pts[l].at /\ pts[l].close \in BOOLEAN
    BY <1>5, <1>8
  <2> QED
    BY ONLY <2>1, <2>2 DEF SweepsBefore
<1>12. Swept(L, s, e, n, at, C, o, c)
  <2>1. C \in SUBSET D
    BY DEF C, Closes, n
  <2>2. \A i \in L : /\ s[i] \in Nat /\ e[i] \in Nat /\ s[i] < e[i]
                     /\ o[i] \in D \ C /\ at[o[i]] = s[i] /\ c[i] \in C /\ at[c[i]] = e[i]
    BY ONLY <1>3, <1>9
  <2>3. \A k \in D : /\ at[k] \in Nat
                     /\ k \notin C => \E i \in L : o[i] = k
                     /\ k \in C => \E i \in L : c[i] = k
    BY ONLY <1>8
  <2>4. IsFiniteSet(L) /\ L \subseteq Nat /\ n \in Nat
    BY ONLY <1>2, <1>3
  <2> QED
    BY ONLY <1>10, <1>11, <2>1, <2>2, <2>3, <2>4, Zenon DEF Swept
<1>13. OpenedOutwards(L, s, e, o)
  <2>1. ASSUME NEW i \in L, NEW j \in L
        PROVE  \/ e[i] <= s[j] \/ e[j] <= s[i]
               \/ s[i] <= s[j] /\ e[j] <= e[i]
               \/ s[j] <= s[i] /\ e[i] <= e[j]
    <3>1. i \in DOMAIN rs /\ j \in DOMAIN rs
      BY DEF L, Live
    <3>2. /\ s[i] = rs[i].start /\ s[j] = rs[j].start
          /\ e[i] = rs[i].end /\ e[j] = rs[j].end
      BY Zenon DEF s, e, L, Starts, Ends
    <3>3. \/ rs[i].end <= rs[j].start \/ rs[j].end <= rs[i].start
          \/ rs[i].start <= rs[j].start /\ rs[j].end <= rs[i].end
          \/ rs[j].start <= rs[i].start /\ rs[i].end <= rs[j].end
      BY <3>1 DEF Nesting
    <3> QED
      BY ONLY <3>2, <3>3
  <2>2. ASSUME NEW i \in L, NEW j \in L, o[i] < o[j], s[i] = s[j]
        PROVE  e[j] < e[i] \/ (e[i] = e[j] /\ i < j)
    <3> DEFINE p == Opening(rs)[i]
               q == Opening(rs)[j]
    <3>1. SweepsBefore(p, q)
      BY <1>1, <1>2, <1>6, <2>2
    <3>2. /\ p.at = s[i] /\ ~p.close /\ p.len = e[i] - s[i] /\ p.seq = 2 * i /\ p.close \in BOOLEAN
          /\ q.at = s[j] /\ ~q.close /\ q.len = e[j] - s[j] /\ q.seq = 2 * j /\ q.close \in BOOLEAN
      BY <1>4
    <3>3. s[i] \in Nat /\ s[j] \in Nat /\ e[i] \in Nat /\ e[j] \in Nat /\ i \in Nat /\ j \in Nat
      BY <1>3
    <3> HIDE DEF p, q
    <3>4. IF p.len # q.len THEN p.len > q.len ELSE p.seq < q.seq
      <4>1. p.at = q.at /\ p.close = q.close /\ ~p.close
        BY ONLY <2>2, <3>2
      <4> QED
        BY ONLY <3>1, <4>1 DEF SweepsBefore
    <3> QED
      BY ONLY <2>2, <3>2, <3>3, <3>4
  <2> QED
    BY ONLY <2>1, <2>2, Zenon DEF OpenedOutwards
<1>14. \A k \in D : pts[k].at \in Int /\ pts[k].count \in Int
  <2>1. \A k \in D : pts[k].at \in Nat /\ pts[k].count \in Int
    BY ONLY <1>5, <1>8
  <2> QED
    BY ONLY <2>1
<1>15. \A i \in L : pts[o[i]].count = RunsOf(rs)[i]
  BY ONLY <1>9, Zenon
<1>16. \E o_1, c_1 : /\ Swept(L, s, e, n, at, C, o_1, c_1)
                     /\ OpenedOutwards(L, s, e, o_1)
                     /\ \A i \in L : pts[o_1[i]].count = RunsOf(rs)[i]
  BY ONLY <1>12, <1>13, <1>15, Zenon
<1>17. n \in Nat /\ DOMAIN pts = D
  BY ONLY <1>2
<1> QED
  BY ONLY <1>14, <1>16, <1>17, Zenon DEF pts, n, S, L, s, e, at, C

(* The innermost range, by the ranges themselves. *)
LEMMA InnermostIs ==
  ASSUME NEW U, NEW rs, NEW s, NEW e, \A i \in U : s[i] = rs[i].start /\ e[i] = rs[i].end
  PROVE  Innermost(U, s, e) = CHOOSE i \in U : \A j \in U :
           \/ rs[i].end - rs[i].start < rs[j].end - rs[j].start
           \/ rs[i].end - rs[i].start = rs[j].end - rs[j].start /\ i >= j
<1> DEFINE P(i, j) == \/ rs[i].end - rs[i].start < rs[j].end - rs[j].start
                      \/ rs[i].end - rs[i].start = rs[j].end - rs[j].start /\ i >= j
           Q(i, j) == \/ e[i] - s[i] < e[j] - s[j]
                      \/ e[i] - s[i] = e[j] - s[j] /\ i >= j
<1>1. ASSUME NEW i \in U, NEW j \in U PROVE P(i, j) <=> Q(i, j)
  <2>1. s[i] = rs[i].start /\ e[i] = rs[i].end /\ s[j] = rs[j].start /\ e[j] = rs[j].end
    OBVIOUS
  <2> QED
    BY ONLY <2>1
<1>2. Innermost(U, s, e) = CHOOSE i \in U : \A j \in U : Q(i, j)
  BY Zenon DEF Innermost
<1> HIDE DEF P, Q
<1>3. (CHOOSE i \in U : \A j \in U : P(i, j)) = (CHOOSE i \in U : \A j \in U : Q(i, j))
  <2>1. \A i \in U : (\A j \in U : P(i, j)) <=> (\A j \in U : Q(i, j))
    BY ONLY <1>1, Zenon
  <2> QED
    BY ONLY <2>1, Zenon
<1> QED
  BY ONLY <1>2, <1>3, Zenon DEF P

(* There is an innermost one of some ranges. *)
LEMMA InnermostExists ==
  ASSUME NEW n \in Nat, NEW U \in SUBSET (1 .. n), U # {}, NEW s, NEW e,
         \A i \in U : s[i] \in Nat /\ e[i] \in Nat /\ s[i] < e[i]
  PROVE  Innermost(U, s, e) \in U
<1> DEFINE Q(i, j) == \/ e[i] - s[i] < e[j] - s[j]
                      \/ e[i] - s[i] = e[j] - s[j] /\ i >= j
           N == {e[i] - s[i] : i \in U}
<1>1. N \in SUBSET Nat /\ N # {}
  <2>1. \A i \in U : e[i] - s[i] \in Nat
    OBVIOUS
  <2> QED
    BY <2>1
<1>2. PICK m \in N : \A x \in N : m <= x
  <2> HIDE DEF N
  <2> QED
    BY <1>1, LeastExists
<1> DEFINE M == {n - i : i \in {j \in U : e[j] - s[j] = m}}
<1>3. M \in SUBSET Nat /\ M # {}
  <2>1. \A i \in U : n - i \in Nat
    <3> SUFFICES ASSUME NEW i \in U PROVE n - i \in Nat
      OBVIOUS
    <3>1. i \in 1 .. n
      OBVIOUS
    <3> QED
      BY ONLY <3>1, n \in Nat
  <2>2. \E i \in U : e[i] - s[i] = m
    BY <1>2
  <2> QED
    BY <2>1, <2>2
<1>4. PICK y \in M : \A x \in M : y <= x
  <2> HIDE DEF M
  <2> QED
    BY <1>3, LeastExists
<1>5. PICK i \in U : e[i] - s[i] = m /\ y = n - i
  <2> DEFINE K == {j \in U : e[j] - s[j] = m}
  <2>1. M = {n - i : i \in K}
    OBVIOUS
  <2>2. \A i \in K : i \in U /\ e[i] - s[i] = m
    OBVIOUS
  <2> HIDE DEF K, M
  <2>3. PICK i \in K : y = n - i
    BY ONLY <1>4, <2>1
  <2> QED
    BY ONLY <2>2, <2>3
<1>6. ASSUME NEW j \in U PROVE Q(i, j)
  <2>1. m <= e[j] - s[j] /\ m = e[i] - s[i]
    BY <1>2, <1>5
  <2>2. s[j] \in Nat /\ e[j] \in Nat /\ s[i] \in Nat /\ e[i] \in Nat /\ i \in Nat /\ j \in Nat
    <3>1. i \in 1 .. n /\ j \in 1 .. n
      BY Zenon
    <3>2. s[j] \in Nat /\ e[j] \in Nat /\ s[i] \in Nat /\ e[i] \in Nat
      BY Zenon
    <3> QED
      BY ONLY <3>1, <3>2, n \in Nat
  <2>3. e[j] - s[j] = m => n - i <= n - j
    BY <1>4, <1>5
  <2> QED
    BY ONLY <2>1, <2>2, <2>3, n \in Nat
<1>7. \E k \in U : \A j \in U : Q(k, j)
  <2> HIDE DEF Q
  <2> QED
    BY ONLY <1>5, <1>6, Zenon
<1> QED
  BY ONLY <1>7, Zenon DEF Innermost
=============================================================================
