------------------------------ MODULE SumProofs ------------------------------
(***************************************************************************)
(* What the sums of the models are: the folds of the community modules add   *)
(* the elements of a finite set in an arbitrary order, so that each fact     *)
(* about a sum needs the sum to exist, to be unique and to split.  Sums are  *)
(* stated here of SumFunctionOnSet; those of an operator reduce to it.       *)
(***************************************************************************)
EXTENDS Integers, FiniteSetsExt, FiniteSetTheorems, WellFoundedInduction, TLAPS

\* A set of naturals with an element has a least one.
LEMMA LeastNatural ==
    ASSUME NEW T \in SUBSET Nat, T # {}
    PROVE  \E x \in T : \A y \in T : x <= y
<1>1. \E x \in T : \A y \in T : ~ (<<y, x>> \in OpToRel(<, Nat))
  BY NatLessThanWellFounded, WFMin
<1>2. \A x, y \in Nat : x < y => <<x, y>> \in OpToRel(<, Nat)
  BY Zenon DEF OpToRel
<1>3. \E x \in T : x \in Nat /\ \A y \in T : y \in Nat /\ ~ (y < x)
  BY <1>1, <1>2, Zenon
<1>. QED  BY <1>3

\* A bounded set of integers with an element has a least and a greatest one.
LEMMA LeastOf ==
    ASSUME NEW b \in Int, NEW T \in SUBSET Int, T # {}, \A y \in T : b <= y
    PROVE  \E x \in T : \A y \in T : x <= y
<1>. DEFINE S == {n \in Nat : b + n \in T}
<1>1. PICK z \in T : TRUE  OBVIOUS
<1>2. z - b \in S  BY <1>1
<1>3. PICK n \in S : \A m \in S : n <= m
  <2>. HIDE DEF S
  <2>1. S \in SUBSET Nat  BY DEF S
  <2>. QED  BY <1>2, <2>1, LeastNatural
<1>4. ASSUME NEW y \in T PROVE b + n <= y
  <2>1. y - b \in S  OBVIOUS
  <2>. QED  BY <1>3, <2>1
<1>. QED  BY <1>3, <1>4

LEMMA GreatestOf ==
    ASSUME NEW b \in Int, NEW T \in SUBSET Int, T # {}, \A y \in T : y <= b
    PROVE  \E x \in T : \A y \in T : y <= x
<1>. DEFINE S == {n \in Nat : b - n \in T}
<1>1. PICK z \in T : TRUE  OBVIOUS
<1>2. b - z \in S  BY <1>1
<1>3. PICK n \in S : \A m \in S : n <= m
  <2>. HIDE DEF S
  <2>1. S \in SUBSET Nat  BY DEF S
  <2>. QED  BY <1>2, <2>1, LeastNatural
<1>4. ASSUME NEW y \in T PROVE y <= b - n
  <2>1. b - y \in S /\ y \in Int  OBVIOUS
  <2>2. n \in Nat  BY <1>3
  <2>3. n <= b - y  BY <1>3, <2>1
  <2>. HIDE DEF S
  <2>. QED  BY <2>1, <2>2, <2>3
<1>. QED  BY <1>3, <1>4

-----------------------------------------------------------------------------
(* The fold: existence and uniqueness.                                     *)

Pick(s) == CHOOSE x \in s : TRUE

\* g is the function that a fold over S computes, which adds up f.
IsFold(g, f, S) ==
    g = [s \in SUBSET S |-> IF s = {} THEN 0 ELSE f[Pick(s)] + g[s \ {Pick(s)}]]

LEMMA PickIsIn == ASSUME NEW s, s # {} PROVE Pick(s) \in s
  BY DEF Pick

\* The subsets of at most n elements, and the fold over these alone.
SetsUpto(S, n) == {s \in SUBSET S : Cardinality(s) <= n}
FoldUpto(g, f, S, n) ==
    g = [s \in SetsUpto(S, n) |-> IF s = {} THEN 0 ELSE f[Pick(s)] + g[s \ {Pick(s)}]]

LEMMA Shrinks ==
    ASSUME NEW S, IsFiniteSet(S), NEW s \in SUBSET S
    PROVE  /\ IsFiniteSet(s) /\ Cardinality(s) \in Nat
           /\ Cardinality(s) = 0 => s = {}
           /\ s # {} => /\ s \ {Pick(s)} \in SUBSET S
                        /\ Cardinality(s \ {Pick(s)}) = Cardinality(s) - 1
<1>1. IsFiniteSet(s)  BY FS_Subset
<1>2. Cardinality(s) \in Nat  BY <1>1, FS_CardinalityType
<1>3. Cardinality(s) = 0 => s = {}  BY <1>1, FS_EmptySet
<1>4. ASSUME s # {} PROVE Cardinality(s \ {Pick(s)}) = Cardinality(s) - 1
  BY <1>1, <1>4, FS_RemoveElement, PickIsIn
<1>. QED  BY <1>1, <1>2, <1>3, <1>4

LEMMA FoldBegins ==
    ASSUME NEW S, IsFiniteSet(S), NEW f
    PROVE  \E g : FoldUpto(g, f, S, 0)
<1>. DEFINE h == [s \in SetsUpto(S, 0) |-> 0]
<1>1. ASSUME NEW s \in SetsUpto(S, 0) PROVE s = {}
  <2>1. s \in SUBSET S /\ Cardinality(s) <= 0  BY DEF SetsUpto
  <2>2. Cardinality(s) \in Nat /\ (Cardinality(s) = 0 => s = {})  BY <2>1, Shrinks
  <2>. QED  BY <2>1, <2>2
<1>2. FoldUpto(h, f, S, 0)  BY <1>1 DEF FoldUpto
<1>. QED  BY <1>2

LEMMA FoldExtends ==
    ASSUME NEW S, IsFiniteSet(S), NEW f, NEW n \in Nat, NEW g, FoldUpto(g, f, S, n)
    PROVE  \E h : FoldUpto(h, f, S, n + 1)
<1>. DEFINE h == [s \in SetsUpto(S, n + 1) |-> IF s = {} THEN 0 ELSE f[Pick(s)] + g[s \ {Pick(s)}]]
<1>1. ASSUME NEW s \in SetsUpto(S, n)
      PROVE  s \in SetsUpto(S, n + 1)
  <2>1. s \in SUBSET S /\ Cardinality(s) <= n  BY DEF SetsUpto
  <2>2. Cardinality(s) \in Nat  BY <2>1, Shrinks
  <2>. QED  BY <2>1, <2>2 DEF SetsUpto
<1>2. ASSUME NEW s \in SetsUpto(S, n)
      PROVE  h[s] = g[s]
  <2>1. g[s] = IF s = {} THEN 0 ELSE f[Pick(s)] + g[s \ {Pick(s)}]  BY DEF FoldUpto
  <2>. QED  BY <1>1, <2>1
<1>3. ASSUME NEW s \in SetsUpto(S, n + 1), s # {}
      PROVE  s \ {Pick(s)} \in SetsUpto(S, n)
  <2>1. s \in SUBSET S /\ Cardinality(s) <= n + 1  BY DEF SetsUpto
  <2>2. /\ Cardinality(s) \in Nat /\ s \ {Pick(s)} \in SUBSET S
        /\ Cardinality(s \ {Pick(s)}) = Cardinality(s) - 1
    BY <1>3, <2>1, Shrinks
  <2>. QED  BY <2>1, <2>2 DEF SetsUpto
<1>4. ASSUME NEW s \in SetsUpto(S, n + 1)
      PROVE  h[s] = IF s = {} THEN 0 ELSE f[Pick(s)] + h[s \ {Pick(s)}]
  BY <1>2, <1>3
<1>5. h = [s \in SetsUpto(S, n + 1) |-> h[s]]  OBVIOUS
<1>. HIDE DEF h
<1>6. FoldUpto(h, f, S, n + 1)  BY <1>4, <1>5 DEF FoldUpto
<1>. QED  BY <1>6

LEMMA FoldExists ==
    ASSUME NEW S, IsFiniteSet(S), NEW f
    PROVE  \E g : IsFold(g, f, S)
<1>. DEFINE Bad == {n \in Nat : ~ \E g : FoldUpto(g, f, S, n)}
<1>1. Bad = {}
  <2>. SUFFICES ASSUME Bad # {} PROVE FALSE
    OBVIOUS
  <2>1. PICK n \in Bad : \A m \in Bad : n <= m
    <3>1. Bad \in SUBSET Nat  OBVIOUS
    <3>. HIDE DEF Bad
    <3>. QED  BY <3>1, LeastNatural
  <2>2. n \in Nat /\ ~ \E g : FoldUpto(g, f, S, n)  OBVIOUS
  <2>3. n # 0  BY <2>2, FoldBegins
  <2>4. n - 1 \in Nat /\ n - 1 \notin Bad
    <3>. HIDE DEF Bad
    <3>. QED  BY <2>1, <2>2, <2>3
  <2>5. PICK g : FoldUpto(g, f, S, n - 1)  BY <2>4
  <2>6. \E h : FoldUpto(h, f, S, (n - 1) + 1)  BY <2>4, <2>5, FoldExtends
  <2>. QED  BY <2>2, <2>6
<1>2. Cardinality(S) \in Nat  BY FS_CardinalityType
<1>3. PICK g : FoldUpto(g, f, S, Cardinality(S))  BY <1>1, <1>2
<1>4. SetsUpto(S, Cardinality(S)) = SUBSET S  BY FS_Subset DEF SetsUpto
<1>. QED  BY <1>3, <1>4 DEF IsFold, FoldUpto

\* Two folds agree on a set on which what they add up agrees.
LEMMA FoldIsUnique ==
    ASSUME NEW S, NEW R, NEW f, NEW k, NEW g, NEW h, IsFold(g, f, S), IsFold(h, k, R),
           NEW T, IsFiniteSet(T), T \subseteq S, T \subseteq R, \A x \in T : f[x] = k[x]
    PROVE  g[T] = h[T]
<1>. DEFINE Bad == {n \in Nat : \E s \in SUBSET T : Cardinality(s) = n /\ g[s] # h[s]}
<1>1. Bad = {}
  <2>. SUFFICES ASSUME Bad # {} PROVE FALSE
    OBVIOUS
  <2>1. PICK n \in Bad : \A m \in Bad : n <= m
    <3>1. Bad \in SUBSET Nat  OBVIOUS
    <3>. HIDE DEF Bad
    <3>. QED  BY <3>1, LeastNatural
  <2>2. PICK s \in SUBSET T : Cardinality(s) = n /\ g[s] # h[s]  BY <2>1
  <2>3. /\ g[s] = IF s = {} THEN 0 ELSE f[Pick(s)] + g[s \ {Pick(s)}]
        /\ h[s] = IF s = {} THEN 0 ELSE k[Pick(s)] + h[s \ {Pick(s)}]
    <3>1. s \in SUBSET S /\ s \in SUBSET R  OBVIOUS
    <3>. QED  BY <3>1 DEF IsFold
  <2>4. s # {} /\ Pick(s) \in s  BY <2>2, <2>3, PickIsIn
  <2>6. s \ {Pick(s)} \in SUBSET T /\ Cardinality(s \ {Pick(s)}) = n - 1 /\ n \in Nat
    BY <2>2, <2>4, Shrinks
  <2>7. n - 1 \notin Bad /\ n - 1 \in Nat
    <3>1. n - 1 \in Nat  BY <2>2, <2>4, <2>6, Shrinks
    <3>. HIDE DEF Bad
    <3>. QED  BY <2>1, <2>6, <3>1
  <2>8. g[s \ {Pick(s)}] = h[s \ {Pick(s)}]  BY <2>6, <2>7
  <2>. QED  BY <2>2, <2>3, <2>4, <2>8
<1>2. Cardinality(T) \in Nat  BY FS_CardinalityType
<1>. QED  BY <1>1, <1>2

\* The sum of the community modules is such a fold.
LEMMA SumIsFold ==
    ASSUME NEW S, IsFiniteSet(S), NEW f
    PROVE  \E g : IsFold(g, f, S) /\ SumFunctionOnSet(f, S) = g[S]
<1>. DEFINE g == CHOOSE g : IsFold(g, f, S)
<1>1. IsFold(g, f, S)  BY FoldExists
<1>2. SumFunctionOnSet(f, S) = g[S]
  BY DEF SumFunctionOnSet, FoldFunctionOnSet, MapThenFoldSet, IsFold, Pick
<1>. QED  BY <1>1, <1>2

\* Any fold over a set is the sum: so are those of an operator.
LEMMA FoldIsSum ==
    ASSUME NEW S, IsFiniteSet(S), NEW f, NEW g, IsFold(g, f, S)
    PROVE  g[S] = SumFunctionOnSet(f, S)
<1>1. PICK h : IsFold(h, f, S) /\ SumFunctionOnSet(f, S) = h[S]  BY SumIsFold
<1>2. g[S] = h[S]  BY <1>1, FoldIsUnique
<1>. QED  BY <1>1, <1>2

LEMMA SumUnfolds ==
    ASSUME NEW S, IsFiniteSet(S), NEW f
    PROVE  SumFunctionOnSet(f, S) =
               IF S = {} THEN 0 ELSE f[Pick(S)] + SumFunctionOnSet(f, S \ {Pick(S)})
<1>1. PICK g : IsFold(g, f, S) /\ SumFunctionOnSet(f, S) = g[S]  BY SumIsFold
<1>2. g[S] = IF S = {} THEN 0 ELSE f[Pick(S)] + g[S \ {Pick(S)}]
  <2>1. S \in SUBSET S  OBVIOUS
  <2>. QED  BY <1>1, <2>1 DEF IsFold
<1>. DEFINE T == S \ {Pick(S)}
<1>3. IsFiniteSet(T)  BY FS_RemoveElement
<1>4. PICK h : IsFold(h, f, T) /\ SumFunctionOnSet(f, T) = h[T]  BY <1>3, SumIsFold
<1>5. g[T] = h[T]  BY <1>1, <1>3, <1>4, FoldIsUnique
<1>. QED  BY <1>1, <1>2, <1>4, <1>5

-----------------------------------------------------------------------------
(* The laws of sums.                                                       *)

\* Functions that agree on a set have the same sum over it.
LEMMA SumsAgree ==
    ASSUME NEW S, IsFiniteSet(S), NEW f, NEW k, \A x \in S : f[x] = k[x]
    PROVE  SumFunctionOnSet(f, S) = SumFunctionOnSet(k, S)
<1>1. PICK g : IsFold(g, f, S) /\ SumFunctionOnSet(f, S) = g[S]  BY SumIsFold
<1>2. PICK h : IsFold(h, k, S) /\ SumFunctionOnSet(k, S) = h[S]  BY SumIsFold
<1>3. g[S] = h[S]  BY <1>1, <1>2, FoldIsUnique
<1>. QED  BY <1>1, <1>2, <1>3

\* Integers add up to an integer, and any of them can be taken out of the sum.
IsSummed(f, S) ==
    /\ SumFunctionOnSet(f, S) \in Int
    /\ \A x \in S : SumFunctionOnSet(f, S) = f[x] + SumFunctionOnSet(f, S \ {x})

LEMMA SumPeels ==
    ASSUME NEW S, IsFiniteSet(S), NEW f, \A x \in S : f[x] \in Int
    PROVE  IsSummed(f, S)
<1>. DEFINE Bad == {n \in Nat : \E s \in SUBSET S : Cardinality(s) = n /\ ~IsSummed(f, s)}
<1>1. Bad = {}
  <2>. SUFFICES ASSUME Bad # {} PROVE FALSE
    OBVIOUS
  <2>1. PICK n \in Bad : \A m \in Bad : n <= m
    <3>1. Bad \in SUBSET Nat  OBVIOUS
    <3>. HIDE DEF Bad
    <3>. QED  BY <3>1, LeastNatural
  <2>2. PICK s \in SUBSET S : Cardinality(s) = n /\ ~IsSummed(f, s)  OBVIOUS
  <2>3. n \in Nat /\ IsFiniteSet(s)  BY <2>2, Shrinks
  <2>4. ASSUME NEW r \in SUBSET s, NEW x \in s, x \notin r PROVE IsSummed(f, r)
    <3>1. r \in SUBSET S /\ r # s  BY <2>4
    <3>2. /\ IsFiniteSet(r) /\ Cardinality(r) \in Nat
          /\ Cardinality(r) <= n /\ Cardinality(r) # n
      BY <2>2, <2>3, <3>1, FS_Subset, FS_CardinalityType
    <3>3. Cardinality(r) \notin Bad
      <4>. HIDE DEF Bad
      <4>. QED  BY <2>1, <2>3, <3>2
    <3>. QED  BY <3>1, <3>2, <3>3
  <2>. HIDE DEF Bad
  <2>5. s # {}
    <3>. SUFFICES ASSUME s = {} PROVE FALSE  OBVIOUS
    <3>1. SumFunctionOnSet(f, s) = 0  BY <2>3, SumUnfolds
    <3>. QED  BY <2>2, <3>1 DEF IsSummed
  <2>. DEFINE c == Pick(s)
  <2>6. c \in s /\ f[c] \in Int  BY <2>5, PickIsIn
  <2>7. SumFunctionOnSet(f, s) = f[c] + SumFunctionOnSet(f, s \ {c})
    BY <2>3, <2>5, SumUnfolds
  <2>. HIDE DEF c
  <2>8. IsSummed(f, s \ {c})  BY <2>4, <2>6
  <2>9. SumFunctionOnSet(f, s) \in Int  BY <2>6, <2>7, <2>8 DEF IsSummed
  <2>10. ASSUME NEW x \in s, x # c
         PROVE  SumFunctionOnSet(f, s) = f[x] + SumFunctionOnSet(f, s \ {x})
    <3>1. IsSummed(f, s \ {x})  BY <2>4
    <3>2. /\ SumFunctionOnSet(f, s \ {c}) = f[x] + SumFunctionOnSet(f, (s \ {c}) \ {x})
          /\ SumFunctionOnSet(f, s \ {x}) = f[c] + SumFunctionOnSet(f, (s \ {x}) \ {c})
      BY <2>6, <2>8, <2>10, <3>1 DEF IsSummed
    <3>3. (s \ {c}) \ {x} = (s \ {x}) \ {c}  OBVIOUS
    <3>4. IsSummed(f, (s \ {c}) \ {x})  BY <2>4, <2>6
    <3>5. SumFunctionOnSet(f, (s \ {c}) \ {x}) \in Int  BY <3>4 DEF IsSummed
    <3>6. f[x] \in Int  OBVIOUS
    <3>. DEFINE rest == SumFunctionOnSet(f, (s \ {c}) \ {x})
    <3>7. /\ SumFunctionOnSet(f, s) = f[c] + (f[x] + rest)
          /\ SumFunctionOnSet(f, s \ {x}) = f[c] + rest
      BY <2>7, <3>2, <3>3
    <3>8. rest \in Int  BY <3>5
    <3>. HIDE DEF rest
    <3>9. f[c] + (f[x] + rest) = f[x] + (f[c] + rest)  BY <2>6, <3>6, <3>8
    <3>. QED  BY <3>7, <3>9
  <2>. QED  BY <2>2, <2>7, <2>9, <2>10 DEF IsSummed
<1>2. Cardinality(S) \in Nat /\ S \in SUBSET S  BY FS_CardinalityType
<1>3. Cardinality(S) \notin Bad  BY <1>1
<1>. QED  BY <1>2, <1>3

LEMMA SumIsInt ==
    ASSUME NEW S, IsFiniteSet(S), NEW f, \A x \in S : f[x] \in Int
    PROVE  SumFunctionOnSet(f, S) \in Int
  BY SumPeels DEF IsSummed

LEMMA SumOfNothing == ASSUME NEW f PROVE SumFunctionOnSet(f, {}) = 0
  BY SumUnfolds, FS_EmptySet

\* The sum over two disjoint sets.
LEMMA SumSplits ==
    ASSUME NEW S, IsFiniteSet(S), NEW T, IsFiniteSet(T), S \cap T = {},
           NEW f, \A x \in S \cup T : f[x] \in Int
    PROVE  SumFunctionOnSet(f, S \cup T) = SumFunctionOnSet(f, S) + SumFunctionOnSet(f, T)
<1>. DEFINE Adds(s) == SumFunctionOnSet(f, s \cup T) = SumFunctionOnSet(f, s) + SumFunctionOnSet(f, T)
            Bad == {n \in Nat : \E s \in SUBSET S : Cardinality(s) = n /\ ~Adds(s)}
<1>1. Bad = {}
  <2>. SUFFICES ASSUME Bad # {} PROVE FALSE
    OBVIOUS
  <2>1. PICK n \in Bad : \A m \in Bad : n <= m
    <3>1. Bad \in SUBSET Nat  OBVIOUS
    <3>. HIDE DEF Bad
    <3>. QED  BY <3>1, LeastNatural
  <2>2. PICK s \in SUBSET S : Cardinality(s) = n /\ ~Adds(s)  OBVIOUS
  <2>3. n \in Nat /\ IsFiniteSet(s) /\ IsFiniteSet(s \cup T)  BY <2>2, Shrinks, FS_Union
  <2>4. s # {}
    <3>. SUFFICES ASSUME s = {} PROVE FALSE  OBVIOUS
    <3>1. SumFunctionOnSet(f, s) = 0 /\ s \cup T = T  BY SumOfNothing
    <3>2. SumFunctionOnSet(f, T) \in Int  BY SumIsInt
    <3>. QED  BY <2>2, <3>1, <3>2
  <2>5. PICK x \in s : TRUE  BY <2>4
  <2>6. s \ {x} \in SUBSET S /\ Cardinality(s \ {x}) = n - 1 /\ n - 1 \in Nat /\ IsFiniteSet(s \ {x})
    <3>. HIDE DEF Bad, Adds
    <3>1. s \ {x} \in SUBSET S  OBVIOUS
    <3>2. IsFiniteSet(s \ {x}) /\ Cardinality(s \ {x}) = n - 1
      BY <2>2, <2>3, <2>5, FS_RemoveElement
    <3>. QED  BY <2>3, <3>1, <3>2, FS_CardinalityType
  <2>7. n - 1 \notin Bad
    <3>. HIDE DEF Bad
    <3>. QED  BY <2>1, <2>3, <2>6
  <2>8. Adds(s \ {x})  BY <2>6, <2>7
  <2>. HIDE DEF Bad
  <2>9. /\ SumFunctionOnSet(f, s) = f[x] + SumFunctionOnSet(f, s \ {x})
        /\ SumFunctionOnSet(f, s \cup T) = f[x] + SumFunctionOnSet(f, (s \cup T) \ {x})
    <3>1. IsSummed(f, s) /\ IsSummed(f, s \cup T)  BY <2>3, SumPeels
    <3>. QED  BY <2>5, <3>1 DEF IsSummed
  <2>10. (s \cup T) \ {x} = (s \ {x}) \cup T  BY <2>5
  <2>11. /\ f[x] \in Int /\ SumFunctionOnSet(f, s \ {x}) \in Int
         /\ SumFunctionOnSet(f, T) \in Int
    BY <2>5, <2>6, SumIsInt
  <2>. DEFINE rest == SumFunctionOnSet(f, s \ {x})
              other == SumFunctionOnSet(f, T)
  <2>12. /\ SumFunctionOnSet(f, s \cup T) = f[x] + (rest + other)
         /\ SumFunctionOnSet(f, s) = f[x] + rest
    BY <2>8, <2>9, <2>10
  <2>13. f[x] \in Int /\ rest \in Int /\ other \in Int  BY <2>11
  <2>14. ~(SumFunctionOnSet(f, s \cup T) = SumFunctionOnSet(f, s) + other)  BY <2>2
  <2>. HIDE DEF rest, other, Adds
  <2>. QED  BY <2>12, <2>13, <2>14
<1>2. Cardinality(S) \in Nat /\ S \in SUBSET S  BY FS_CardinalityType
<1>3. Adds(S)
  <2>1. Cardinality(S) \notin Bad  BY <1>1
  <2>. HIDE DEF Adds
  <2>. QED  BY <1>2, <2>1
<1>. QED  BY <1>3

-----------------------------------------------------------------------------
(* Sums of related functions.                                              *)

\* A collection of subsets that has the empty set, and a set with one element
\* more for each that it has, has the whole finite set.
LEMMA SetInduction ==
    ASSUME NEW S, IsFiniteSet(S), NEW G, {} \in G,
           \A T \in SUBSET S, x \in S : T \in G /\ x \notin T => T \cup {x} \in G
    PROVE  S \in G
<1>. DEFINE Bad == {n \in Nat : \E T \in SUBSET S : Cardinality(T) = n /\ T \notin G}
<1>1. CASE Bad = {}
  <2>1. Cardinality(S) \in Nat  BY FS_CardinalityType
  <2>. QED  BY <1>1, <2>1
<1>2. CASE Bad # {}
  <2>1. PICK n \in Bad : \A m \in Bad : n <= m
    <3>1. Bad \in SUBSET Nat  OBVIOUS
    <3>. HIDE DEF Bad
    <3>. QED  BY <1>2, <3>1, LeastNatural
  <2>2. PICK T \in SUBSET S : Cardinality(T) = n /\ T \notin G  OBVIOUS
  <2>3. PICK x \in T : TRUE  BY <2>2
  <2>4. /\ T \ {x} \in SUBSET S /\ Cardinality(T \ {x}) = n - 1
        /\ Cardinality(T \ {x}) \in Nat
    <3>1. IsFiniteSet(T)  BY FS_Subset
    <3>2. IsFiniteSet(T \ {x}) /\ Cardinality(T \ {x}) = n - 1
      BY <2>2, <2>3, <3>1, FS_RemoveElement
    <3>3. Cardinality(T \ {x}) \in Nat  BY <3>2, FS_CardinalityType
    <3>. QED  BY <3>2, <3>3
  <2>5. n - 1 \notin Bad
    <3>1. n \in Nat /\ n - 1 \in Nat  BY <2>4
    <3>. HIDE DEF Bad
    <3>. QED  BY <2>1, <3>1
  <2>6. T \ {x} \in G  BY <2>4, <2>5
  <2>7. T = (T \ {x}) \cup {x}  BY <2>3
  <2>. HIDE DEF Bad
  <2>8. x \in S /\ x \notin T \ {x}  BY <2>3
  <2>. QED  BY <2>2, <2>4, <2>6, <2>7, <2>8
<1>. QED  BY <1>1, <1>2

LEMMA ImageIsFinite ==
    ASSUME NEW S, IsFiniteSet(S), NEW f
    PROVE  IsFiniteSet({f[x] : x \in S})
<1>. DEFINE G == {T \in SUBSET S : IsFiniteSet({f[x] : x \in T})}
<1>1. {} \in G
  <2>1. {f[x] : x \in {}} = {}  OBVIOUS
  <2>. QED  BY <2>1, FS_EmptySet
<1>2. ASSUME NEW T \in SUBSET S, NEW x \in S, T \in G, x \notin T
      PROVE  T \cup {x} \in G
  <2>1. {f[y] : y \in T \cup {x}} = {f[y] : y \in T} \cup {f[x]}  OBVIOUS
  <2>2. IsFiniteSet({f[y] : y \in T})  BY <1>2
  <2>3. IsFiniteSet({f[y] : y \in T} \cup {f[x]})  BY <2>2, FS_AddElement
  <2>. QED  BY <2>1, <2>3
<1>. HIDE DEF G
<1>3. S \in G  BY <1>1, <1>2, SetInduction
<1>. QED  BY <1>3 DEF G

LEMMA SumWithOneMore ==
    ASSUME NEW S, IsFiniteSet(S), NEW f, \A y \in S : f[y] \in Int,
           NEW T \in SUBSET S, NEW x \in S, x \notin T
    PROVE  /\ SumFunctionOnSet(f, T) \in Int /\ f[x] \in Int
           /\ SumFunctionOnSet(f, T \cup {x}) = f[x] + SumFunctionOnSet(f, T)
<1>1. IsFiniteSet(T) /\ IsFiniteSet(T \cup {x})  BY FS_Subset, FS_AddElement
<1>2. IsSummed(f, T) /\ IsSummed(f, T \cup {x})  BY <1>1, SumPeels
<1>3. (T \cup {x}) \ {x} = T  OBVIOUS
<1>. QED  BY <1>2, <1>3 DEF IsSummed

\* h is a times f plus g.
Linear(h, a, f, g, S) ==
    \A x \in S : f[x] \in Int /\ g[x] \in Int /\ h[x] = a * f[x] + g[x]

LEMMA SumIsLinear ==
    ASSUME NEW S, IsFiniteSet(S), NEW a \in Int, NEW f, NEW g, NEW h,
           Linear(h, a, f, g, S)
    PROVE  SumFunctionOnSet(h, S) = a * SumFunctionOnSet(f, S) + SumFunctionOnSet(g, S)
<1>. DEFINE G == {T \in SUBSET S :
                    SumFunctionOnSet(h, T)
                        = a * SumFunctionOnSet(f, T) + SumFunctionOnSet(g, T)}
<1>. USE DEF Linear
<1>1. {} \in G  BY SumOfNothing
<1>2. ASSUME NEW T \in SUBSET S, NEW x \in S, T \in G, x \notin T
      PROVE  T \cup {x} \in G
  <2>. DEFINE sf == SumFunctionOnSet(f, T)
              sg == SumFunctionOnSet(g, T)
              sh == SumFunctionOnSet(h, T)
  <2>1. \A y \in S : f[y] \in Int /\ g[y] \in Int /\ h[y] \in Int  OBVIOUS
  <2>2. /\ sf \in Int /\ SumFunctionOnSet(f, T \cup {x}) = f[x] + sf
        /\ sg \in Int /\ SumFunctionOnSet(g, T \cup {x}) = g[x] + sg
        /\ sh \in Int /\ SumFunctionOnSet(h, T \cup {x}) = h[x] + sh
    BY <1>2, <2>1, SumWithOneMore
  <2>3. sh = a * sf + sg  BY <1>2
  <2>4. f[x] \in Int /\ g[x] \in Int /\ h[x] = a * f[x] + g[x]  OBVIOUS
  <2>. DEFINE fx == f[x]
              gx == g[x]
  <2>5. fx \in Int /\ gx \in Int /\ sf \in Int /\ sg \in Int  BY <2>2, <2>4
  <2>6. /\ h[x] + sh = (a * fx + gx) + (a * sf + sg)
        /\ SumFunctionOnSet(f, T \cup {x}) = fx + sf
        /\ SumFunctionOnSet(g, T \cup {x}) = gx + sg
        /\ SumFunctionOnSet(h, T \cup {x}) = h[x] + sh
    BY <2>2, <2>3, <2>4
  <2>. HIDE DEF sf, sg, sh, fx, gx
  <2>7. (a * fx + gx) + (a * sf + sg) = a * (fx + sf) + (gx + sg)
    <3>1. a * (fx + sf) = a * fx + a * sf  BY <2>5
    <3>2. a * fx \in Int /\ a * sf \in Int  BY <2>5
    <3>. QED  BY <2>5, <3>1, <3>2
  <2>8. SumFunctionOnSet(h, T \cup {x})
          = a * SumFunctionOnSet(f, T \cup {x}) + SumFunctionOnSet(g, T \cup {x})
    BY <2>6, <2>7
  <2>. QED  BY <2>8
<1>. HIDE DEF G
<1>3. S \in G  BY <1>1, <1>2, SetInduction
<1>. QED  BY <1>3 DEF G

\* A sum of elements in lo .. hi.
Between(f, S, lo, hi) == \A x \in S : f[x] \in Int /\ lo <= f[x] /\ f[x] <= hi

LEMMA SumIsBounded ==
    ASSUME NEW S, IsFiniteSet(S), NEW lo \in Int, NEW hi \in Int, NEW f,
           Between(f, S, lo, hi)
    PROVE  /\ SumFunctionOnSet(f, S) \in Int
           /\ lo * Cardinality(S) <= SumFunctionOnSet(f, S)
           /\ SumFunctionOnSet(f, S) <= hi * Cardinality(S)
<1>. DEFINE G == {T \in SUBSET S :
                    /\ lo * Cardinality(T) <= SumFunctionOnSet(f, T)
                    /\ SumFunctionOnSet(f, T) <= hi * Cardinality(T)}
<1>. USE DEF Between
<1>1. {} \in G
  <2>1. lo * 0 = 0 /\ hi * 0 = 0  OBVIOUS
  <2>. QED  BY <2>1, SumOfNothing, FS_EmptySet
<1>2. ASSUME NEW T \in SUBSET S, NEW x \in S, T \in G, x \notin T
      PROVE  T \cup {x} \in G
  <2>. DEFINE s == SumFunctionOnSet(f, T)
              n == Cardinality(T)
              fx == f[x]
  <2>1. s \in Int /\ SumFunctionOnSet(f, T \cup {x}) = fx + s  BY <1>2, SumWithOneMore
  <2>2. n \in Nat /\ Cardinality(T \cup {x}) = n + 1
    <3>1. IsFiniteSet(T)  BY FS_Subset
    <3>. QED  BY <1>2, <3>1, FS_AddElement, FS_CardinalityType
  <2>3. lo * n <= s /\ s <= hi * n  BY <1>2
  <2>4. fx \in Int /\ lo <= fx /\ fx <= hi  OBVIOUS
  <2>. HIDE DEF s, n, fx
  <2>5. /\ lo * (n + 1) = lo * n + lo /\ hi * (n + 1) = hi * n + hi
        /\ lo * n \in Int /\ hi * n \in Int
    BY <2>2
  <2>6. lo * (n + 1) <= fx + s /\ fx + s <= hi * (n + 1)
    BY <2>1, <2>3, <2>4, <2>5
  <2>. QED  BY <2>1, <2>2, <2>6
<1>. HIDE DEF G
<1>3. S \in G  BY <1>1, <1>2, SetInduction
<1>. QED  BY <1>3, SumIsInt DEF G

LEMMA SumIsConstant ==
    ASSUME NEW S, IsFiniteSet(S), NEW c \in Int, NEW f, \A x \in S : f[x] = c
    PROVE  SumFunctionOnSet(f, S) = c * Cardinality(S)
<1>1. Between(f, S, c, c)  BY DEF Between
<1>2. /\ SumFunctionOnSet(f, S) \in Int
      /\ c * Cardinality(S) <= SumFunctionOnSet(f, S)
      /\ SumFunctionOnSet(f, S) <= c * Cardinality(S)
  BY <1>1, SumIsBounded
<1>3. Cardinality(S) \in Nat  BY FS_CardinalityType
<1>4. c * Cardinality(S) \in Int  BY <1>3
<1>. QED  BY <1>2, <1>4

\* Finitely many integers have a least one.
LEMMA LeastOfFinite ==
    ASSUME NEW S \in SUBSET Int, IsFiniteSet(S), S # {}
    PROVE  \E x \in S : \A y \in S : x <= y
<1>. DEFINE G == {T \in SUBSET S : \E b \in Int : \A y \in T : b <= y}
<1>1. {} \in G  OBVIOUS
<1>2. ASSUME NEW T \in SUBSET S, NEW x \in S, T \in G, x \notin T
      PROVE  T \cup {x} \in G
  <2>1. PICK b \in Int : \A y \in T : b <= y  BY <1>2
  <2>2. CASE b <= x  BY <2>1, <2>2
  <2>3. CASE x < b  BY <2>1, <2>3
  <2>. QED  BY <2>1, <2>2, <2>3
<1>. HIDE DEF G
<1>3. S \in G  BY <1>1, <1>2, SetInduction
<1>4. PICK b \in Int : \A y \in S : b <= y  BY <1>3 DEF G
<1>. QED  BY <1>4, LeastOf

\* What is summed may be named otherwise, as long as no two names are one.
LEMMA SumOverImage ==
    ASSUME NEW S, IsFiniteSet(S), NEW f, NEW g, NEW h,
           \A x, y \in S : g[x] = g[y] => x = y,
           \A x \in S : f[x] \in Int /\ h[g[x]] = f[x]
    PROVE  SumFunctionOnSet(h, {g[x] : x \in S}) = SumFunctionOnSet(f, S)
<1>. DEFINE I(T) == {g[x] : x \in T}
            G == {T \in SUBSET S : SumFunctionOnSet(h, I(T)) = SumFunctionOnSet(f, T)}
<1>1. {} \in G
  <2>1. I({}) = {}  OBVIOUS
  <2>. QED  BY <2>1, SumOfNothing
<1>2. ASSUME NEW T \in SUBSET S, NEW x \in S, T \in G, x \notin T
      PROVE  T \cup {x} \in G
  <2>. DEFINE y == g[x]
              J == I(T)
              all == I(S)
  <2>1. I(T \cup {x}) = J \cup {y} /\ J \in SUBSET all /\ y \in all /\ y \notin J
    <3>1. I(T \cup {x}) = J \cup {y}  OBVIOUS
    <3>2. J \in SUBSET all /\ y \in all  OBVIOUS
    <3>3. y \notin J
      <4>. SUFFICES ASSUME NEW z \in T, g[z] = g[x] PROVE FALSE
        OBVIOUS
      <4>1. z \in S /\ z # x  BY <1>2
      <4>. QED  BY <4>1
    <3>. QED  BY <3>1, <3>2, <3>3
  <2>2. IsFiniteSet(all)  BY ImageIsFinite
  <2>3. \A z \in all : h[z] \in Int  OBVIOUS
  <2>4. SumFunctionOnSet(h, J) = SumFunctionOnSet(f, T)  BY <1>2
  <2>5. h[y] = f[x] /\ \A z \in S : f[z] \in Int  OBVIOUS
  <2>. HIDE DEF y, J, all
  <2>6. SumFunctionOnSet(h, J \cup {y}) = h[y] + SumFunctionOnSet(h, J)
    BY <2>1, <2>2, <2>3, SumWithOneMore
  <2>7. SumFunctionOnSet(f, T \cup {x}) = f[x] + SumFunctionOnSet(f, T)
    BY <1>2, <2>5, SumWithOneMore
  <2>8. SumFunctionOnSet(h, I(T \cup {x})) = SumFunctionOnSet(f, T \cup {x})
    <3>. HIDE DEF I
    <3>. QED  BY <2>1, <2>4, <2>5, <2>6, <2>7
  <2>9. T \cup {x} \in SUBSET S  OBVIOUS
  <2>. HIDE DEF I
  <2>. QED  BY <2>8, <2>9
<1>. HIDE DEF G
<1>3. S \in G  BY <1>1, <1>2, SetInduction
<1>. QED  BY <1>3 DEF G

LEMMA SumIsNatural ==
    ASSUME NEW S, IsFiniteSet(S), NEW f, \A x \in S : f[x] \in Nat
    PROVE  SumFunctionOnSet(f, S) \in Nat
<1>. DEFINE G == {T \in SUBSET S : SumFunctionOnSet(f, T) \in Nat}
<1>1. {} \in G  BY SumOfNothing
<1>2. ASSUME NEW T \in SUBSET S, NEW x \in S, T \in G, x \notin T
      PROVE  T \cup {x} \in G
  <2>1. \A y \in S : f[y] \in Int  OBVIOUS
  <2>2. SumFunctionOnSet(f, T \cup {x}) = f[x] + SumFunctionOnSet(f, T)
    BY <1>2, <2>1, SumWithOneMore
  <2>3. SumFunctionOnSet(f, T) \in Nat /\ f[x] \in Nat  BY <1>2
  <2>. QED  BY <2>2, <2>3
<1>. HIDE DEF G
<1>3. S \in G  BY <1>1, <1>2, SetInduction
<1>. QED  BY <1>3 DEF G

\* Ones over a part of the set, and nothing elsewhere, count the part.
LEMMA SumCounts ==
    ASSUME NEW S, IsFiniteSet(S), NEW P \in SUBSET S, NEW f,
           \A x \in S : f[x] = IF x \in P THEN 1 ELSE 0
    PROVE  SumFunctionOnSet(f, S) = Cardinality(P)
<1>1. IsFiniteSet(P) /\ IsFiniteSet(S \ P)  BY FS_Subset, FS_Difference
<1>2. P \cap (S \ P) = {} /\ P \cup (S \ P) = S  OBVIOUS
<1>3. \A x \in P \cup (S \ P) : f[x] \in Int  OBVIOUS
<1>4. SumFunctionOnSet(f, S) = SumFunctionOnSet(f, P) + SumFunctionOnSet(f, S \ P)
  <2>. DEFINE Q == S \ P
  <2>. HIDE DEF Q
  <2>1. SumFunctionOnSet(f, P \cup Q) = SumFunctionOnSet(f, P) + SumFunctionOnSet(f, Q)
    BY <1>1, <1>2, <1>3, SumSplits DEF Q
  <2>. QED  BY <1>2, <2>1 DEF Q
<1>5. Cardinality(P) \in Nat /\ Cardinality(S \ P) \in Nat  BY <1>1, FS_CardinalityType
<1>6. SumFunctionOnSet(f, P) = 1 * Cardinality(P)
  <2>1. \A x \in P : f[x] = 1  OBVIOUS
  <2>2. 1 \in Int  OBVIOUS
  <2>. QED  BY <1>1, <2>1, <2>2, SumIsConstant
<1>7. SumFunctionOnSet(f, S \ P) = 0 * Cardinality(S \ P)
  <2>1. \A x \in S \ P : f[x] = 0  OBVIOUS
  <2>2. 0 \in Int  OBVIOUS
  <2>. QED  BY <1>1, <2>1, <2>2, SumIsConstant
<1>. QED  BY <1>4, <1>5, <1>6, <1>7

\* A sum may be taken key by key.
WithKey(S, key, k) == {x \in S : key[x] = k}

LEMMA SumByKey ==
    ASSUME NEW S, IsFiniteSet(S), NEW f, \A x \in S : f[x] \in Int,
           NEW Q, IsFiniteSet(Q), NEW key, \A x \in S : key[x] \in Q,
           NEW F, \A k \in Q : F[k] = SumFunctionOnSet(f, WithKey(S, key, k))
    PROVE  SumFunctionOnSet(F, Q) = SumFunctionOnSet(f, S)
<1>. DEFINE Of(R) == {x \in S : key[x] \in R}
            G == {R \in SUBSET Q : SumFunctionOnSet(F, R) = SumFunctionOnSet(f, Of(R))}
<1>1. {} \in G
  <2>1. Of({}) = {} /\ {} \in SUBSET Q  OBVIOUS
  <2>. HIDE DEF Of
  <2>2. SumFunctionOnSet(F, {}) = 0 /\ SumFunctionOnSet(f, {}) = 0  BY SumOfNothing
  <2>3. SumFunctionOnSet(f, Of({})) = 0  BY <2>1, <2>2
  <2>. QED  BY <2>1, <2>2, <2>3
<1>2. \A k \in Q : F[k] \in Int
  <2>1. ASSUME NEW k \in Q PROVE F[k] \in Int
    <3>. DEFINE T == WithKey(S, key, k)
    <3>1. T \in SUBSET S  BY DEF WithKey
    <3>2. F[k] = SumFunctionOnSet(f, T)  OBVIOUS
    <3>. HIDE DEF T
    <3>3. IsFiniteSet(T) /\ \A x \in T : f[x] \in Int  BY <3>1, FS_Subset
    <3>. QED  BY <3>2, <3>3, SumIsInt
  <2>. QED  BY <2>1
<1>3. ASSUME NEW R \in SUBSET Q, NEW k \in Q, R \in G, k \notin R
      PROVE  R \cup {k} \in G
  <2>. DEFINE old == Of(R)
              new == WithKey(S, key, k)
  <2>1. Of(R \cup {k}) = old \cup new /\ old \cap new = {}  BY <1>3 DEF WithKey
  <2>2. IsFiniteSet(old) /\ IsFiniteSet(new) /\ \A x \in old \cup new : f[x] \in Int
    <3>1. old \in SUBSET S /\ new \in SUBSET S  BY DEF WithKey
    <3>. HIDE DEF Of, old, new
    <3>. QED  BY <3>1, FS_Subset
  <2>3. SumFunctionOnSet(F, R) = SumFunctionOnSet(f, old) /\ F[k] = SumFunctionOnSet(f, new)
    BY <1>3
  <2>. HIDE DEF Of, old, new
  <2>4. SumFunctionOnSet(f, old \cup new)
            = SumFunctionOnSet(f, old) + SumFunctionOnSet(f, new)
    BY <2>1, <2>2, SumSplits
  <2>5. /\ SumFunctionOnSet(F, R) \in Int /\ F[k] \in Int
        /\ SumFunctionOnSet(F, R \cup {k}) = F[k] + SumFunctionOnSet(F, R)
    <3>1. SumFunctionOnSet(F, R \cup {k}) = F[k] + SumFunctionOnSet(F, R)
      BY <1>2, <1>3, SumWithOneMore
    <3>2. IsFiniteSet(R) /\ \A x \in R : F[x] \in Int  BY <1>2, FS_Subset
    <3>3. SumFunctionOnSet(F, R) \in Int  BY <3>2, SumIsInt
    <3>. QED  BY <1>2, <3>1, <3>3
  <2>6. SumFunctionOnSet(F, R \cup {k}) = SumFunctionOnSet(f, Of(R \cup {k}))
    <3>1. SumFunctionOnSet(f, Of(R \cup {k})) = SumFunctionOnSet(f, old \cup new)
      BY <2>1
    <3>. DEFINE total == SumFunctionOnSet(f, old)
                one == SumFunctionOnSet(f, new)
    <3>2. total \in Int /\ one \in Int  BY <2>3, <2>5
    <3>. HIDE DEF total, one
    <3>. QED  BY <2>3, <2>4, <2>5, <3>1, <3>2 DEF total, one
  <2>7. R \cup {k} \in SUBSET Q  OBVIOUS
  <2>. QED  BY <2>6, <2>7
<1>. HIDE DEF G
<1>4. Q \in G  BY <1>1, <1>3, SetInduction
<1>5. Of(Q) = S  OBVIOUS
<1>. QED  BY <1>4, <1>5 DEF G

\* Sums over the same set of numbers that are exchanged for others one by one.
LEMMA SumOfDifference ==
    ASSUME NEW S, IsFiniteSet(S), NEW f, NEW g, NEW h,
           \A x \in S : f[x] \in Int /\ g[x] \in Int /\ h[x] = f[x] - g[x]
    PROVE  SumFunctionOnSet(h, S) = SumFunctionOnSet(f, S) - SumFunctionOnSet(g, S)
<1>. DEFINE minus == -1
            F == SumFunctionOnSet(f, S)
            H == SumFunctionOnSet(g, S)
<1>1. minus \in Int /\ Linear(h, minus, g, f, S)  BY DEF Linear
<1>2. F \in Int /\ H \in Int  BY SumIsInt
<1>3. -1 * H + F = F - H  BY <1>2
<1>. HIDE DEF minus
<1>4. SumFunctionOnSet(h, S) = minus * H + F  BY <1>1, SumIsLinear
<1>5. minus * H + F = -1 * H + F
  <2>. HIDE DEF F, H
  <2>. QED  BY <1>2 DEF minus
<1>6. SumFunctionOnSet(h, S) = F - H  BY <1>3, <1>4, <1>5
<1>. QED  BY <1>6

\* What adds up outside a part of the set to nothing can be left out.
LEMMA SumOfPart ==
    ASSUME NEW S, IsFiniteSet(S), NEW f, NEW T \in SUBSET S, \A x \in T : f[x] \in Int,
           \A x \in S \ T : f[x] = 0
    PROVE  SumFunctionOnSet(f, S) = SumFunctionOnSet(f, T)
<1>. DEFINE R == S \ T
            zero == 0
<1>1. T \cup R = S /\ T \cap R = {}  OBVIOUS
<1>2. IsFiniteSet(T) /\ IsFiniteSet(R)  BY FS_Subset, FS_Difference
<1>3. \A x \in R : f[x] = zero  OBVIOUS
<1>4. \A x \in T \cup R : f[x] \in Int  BY <1>3
<1>5. zero * Cardinality(R) = 0  BY <1>2, FS_CardinalityType
<1>6. zero \in Int  OBVIOUS
<1>. HIDE DEF R, zero
<1>7. SumFunctionOnSet(f, T \cup R) = SumFunctionOnSet(f, T) + SumFunctionOnSet(f, R)
  BY <1>1, <1>2, <1>4, SumSplits
<1>8. SumFunctionOnSet(f, R) = 0  BY <1>2, <1>3, <1>5, <1>6, SumIsConstant
<1>9. SumFunctionOnSet(f, T) \in Int  BY <1>2, SumIsInt
<1>10. SumFunctionOnSet(f, T \cup R) = SumFunctionOnSet(f, S)  BY <1>1, Zenon
<1>. QED  BY <1>7, <1>8, <1>9, <1>10

LEMMA SumOfOne ==
    ASSUME NEW x, NEW f, f[x] \in Int
    PROVE  SumFunctionOnSet(f, {x}) = f[x]
<1>. DEFINE S == {x}
<1>1. IsFiniteSet(S) /\ \A y \in S : f[y] \in Int  BY FS_Singleton
<1>. DEFINE T == {}
<1>2. T \in SUBSET S /\ x \in S /\ x \notin T /\ T \cup {x} = S  OBVIOUS
<1>3. SumFunctionOnSet(f, T) = 0  BY SumOfNothing
<1>. HIDE DEF S, T
<1>4. SumFunctionOnSet(f, T \cup {x}) = f[x] + SumFunctionOnSet(f, T)
  BY <1>1, <1>2, SumWithOneMore
<1>5. SumFunctionOnSet(f, T \cup {x}) = SumFunctionOnSet(f, S)  BY <1>2, Zenon
<1>. QED  BY <1>3, <1>4, <1>5 DEF S

\* The part of a set with one key may be summed over what else tells it apart.
LEMMA SumOfSlice ==
    ASSUME NEW P, NEW d, NEW key, NEW x, NEW Q, IsFiniteSet(Q), NEW g, NEW back, NEW f,
           \A k \in Q : g[k] \in P /\ key[g[k]] = x /\ back[g[k]] = k,
           \A z \in P : key[z] = x => back[z] \in Q /\ g[back[z]] = z,
           \A k \in Q : f[k] \in Int /\ d[g[k]] = f[k]
    PROVE  SumFunctionOnSet(d, WithKey(P, key, x)) = SumFunctionOnSet(f, Q)
<1>1. WithKey(P, key, x) = {g[k] : k \in Q}  BY DEF WithKey
<1>2. \A k, l \in Q : g[k] = g[l] => k = l
  <2>. SUFFICES ASSUME NEW k \in Q, NEW l \in Q, g[k] = g[l] PROVE k = l
    OBVIOUS
  <2>1. back[g[k]] = k /\ back[g[l]] = l  OBVIOUS
  <2>. QED  BY <2>1
<1>3. SumFunctionOnSet(d, {g[k] : k \in Q}) = SumFunctionOnSet(f, Q)  BY <1>2, SumOverImage
<1>. QED  BY <1>1, <1>3

\* The sum over the second part of the pairs in S \X Q, and over the first.
RowSum(d, x, Q) == SumFunctionOnSet([k \in Q |-> d[<<x, k>>]], Q)
ColumnSum(d, S, k) == SumFunctionOnSet([x \in S |-> d[<<x, k>>]], S)

\* A sum of sums does not depend on which is taken first.
LEMMA SumsExchange ==
    ASSUME NEW S, IsFiniteSet(S), NEW Q, IsFiniteSet(Q), NEW d,
           \A x \in S, k \in Q : d[<<x, k>>] \in Int,
           NEW F, \A x \in S : F[x] = RowSum(d, x, Q),
           NEW G, \A k \in Q : G[k] = ColumnSum(d, S, k)
    PROVE  SumFunctionOnSet(F, S) = SumFunctionOnSet(G, Q)
<1>. DEFINE P == S \X Q
            first == [z \in P |-> z[1]]
            second == [z \in P |-> z[2]]
<1>1. IsFiniteSet(P)  BY FS_Product
<1>2. \A z \in P : /\ first[z] \in S /\ second[z] \in Q /\ z = <<first[z], second[z]>>
  OBVIOUS
<1>3. \A x \in S, k \in Q :
          <<x, k>> \in P /\ first[<<x, k>>] = x /\ second[<<x, k>>] = k
  OBVIOUS
<1>. HIDE DEF P, first, second
<1>4. \A z \in P : d[z] \in Int  BY <1>2
<1>5. ASSUME NEW x \in S
      PROVE  F[x] = SumFunctionOnSet(d, WithKey(P, first, x))
  <2>. DEFINE g == [k \in Q |-> <<x, k>>]
              f == [k \in Q |-> d[<<x, k>>]]
  <2>1. \A k \in Q : g[k] = <<x, k>> /\ f[k] = d[<<x, k>>]  OBVIOUS
  <2>2. F[x] = SumFunctionOnSet(f, Q)  BY DEF RowSum
  <2>. HIDE DEF g, f
  <2>3. \A k \in Q : g[k] \in P /\ first[g[k]] = x /\ second[g[k]] = k
    <3>. SUFFICES ASSUME NEW k \in Q PROVE g[k] \in P /\ first[g[k]] = x /\ second[g[k]] = k
      OBVIOUS
    <3>1. g[k] = <<x, k>>  BY <2>1
    <3>. QED  BY <1>3, <3>1
  <2>4. \A z \in P : first[z] = x => second[z] \in Q /\ g[second[z]] = z
    <3>. SUFFICES ASSUME NEW z \in P, first[z] = x
                  PROVE  second[z] \in Q /\ g[second[z]] = z
      OBVIOUS
    <3>1. second[z] \in Q /\ z = <<x, second[z]>>  BY <1>2
    <3>. QED  BY <2>1, <3>1
  <2>5. \A k \in Q : f[k] \in Int /\ d[g[k]] = f[k]  BY <2>1
  <2>6. SumFunctionOnSet(d, WithKey(P, first, x)) = SumFunctionOnSet(f, Q)
    BY <2>3, <2>4, <2>5, SumOfSlice
  <2>. QED  BY <2>2, <2>6
<1>6. ASSUME NEW k \in Q
      PROVE  G[k] = SumFunctionOnSet(d, WithKey(P, second, k))
  <2>. DEFINE g == [x \in S |-> <<x, k>>]
              f == [x \in S |-> d[<<x, k>>]]
  <2>1. \A x \in S : g[x] = <<x, k>> /\ f[x] = d[<<x, k>>]  OBVIOUS
  <2>2. G[k] = SumFunctionOnSet(f, S)  BY DEF ColumnSum
  <2>. HIDE DEF g, f
  <2>3. \A x \in S : g[x] \in P /\ second[g[x]] = k /\ first[g[x]] = x
    <3>. SUFFICES ASSUME NEW x \in S PROVE g[x] \in P /\ second[g[x]] = k /\ first[g[x]] = x
      OBVIOUS
    <3>1. g[x] = <<x, k>>  BY <2>1
    <3>. QED  BY <1>3, <3>1
  <2>4. \A z \in P : second[z] = k => first[z] \in S /\ g[first[z]] = z
    <3>. SUFFICES ASSUME NEW z \in P, second[z] = k
                  PROVE  first[z] \in S /\ g[first[z]] = z
      OBVIOUS
    <3>1. first[z] \in S /\ z = <<first[z], k>>  BY <1>2
    <3>. QED  BY <2>1, <3>1
  <2>5. \A x \in S : f[x] \in Int /\ d[g[x]] = f[x]  BY <2>1
  <2>6. SumFunctionOnSet(d, WithKey(P, second, k)) = SumFunctionOnSet(f, S)
    BY <2>3, <2>4, <2>5, SumOfSlice
  <2>. QED  BY <2>2, <2>6
<1>7. \A z \in P : d[z] \in Int /\ first[z] \in S /\ second[z] \in Q  BY <1>2, <1>4
<1>8. SumFunctionOnSet(F, S) = SumFunctionOnSet(d, P)  BY <1>1, <1>5, <1>7, SumByKey
<1>9. SumFunctionOnSet(G, Q) = SumFunctionOnSet(d, P)  BY <1>1, <1>6, <1>7, SumByKey
<1>. QED  BY <1>8, <1>9
=============================================================================
