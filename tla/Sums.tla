-------------------------------- MODULE Sums --------------------------------
(***************************************************************************)
(* Sums over finite sets: what the figures of the dashboard, the pages of  *)
(* customers and the audit trail of Anthropic calls are made of.           *)
(*                                                                         *)
(* SumFunctionOnSet folds a function over a set in an order nobody chose.  *)
(* The lemmas say that the order does not matter, and how a sum moves when *)
(* its set or its summands do.  Each is an induction over the subsets of   *)
(* the set, by a smallest subset for which the claim fails.                *)
(***************************************************************************)
EXTENDS Integers, FiniteSets, FiniteSetsExt, Functions, FiniteSetTheorems,
        WellFoundedInduction, TLAPS

\* g is the function the fold of f over S iterates.
IsSum(g, f, S) ==
    g = [T \in SUBSET S |->
           IF T = {} THEN 0 ELSE LET x == CHOOSE x \in T : TRUE IN f[x] + g[T \ {x}]]

\* A sum is a value of the function the fold iterates.
LEMMA SumIsFold ==
    ASSUME NEW f, NEW S
    PROVE  SumFunctionOnSet(f, S) = (CHOOSE g : IsSum(g, f, S))[S]
BY DEF SumFunctionOnSet, FoldFunctionOnSet, MapThenFoldSet, IsSum

\* The sum of a LAMBDA is the sum of a function.
LEMMA SumOfLambda ==
    ASSUME NEW f, NEW S
    PROVE  MapThenSumSet(LAMBDA x : f[x], S) = SumFunctionOnSet(f, S)
BY DEF MapThenSumSet, MapThenFoldSet, SumFunctionOnSet, FoldFunctionOnSet

-----------------------------------------------------------------------------
(* Induction over the subsets of a finite set.                             *)

\* Of the subsets that are bad, one has no bad subset of its own.
LEMMA SmallestBad ==
    ASSUME NEW S, IsFiniteSet(S), NEW Bad, Bad \subseteq SUBSET S, Bad # {}
    PROVE  \E T \in Bad : \A U \in Bad : U \subseteq T => U = T
<1>1. IsWellFoundedOn(StrictSubsetOrdering(S), SUBSET S)
  BY FS_FiniteSubsetsOfFinite, FS_StrictSubsetOrderingWellFounded
<1>2. PICK T \in Bad : \A U \in Bad : <<U, T>> \notin StrictSubsetOrdering(S)
  BY <1>1, WFMin
<1> QED
  BY <1>2 DEF StrictSubsetOrdering

\* What holds for no elements, and for one more, holds for all.
LEMMA SubsetInduction ==
    ASSUME NEW S, IsFiniteSet(S), NEW Good, {} \in Good,
           \A T \in SUBSET S : \A x \in S \ T : T \in Good => T \cup {x} \in Good
    PROVE  S \in Good
<1> SUFFICES ASSUME S \notin Good PROVE FALSE
  OBVIOUS
<1> DEFINE Bad == {T \in SUBSET S : T \notin Good}
<1>1. PICK T \in Bad : \A U \in Bad : U \subseteq T => U = T
  <2>1. Bad \subseteq SUBSET S /\ Bad # {}
    OBVIOUS
  <2> HIDE DEF Bad
  <2> QED
    BY <2>1, SmallestBad
<1>2. PICK x \in T : TRUE
  BY <1>1
<1>3. T \ {x} \in Good
  BY <1>1, <1>2
<1>4. T = (T \ {x}) \cup {x}
  BY <1>2
<1> QED
  BY <1>1, <1>2, <1>3, <1>4

-----------------------------------------------------------------------------
(* The fold is well defined.                                               *)

\* Two iterations, over a set and over one of its subsets, agree.
LEMMA SumUnique ==
    ASSUME NEW S, IsFiniteSet(S), NEW T \in SUBSET S, NEW f, NEW g, NEW h,
           IsSum(g, f, S), IsSum(h, f, T), NEW U \in SUBSET T
    PROVE  g[U] = h[U]
<1> SUFFICES ASSUME g[U] # h[U] PROVE FALSE
  OBVIOUS
<1> DEFINE Bad == {V \in SUBSET T : g[V] # h[V]}
<1>1. PICK V \in Bad : \A W \in Bad : W \subseteq V => W = V
  <2>1. Bad \subseteq SUBSET S /\ Bad # {}
    OBVIOUS
  <2> HIDE DEF Bad
  <2> QED
    BY <2>1, SmallestBad
<1>2. V # {}
  BY <1>1 DEF IsSum
<1> DEFINE x == CHOOSE x \in V : TRUE
<1>3. x \in V
  BY <1>2
<1>4. g[V] = f[x] + g[V \ {x}] /\ h[V] = f[x] + h[V \ {x}]
  BY <1>1, <1>2 DEF IsSum
<1>5. g[V \ {x}] = h[V \ {x}]
  <2> HIDE DEF x
  <2> QED
    BY <1>1, <1>3
<1> QED
  BY <1>1, <1>4, <1>5

\* There is an iteration.
LEMMA SumExists ==
    ASSUME NEW S, IsFiniteSet(S), NEW f
    PROVE  \E g : IsSum(g, f, S)
<1> SUFFICES ASSUME ~ \E g : IsSum(g, f, S) PROVE FALSE
  OBVIOUS
<1> DEFINE Bad == {T \in SUBSET S : ~ \E g : IsSum(g, f, T)}
<1>1. PICK T \in Bad : \A U \in Bad : U \subseteq T => U = T
  <2>1. Bad \subseteq SUBSET S /\ Bad # {}
    OBVIOUS
  <2> HIDE DEF Bad
  <2> QED
    BY <2>1, SmallestBad
<1> DEFINE of(U) == CHOOSE g : IsSum(g, f, U)
           part(U) == of(U)[U]
           whole == [U \in SUBSET T |->
                       IF U = {} THEN 0
                       ELSE LET x == CHOOSE x \in U : TRUE IN f[x] + part(U \ {x})]
<1>2. ASSUME NEW U \in SUBSET T, U # T
      PROVE  IsSum(of(U), f, U)
  <2>1. U \notin Bad
    BY <1>1, <1>2
  <2>2. \E g : IsSum(g, f, U)
    BY <1>1, <2>1
  <2> QED
    BY <2>2
<1>3. ASSUME NEW U \in SUBSET T, U # T
      PROVE  whole[U] = part(U)
  <2>1. CASE U = {}
    <3>1. part(U) = 0
      <4> DEFINE g == of(U)
      <4>1. IsSum(g, f, U)
        BY <1>2, <1>3
      <4> HIDE DEF g
      <4>2. g[U] = 0
        BY <4>1, <2>1 DEF IsSum
      <4> QED
        BY <4>2 DEF g
    <3> HIDE DEF part
    <3> QED
      BY <2>1, <3>1
  <2>2. CASE U # {}
    <3> DEFINE x == CHOOSE x \in U : TRUE
    <3>1. x \in U
      BY <2>2
    <3>2. U \ {x} \in SUBSET T /\ U \ {x} # T /\ U \ {x} \in SUBSET U
      BY <1>3
    <3>3. part(U) = f[x] + of(U)[U \ {x}]
      <4> DEFINE g == of(U)
      <4>1. IsSum(g, f, U)
        BY <1>2, <1>3
      <4> HIDE DEF g
      <4>2. g[U] = f[x] + g[U \ {x}]
        BY <4>1, <2>2 DEF IsSum
      <4> QED
        BY <4>2 DEF g
    <3>4. of(U)[U \ {x}] = part(U \ {x})
      <4> DEFINE g == of(U)
                 h == of(U \ {x})
                 V == U \ {x}
      <4>1. IsSum(g, f, U) /\ IsSum(h, f, V)
        BY <1>2, <1>3, <3>2
      <4>2. IsFiniteSet(U)
        BY <1>1, <1>3, FS_Subset
      <4>3. V \in SUBSET U
        BY <3>2
      <4> HIDE DEF g, h, V
      <4>4. g[V] = h[V]
        BY <4>1, <4>2, <4>3, SumUnique
      <4> QED
        BY <4>4 DEF g, h, V
    <3>5. whole[U] = f[x] + part(U \ {x})
      <4> HIDE DEF part
      <4> QED
        BY <2>2
    <3> QED
      BY <3>3, <3>4, <3>5
  <2> QED
    BY <2>1, <2>2
<1>4. IsSum(whole, f, T)
  <2> DEFINE again == [U \in SUBSET T |->
                         IF U = {} THEN 0
                         ELSE LET x == CHOOSE x \in U : TRUE IN f[x] + whole[U \ {x}]]
  <2>1. ASSUME NEW U \in SUBSET T
        PROVE  whole[U] = again[U]
    <3>1. CASE U = {}
      <4> HIDE DEF part
      <4> QED
        BY <3>1
    <3>2. CASE U # {}
      <4> DEFINE x == CHOOSE x \in U : TRUE
      <4>1. x \in U
        BY <3>2
      <4>2. U \ {x} \in SUBSET T /\ U \ {x} # T
        BY <4>1
      <4>3. whole[U \ {x}] = part(U \ {x})
        BY <1>3, <4>2
      <4>4. whole[U] = f[x] + part(U \ {x})
        <5> HIDE DEF part
        <5> QED
          BY <3>2
      <4> HIDE DEF whole
      <4>5. again[U] = f[x] + whole[U \ {x}]
        BY <3>2
      <4> QED
        BY <4>3, <4>4, <4>5
    <3> QED
      BY <3>1, <3>2
  <2>2. whole = again
    <3>1. DOMAIN whole = SUBSET T /\ DOMAIN again = SUBSET T
      OBVIOUS
    <3>2. whole = [U \in SUBSET T |-> whole[U]] /\ again = [U \in SUBSET T |-> again[U]]
      OBVIOUS
    <3> HIDE DEF whole, again
    <3> QED
      BY <2>1, <3>2
  <2> HIDE DEF whole
  <2> QED
    BY <2>2 DEF IsSum
<1> HIDE DEF whole
<1> QED
  BY <1>1, <1>4

-----------------------------------------------------------------------------
(* What a sum is.                                                          *)

\* No summands.
LEMMA SumEmpty ==
    ASSUME NEW f
    PROVE  SumFunctionOnSet(f, {}) = 0
<1> DEFINE g == CHOOSE g : IsSum(g, f, {})
<1>1. IsSum(g, f, {})
  BY SumExists, FS_EmptySet
<1> HIDE DEF g
<1>2. g[{}] = 0
  BY <1>1 DEF IsSum
<1> QED
  BY <1>2, SumIsFold DEF g

\* The element that the fold starts with.
LEMMA SumChosen ==
    ASSUME NEW S, IsFiniteSet(S), NEW f, S # {}
    PROVE  \E x \in S : SumFunctionOnSet(f, S) = f[x] + SumFunctionOnSet(f, S \ {x})
<1> DEFINE x == CHOOSE x \in S : TRUE
           T == S \ {x}
           g == CHOOSE g : IsSum(g, f, S)
           h == CHOOSE h : IsSum(h, f, T)
<1>1. x \in S
  OBVIOUS
<1>2. IsFiniteSet(T) /\ T \in SUBSET S
  BY FS_Subset
<1>3. IsSum(g, f, S)
  BY SumExists
<1>4. IsSum(h, f, T)
  <2> HIDE DEF T
  <2> QED
    BY <1>2, SumExists
<1>5. SumFunctionOnSet(f, S) = g[S] /\ SumFunctionOnSet(f, T) = h[T]
  <2> HIDE DEF T
  <2> QED
    BY SumIsFold
<1> HIDE DEF g, h
<1>6. g[S] = f[x] + g[T]
  BY <1>3 DEF IsSum
<1> HIDE DEF T
<1>7. g[T] = h[T]
  BY <1>2, <1>3, <1>4, SumUnique
<1> QED
  BY <1>1, <1>5, <1>6, <1>7 DEF T

\* A sum of integers is one, and any element may be added last.
LEMMA SumPick ==
    ASSUME NEW S, IsFiniteSet(S), NEW f, \A x \in S : f[x] \in Int
    PROVE  /\ SumFunctionOnSet(f, S) \in Int
           /\ \A x \in S : SumFunctionOnSet(f, S) = f[x] + SumFunctionOnSet(f, S \ {x})
<1> DEFINE Sum(T) == SumFunctionOnSet(f, T)
           Bad == {T \in SUBSET S : ~ /\ Sum(T) \in Int
                                      /\ \A x \in T : Sum(T) = f[x] + Sum(T \ {x})}
<1> SUFFICES ASSUME Bad # {} PROVE FALSE
  OBVIOUS
<1>1. PICK T \in Bad : \A U \in Bad : U \subseteq T => U = T
  <2>1. Bad \subseteq SUBSET S
    OBVIOUS
  <2> HIDE DEF Bad
  <2> QED
    BY <2>1, SmallestBad
<1>2. Sum({}) = 0
  BY SumEmpty
<1>3. ASSUME NEW U \in SUBSET T, U # T
      PROVE  Sum(U) \in Int /\ \A x \in U : Sum(U) = f[x] + Sum(U \ {x})
  <2>1. U \notin Bad
    BY <1>1, <1>3
  <2> HIDE DEF Sum
  <2> QED
    BY <1>1, <2>1
<1>4. T # {} /\ IsFiniteSet(T)
  <2>1. /\ T \in SUBSET S
        /\ ~ (Sum(T) \in Int /\ \A x \in T : Sum(T) = f[x] + Sum(T \ {x}))
    BY <1>1
  <2> HIDE DEF Sum, Bad
  <2>2. T # {}
    BY <1>2, <2>1
  <2> QED
    BY <2>1, <2>2, FS_Subset
<1>5. PICK x \in T : Sum(T) = f[x] + Sum(T \ {x})
  BY <1>4, SumChosen
<1> HIDE DEF Sum
<1>6. f[x] \in Int /\ Sum(T \ {x}) \in Int
  BY <1>1, <1>3
<1>7. ASSUME NEW y \in T PROVE Sum(T) = f[y] + Sum(T \ {y})
  <2>1. CASE y = x
    BY <1>5, <2>1
  <2>2. CASE y # x
    <3> DEFINE both == (T \ {x}) \ {y}
    <3>1. f[y] \in Int /\ Sum(T \ {y}) \in Int
      BY <1>1, <1>3
    <3>2. Sum(T \ {x}) = f[y] + Sum(both)
      BY <1>3, <2>2
    <3>3. both = (T \ {y}) \ {x}
      OBVIOUS
    <3>4. Sum(T \ {y}) = f[x] + Sum(both)
      BY <1>3, <2>2, <3>3
    <3>5. both \in SUBSET T /\ both # T
      OBVIOUS
    <3> HIDE DEF both
    <3>6. Sum(both) \in Int
      BY <1>3, <3>5
    <3> QED
      BY <1>5, <1>6, <3>1, <3>2, <3>4, <3>6
  <2> QED
    BY <2>1, <2>2
<1> QED
  BY <1>1, <1>5, <1>6, <1>7

\* One element more.
LEMMA SumAdd ==
    ASSUME NEW S, IsFiniteSet(S), NEW x, x \notin S, NEW f,
           \A y \in S \cup {x} : f[y] \in Int
    PROVE  /\ IsFiniteSet(S \cup {x})
           /\ SumFunctionOnSet(f, S) \in Int
           /\ SumFunctionOnSet(f, S \cup {x}) = f[x] + SumFunctionOnSet(f, S)
<1> DEFINE T == S \cup {x}
<1>1. IsFiniteSet(T)
  BY FS_AddElement
<1>2. x \in T /\ T \ {x} = S
  OBVIOUS
<1> HIDE DEF T
<1>3. SumFunctionOnSet(f, T) = f[x] + SumFunctionOnSet(f, S)
  BY <1>1, <1>2, SumPick DEF T
<1> QED
  BY <1>1, <1>3, SumPick DEF T

-----------------------------------------------------------------------------
(* How sums compare.                                                       *)

\* Summands that are not negative.
LEMMA SumNat ==
    ASSUME NEW S, IsFiniteSet(S), NEW f, \A x \in S : f[x] \in Nat
    PROVE  SumFunctionOnSet(f, S) \in Nat
<1> DEFINE Good == {T \in SUBSET S : SumFunctionOnSet(f, T) \in Nat}
<1>1. {} \in Good
  BY SumEmpty
<1>2. ASSUME NEW T \in SUBSET S, NEW x \in S \ T, T \in Good
      PROVE  T \cup {x} \in Good
  BY <1>2, SumAdd, FS_Subset
<1>3. S \in Good
  <2> HIDE DEF Good
  <2> QED
    BY <1>1, <1>2, SubsetInduction
<1> QED
  BY <1>3

\* No summand grows: neither does the sum.
LEMMA SumLeq ==
    ASSUME NEW S, IsFiniteSet(S), NEW f, NEW g,
           \A x \in S : f[x] \in Int /\ g[x] \in Int /\ f[x] <= g[x]
    PROVE  SumFunctionOnSet(f, S) <= SumFunctionOnSet(g, S)
<1> DEFINE Good == {T \in SUBSET S : SumFunctionOnSet(f, T) <= SumFunctionOnSet(g, T)}
<1>1. {} \in Good
  BY SumEmpty
<1>2. ASSUME NEW T \in SUBSET S, NEW x \in S \ T, T \in Good
      PROVE  T \cup {x} \in Good
  <2> DEFINE F == SumFunctionOnSet(f, T)
             G == SumFunctionOnSet(g, T)
  <2>1. IsFiniteSet(T)
    BY FS_Subset
  <2>2. SumFunctionOnSet(f, T \cup {x}) = f[x] + F /\ F \in Int
    BY <2>1, SumAdd
  <2>3. SumFunctionOnSet(g, T \cup {x}) = g[x] + G /\ G \in Int
    BY <2>1, SumAdd
  <2>4. F <= G
    BY <1>2
  <2> HIDE DEF F, G
  <2> QED
    BY <2>2, <2>3, <2>4
<1>3. S \in Good
  <2> HIDE DEF Good
  <2> QED
    BY <1>1, <1>2, SubsetInduction
<1> QED
  BY <1>3

\* Summands that are the same on the set.
LEMMA SumSame ==
    ASSUME NEW S, IsFiniteSet(S), NEW f, NEW g,
           \A x \in S : f[x] \in Int /\ g[x] = f[x]
    PROVE  SumFunctionOnSet(f, S) = SumFunctionOnSet(g, S)
<1>1. SumFunctionOnSet(f, S) \in Int /\ SumFunctionOnSet(g, S) \in Int
  BY SumPick
<1>2. SumFunctionOnSet(f, S) <= SumFunctionOnSet(g, S)
  BY SumLeq
<1>3. SumFunctionOnSet(g, S) <= SumFunctionOnSet(f, S)
  BY SumLeq
<1> QED
  BY <1>1, <1>2, <1>3

\* Two sums are the sum of the two.
LEMMA SumBoth ==
    ASSUME NEW S, IsFiniteSet(S), NEW f, NEW g, NEW h,
           \A x \in S : f[x] \in Int /\ g[x] \in Int /\ h[x] = f[x] + g[x]
    PROVE  SumFunctionOnSet(h, S) = SumFunctionOnSet(f, S) + SumFunctionOnSet(g, S)
<1> DEFINE Good == {T \in SUBSET S :
             SumFunctionOnSet(h, T) = SumFunctionOnSet(f, T) + SumFunctionOnSet(g, T)}
<1>1. {} \in Good
  BY SumEmpty
<1>2. ASSUME NEW T \in SUBSET S, NEW x \in S \ T, T \in Good
      PROVE  T \cup {x} \in Good
  <2> DEFINE F == SumFunctionOnSet(f, T)
             G == SumFunctionOnSet(g, T)
             H == SumFunctionOnSet(h, T)
  <2>1. IsFiniteSet(T)
    BY FS_Subset
  <2>2. SumFunctionOnSet(f, T \cup {x}) = f[x] + F /\ F \in Int
    BY <2>1, SumAdd
  <2>3. SumFunctionOnSet(g, T \cup {x}) = g[x] + G /\ G \in Int
    BY <2>1, SumAdd
  <2>4. SumFunctionOnSet(h, T \cup {x}) = h[x] + H /\ H \in Int
    <3>1. \A y \in T \cup {x} : h[y] \in Int
      OBVIOUS
    <3> QED
      BY <2>1, <3>1, SumAdd
  <2>5. H = F + G
    BY <1>2
  <2> HIDE DEF F, G, H
  <2>6. f[x] \in Int /\ g[x] \in Int /\ h[x] = f[x] + g[x]
    OBVIOUS
  <2> QED
    BY <2>2, <2>3, <2>4, <2>5, <2>6
<1>3. S \in Good
  <2> HIDE DEF Good
  <2> QED
    BY <1>1, <1>2, SubsetInduction
<1> QED
  BY <1>3

\* Sets that have nothing in common.
LEMMA SumDisjoint ==
    ASSUME NEW S, IsFiniteSet(S), NEW T, IsFiniteSet(T), S \cap T = {}, NEW f,
           \A x \in S \cup T : f[x] \in Int
    PROVE  /\ SumFunctionOnSet(f, S) \in Int
           /\ SumFunctionOnSet(f, T) \in Int
           /\ SumFunctionOnSet(f, S \cup T) = SumFunctionOnSet(f, S) + SumFunctionOnSet(f, T)
<1> DEFINE Good == {U \in SUBSET T :
             SumFunctionOnSet(f, S \cup U) = SumFunctionOnSet(f, S) + SumFunctionOnSet(f, U)}
<1>0. SumFunctionOnSet(f, S) \in Int /\ SumFunctionOnSet(f, T) \in Int
  BY SumPick
<1>1. {} \in Good
  <2>1. S \cup {} = S
    OBVIOUS
  <2> QED
    BY <1>0, <2>1, SumEmpty
<1>2. ASSUME NEW U \in SUBSET T, NEW x \in T \ U, U \in Good
      PROVE  U \cup {x} \in Good
  <2> DEFINE V == S \cup U
  <2>1. IsFiniteSet(U)
    BY FS_Subset
  <2>2. IsFiniteSet(V)
    BY <2>1, FS_Union
  <2>3. SumFunctionOnSet(f, U \cup {x}) = f[x] + SumFunctionOnSet(f, U)
        /\ SumFunctionOnSet(f, U) \in Int
    BY <2>1, SumAdd
  <2>4. x \notin V /\ V \cup {x} = S \cup (U \cup {x})
    OBVIOUS
  <2>5. SumFunctionOnSet(f, V) = SumFunctionOnSet(f, S) + SumFunctionOnSet(f, U)
    BY <1>2
  <2>6. \A y \in V \cup {x} : f[y] \in Int
    OBVIOUS
  <2> HIDE DEF V
  <2>7. SumFunctionOnSet(f, V \cup {x}) = f[x] + SumFunctionOnSet(f, V)
    BY <2>2, <2>4, <2>6, SumAdd
  <2>8. f[x] \in Int
    OBVIOUS
  <2>9. SumFunctionOnSet(f, V \cup {x})
          = SumFunctionOnSet(f, S) + SumFunctionOnSet(f, U \cup {x})
    BY <1>0, <2>3, <2>5, <2>7, <2>8
  <2> QED
    BY <2>4, <2>9
<1>3. T \in Good
  <2> HIDE DEF Good
  <2> QED
    BY <1>1, <1>2, SubsetInduction
<1> QED
  BY <1>0, <1>3

\* A larger set of summands that are not negative.
LEMMA SumSubset ==
    ASSUME NEW T, IsFiniteSet(T), NEW S \in SUBSET T, NEW f, \A x \in T : f[x] \in Nat
    PROVE  SumFunctionOnSet(f, S) <= SumFunctionOnSet(f, T)
<1> DEFINE rest == T \ S
<1>1. IsFiniteSet(S) /\ IsFiniteSet(rest)
  BY FS_Subset
<1>2. S \cap rest = {} /\ S \cup rest = T /\ \A x \in S \cup rest : f[x] \in Int
  OBVIOUS
<1>3. \A x \in rest : f[x] \in Nat
  OBVIOUS
<1> HIDE DEF rest
<1>4. SumFunctionOnSet(f, T) = SumFunctionOnSet(f, S) + SumFunctionOnSet(f, rest)
  BY <1>1, <1>2, SumDisjoint
<1>5. SumFunctionOnSet(f, rest) \in Nat /\ SumFunctionOnSet(f, S) \in Nat
  BY <1>1, <1>3, SumNat
<1> QED
  BY <1>4, <1>5

\* One summand changes.
LEMMA SumChange ==
    ASSUME NEW S, IsFiniteSet(S), NEW x \in S, NEW f, NEW g,
           \A y \in S : f[y] \in Int /\ g[y] \in Int,
           \A y \in S \ {x} : g[y] = f[y]
    PROVE  SumFunctionOnSet(g, S) - SumFunctionOnSet(f, S) = g[x] - f[x]
<1> DEFINE rest == S \ {x}
<1>1. IsFiniteSet(rest) /\ \A y \in rest : f[y] \in Int /\ g[y] = f[y]
  BY FS_Subset
<1>2. SumFunctionOnSet(f, S) = f[x] + SumFunctionOnSet(f, rest)
  BY SumPick
<1>3. SumFunctionOnSet(g, S) = g[x] + SumFunctionOnSet(g, rest)
  BY SumPick
<1>4. f[x] \in Int /\ g[x] \in Int
  OBVIOUS
<1> HIDE DEF rest
<1>5. SumFunctionOnSet(f, rest) = SumFunctionOnSet(g, rest)
      /\ SumFunctionOnSet(f, rest) \in Int
  BY <1>1, SumSame, SumPick
<1> QED
  BY <1>2, <1>3, <1>4, <1>5

\* Summands that are all 0.
LEMMA SumZero ==
    ASSUME NEW S, IsFiniteSet(S), NEW f, \A x \in S : f[x] = 0
    PROVE  SumFunctionOnSet(f, S) = 0
<1> DEFINE Good == {T \in SUBSET S : SumFunctionOnSet(f, T) = 0}
<1>1. {} \in Good
  BY SumEmpty
<1>2. ASSUME NEW T \in SUBSET S, NEW x \in S \ T, T \in Good
      PROVE  T \cup {x} \in Good
  <2>1. IsFiniteSet(T) /\ f[x] = 0
    BY FS_Subset
  <2>2. SumFunctionOnSet(f, T \cup {x}) = f[x] + SumFunctionOnSet(f, T)
    BY <2>1, SumAdd
  <2> QED
    BY <1>2, <2>1, <2>2
<1>3. S \in Good
  <2> HIDE DEF Good
  <2> QED
    BY <1>1, <1>2, SubsetInduction
<1> QED
  BY <1>3

-----------------------------------------------------------------------------
(* Sums of sums.                                                           *)

\* The elements of S by their key: the sums of the parts add up to the sum of all the
\* elements whose key is asked for.
LEMMA SumOfParts ==
    ASSUME NEW S, IsFiniteSet(S), NEW K, IsFiniteSet(K), NEW key, NEW f, NEW g, NEW part,
           \A x \in S : f[x] \in Int,
           \A k \in K : part[k] = {x \in S : key[x] = k},
           \A k \in K : g[k] = SumFunctionOnSet(f, part[k])
    PROVE  SumFunctionOnSet(g, K) = SumFunctionOnSet(f, {x \in S : key[x] \in K})
<1> DEFINE Of(L) == {x \in S : key[x] \in L}
           Good == {L \in SUBSET K : SumFunctionOnSet(g, L) = SumFunctionOnSet(f, Of(L))}
<1>1. {} \in Good
  <2>1. Of({}) = {}
    OBVIOUS
  <2> QED
    BY <2>1, SumEmpty
<1>2. \A k \in K : g[k] \in Int
  <2>1. ASSUME NEW k \in K PROVE g[k] \in Int
    <3>1. IsFiniteSet(part[k]) /\ \A x \in part[k] : f[x] \in Int
      BY FS_Subset
    <3>2. g[k] = SumFunctionOnSet(f, part[k])
      OBVIOUS
    <3> QED
      BY <3>1, <3>2, SumPick
  <2> QED
    BY <2>1
<1>3. ASSUME NEW L \in SUBSET K, NEW k \in K \ L, L \in Good
      PROVE  L \cup {k} \in Good
  <2> DEFINE V == Of(L)
             W == part[k]
  <2>1. IsFiniteSet(L) /\ IsFiniteSet(V) /\ IsFiniteSet(W)
    BY FS_Subset
  <2>2. V \cap W = {} /\ V \cup W = Of(L \cup {k}) /\ \A x \in V \cup W : f[x] \in Int
    OBVIOUS
  <2>3. SumFunctionOnSet(g, L \cup {k}) = g[k] + SumFunctionOnSet(g, L)
    BY <1>2, <2>1, SumAdd
  <2>4. g[k] = SumFunctionOnSet(f, W) /\ SumFunctionOnSet(g, L) = SumFunctionOnSet(f, V)
    BY <1>3
  <2> HIDE DEF V, W, Of
  <2>5. /\ SumFunctionOnSet(f, V) \in Int /\ SumFunctionOnSet(f, W) \in Int
        /\ SumFunctionOnSet(f, V \cup W) = SumFunctionOnSet(f, V) + SumFunctionOnSet(f, W)
    BY <2>1, <2>2, SumDisjoint
  <2>6. SumFunctionOnSet(g, L \cup {k}) = SumFunctionOnSet(f, V \cup W)
    BY <2>3, <2>4, <2>5
  <2> QED
    BY <2>2, <2>6 DEF Of
<1>4. K \in Good
  <2> HIDE DEF Good
  <2> QED
    BY <1>1, <1>3, SubsetInduction
<1> QED
  BY <1>4

\* A set has as many elements as its parts have.
LEMMA SumOfSizes ==
    ASSUME NEW S, IsFiniteSet(S), NEW K, IsFiniteSet(K), NEW key, NEW g, NEW part,
           \A x \in S : key[x] \in K,
           \A k \in K : part[k] = {x \in S : key[x] = k},
           \A k \in K : g[k] = Cardinality(part[k])
    PROVE  SumFunctionOnSet(g, K) = Cardinality(S)
<1> DEFINE one == [x \in S |-> 1]
           Good == {T \in SUBSET S : SumFunctionOnSet(one, T) = Cardinality(T)}
<1>1. \A x \in S : one[x] = 1
  OBVIOUS
<1> HIDE DEF one
<1>2. {} \in Good
  BY SumEmpty, FS_EmptySet
<1>3. ASSUME NEW T \in SUBSET S, NEW x \in S \ T, T \in Good
      PROVE  T \cup {x} \in Good
  <2>1. IsFiniteSet(T) /\ Cardinality(T) \in Nat
    BY FS_Subset, FS_CardinalityType
  <2>2. SumFunctionOnSet(one, T \cup {x}) = 1 + SumFunctionOnSet(one, T)
    <3>1. one[x] = 1 /\ \A y \in T \cup {x} : one[y] \in Int
      BY <1>1
    <3>2. SumFunctionOnSet(one, T \cup {x}) = one[x] + SumFunctionOnSet(one, T)
      BY <2>1, <3>1, SumAdd
    <3> QED
      BY <3>1, <3>2
  <2>3. Cardinality(T \cup {x}) = Cardinality(T) + 1
    BY <2>1, FS_AddElement
  <2>4. SumFunctionOnSet(one, T) = Cardinality(T)
    BY <1>3
  <2> QED
    BY <2>1, <2>2, <2>3, <2>4
<1>4. ASSUME NEW T \in SUBSET S PROVE SumFunctionOnSet(one, T) = Cardinality(T)
  <2> DEFINE Within == {U \in SUBSET T : SumFunctionOnSet(one, U) = Cardinality(U)}
  <2>1. {} \in Within
    BY <1>2
  <2>2. ASSUME NEW U \in SUBSET T, NEW x \in T \ U, U \in Within
        PROVE  U \cup {x} \in Within
    BY <1>3, <2>2
  <2>3. IsFiniteSet(T)
    BY FS_Subset
  <2>4. T \in Within
    <3> HIDE DEF Within
    <3> QED
      BY <2>1, <2>2, <2>3, SubsetInduction
  <2> QED
    BY <2>4
<1>5. \A k \in K : g[k] = SumFunctionOnSet(one, part[k])
  BY <1>4
<1>6. SumFunctionOnSet(g, K) = SumFunctionOnSet(one, {x \in S : key[x] \in K})
  BY <1>1, <1>5, SumOfParts
<1>7. {x \in S : key[x] \in K} = S
  OBVIOUS
<1> QED
  BY <1>4, <1>6, <1>7

=============================================================================
