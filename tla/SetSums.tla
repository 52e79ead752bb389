-------------------------------- MODULE SetSums --------------------------------
(***************************************************************************)
(* Sums over finite sets.  SumFunctionOnSet of the community modules is a  *)
(* recursive function over the subsets of its index set; that it exists    *)
(* and what it adds up to is proved by induction over the size of the      *)
(* subset.                                                                 *)
(***************************************************************************)
EXTENDS Integers, FiniteSets, FiniteSetsExt, Functions, FiniteSetTheorems,
        WellFoundedInduction, TLAPS

\* Induction over the numbers, for a set instead of a predicate: this form the
\* provers can use.
LEMMA NatSetInduction ==
    ASSUME NEW G, 0 \in G, \A n \in Nat : n \in G => n + 1 \in G
    PROVE  Nat \subseteq G
  <1> SUFFICES ASSUME Nat \ G # {} PROVE FALSE
    OBVIOUS
  <1> DEFINE R == OpToRel(<, Nat)
  <1>1. IsWellFoundedOn(R, Nat)
    BY NatLessThanWellFounded
  <1>2. \A i, j \in Nat : i < j => <<i, j>> \in R
    BY DEF OpToRel
  <1> HIDE DEF R
  <1>3. PICK x \in Nat \ G : \A y \in Nat \ G : ~ (<<y, x>> \in R)
    BY <1>1, WFMin
  <1>4. x # 0 /\ x - 1 \in Nat /\ x - 1 < x
    BY <1>3
  <1>5. (x - 1) + 1 = x /\ x - 1 \notin G
    BY <1>3, <1>4
  <1>. QED
    BY <1>2, <1>3, <1>4, <1>5

\* A set of numbers has a least one.
LEMMA LeastNumber ==
    ASSUME NEW S \in SUBSET Nat, S # {}
    PROVE  \E x \in S : \A y \in S : x =< y
  <1> DEFINE R == OpToRel(<, Nat)
  <1>1. IsWellFoundedOn(R, Nat)
    BY NatLessThanWellFounded
  <1>2. \A i, j \in Nat : i < j => <<i, j>> \in R
    BY DEF OpToRel
  <1> HIDE DEF R
  <1>3. PICK x \in S : \A y \in S : ~ (<<y, x>> \in R)
    BY <1>1, WFMin
  <1>4. \A y \in S : ~ (y < x)
    BY <1>2, <1>3
  <1>. QED
    BY <1>4

\* Induction over the subsets of a finite set.
LEMMA SubsetInduction ==
    ASSUME NEW S, IsFiniteSet(S), NEW G, {} \in G,
           \A T \in SUBSET S, x \in S : T \in G /\ x \notin T => T \cup {x} \in G
    PROVE  S \in G
  <1> DEFINE H == {n \in Nat : \A T \in SUBSET S : Cardinality(T) = n => T \in G}
  <1>1. 0 \in H
    BY FS_Subset, FS_EmptySet
  <1>2. ASSUME NEW n \in Nat, n \in H PROVE n + 1 \in H
    <2> SUFFICES ASSUME NEW T \in SUBSET S, Cardinality(T) = n + 1 PROVE T \in G
      OBVIOUS
    <2>1. IsFiniteSet(T) /\ n + 1 # 0 /\ (n + 1) - 1 = n
      BY FS_Subset
    <2>2. T # {}
      BY <2>1, FS_EmptySet
    <2>6. PICK x : x \in T
      BY <2>2
    <2>3. Cardinality(T \ {x}) = n
      BY <2>1, <2>6, FS_RemoveElement
    <2>4. T \ {x} \in G
      BY <1>2, <2>3
    <2>5. (T \ {x}) \cup {x} = T
      BY <2>6
    <2>. QED
      BY <2>6, <2>4, <2>5
  <1>3. Nat \subseteq H
    <2> HIDE DEF H
    <2>. QED
      BY <1>1, <1>2, NatSetInduction
  <1>4. Cardinality(S) \in Nat
    BY FS_CardinalityType
  <1>. QED
    BY <1>3, <1>4


LEMMA FirstNumbers == ASSUME NEW n \in Nat PROVE IsFiniteSet(1..n)
  <1>1. 1 \in Int /\ n \in Int
    OBVIOUS
  <1>. QED
    BY <1>1, FS_Interval

\* What it means for g to hold the sums of f over the subsets of S, and over
\* those of at most n members.
Pick(s) == CHOOSE x \in s : TRUE
Sums(g, f, S) ==
    g = [s \in SUBSET S |-> IF s = {} THEN 0 ELSE f[Pick(s)] + g[s \ {Pick(s)}]]
SumsUpTo(g, f, S, n) ==
    \A s \in SUBSET S : Cardinality(s) <= n =>
        g[s] = IF s = {} THEN 0 ELSE f[Pick(s)] + g[s \ {Pick(s)}]

\* Taking a member out of a finite set.
LEMMA PickOut ==
    ASSUME NEW S, IsFiniteSet(S), NEW s \in SUBSET S
    PROVE  /\ IsFiniteSet(s) /\ Cardinality(s) \in Nat /\ Cardinality(s) <= Cardinality(S)
           /\ Cardinality(S) \in Nat
           /\ s = {} <=> Cardinality(s) = 0
           /\ \A x \in s : s \ {x} \in SUBSET S /\ Cardinality(s \ {x}) = Cardinality(s) - 1
           /\ s # {} => Pick(s) \in s
  <1>1. IsFiniteSet(s) /\ Cardinality(s) <= Cardinality(S)
    BY FS_Subset
  <1>2. s # {} => Pick(s) \in s
    BY DEF Pick
  <1>3. \A x \in s : Cardinality(s \ {x}) = Cardinality(s) - 1
    BY <1>1, FS_RemoveElement
  <1>. QED
    BY <1>1, <1>2, <1>3, FS_CardinalityType, FS_EmptySet

LEMMA SumsExist ==
    ASSUME NEW f, NEW S, IsFiniteSet(S)
    PROVE  \E g : Sums(g, f, S)
  <1> DEFINE G == {n \in Nat : \E g : g = [s \in SUBSET S |-> g[s]] /\ SumsUpTo(g, f, S, n)}
  <1>1. 0 \in G
    <2> DEFINE g == [s \in SUBSET S |-> 0]
    <2>1. SumsUpTo(g, f, S, 0)
      BY PickOut DEF SumsUpTo
    <2>2. g = [s \in SUBSET S |-> g[s]]
      OBVIOUS
    <2>. QED
      BY <2>1, <2>2
  <1>2. ASSUME NEW n \in Nat, n \in G PROVE n + 1 \in G
    <2>1. PICK g : SumsUpTo(g, f, S, n)
      BY <1>2
    <2> DEFINE h == [s \in SUBSET S |-> IF Cardinality(s) <= n THEN g[s]
                                        ELSE f[Pick(s)] + g[s \ {Pick(s)}]]
    <2>2. ASSUME NEW s \in SUBSET S, Cardinality(s) <= n + 1
          PROVE  h[s] = IF s = {} THEN 0 ELSE f[Pick(s)] + h[s \ {Pick(s)}]
      <3>1. CASE s = {}
        <4>1. Cardinality(s) <= n
          BY <3>1, PickOut
        <4>. QED
          BY <2>1, <3>1, <4>1 DEF SumsUpTo
      <3>2. CASE s # {}
        <4>1. s \ {Pick(s)} \in SUBSET S /\ Cardinality(s \ {Pick(s)}) <= n
          BY <2>2, <3>2, PickOut
        <4>2. h[s \ {Pick(s)}] = g[s \ {Pick(s)}]
          BY <4>1
        <4>3. h[s] = f[Pick(s)] + g[s \ {Pick(s)}]
          <5>1. CASE Cardinality(s) <= n
            BY <2>1, <3>2, <5>1 DEF SumsUpTo
          <5>2. CASE ~(Cardinality(s) <= n)
            BY <5>2
          <5>. QED
            BY <5>1, <5>2
        <4> HIDE DEF h
        <4>. QED
          BY <3>2, <4>2, <4>3
      <3>. QED
        BY <3>1, <3>2
    <2>3. h = [s \in SUBSET S |-> h[s]]
      OBVIOUS
    <2> HIDE DEF h
    <2>4. SumsUpTo(h, f, S, n + 1)
      BY <2>2 DEF SumsUpTo
    <2>. QED
      BY <2>3, <2>4
  <1>3. Nat \subseteq G
    <2> HIDE DEF G
    <2>. QED
      BY <1>1, <1>2, NatSetInduction
  <1>4. Cardinality(S) \in Nat
    BY FS_CardinalityType
  <1>5. PICK g : g = [s \in SUBSET S |-> g[s]] /\ SumsUpTo(g, f, S, Cardinality(S))
    BY <1>3, <1>4
  <1>6. \A s \in SUBSET S : g[s] = IF s = {} THEN 0 ELSE f[Pick(s)] + g[s \ {Pick(s)}]
    BY <1>5, PickOut DEF SumsUpTo
  <1>7. Sums(g, f, S)
    BY <1>5, <1>6 DEF Sums
  <1>. QED
    BY <1>7

LEMMA SumsValue ==
    ASSUME NEW f, NEW S, NEW g, Sums(g, f, S), NEW s \in SUBSET S
    PROVE  g[s] = IF s = {} THEN 0 ELSE f[Pick(s)] + g[s \ {Pick(s)}]
  BY DEF Sums

\* Whatever holds the sums of f, or of a function that agrees with it on T, has
\* that of T.
LEMMA SumIs ==
    ASSUME NEW f, NEW e, NEW S, IsFiniteSet(S), NEW T \in SUBSET S, NEW g, Sums(g, e, S),
           \A x \in T : e[x] = f[x]
    PROVE  SumFunctionOnSet(f, T) = g[T]
  <1> DEFINE h == CHOOSE h : Sums(h, f, T)
  <1>1. SumFunctionOnSet(f, T) = h[T]
    BY DEF SumFunctionOnSet, FoldFunctionOnSet, MapThenFoldSet, Sums, Pick
  <1>2. IsFiniteSet(T)
    BY FS_Subset
  <1>3. Sums(h, f, T)
    BY <1>2, SumsExist
  <1> HIDE DEF h
  <1> DEFINE G == {n \in Nat : \A s \in SUBSET T : Cardinality(s) = n => g[s] = h[s]}
  <1>4. 0 \in G
    <2> SUFFICES ASSUME NEW s \in SUBSET T, Cardinality(s) = 0 PROVE g[s] = h[s]
      OBVIOUS
    <2>1. s = {} /\ s \in SUBSET S
      BY <1>2, PickOut
    <2>2. g[s] = 0
      BY <2>1, SumsValue
    <2>3. h[s] = 0
      BY <1>3, <2>1, SumsValue
    <2>. QED
      BY <2>2, <2>3
  <1>5. ASSUME NEW n \in Nat, n \in G PROVE n + 1 \in G
    <2> SUFFICES ASSUME NEW s \in SUBSET T, Cardinality(s) = n + 1 PROVE g[s] = h[s]
      OBVIOUS
    <2>1. s # {} /\ s \in SUBSET S
      BY <1>2, PickOut
    <2>2. Pick(s) \in s /\ s \ {Pick(s)} \in SUBSET T /\ Cardinality(s \ {Pick(s)}) = n
      <3>1. Pick(s) \in s
        BY <1>2, <2>1, PickOut
      <3>2. s \ {Pick(s)} \in SUBSET T /\ Cardinality(s \ {Pick(s)}) = Cardinality(s) - 1
        BY <1>2, <3>1, PickOut
      <3>. QED
        BY <3>1, <3>2
    <2>3. g[s \ {Pick(s)}] = h[s \ {Pick(s)}]
      BY <1>5, <2>2
    <2>4. g[s] = e[Pick(s)] + g[s \ {Pick(s)}] /\ h[s] = f[Pick(s)] + h[s \ {Pick(s)}]
      BY <1>3, <2>1, SumsValue
    <2>. QED
      BY <2>2, <2>3, <2>4
  <1>6. Nat \subseteq G
    <2> HIDE DEF G
    <2>. QED
      BY <1>4, <1>5, NatSetInduction
  <1>7. Cardinality(T) \in Nat
    BY <1>2, FS_CardinalityType
  <1>. QED
    BY <1>1, <1>6, <1>7

\* The sum of nothing, and of a set by the member it is taken apart at.
LEMMA SumByPick ==
    ASSUME NEW f, NEW S, IsFiniteSet(S)
    PROVE  /\ SumFunctionOnSet(f, {}) = 0
           /\ S # {} => /\ Pick(S) \in S
                        /\ SumFunctionOnSet(f, S) =
                              f[Pick(S)] + SumFunctionOnSet(f, S \ {Pick(S)})
  <1>1. PICK g : Sums(g, f, S)
    BY SumsExist
  <1>2. /\ SumFunctionOnSet(f, {}) = g[{}] /\ SumFunctionOnSet(f, S) = g[S]
        /\ SumFunctionOnSet(f, S \ {Pick(S)}) = g[S \ {Pick(S)}]
    BY <1>1, SumIs
  <1>3. g[{}] = 0 /\ (S # {} => g[S] = f[Pick(S)] + g[S \ {Pick(S)}])
    BY <1>1, SumsValue
  <1>4. S # {} => Pick(S) \in S
    BY PickOut
  <1>. QED
    BY <1>2, <1>3, <1>4

LEMMA SumEmpty == ASSUME NEW f PROVE SumFunctionOnSet(f, {}) = 0
  BY SumByPick, FS_EmptySet

\* Sums of two functions that agree are equal.
LEMMA SumSame ==
    ASSUME NEW f, NEW e, NEW S, IsFiniteSet(S), \A x \in S : e[x] = f[x]
    PROVE  SumFunctionOnSet(f, S) = SumFunctionOnSet(e, S)
  <1>1. PICK g : Sums(g, e, S)
    BY SumsExist
  <1>. QED
    BY <1>1, SumIs

\* The sum of integers is one, and they may be taken in any order.
LEMMA SumInt ==
    ASSUME NEW f, NEW S, IsFiniteSet(S), \A x \in S : f[x] \in Int
    PROVE  SumFunctionOnSet(f, S) \in Int
  <1> DEFINE G == {n \in Nat : \A T \in SUBSET S :
                      Cardinality(T) = n => SumFunctionOnSet(f, T) \in Int}
  <1>1. 0 \in G
    BY PickOut, SumEmpty
  <1>2. ASSUME NEW n \in Nat, n \in G PROVE n + 1 \in G
    <2> SUFFICES ASSUME NEW T \in SUBSET S, Cardinality(T) = n + 1
                 PROVE  SumFunctionOnSet(f, T) \in Int
      OBVIOUS
    <2>1. IsFiniteSet(T) /\ T # {}
      BY PickOut
    <2>2. Pick(T) \in T /\ T \ {Pick(T)} \in SUBSET S /\ Cardinality(T \ {Pick(T)}) = n
      BY <2>1, PickOut
    <2>3. SumFunctionOnSet(f, T \ {Pick(T)}) \in Int
      BY <1>2, <2>2
    <2>4. SumFunctionOnSet(f, T) = f[Pick(T)] + SumFunctionOnSet(f, T \ {Pick(T)})
      BY <2>1, SumByPick
    <2>. QED
      BY <2>2, <2>3, <2>4
  <1>3. Nat \subseteq G
    <2> HIDE DEF G
    <2>. QED
      BY <1>1, <1>2, NatSetInduction
  <1>. QED
    BY <1>3, FS_CardinalityType

LEMMA SumTakeOut ==
    ASSUME NEW f, NEW S, IsFiniteSet(S), \A x \in S : f[x] \in Int, NEW a \in S
    PROVE  SumFunctionOnSet(f, S) = f[a] + SumFunctionOnSet(f, S \ {a})
  <1> DEFINE G == {n \in Nat : \A T \in SUBSET S : \A x \in T : Cardinality(T) = n =>
                      SumFunctionOnSet(f, T) = f[x] + SumFunctionOnSet(f, T \ {x})}
  <1>1. 0 \in G
    BY PickOut
  <1>2. ASSUME NEW n \in Nat, n \in G PROVE n + 1 \in G
    <2> SUFFICES ASSUME NEW T \in SUBSET S, NEW x \in T, Cardinality(T) = n + 1
                 PROVE  SumFunctionOnSet(f, T) = f[x] + SumFunctionOnSet(f, T \ {x})
      OBVIOUS
    <2> DEFINE c == Pick(T)
               U == T \ {c}
               V == T \ {x}
    <2>1. IsFiniteSet(T) /\ T # {}
      BY PickOut
    <2>2. /\ c \in T /\ U \in SUBSET S /\ V \in SUBSET S
          /\ Cardinality(U) = n /\ Cardinality(V) = n
      BY <2>1, PickOut
    <2>3. SumFunctionOnSet(f, T) = f[c] + SumFunctionOnSet(f, U)
      BY <2>1, SumByPick
    <2>4. CASE c = x
      BY <2>3, <2>4
    <2>5. CASE c # x
      <3> HIDE DEF c
      <3>1. x \in U /\ c \in V /\ U \ {x} = V \ {c}
        BY <2>2, <2>5
      <3>2. SumFunctionOnSet(f, U) = f[x] + SumFunctionOnSet(f, U \ {x})
        BY <1>2, <2>2, <3>1
      <3>3. SumFunctionOnSet(f, V) = f[c] + SumFunctionOnSet(f, V \ {c})
        BY <1>2, <2>2, <3>1
      <3>4. IsFiniteSet(V \ {c}) /\ \A y \in V \ {c} : f[y] \in Int
        BY <2>1, FS_Subset
      <3>5. SumFunctionOnSet(f, V \ {c}) \in Int
        BY <3>4, SumInt
      <3>6. f[c] \in Int /\ f[x] \in Int
        BY <2>2
      <3>7. SumFunctionOnSet(f, U) = f[x] + SumFunctionOnSet(f, V \ {c})
        BY <3>1, <3>2
      <3> HIDE DEF U, V
      <3>. QED
        BY <2>3, <3>3, <3>5, <3>6, <3>7 DEF V
    <2>. QED
      BY <2>4, <2>5
  <1>3. Nat \subseteq G
    <2> HIDE DEF G
    <2>. QED
      BY <1>1, <1>2, NatSetInduction
  <1>. QED
    BY <1>3, FS_CardinalityType

\* One member more.
LEMMA SumAdd ==
    ASSUME NEW f, NEW S, IsFiniteSet(S), NEW a, a \notin S, \A x \in S \cup {a} : f[x] \in Int
    PROVE  SumFunctionOnSet(f, S \cup {a}) = f[a] + SumFunctionOnSet(f, S)
  <1>1. IsFiniteSet(S \cup {a}) /\ (S \cup {a}) \ {a} = S
    BY FS_AddElement
  <1>. QED
    BY <1>1, SumTakeOut

\* A sum does not exceed that of a function that is nowhere smaller; and if that
\* one exceeds by d at a member k, so do the sums.
LEMMA SumLess ==
    ASSUME NEW f, NEW e, NEW S, IsFiniteSet(S), NEW k, NEW d \in Nat,
           \A x \in S : f[x] \in Int /\ e[x] \in Int /\ f[x] <= e[x],
           k \in S => f[k] + d <= e[k]
    PROVE  SumFunctionOnSet(f, S) + (IF k \in S THEN d ELSE 0) <= SumFunctionOnSet(e, S)
  <1> DEFINE G == {T \in SUBSET S :
                      SumFunctionOnSet(f, T) + (IF k \in T THEN d ELSE 0)
                          <= SumFunctionOnSet(e, T)}
  <1>1. {} \in G
    BY SumEmpty
  <1>2. ASSUME NEW T \in SUBSET S, NEW x \in S, T \in G, x \notin T
        PROVE  T \cup {x} \in G
    <2>1. IsFiniteSet(T) /\ (\A y \in T \cup {x} : f[y] \in Int) /\ (\A y \in T : f[y] \in Int)
          /\ (\A y \in T \cup {x} : e[y] \in Int) /\ (\A y \in T : e[y] \in Int)
      BY FS_Subset
    <2>2. SumFunctionOnSet(f, T \cup {x}) = f[x] + SumFunctionOnSet(f, T)
      BY <1>2, <2>1, SumAdd
    <2>3. SumFunctionOnSet(e, T \cup {x}) = e[x] + SumFunctionOnSet(e, T)
      BY <1>2, <2>1, SumAdd
    <2>4. SumFunctionOnSet(f, T) \in Int /\ SumFunctionOnSet(e, T) \in Int
      BY <2>1, SumInt
    <2>5. SumFunctionOnSet(f, T) + (IF k \in T THEN d ELSE 0) <= SumFunctionOnSet(e, T)
      BY <1>2
    <2>6. /\ f[x] \in Int /\ e[x] \in Int /\ f[x] <= e[x]
          /\ k = x => f[x] + d <= e[x] /\ k \notin T
      BY <1>2
    <2>7. k \in T \cup {x} <=> k \in T \/ k = x
      OBVIOUS
    <2>8. SumFunctionOnSet(f, T \cup {x}) + (IF k \in T \cup {x} THEN d ELSE 0)
             <= SumFunctionOnSet(e, T \cup {x})
      BY <2>2, <2>3, <2>4, <2>5, <2>6, <2>7
    <2>. QED
      BY <2>8
  <1>3. S \in G
    <2> HIDE DEF G
    <2>. QED
      BY <1>1, <1>2, SubsetInduction
  <1>. QED
    BY <1>3

\* Zeros add up to zero, and numbers to at least each of them.
LEMMA SumZero ==
    ASSUME NEW f, NEW S, IsFiniteSet(S), \A x \in S : f[x] = 0
    PROVE  SumFunctionOnSet(f, S) = 0
  <1> DEFINE G == {T \in SUBSET S : SumFunctionOnSet(f, T) = 0}
  <1>1. {} \in G
    BY SumEmpty
  <1>2. ASSUME NEW T \in SUBSET S, NEW x \in S, T \in G, x \notin T
        PROVE  T \cup {x} \in G
    <2>1. IsFiniteSet(T) /\ \A y \in T \cup {x} : f[y] \in Int
      BY FS_Subset
    <2>2. SumFunctionOnSet(f, T \cup {x}) = f[x] + SumFunctionOnSet(f, T)
      BY <1>2, <2>1, SumAdd
    <2>. QED
      BY <1>2, <2>2
  <1>3. S \in G
    <2> HIDE DEF G
    <2>. QED
      BY <1>1, <1>2, SubsetInduction
  <1>. QED
    BY <1>3

LEMMA SumCovers ==
    ASSUME NEW f, NEW S, IsFiniteSet(S), \A x \in S : f[x] \in Nat, NEW k \in S
    PROVE  f[k] <= SumFunctionOnSet(f, S)
  <1> DEFINE z == [x \in S |-> 0]
  <1>1. SumFunctionOnSet(z, S) = 0
    BY SumZero
  <1>2. SumFunctionOnSet(z, S) + f[k] <= SumFunctionOnSet(f, S)
    <2>1. \A x \in S : z[x] \in Int /\ f[x] \in Int /\ z[x] <= f[x]
      OBVIOUS
    <2>2. z[k] + f[k] <= f[k] /\ f[k] \in Nat
      OBVIOUS
    <2> HIDE DEF z
    <2>. QED
      BY <2>1, <2>2, SumLess
  <1>. QED
    BY <1>1, <1>2

\* The sum of counts is one.
LEMMA SumNat ==
    ASSUME NEW f, NEW S, IsFiniteSet(S), \A x \in S : f[x] \in Nat
    PROVE  SumFunctionOnSet(f, S) \in Nat
  <1>1. SumFunctionOnSet(f, S) \in Int
    BY SumInt
  <1>2. CASE S = {}
    BY <1>2, SumEmpty
  <1>3. CASE S # {}
    <2>1. PICK x : x \in S
      BY <1>3
    <2>2. f[x] \in Nat /\ f[x] <= SumFunctionOnSet(f, S)
      BY <2>1, SumCovers
    <2>. QED
      BY <1>1, <2>2
  <1>. QED
    BY <1>2, <1>3

-----------------------------------------------------------------------------
(* The positions of a sequence, taken apart at the greatest, as FoldLeft of  *)
(* the community modules does.                                               *)

Top(s) == Max(s)

\* The greatest of finitely many numbers.
LEMMA TopIn == ASSUME NEW n \in Nat, NEW s \in SUBSET (1..n), s # {} PROVE Top(s) \in s
  <1> DEFINE G == {m \in Nat : \A t \in SUBSET (1..m) : t # {} => \E x \in t : \A y \in t : x >= y}
  <1>1. 0 \in G
    <2>1. 1..0 = {}
      OBVIOUS
    <2> QED
      BY <2>1
  <1>2. ASSUME NEW m \in Nat, m \in G PROVE m + 1 \in G
    <2> SUFFICES ASSUME NEW t \in SUBSET (1..(m + 1)), t # {}
                 PROVE  \E x \in t : \A y \in t : x >= y
      OBVIOUS
    <2>1. CASE m + 1 \in t
      BY <2>1
    <2>2. CASE m + 1 \notin t
      <3>1. t \in SUBSET (1..m)
        BY <2>2
      <3> QED
        BY <1>2, <3>1
    <2> QED
      BY <2>1, <2>2
  <1>3. n \in G
    <2> HIDE DEF G
    <2> QED
      BY <1>1, <1>2, NatSetInduction
  <1> QED
    BY <1>3 DEF Top, Max

LEMMA TopOut ==
    ASSUME NEW cmds, NEW n \in Nat, DOMAIN cmds = 1..n, NEW s \in SUBSET DOMAIN cmds
    PROVE  /\ IsFiniteSet(s) /\ Cardinality(s) \in Nat /\ Cardinality(s) <= n
           /\ s = {} <=> Cardinality(s) = 0
           /\ s # {} => /\ Top(s) \in s /\ s \ {Top(s)} \in SUBSET DOMAIN cmds
                        /\ Cardinality(s \ {Top(s)}) = Cardinality(s) - 1
  <1>1. IsFiniteSet(1..n) /\ Cardinality(1..n) = n
    <2>1. 1 \in Int /\ n \in Int
      OBVIOUS
    <2> QED
      BY <2>1, FS_Interval
  <1>2. IsFiniteSet(s) /\ Cardinality(s) \in Nat /\ Cardinality(s) <= n
    BY <1>1, FS_Subset, FS_CardinalityType
  <1>3. ASSUME s # {} PROVE Top(s) \in s /\ Cardinality(s \ {Top(s)}) = Cardinality(s) - 1
    <2>1. Top(s) \in s
      BY <1>3, TopIn
    <2> QED
      BY <1>2, <2>1, FS_RemoveElement
  <1> QED
    BY <1>2, <1>3, FS_EmptySet
=============================================================================
