---------------------------- MODULE SumTheorems ----------------------------
(***************************************************************************)
(* Sums over finite sets.  SumFunctionOnSet is defined by recursion over   *)
(* the subsets of its index set, taking out one chosen element at a time;  *)
(* these lemmas say what it computes whatever is chosen.  Induction goes   *)
(* over sets of values, by a least counterexample.                         *)
(***************************************************************************)
EXTENDS Integers, Functions, FiniteSetTheorems, WellFoundedInduction, TLAPS

(* A set of naturals that has 0 and the successor of each member has all.  *)
LEMMA InductionOverNat ==
    ASSUME NEW P \in SUBSET Nat, 0 \in P, \A n \in P : n + 1 \in P
    PROVE  P = Nat
<1> SUFFICES ASSUME P # Nat PROVE FALSE
  OBVIOUS
<1> DEFINE R == {ss \in Nat \X Nat : ss[1] < ss[2]}
           T == Nat \ P
<1>1. IsWellFoundedOn(R, Nat)
  BY NatLessThanWellFounded, Zenon DEF OpToRel
<1>2. T \subseteq Nat /\ T # {}
  OBVIOUS
<1>3. PICK x \in T : \A y \in T : ~(<<y, x>> \in R)
  <2> HIDE DEF T, R
  <2> QED
    BY <1>1, <1>2, WFMin, Zenon
<1>4. x \in Nat /\ x # 0
  OBVIOUS
<1>5. x - 1 \in Nat /\ <<x - 1, x>> \in R
  BY <1>4
<1>6. x - 1 \in P
  BY <1>3, <1>5
<1>7. (x - 1) + 1 \in P
  BY <1>6
<1> QED
  BY <1>4, <1>7

(* A set that has {}, and each nonempty subset of the finite set S that    *)
(* it has without any one of its elements, has all subsets of S.           *)
LEMMA InductionOverSubsets ==
    ASSUME NEW S, IsFiniteSet(S), NEW P,
           {} \in P,
           \A T \in SUBSET S : T # {} /\ (\A x \in T : T \ {x} \in P) => T \in P
    PROVE  \A T \in SUBSET S : T \in P
<1> DEFINE N == {n \in Nat : \A T \in SUBSET S : Cardinality(T) = n => T \in P}
<1>1. \A T \in SUBSET S : IsFiniteSet(T) /\ Cardinality(T) \in Nat
  BY FS_Subset, FS_CardinalityType
<1>2. 0 \in N
  BY <1>1, FS_EmptySet
<1>3. ASSUME NEW n \in N PROVE n + 1 \in N
  <2> SUFFICES ASSUME NEW T \in SUBSET S, Cardinality(T) = n + 1
               PROVE  T \in P
    OBVIOUS
  <2>1. IsFiniteSet(T)
    BY <1>1
  <2>2. n \in Nat
    OBVIOUS
  <2>3. T # {}
    <3>1. n + 1 # 0
      BY <2>2
    <3>2. Cardinality({}) = 0
      BY FS_EmptySet, Zenon
    <3> HIDE DEF N
    <3> QED
      BY <3>1, <3>2, Zenon
  <2>4. ASSUME NEW x \in T PROVE T \ {x} \in P
    <3>1. Cardinality(T \ {x}) = Cardinality(T) - 1
      <4> HIDE DEF N
      <4> QED
        BY <2>1, <2>4, FS_RemoveElement, Zenon
    <3>2. Cardinality(T \ {x}) = n
      BY <2>2, <3>1
    <3> QED
      BY <3>2
  <2> QED
    BY <2>3, <2>4
<1>4. N = Nat
  <2>1. N \in SUBSET Nat
    OBVIOUS
  <2> HIDE DEF N
  <2> QED
    BY <1>2, <1>3, <2>1, InductionOverNat
<1> QED
  BY <1>1, <1>4

-----------------------------------------------------------------------------
(* The recursion: g adds up f over each subset of S, taking out the chosen *)
(* element first.                                                          *)
AddsUp(g, f, S) ==
    g = [s \in SUBSET S |->
            IF s = {} THEN 0
            ELSE LET x == CHOOSE x \in s : TRUE IN f[x] + g[s \ {x}]]

(* The sum is that of some function for which the recursion holds.         *)
LEMMA SumIsChosen ==
    ASSUME NEW f, NEW S
    PROVE  SumFunctionOnSet(f, S) = (CHOOSE g : AddsUp(g, f, S))[S]
BY Zenon DEF SumFunctionOnSet, FoldFunctionOnSet, MapThenFoldSet, AddsUp

(* The function exists, by induction on the size of the subsets it is      *)
(* defined for.                                                            *)
LEMMA SumExists ==
    ASSUME NEW f, NEW S, IsFiniteSet(S)
    PROVE  AddsUp(CHOOSE g : AddsUp(g, f, S), f, S)
<1> SUFFICES \E g : AddsUp(g, f, S)
  BY Zenon
<1> DEFINE Small(n) == {s \in SUBSET S : Cardinality(s) <= n}
           Rec(g, s) == IF s = {} THEN 0
                        ELSE LET x == CHOOSE x \in s : TRUE IN f[x] + g[s \ {x}]
           N == {n \in Nat : \E g : \A s \in Small(n) : g[s] = Rec(g, s)}
<1>1. \A s \in SUBSET S : IsFiniteSet(s) /\ Cardinality(s) \in Nat
  BY FS_Subset, FS_CardinalityType
<1>2. \A s \in SUBSET S : s # {} =>
          LET x == CHOOSE x \in s : TRUE
          IN  x \in s /\ Cardinality(s \ {x}) = Cardinality(s) - 1
  BY <1>1, FS_RemoveElement
<1>3. 0 \in N
  <2>1. \A s \in Small(0) : s = {}
    BY <1>1, FS_EmptySet
  <2>2. \A s \in Small(0) : [s1 \in SUBSET S |-> 0][s] = Rec([s1 \in SUBSET S |-> 0], s)
    BY <2>1
  <2> QED
    BY <2>2, Zenon
<1>4. ASSUME NEW n \in N PROVE n + 1 \in N
  <2>1. n \in Nat /\ n + 1 \in Nat
    OBVIOUS
  <2>2. PICK g : \A s \in Small(n) : g[s] = Rec(g, s)
    BY Zenon
  <2> DEFINE h == [s \in SUBSET S |-> IF s \in Small(n) THEN g[s] ELSE Rec(g, s)]
  <2>3. ASSUME NEW s \in Small(n + 1) PROVE h[s] = Rec(h, s)
    <3>1. CASE s = {}
      <4>1. s \in SUBSET S
        OBVIOUS
      <4>2. h[s] = IF s \in Small(n) THEN g[s] ELSE Rec(g, s)
        BY <4>1
      <4>3. s \in Small(n) => g[s] = Rec(g, s)
        BY <2>2
      <4>4. Rec(g, s) = 0 /\ Rec(h, s) = 0
        BY <3>1
      <4> HIDE DEF Small, h, Rec
      <4> QED
        BY <4>2, <4>3, <4>4
    <3>2. CASE s # {}
      <4> DEFINE x == CHOOSE x \in s : TRUE
      <4>1. s \in SUBSET S /\ Cardinality(s) <= n + 1
        OBVIOUS
      <4>2. s \ {x} \in SUBSET S /\ Cardinality(s \ {x}) = Cardinality(s) - 1
        BY <1>2, <3>2, <4>1
      <4>3. Cardinality(s \ {x}) <= n
        BY <1>1, <2>1, <4>1, <4>2
      <4>4. s \ {x} \in Small(n)
        BY <4>2, <4>3
      <4>5. h[s \ {x}] = g[s \ {x}]
        <5> HIDE DEF Small, Rec, x
        <5> QED
          BY <4>2, <4>4
      <4>6. Rec(g, s) = f[x] + g[s \ {x}] /\ Rec(h, s) = f[x] + h[s \ {x}]
        <5> HIDE DEF Small, h
        <5> QED
          BY <3>2
      <4>7. h[s] = IF s \in Small(n) THEN g[s] ELSE Rec(g, s)
        <5> HIDE DEF Small, Rec
        <5> QED
          BY <4>1
      <4>8. s \in Small(n) => g[s] = Rec(g, s)
        BY <2>2
      <4> HIDE DEF Small, h, Rec, x
      <4> QED
        BY <4>5, <4>6, <4>7, <4>8
    <3> QED
      BY <3>1, <3>2
  <2>4. \E k : \A s \in Small(n + 1) : k[s] = Rec(k, s)
    <3> HIDE DEF h, Small, Rec
    <3> QED
      BY <2>3, Zenon
  <2> HIDE DEF Small, Rec
  <2> QED
    BY <2>1, <2>4
<1>5. N = Nat
  <2>1. N \in SUBSET Nat
    <3> HIDE DEF Small, Rec
    <3> QED
      OBVIOUS
  <2> HIDE DEF N
  <2> QED
    BY <1>3, <1>4, <2>1, InductionOverNat
<1>6. PICK g : \A s \in Small(Cardinality(S)) : g[s] = Rec(g, s)
  <2>1. Cardinality(S) \in N
    <3> HIDE DEF N
    <3> QED
      BY <1>1, <1>5
  <2> HIDE DEF Small, Rec
  <2> QED
    BY <2>1, Zenon
<1>7. Small(Cardinality(S)) = SUBSET S
  BY FS_Subset
<1> DEFINE k == [s \in SUBSET S |-> g[s]]
<1>8. ASSUME NEW s \in SUBSET S PROVE k[s] = Rec(k, s)
  <2>1. k[s] = Rec(g, s)
    <3> HIDE DEF Small, Rec
    <3> QED
      BY <1>6, <1>7
  <2>2. CASE s = {}
    BY <2>1, <2>2
  <2>3. CASE s # {}
    <3> DEFINE x == CHOOSE x \in s : TRUE
    <3>1. s \ {x} \in SUBSET S
      OBVIOUS
    <3>2. k[s \ {x}] = g[s \ {x}]
      <4> HIDE DEF x
      <4> QED
        BY <3>1
    <3>3. Rec(g, s) = f[x] + g[s \ {x}] /\ Rec(k, s) = f[x] + k[s \ {x}]
      <4> HIDE DEF k
      <4> QED
        BY <2>3
    <3> HIDE DEF k, x, Rec
    <3> QED
      BY <2>1, <3>2, <3>3
  <2> QED
    BY <2>2, <2>3
<1>9. k = [s \in SUBSET S |-> Rec(k, s)]
  <2>1. k = [s \in SUBSET S |-> k[s]]
    OBVIOUS
  <2> HIDE DEF k, Rec
  <2> QED
    BY <1>8, <2>1
<1>10. AddsUp(k, f, S)
  <2> HIDE DEF k
  <2> QED
    BY <1>9, Zenon DEF AddsUp
<1> QED
  BY <1>10

(* Of two such functions, a subset of both index sets has the same sum.    *)
LEMMA SumUnique ==
    ASSUME NEW f, NEW S, IsFiniteSet(S), NEW g, AddsUp(g, f, S),
           NEW e, NEW R, NEW h, AddsUp(h, e, R),
           S \subseteq R, \A x \in S : f[x] = e[x]
    PROVE  \A T \in SUBSET S : g[T] = h[T]
<1> DEFINE P == {T \in SUBSET S : g[T] = h[T]}
           Chosen(s) == CHOOSE x \in s : TRUE
<1>1. \A s \in SUBSET S : g[s] = IF s = {} THEN 0 ELSE f[Chosen(s)] + g[s \ {Chosen(s)}]
  BY Zenon DEF AddsUp
<1>2. \A s \in SUBSET R : h[s] = IF s = {} THEN 0 ELSE e[Chosen(s)] + h[s \ {Chosen(s)}]
  BY Zenon DEF AddsUp
<1>3. \A s \in SUBSET S : s # {} => Chosen(s) \in s
  OBVIOUS
<1> HIDE DEF Chosen
<1>4. {} \in P
  BY <1>1, <1>2
<1>5. ASSUME NEW T \in SUBSET S, T # {}, \A x \in T : T \ {x} \in P
      PROVE  T \in P
  <2>1. Chosen(T) \in T /\ Chosen(T) \in S
    BY <1>3, <1>5
  <2>2. g[T \ {Chosen(T)}] = h[T \ {Chosen(T)}] /\ f[Chosen(T)] = e[Chosen(T)]
    BY <1>5, <2>1
  <2>3. g[T] = f[Chosen(T)] + g[T \ {Chosen(T)}]
    BY <1>1, <1>5
  <2>4. h[T] = e[Chosen(T)] + h[T \ {Chosen(T)}]
    BY <1>2, <1>5
  <2> QED
    BY <2>2, <2>3, <2>4
<1>6. \A T \in SUBSET S : T \in P
  <2> HIDE DEF P
  <2> QED
    BY <1>4, <1>5, InductionOverSubsets
<1> QED
  BY <1>6

(* So a sum depends on the summands alone, and                             *)
LEMMA SumCongruent ==
    ASSUME NEW f, NEW e, NEW S, IsFiniteSet(S), \A x \in S : f[x] = e[x]
    PROVE  SumFunctionOnSet(f, S) = SumFunctionOnSet(e, S)
<1> DEFINE g == CHOOSE g : AddsUp(g, f, S)
           h == CHOOSE h : AddsUp(h, e, S)
<1>1. AddsUp(g, f, S) /\ AddsUp(h, e, S)
  BY SumExists
<1>2. SumFunctionOnSet(f, S) = g[S] /\ SumFunctionOnSet(e, S) = h[S]
  BY SumIsChosen, Zenon
<1> HIDE DEF g, h
<1>3. g[S] = h[S]
  BY <1>1, SumUnique
<1> QED
  BY <1>2, <1>3

(* it adds the chosen element to the sum of the others.                    *)
LEMMA SumOfChosen ==
    ASSUME NEW f, NEW S, IsFiniteSet(S)
    PROVE  /\ SumFunctionOnSet(f, {}) = 0
           /\ S # {} => \E x \in S :
                  SumFunctionOnSet(f, S) = f[x] + SumFunctionOnSet(f, S \ {x})
<1> DEFINE Sum(T) == CHOOSE g : AddsUp(g, f, T)
           Chosen(s) == CHOOSE x \in s : TRUE
<1>1. \A T \in SUBSET S : AddsUp(Sum(T), f, T)
  BY SumExists, FS_Subset
<1>2. \A T \in SUBSET S : SumFunctionOnSet(f, T) = Sum(T)[T]
  BY SumIsChosen, Zenon
<1> HIDE DEF Sum
<1>3. \A T \in SUBSET S : \A s \in SUBSET T :
          Sum(T)[s] = IF s = {} THEN 0 ELSE f[Chosen(s)] + Sum(T)[s \ {Chosen(s)}]
  BY <1>1, Zenon DEF AddsUp
<1>4. \A s \in SUBSET S : s # {} => Chosen(s) \in s
  OBVIOUS
<1> HIDE DEF Chosen
<1>5. SumFunctionOnSet(f, {}) = 0
  BY <1>2, <1>3
<1>6. ASSUME S # {}
      PROVE  \E x \in S : SumFunctionOnSet(f, S) = f[x] + SumFunctionOnSet(f, S \ {x})
  <2> DEFINE x == Chosen(S)
  <2>1. x \in S /\ S \ {x} \in SUBSET S
    BY <1>4, <1>6
  <2>2. SumFunctionOnSet(f, S) = f[x] + Sum(S)[S \ {x}]
    BY <1>2, <1>3, <1>6
  <2>3. Sum(S)[S \ {x}] = Sum(S \ {x})[S \ {x}]
    <3> HIDE DEF x
    <3>1. IsFiniteSet(S \ {x})
      BY FS_Subset
    <3>2. AddsUp(Sum(S \ {x}), f, S \ {x}) /\ AddsUp(Sum(S), f, S)
      BY <1>1, <2>1
    <3> QED
      BY <3>1, <3>2, SumUnique
  <2> HIDE DEF x
  <2> QED
    BY <1>2, <2>1, <2>2, <2>3
<1> QED
  BY <1>5, <1>6

(* A sum of integers is an integer, one of naturals a natural.             *)
LEMMA SumType ==
    ASSUME NEW f, NEW S, IsFiniteSet(S), NEW D, D \in {Nat, Int}, \A x \in S : f[x] \in D
    PROVE  SumFunctionOnSet(f, S) \in D
<1> DEFINE P == {T \in SUBSET S : SumFunctionOnSet(f, T) \in D}
<1>1. {} \in P
  BY SumOfChosen
<1>2. ASSUME NEW T \in SUBSET S, T # {}, \A x \in T : T \ {x} \in P
      PROVE  T \in P
  <2>1. PICK x \in T : SumFunctionOnSet(f, T) = f[x] + SumFunctionOnSet(f, T \ {x})
    BY <1>2, SumOfChosen, FS_Subset
  <2>2. f[x] \in D /\ SumFunctionOnSet(f, T \ {x}) \in D
    BY <1>2
  <2> QED
    BY <2>1, <2>2
<1>3. \A T \in SUBSET S : T \in P
  <2> HIDE DEF P
  <2> QED
    BY <1>1, <1>2, InductionOverSubsets
<1> QED
  BY <1>3

(* Whatever element is taken out, it adds its summand.                     *)
LEMMA SumOfElement ==
    ASSUME NEW f, NEW S, IsFiniteSet(S), \A x \in S : f[x] \in Int
    PROVE  \A y \in S : SumFunctionOnSet(f, S) = f[y] + SumFunctionOnSet(f, S \ {y})
<1> DEFINE Sum(T) == SumFunctionOnSet(f, T)
           P == {T \in SUBSET S : \A y \in T : Sum(T) = f[y] + Sum(T \ {y})}
<1>1. \A T \in SUBSET S : IsFiniteSet(T) /\ Sum(T) \in Int
  <2>1. \A T \in SUBSET S : IsFiniteSet(T)
    BY FS_Subset
  <2> QED
    BY <2>1, SumType
<1>2. \A T \in SUBSET S : T # {} => \E x \in T : Sum(T) = f[x] + Sum(T \ {x})
  BY <1>1, SumOfChosen
<1> HIDE DEF Sum
<1>3. {} \in P
  OBVIOUS
<1>4. ASSUME NEW T \in SUBSET S, T # {}, \A x \in T : T \ {x} \in P
      PROVE  T \in P
  <2>1. PICK x \in T : Sum(T) = f[x] + Sum(T \ {x})
    BY <1>2, <1>4
  <2>2. ASSUME NEW y \in T, y # x PROVE Sum(T) = f[y] + Sum(T \ {y})
    <3>1. Sum(T \ {x}) = f[y] + Sum((T \ {x}) \ {y})
      BY <1>4, <2>2
    <3>2. Sum(T \ {y}) = f[x] + Sum((T \ {y}) \ {x})
      BY <1>4, <2>2
    <3>3. (T \ {x}) \ {y} = (T \ {y}) \ {x}
      OBVIOUS
    <3>4. f[x] \in Int /\ f[y] \in Int /\ Sum((T \ {x}) \ {y}) \in Int
      BY <1>1
    <3>5. Sum(T) = f[x] + (f[y] + Sum((T \ {x}) \ {y}))
      BY <2>1, <3>1
    <3>6. Sum(T \ {y}) = f[x] + Sum((T \ {x}) \ {y})
      BY <3>2, <3>3
    <3> HIDE DEF P
    <3> QED
      BY <3>4, <3>5, <3>6
  <2> QED
    BY <2>1, <2>2
<1>5. \A T \in SUBSET S : T \in P
  <2> HIDE DEF P
  <2> QED
    BY <1>3, <1>4, InductionOverSubsets
<1> QED
  BY <1>5 DEF Sum

(* No summand is more than a sum of naturals.                              *)
LEMMA SumAtLeast ==
    ASSUME NEW f, NEW S, IsFiniteSet(S), \A x \in S : f[x] \in Nat, NEW y \in S
    PROVE  f[y] <= SumFunctionOnSet(f, S)
<1>1. SumFunctionOnSet(f, S) = f[y] + SumFunctionOnSet(f, S \ {y})
  BY SumOfElement
<1>2. SumFunctionOnSet(f, S \ {y}) \in Nat
  <2>1. IsFiniteSet(S \ {y})
    BY FS_Subset
  <2> QED
    BY <2>1, SumType
<1> QED
  BY <1>1, <1>2

(* Summands that are 0 may be left out.                                    *)
LEMMA SumWithoutZeros ==
    ASSUME NEW f, NEW S, IsFiniteSet(S), \A x \in S : f[x] \in Int,
           NEW T \in SUBSET S, \A x \in S \ T : f[x] = 0
    PROVE  SumFunctionOnSet(f, S) = SumFunctionOnSet(f, T)
<1> DEFINE Z == S \ T
           P == {U \in SUBSET Z : SumFunctionOnSet(f, T \cup U) = SumFunctionOnSet(f, T)}
<1>1. {} \in P
  BY Zenon
<1>2. ASSUME NEW U \in SUBSET Z, U # {}, \A x \in U : U \ {x} \in P
      PROVE  U \in P
  <2>1. PICK x \in U : TRUE
    BY <1>2
  <2>2. IsFiniteSet(T \cup U) /\ x \in T \cup U /\ T \cup U \subseteq S
    BY <2>1, FS_Subset
  <2>3. SumFunctionOnSet(f, T \cup U) = f[x] + SumFunctionOnSet(f, (T \cup U) \ {x})
    BY <2>2, SumOfElement
  <2>4. (T \cup U) \ {x} = T \cup (U \ {x})
    BY <2>1
  <2>5. SumFunctionOnSet(f, T \cup (U \ {x})) = SumFunctionOnSet(f, T)
    BY <1>2, <2>1
  <2>6. f[x] = 0 /\ SumFunctionOnSet(f, T) \in Int
    BY <2>1, FS_Subset, SumType
  <2>7. SumFunctionOnSet(f, T \cup U) = SumFunctionOnSet(f, T)
    <3>1. SumFunctionOnSet(f, T \cup U) = f[x] + SumFunctionOnSet(f, T)
      BY <2>3, <2>4, <2>5, Zenon
    <3> HIDE DEF P, Z
    <3> QED
      BY <2>6, <3>1
  <2> QED
    BY <2>7
<1>3. Z \in P
  <2>1. IsFiniteSet(Z) /\ Z \in SUBSET Z
    BY FS_Subset
  <2> HIDE DEF P, Z
  <2> QED
    BY <1>1, <1>2, <2>1, InductionOverSubsets
<1>4. T \cup Z = S
  OBVIOUS
<1> QED
  BY <1>3, <1>4

(* Changing one summand changes the sum by the difference.                 *)
LEMMA SumOfUpdate ==
    ASSUME NEW f, NEW e, NEW S, IsFiniteSet(S), NEW y \in S,
           \A x \in S : f[x] \in Int /\ e[x] \in Int,
           \A x \in S \ {y} : e[x] = f[x]
    PROVE  SumFunctionOnSet(e, S) = SumFunctionOnSet(f, S) - f[y] + e[y]
<1>1. IsFiniteSet(S \ {y})
  BY FS_Subset
<1>2. SumFunctionOnSet(e, S \ {y}) = SumFunctionOnSet(f, S \ {y})
  BY <1>1, SumCongruent
<1>3. /\ SumFunctionOnSet(f, S) = f[y] + SumFunctionOnSet(f, S \ {y})
      /\ SumFunctionOnSet(e, S) = e[y] + SumFunctionOnSet(e, S \ {y})
  BY SumOfElement
<1>4. SumFunctionOnSet(f, S \ {y}) \in Int
  BY <1>1, SumType
<1> QED
  BY <1>2, <1>3, <1>4

(* A summand at the end of a sequence is added to its sum.                 *)
LEMMA SumOfAppend ==
    ASSUME NEW n \in Nat, NEW f, NEW e,
           \A i \in 1..n : f[i] \in Int /\ e[i] = f[i],
           e[n + 1] \in Int
    PROVE  SumFunctionOnSet(e, 1..(n + 1)) = SumFunctionOnSet(f, 1..n) + e[n + 1]
<1>1. IsFiniteSet(1..(n + 1)) /\ IsFiniteSet(1..n)
  BY FS_Interval
<1>2. n + 1 \in 1..(n + 1) /\ (1..(n + 1)) \ {n + 1} = 1..n
  OBVIOUS
<1>3. \A i \in 1..(n + 1) : e[i] \in Int
  <2>1. \A i \in 1..(n + 1) : i \in 1..n \/ i = n + 1
    OBVIOUS
  <2> QED
    BY <2>1
<1>4. SumFunctionOnSet(e, 1..(n + 1)) = e[n + 1] + SumFunctionOnSet(e, 1..n)
  BY <1>1, <1>2, <1>3, SumOfElement
<1>5. SumFunctionOnSet(e, 1..n) = SumFunctionOnSet(f, 1..n)
  BY <1>1, SumCongruent
<1>6. SumFunctionOnSet(f, 1..n) \in Int
  BY <1>1, SumType
<1> QED
  BY <1>4, <1>5, <1>6
=============================================================================
