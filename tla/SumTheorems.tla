----------------------------- MODULE SumTheorems -----------------------------
(***************************************************************************)
(* What SumFunctionOnSet computes, for any function with integer values on *)
(* a finite set, and what the choice of commitments by such sums           *)
(* guarantees, for any offer of commitments and any target.  The ledgers   *)
(* of the contracts and of the clients are sums.                           *)
(*                                                                         *)
(* The operator is a recursive function over the subsets of the set.  Its  *)
(* equation is established first, by induction on the size of the subsets, *)
(* and everything else follows from it.  Inductions go by the smallest     *)
(* counterexample.                                                         *)
(***************************************************************************)
EXTENDS CommitmentSelection, FiniteSetTheorems, SequenceTheorems, TLAPS

\* Induction over the natural numbers for a set of them.
LEMMA Induction ==
  ASSUME NEW T, 0 \in T, \A n \in Nat : n \in T => n + 1 \in T
  PROVE  Nat \subseteq T
<1> DEFINE bad == Nat \ T
<1> SUFFICES ASSUME bad # {} PROVE FALSE
  OBVIOUS
<1> DEFINE less == {ss \in Nat \X Nat : ss[1] < ss[2]}
<1>0. IsWellFoundedOn(less, Nat)
  BY NatLessThanWellFounded DEF OpToRel
<1>1. PICK x \in bad : \A y \in bad : ~ (<<y, x>> \in less)
  <2> HIDE DEF less, bad
  <2>1. bad \subseteq Nat
    BY DEF bad
  <2> QED
    BY <1>0, <2>1, WFMin
<1>2. \A y \in bad : ~ (y < x)
  BY <1>1
<1>3. x # 0 /\ x - 1 \in Nat /\ x - 1 < x /\ (x - 1) + 1 = x
  OBVIOUS
<1>4. x - 1 \in T
  BY <1>2, <1>3
<1> QED
  BY <1>3, <1>4

\* Some element of a set.
Pick(s) == CHOOSE x \in s : TRUE

Recursion(f, D, g) ==
  g = [s \in D |-> IF s = {} THEN 0 ELSE f[Pick(s)] + g[s \ {Pick(s)}]]

LEMMA SumUnfold ==
  ASSUME NEW f, NEW S
  PROVE  SumFunctionOnSet(f, S) = (CHOOSE g : Recursion(f, SUBSET S, g))[S]
BY DEF SumFunctionOnSet, FoldFunctionOnSet, MapThenFoldSet, Recursion, Pick

\* The equation has a solution, built up over the sizes of the subsets.
LEMMA RecursionExists ==
  ASSUME NEW S, IsFiniteSet(S), NEW f, \A x \in S : f[x] \in Int
  PROVE  \E g \in [SUBSET S -> Int] : Recursion(f, SUBSET S, g)
<1> DEFINE Small(n) == {s \in SUBSET S : Cardinality(s) <= n}
           T == {n \in Nat : \E g \in [Small(n) -> Int] : Recursion(f, Small(n), g)}
<1>1. \A s \in SUBSET S : IsFiniteSet(s) /\ Cardinality(s) \in Nat
  BY FS_Subset, FS_CardinalityType
<1>2. 0 \in T
  <2>1. \A s \in Small(0) : s = {}
    BY <1>1, FS_EmptySet
  <2> DEFINE g == [s \in Small(0) |-> 0]
  <2>2. g \in [Small(0) -> Int] /\ Recursion(f, Small(0), g)
    BY <2>1 DEF Recursion
  <2> QED
    BY <2>2
<1>3. ASSUME NEW n \in Nat, n \in T PROVE n + 1 \in T
  <2>1. PICK g \in [Small(n) -> Int] : Recursion(f, Small(n), g)
    BY <1>3
  <2> DEFINE h == [s \in Small(n + 1) |->
                     IF s = {} THEN 0 ELSE f[Pick(s)] + g[s \ {Pick(s)}]]
  <2>2. \A s \in Small(n + 1) : s # {} => Pick(s) \in s /\ s \ {Pick(s)} \in Small(n)
    <3> SUFFICES ASSUME NEW s \in Small(n + 1), s # {}
                 PROVE  Pick(s) \in s /\ s \ {Pick(s)} \in Small(n)
      OBVIOUS
    <3>1. Pick(s) \in s
      BY DEF Pick
    <3>2. Cardinality(s \ {Pick(s)}) = Cardinality(s) - 1
      BY <1>1, <3>1, FS_RemoveElement
    <3> QED
      BY <1>1, <3>1, <3>2
  <2>3. \A s \in Small(n) : s \in Small(n + 1) /\ h[s] = g[s]
    <3> SUFFICES ASSUME NEW s \in Small(n) PROVE s \in Small(n + 1) /\ h[s] = g[s]
      OBVIOUS
    <3>1. s \in Small(n + 1)
      BY <1>1
    <3>2. g[s] = IF s = {} THEN 0 ELSE f[Pick(s)] + g[s \ {Pick(s)}]
      <4> HIDE DEF Small
      <4> QED
        BY <2>1 DEF Recursion
    <3> QED
      BY <3>1, <3>2
  <2>4. h \in [Small(n + 1) -> Int]
    <3> SUFFICES ASSUME NEW s \in Small(n + 1), s # {}
                 PROVE  f[Pick(s)] + g[s \ {Pick(s)}] \in Int
      OBVIOUS
    <3>1. Pick(s) \in S /\ s \ {Pick(s)} \in Small(n)
      BY <2>2
    <3> HIDE DEF Small
    <3> QED
      BY <2>1, <3>1
  <2>5. Recursion(f, Small(n + 1), h)
    <3>1. \A s \in Small(n + 1) : s # {} => h[s \ {Pick(s)}] = g[s \ {Pick(s)}]
      BY <2>2, <2>3
    <3>2. h = [s \in Small(n + 1) |-> IF s = {} THEN 0 ELSE f[Pick(s)] + h[s \ {Pick(s)}]]
      <4> HIDE DEF Small
      <4> QED
        BY <3>1
    <3> QED
      BY <3>2 DEF Recursion
  <2> HIDE DEF h, Small
  <2> QED
    BY <2>4, <2>5
<1>4. Nat \subseteq T
  <2> HIDE DEF T
  <2> QED
    BY <1>2, <1>3, Induction
<1>5. Cardinality(S) \in T
  BY <1>1, <1>4
<1>6. Small(Cardinality(S)) = SUBSET S
  <2>1. \A s \in SUBSET S : Cardinality(s) <= Cardinality(S)
    BY FS_Subset
  <2> QED
    BY <2>1
<1> QED
  BY <1>5, <1>6

\* Induction over the subsets of a finite set, for a set of them.
LEMMA SubsetInduction ==
  ASSUME NEW S, IsFiniteSet(S), NEW T, {} \in T,
         \A s \in SUBSET S, x \in S : s \in T /\ x \notin s => s \cup {x} \in T
  PROVE  SUBSET S \subseteq T
<1> DEFINE N == {n \in Nat : \A s \in SUBSET S : Cardinality(s) = n => s \in T}
<1>1. \A s \in SUBSET S : IsFiniteSet(s) /\ Cardinality(s) \in Nat
  BY FS_Subset, FS_CardinalityType
<1>2. 0 \in N
  BY <1>1, FS_EmptySet
<1>3. ASSUME NEW n \in Nat, n \in N PROVE n + 1 \in N
  <2> SUFFICES ASSUME NEW s \in SUBSET S, Cardinality(s) = n + 1 PROVE s \in T
    OBVIOUS
  <2>1. s # {}
    BY <1>1, FS_EmptySet
  <2>2. PICK x \in s : TRUE
    BY <2>1
  <2>3. Cardinality(s \ {x}) = n
    <3> HIDE DEF N
    <3>1. Cardinality(s \ {x}) = Cardinality(s) - 1
      BY <1>1, <2>2, FS_RemoveElement
    <3> QED
      BY <3>1
  <2>4. s \ {x} \in T
    BY <1>3, <2>3
  <2>5. (s \ {x}) \cup {x} = s
    BY <2>2
  <2> QED
    BY <2>2, <2>4, <2>5
<1>4. Nat \subseteq N
  <2> HIDE DEF N
  <2> QED
    BY <1>2, <1>3, Induction
<1> QED
  BY <1>1, <1>4

\* The equation that defines the sum, for the sum itself.
LEMMA SumPick ==
  ASSUME NEW S, IsFiniteSet(S), NEW f, \A x \in S : f[x] \in Int
  PROVE  /\ SumFunctionOnSet(f, S) \in Int
         /\ S = {} => SumFunctionOnSet(f, S) = 0
         /\ S # {} => SumFunctionOnSet(f, S) =
                        f[Pick(S)] + SumFunctionOnSet(f, S \ {Pick(S)})
<1> DEFINE G(U) == CHOOSE g : Recursion(f, SUBSET U, g)
<1>1. ASSUME NEW U \in SUBSET S
      PROVE  Recursion(f, SUBSET U, G(U)) /\ SumFunctionOnSet(f, U) = G(U)[U]
  <2>1. IsFiniteSet(U)
    BY FS_Subset
  <2>2. \E g : Recursion(f, SUBSET U, g)
    BY <2>1, RecursionExists
  <2> QED
    BY <2>2, SumUnfold
<1>2. PICK g \in [SUBSET S -> Int] : Recursion(f, SUBSET S, g)
  BY RecursionExists
<1>3. \A U \in SUBSET S : SumFunctionOnSet(f, U) = g[U]
  <2> TAKE U \in SUBSET S
  <2> HIDE DEF G
  <2>1. Recursion(f, SUBSET U, G(U)) /\ SumFunctionOnSet(f, U) = G(U)[U]
    BY <1>1
  <2>2. ASSUME NEW h, Recursion(f, SUBSET U, h) PROVE g[U] = h[U]
    <3> DEFINE N == {n \in Nat : \A s \in SUBSET U : Cardinality(s) = n => g[s] = h[s]}
    <3>1. \A s \in SUBSET U : IsFiniteSet(s) /\ Cardinality(s) \in Nat
      BY FS_Subset, FS_CardinalityType
    <3>2. \A s \in SUBSET U :
            /\ g[s] = IF s = {} THEN 0 ELSE f[Pick(s)] + g[s \ {Pick(s)}]
            /\ h[s] = IF s = {} THEN 0 ELSE f[Pick(s)] + h[s \ {Pick(s)}]
      BY <1>2, <2>2 DEF Recursion
    <3>3. 0 \in N
      BY <3>1, <3>2, FS_EmptySet
    <3>4. ASSUME NEW n \in Nat, n \in N PROVE n + 1 \in N
      <4> SUFFICES ASSUME NEW s \in SUBSET U, Cardinality(s) = n + 1 PROVE g[s] = h[s]
        OBVIOUS
      <4>1. s # {}
        BY <3>1, FS_EmptySet
      <4>2. Pick(s) \in s
        BY <4>1 DEF Pick
      <4>3. s \ {Pick(s)} \in SUBSET U /\ Cardinality(s \ {Pick(s)}) = n
        BY <3>1, <4>2, FS_RemoveElement
      <4> QED
        BY <3>2, <3>4, <4>1, <4>3
    <3>5. Nat \subseteq N
      <4> HIDE DEF N
      <4> QED
        BY <3>3, <3>4, Induction
    <3> QED
      BY <3>1, <3>5
  <2> QED
    BY <2>1, <2>2
<1>4. g[S] = IF S = {} THEN 0 ELSE f[Pick(S)] + g[S \ {Pick(S)}]
  BY <1>2 DEF Recursion
<1> QED
  BY <1>2, <1>3, <1>4

\* The sum of the empty set.
LEMMA SumEmpty ==
  ASSUME NEW f
  PROVE  SumFunctionOnSet(f, {}) = 0
  BY SumPick, FS_EmptySet

\* Any element may be taken out first.
LEMMA SumRemove ==
  ASSUME NEW S, IsFiniteSet(S), NEW f, \A x \in S : f[x] \in Int, NEW x \in S
  PROVE  /\ SumFunctionOnSet(f, S \ {x}) \in Int
         /\ SumFunctionOnSet(f, S) = f[x] + SumFunctionOnSet(f, S \ {x})
<1> DEFINE Sum(s) == SumFunctionOnSet(f, s)
           N == {n \in Nat : \A s \in SUBSET S : Cardinality(s) = n =>
                               \A y \in s : Sum(s) = f[y] + Sum(s \ {y})}
<1>1. \A s \in SUBSET S : IsFiniteSet(s) /\ Cardinality(s) \in Nat
  BY FS_Subset, FS_CardinalityType
<1>2. \A s \in SUBSET S : /\ Sum(s) \in Int
                          /\ s # {} => Sum(s) = f[Pick(s)] + Sum(s \ {Pick(s)})
  <2> TAKE s \in SUBSET S
  <2>1. IsFiniteSet(s) /\ \A y \in s : f[y] \in Int
    BY <1>1
  <2> QED
    BY <2>1, SumPick
<1> HIDE DEF Sum
<1>3. 0 \in N
  BY <1>1, FS_EmptySet
<1>4. ASSUME NEW n \in Nat, n \in N PROVE n + 1 \in N
  <2> SUFFICES ASSUME NEW s \in SUBSET S, Cardinality(s) = n + 1, NEW y \in s
               PROVE  Sum(s) = f[y] + Sum(s \ {y})
    OBVIOUS
  <2> DEFINE c == Pick(s)
  <2>1. c \in s /\ Sum(s) = f[c] + Sum(s \ {c})
    BY <1>2 DEF Pick
  <2> HIDE DEF c
  <2>2. CASE y = c
    BY <2>1, <2>2
  <2>3. CASE y # c
    <3>1. /\ s \ {c} \in SUBSET S /\ Cardinality(s \ {c}) = n /\ y \in s \ {c}
          /\ s \ {y} \in SUBSET S /\ Cardinality(s \ {y}) = n /\ c \in s \ {y}
      <4> HIDE DEF N
      <4>1. /\ Cardinality(s \ {c}) = Cardinality(s) - 1
            /\ Cardinality(s \ {y}) = Cardinality(s) - 1
        BY <1>1, <2>1, FS_RemoveElement
      <4> QED
        BY <2>1, <2>3, <4>1
    <3>2. Sum(s \ {c}) = f[y] + Sum((s \ {c}) \ {y})
      BY <1>4, <3>1
    <3>3. Sum(s \ {y}) = f[c] + Sum((s \ {y}) \ {c})
      BY <1>4, <3>1
    <3>4. (s \ {c}) \ {y} = (s \ {y}) \ {c}
      OBVIOUS
    <3>5. f[y] \in Int /\ f[c] \in Int /\ Sum((s \ {y}) \ {c}) \in Int
      BY <1>2, <2>1
    <3>6. Sum(s) = f[c] + (f[y] + Sum((s \ {y}) \ {c}))
      BY <2>1, <3>2, <3>4
    <3> HIDE DEF N
    <3> QED
      BY <3>3, <3>5, <3>6
  <2> QED
    BY <2>2, <2>3
<1>5. Nat \subseteq N
  <2> HIDE DEF N
  <2> QED
    BY <1>3, <1>4, Induction
<1>6. Sum(S) = f[x] + Sum(S \ {x}) /\ Sum(S \ {x}) \in Int
  BY <1>1, <1>2, <1>5
<1> QED
  BY <1>6 DEF Sum

\* A new element adds its value.
LEMMA SumAdd ==
  ASSUME NEW S, IsFiniteSet(S), NEW x, x \notin S,
         NEW f, f[x] \in Int, \A y \in S : f[y] \in Int
  PROVE  SumFunctionOnSet(f, S \cup {x}) = SumFunctionOnSet(f, S) + f[x]
<1>1. IsFiniteSet(S \cup {x}) /\ \A y \in S \cup {x} : f[y] \in Int
  BY FS_AddElement
<1>2. (S \cup {x}) \ {x} = S /\ x \in S \cup {x}
  OBVIOUS
<1> DEFINE U == S \cup {x}
<1>3. /\ SumFunctionOnSet(f, U \ {x}) \in Int
      /\ SumFunctionOnSet(f, U) = f[x] + SumFunctionOnSet(f, U \ {x})
  <2> HIDE DEF U
  <2>1. x \in U /\ IsFiniteSet(U) /\ \A y \in U : f[y] \in Int
    BY <1>1, <1>2 DEF U
  <2> QED
    BY <2>1, SumRemove
<1>4. SumFunctionOnSet(f, S) \in Int
  BY SumPick
<1>5. SumFunctionOnSet(f, U) = f[x] + SumFunctionOnSet(f, S)
  BY <1>2, <1>3
<1> QED
  BY <1>4, <1>5

\* The sum depends on the values on the set only.
LEMMA SumSame ==
  ASSUME NEW S, IsFiniteSet(S), NEW f, NEW g,
         \A x \in S : f[x] \in Int /\ g[x] = f[x]
  PROVE  SumFunctionOnSet(g, S) = SumFunctionOnSet(f, S)
<1> DEFINE T == {s \in SUBSET S : SumFunctionOnSet(g, s) = SumFunctionOnSet(f, s)}
<1>1. {} \in T
  BY SumEmpty
<1>2. ASSUME NEW s \in SUBSET S, NEW x \in S, s \in T, x \notin s
      PROVE  s \cup {x} \in T
  <2>1. IsFiniteSet(s)
    BY FS_Subset
  <2>2. /\ SumFunctionOnSet(f, s \cup {x}) = SumFunctionOnSet(f, s) + f[x]
        /\ SumFunctionOnSet(g, s \cup {x}) = SumFunctionOnSet(g, s) + g[x]
    BY <1>2, <2>1, SumAdd
  <2> QED
    BY <1>2, <2>2
<1>3. SUBSET S \subseteq T
  <2> HIDE DEF T
  <2> QED
    BY <1>1, <1>2, SubsetInduction
<1> QED
  BY <1>3

\* A sum of natural numbers is one, and at least each of them.
LEMMA SumNat ==
  ASSUME NEW S, IsFiniteSet(S), NEW f, \A x \in S : f[x] \in Nat
  PROVE  /\ SumFunctionOnSet(f, S) \in Nat
         /\ \A x \in S : f[x] <= SumFunctionOnSet(f, S)
<1> DEFINE T == {s \in SUBSET S : SumFunctionOnSet(f, s) \in Nat}
<1>1. {} \in T
  BY SumEmpty
<1>2. ASSUME NEW s \in SUBSET S, NEW x \in S, s \in T, x \notin s
      PROVE  s \cup {x} \in T
  <2>1. IsFiniteSet(s) /\ (\A y \in s : f[y] \in Int) /\ f[x] \in Nat
    BY FS_Subset
  <2>2. SumFunctionOnSet(f, s \cup {x}) = SumFunctionOnSet(f, s) + f[x]
    BY <1>2, <2>1, SumAdd
  <2> QED
    BY <1>2, <2>1, <2>2
<1>3. SUBSET S \subseteq T
  <2> HIDE DEF T
  <2> QED
    BY <1>1, <1>2, SubsetInduction
<1>4. ASSUME NEW x \in S PROVE f[x] <= SumFunctionOnSet(f, S)
  <2>1. SumFunctionOnSet(f, S) = f[x] + SumFunctionOnSet(f, S \ {x})
    BY SumRemove
  <2>2. SumFunctionOnSet(f, S \ {x}) \in Nat /\ f[x] \in Nat
    BY <1>3
  <2> QED
    BY <2>1, <2>2
<1> QED
  BY <1>3, <1>4

\* Changing one value changes the sum by the difference.
LEMMA SumUpdate ==
  ASSUME NEW S, IsFiniteSet(S), NEW x \in S, NEW f, NEW g, g[x] \in Int,
         \A y \in S : f[y] \in Int, \A y \in S \ {x} : g[y] = f[y]
  PROVE  SumFunctionOnSet(g, S) = SumFunctionOnSet(f, S) - f[x] + g[x]
<1>1. IsFiniteSet(S \ {x})
  BY FS_RemoveElement
<1>2. SumFunctionOnSet(g, S \ {x}) = SumFunctionOnSet(f, S \ {x})
  BY <1>1, SumSame
<1>3. /\ SumFunctionOnSet(f, S \ {x}) \in Int
      /\ SumFunctionOnSet(f, S) = f[x] + SumFunctionOnSet(f, S \ {x})
  BY SumRemove
<1>4. SumFunctionOnSet(g, S) = g[x] + SumFunctionOnSet(g, S \ {x})
  <2>1. \A y \in S : g[y] \in Int
    OBVIOUS
  <2> QED
    BY <2>1, SumRemove
<1> QED
  BY <1>2, <1>3, <1>4

\* Sums over disjoint sets add up.
LEMMA SumUnion ==
  ASSUME NEW S, IsFiniteSet(S), NEW U, IsFiniteSet(U), S \cap U = {},
         NEW f, \A x \in S \cup U : f[x] \in Int
  PROVE  SumFunctionOnSet(f, S \cup U) = SumFunctionOnSet(f, S) + SumFunctionOnSet(f, U)
<1> DEFINE T == {s \in SUBSET U : SumFunctionOnSet(f, S \cup s) =
                                    SumFunctionOnSet(f, S) + SumFunctionOnSet(f, s)}
<1>0. SumFunctionOnSet(f, S) \in Int
  BY SumPick
<1>1. {} \in T
  <2>1. S \cup {} = S
    OBVIOUS
  <2> QED
    BY <1>0, <2>1, SumEmpty
<1>2. ASSUME NEW s \in SUBSET U, NEW x \in U, s \in T, x \notin s
      PROVE  s \cup {x} \in T
  <2>1. IsFiniteSet(s)
    BY FS_Subset
  <2>2. IsFiniteSet(S \cup s)
    BY <2>1, FS_Union
  <2>3. x \notin S \cup s /\ f[x] \in Int
    BY <1>2
  <2>4. (\A y \in S \cup s : f[y] \in Int) /\ (\A y \in s : f[y] \in Int)
    OBVIOUS
  <2>5. SumFunctionOnSet(f, (S \cup s) \cup {x}) = SumFunctionOnSet(f, S \cup s) + f[x]
    BY <2>2, <2>3, <2>4, SumAdd
  <2>6. SumFunctionOnSet(f, s \cup {x}) = SumFunctionOnSet(f, s) + f[x]
    BY <1>2, <2>1, <2>3, <2>4, SumAdd
  <2>7. (S \cup s) \cup {x} = S \cup (s \cup {x})
    OBVIOUS
  <2>8. SumFunctionOnSet(f, s) \in Int
    BY <2>1, <2>4, SumPick
  <2>9. SumFunctionOnSet(f, S \cup s) =
          SumFunctionOnSet(f, S) + SumFunctionOnSet(f, s)
    BY <1>2
  <2>10. SumFunctionOnSet(f, S \cup (s \cup {x})) =
           SumFunctionOnSet(f, S \cup s) + f[x]
    BY <2>5, <2>7
  <2>11. SumFunctionOnSet(f, S \cup (s \cup {x})) =
           SumFunctionOnSet(f, S) + SumFunctionOnSet(f, s \cup {x})
    <3> HIDE DEF T
    <3> QED
      BY <1>0, <2>3, <2>6, <2>8, <2>9, <2>10
  <2> QED
    BY <2>11
<1>3. SUBSET U \subseteq T
  <2> HIDE DEF T
  <2> QED
    BY <1>1, <1>2, SubsetInduction
<1> QED
  BY <1>3

\* Summing over names is summing over the things named, if each has one.
LEMMA SumReindex ==
  ASSUME NEW S, IsFiniteSet(S), NEW e,
         \A i, j \in S : e[i] = e[j] => i = j,
         NEW f, NEW g, \A i \in S : g[i] = f[e[i]] /\ g[i] \in Int
  PROVE  /\ IsFiniteSet({e[i] : i \in S})
         /\ SumFunctionOnSet(f, {e[i] : i \in S}) = SumFunctionOnSet(g, S)
<1> DEFINE Im(s) == {e[i] : i \in s}
           T == {s \in SUBSET S : /\ IsFiniteSet(Im(s))
                                  /\ SumFunctionOnSet(f, Im(s)) = SumFunctionOnSet(g, s)}
<1>1. {} \in T
  <2>1. Im({}) = {}
    OBVIOUS
  <2> QED
    BY <2>1, SumEmpty, FS_EmptySet
<1>2. ASSUME NEW s \in SUBSET S, NEW x \in S, s \in T, x \notin s
      PROVE  s \cup {x} \in T
  <2>1. IsFiniteSet(s)
    BY FS_Subset
  <2>2. Im(s \cup {x}) = Im(s) \cup {e[x]} /\ e[x] \notin Im(s)
    BY <1>2
  <2>3. f[e[x]] = g[x] /\ g[x] \in Int /\ \A y \in Im(s) : f[y] \in Int
    OBVIOUS
  <2>4. IsFiniteSet(Im(s)) /\ SumFunctionOnSet(f, Im(s)) = SumFunctionOnSet(g, s)
    BY <1>2
  <2> HIDE DEF Im
  <2>5. SumFunctionOnSet(f, Im(s) \cup {e[x]}) = SumFunctionOnSet(f, Im(s)) + f[e[x]]
    <3>1. /\ IsFiniteSet(Im(s)) /\ e[x] \notin Im(s)
          /\ f[e[x]] \in Int /\ \A y \in Im(s) : f[y] \in Int
      BY <2>2, <2>3, <2>4
    <3> DEFINE V == Im(s)
               y == e[x]
    <3>2. IsFiniteSet(V) /\ y \notin V /\ f[y] \in Int /\ \A z \in V : f[z] \in Int
      BY <3>1
    <3> HIDE DEF T, V, y
    <3>3. SumFunctionOnSet(f, V \cup {y}) = SumFunctionOnSet(f, V) + f[y]
      BY <3>2, SumAdd
    <3> QED
      BY <3>3 DEF V, y
  <2>6. SumFunctionOnSet(g, s \cup {x}) = SumFunctionOnSet(g, s) + g[x]
    <3>1. /\ IsFiniteSet(s) /\ x \notin s /\ g[x] \in Int
          /\ \A y \in s : g[y] \in Int
      BY <1>2, <2>1, <2>3
    <3> HIDE DEF T
    <3> QED
      BY <3>1, SumAdd
  <2>7. IsFiniteSet(Im(s \cup {x}))
    <3>1. IsFiniteSet(Im(s) \cup {e[x]})
      BY <2>4, FS_AddElement
    <3> QED
      BY <2>2, <3>1
  <2> QED
    BY <2>2, <2>3, <2>4, <2>5, <2>6, <2>7
<1>3. SUBSET S \subseteq T
  <2> HIDE DEF T
  <2> QED
    BY <1>1, <1>2, SubsetInduction
<1> QED
  BY <1>3

\* Zeros add up to zero.
LEMMA SumZero ==
  ASSUME NEW S, IsFiniteSet(S), NEW f, \A x \in S : f[x] = 0
  PROVE  SumFunctionOnSet(f, S) = 0
<1> DEFINE T == {s \in SUBSET S : SumFunctionOnSet(f, s) = 0}
<1>1. {} \in T
  BY SumEmpty
<1>2. ASSUME NEW s \in SUBSET S, NEW x \in S, s \in T, x \notin s
      PROVE  s \cup {x} \in T
  <2>1. IsFiniteSet(s)
    BY FS_Subset
  <2>2. f[x] \in Int /\ (\A y \in s : f[y] \in Int) /\ f[x] = 0
    OBVIOUS
  <2>3. SumFunctionOnSet(f, s \cup {x}) = SumFunctionOnSet(f, s) + f[x]
    BY <1>2, <2>1, <2>2, SumAdd
  <2> QED
    BY <1>2, <2>2, <2>3
<1>3. SUBSET S \subseteq T
  <2> HIDE DEF T
  <2> QED
    BY <1>1, <1>2, SubsetInduction
<1> QED
  BY <1>3

\* A function on an interval that goes one further adds one value.
LEMMA SumExtend ==
  ASSUME NEW a \in Int, NEW n \in Int, a <= n + 1,
         NEW f, DOMAIN f = a .. n, NEW g, DOMAIN g = a .. n + 1,
         \A i \in a .. n : f[i] \in Int /\ g[i] = f[i], g[n + 1] \in Int
  PROVE  SumFunction(g) = SumFunction(f) + g[n + 1]
<1>1. /\ IsFiniteSet(a .. n)
      /\ n + 1 \notin a .. n
      /\ a .. n + 1 = (a .. n) \cup {n + 1}
  <2>1. IsFiniteSet(a .. n)
    BY FS_Interval
  <2>2. n + 1 \notin a .. n
    OBVIOUS
  <2>3. a .. n + 1 = (a .. n) \cup {n + 1}
    OBVIOUS
  <2> QED
    BY <2>1, <2>2, <2>3
<1>2. SumFunctionOnSet(g, (a .. n) \cup {n + 1}) = SumFunctionOnSet(g, a .. n) + g[n + 1]
  BY <1>1, SumAdd
<1>3. SumFunctionOnSet(g, a .. n) = SumFunctionOnSet(f, a .. n)
  BY <1>1, SumSame
<1> QED
  BY <1>1, <1>2, <1>3 DEF SumFunction

-----------------------------------------------------------------------------
(* Sums of lists *)

LEMMA SumNone == SumOf(<<>>) = 0
BY SumEmpty DEF SumOf

LEMMA SumSingle ==
  ASSUME NEW f, NEW x, f[x] \in Int
  PROVE  SumFunctionOnSet(f, {x}) = f[x]
<1>1. IsFiniteSet({x}) /\ \A y \in {x} : f[y] \in Int
  BY FS_Singleton
<1>2. SumFunctionOnSet(f, {x}) = f[x] + SumFunctionOnSet(f, {x} \ {x})
  BY <1>1, SumRemove
<1>3. {x} \ {x} = {}
  OBVIOUS
<1> QED
  BY <1>2, <1>3, SumEmpty

LEMMA SumOne ==
  ASSUME NEW a, a.value \in Nat
  PROVE  SumOf(<<a>>) = a.value
<1> DEFINE f == [i \in DOMAIN <<a>> |-> <<a>>[i].value]
<1>1. DOMAIN <<a>> = {1} /\ f[1] = a.value
  OBVIOUS
<1>2. SumOf(<<a>>) = SumFunctionOnSet(f, DOMAIN <<a>>)
  BY DEF SumOf
<1> HIDE DEF f
<1>3. SumFunctionOnSet(f, {1}) = f[1]
  <2>1. f[1] \in Int
    BY <1>1
  <2> QED
    BY <2>1, SumSingle
<1> QED
  BY <1>1, <1>2, <1>3

LEMMA SumTwo ==
  ASSUME NEW a, a.value \in Nat, NEW b, b.value \in Nat
  PROVE  SumOf(<<a, b>>) = a.value + b.value
<1> DEFINE f == [i \in DOMAIN <<a, b>> |-> <<a, b>>[i].value]
<1>1. DOMAIN <<a, b>> = {1, 2} /\ f[1] = a.value /\ f[2] = b.value
  OBVIOUS
<1>2. SumOf(<<a, b>>) = SumFunctionOnSet(f, DOMAIN <<a, b>>)
  BY DEF SumOf
<1> HIDE DEF f
<1>3. IsFiniteSet({1, 2}) /\ \A y \in {1, 2} : f[y] \in Int
  <2>1. IsFiniteSet({1} \cup {2})
    BY FS_Singleton, FS_AddElement
  <2>2. {1} \cup {2} = {1, 2}
    OBVIOUS
  <2> QED
    BY <1>1, <2>1, <2>2
<1>4. SumFunctionOnSet(f, {1, 2}) = f[1] + SumFunctionOnSet(f, {1, 2} \ {1})
  BY <1>3, SumRemove
<1>5. {1, 2} \ {1} = {2}
  OBVIOUS
<1>6. SumFunctionOnSet(f, {2}) = f[2]
  BY <1>1, SumSingle
<1> QED
  BY <1>1, <1>2, <1>4, <1>5, <1>6

\* A list weighs at least as much as any two of its members.
LEMMA SumAtLeast ==
  ASSUME NEW E, \A e \in E : e.value \in Nat, NEW list \in Seq(E)
  PROVE  /\ SumOf(list) \in Nat
         /\ \A i, j \in DOMAIN list : i # j => list[i].value + list[j].value <= SumOf(list)
<1> DEFINE f == [i \in DOMAIN list |-> list[i].value]
           D == DOMAIN list
<1>1. IsFiniteSet(D) /\ \A i \in D : f[i] \in Nat
  <2>1. Len(list) \in Nat /\ D = 1 .. Len(list)
    OBVIOUS
  <2>2. IsFiniteSet(D)
    BY <2>1, FS_Interval
  <2>3. \A i \in D : list[i] \in E
    OBVIOUS
  <2>4. \A i \in D : f[i] \in Nat
    BY <2>3
  <2> QED
    BY <2>2, <2>4
<1>2. SumOf(list) = SumFunctionOnSet(f, D)
  BY DEF SumOf
<1>3. \A i \in D : f[i] = list[i].value
  OBVIOUS
<1> HIDE DEF f, D
<1>4. SumOf(list) \in Nat
  BY <1>1, <1>2, SumNat
<1>5. ASSUME NEW i \in D, NEW j \in D, i # j PROVE f[i] + f[j] <= SumOf(list)
  <2>1. SumFunctionOnSet(f, D) = f[i] + SumFunctionOnSet(f, D \ {i})
    BY <1>1, SumRemove
  <2>2. IsFiniteSet(D \ {i}) /\ \A x \in D \ {i} : f[x] \in Nat
    BY <1>1, FS_RemoveElement
  <2>3. f[j] <= SumFunctionOnSet(f, D \ {i}) /\ SumFunctionOnSet(f, D \ {i}) \in Nat
    BY <1>5, <2>2, SumNat
  <2> QED
    BY <1>1, <1>2, <2>1, <2>3
<1> QED
  BY <1>3, <1>4, <1>5 DEF D

-----------------------------------------------------------------------------
(* Prefixes of a list *)

\* A set of indices that holds all the smaller ones is an interval.
LEMMA Prefix ==
  ASSUME NEW n \in Nat, NEW D \in SUBSET (1 .. n), \A j \in D : 1 .. j \subseteq D
  PROVE  Cardinality(D) \in 0 .. n /\ D = 1 .. Cardinality(D)
<1> DEFINE Down(d) == \A j \in d : 1 .. j \subseteq d
           T == {m \in Nat : \A d \in SUBSET (1 .. m) : Down(d) => \E k \in 0 .. m : d = 1 .. k}
<1>1. 0 \in T
  <2>1. 1 .. 0 = {} /\ 0 \in 0 .. 0
    OBVIOUS
  <2> QED
    BY <2>1
<1>2. ASSUME NEW m \in Nat, m \in T PROVE m + 1 \in T
  <2>1. ASSUME NEW d \in SUBSET (1 .. (m + 1)), Down(d)
        PROVE  \E k \in 0 .. (m + 1) : d = 1 .. k
    <3>1. CASE m + 1 \in d
      <4>1. d = 1 .. (m + 1)
        BY <2>1, <3>1
      <4> QED
        BY <4>1
    <3>2. CASE m + 1 \notin d
      <4>1. d \in SUBSET (1 .. m)
        BY <3>2
      <4>2. PICK k \in 0 .. m : d = 1 .. k
        BY <1>2, <2>1, <4>1
      <4> QED
        BY <4>2
    <3> QED
      BY <3>1, <3>2
  <2> HIDE DEF Down
  <2> QED
    BY <2>1
<1>3. n \in T
  <2>1. Nat \subseteq T
    <3> HIDE DEF T
    <3> QED
      BY <1>1, <1>2, Induction
  <2> QED
    BY <2>1
<1>4. PICK k \in 0 .. n : D = 1 .. k
  BY <1>3
<1>5. Cardinality(1 .. k) = k
  BY <1>4, FS_Interval
<1> QED
  BY <1>4, <1>5

-----------------------------------------------------------------------------
(* The two pointers.  The recursive function over their places exists,     *)
(* built up over the gap between them.                                     *)

Grid(n) == (1 .. n) \X (1 .. n)

Walk(target, below, g) ==
  g = [w \in Grid(Len(below)) |-> Visit(target, below, g, w)]

LEMMA PairUnfold ==
  ASSUME NEW target, NEW below
  PROVE  find_subset_two_commitments(target, below) =
           (CHOOSE g : Walk(target, below, g))[<<1, Len(below)>>]
BY DEF find_subset_two_commitments, Walk, Grid

\* A visit depends on the places next to it only.
LEMMA VisitSame ==
  ASSUME NEW target, NEW below, NEW g, NEW h, NEW w,
         w[1] < w[2] => /\ g[<<w[1], w[2] - 1>>] = h[<<w[1], w[2] - 1>>]
                        /\ g[<<w[1] + 1, w[2]>>] = h[<<w[1] + 1, w[2]>>],
         w[1] \in Int, w[2] \in Int
  PROVE  Visit(target, below, g, w) = Visit(target, below, h, w)
<1>1. CASE w[1] < w[2]
  BY <1>1 DEF Visit
<1>2. CASE w[1] >= w[2]
  BY <1>2 DEF Visit
<1> QED
  BY <1>1, <1>2

LEMMA WalkExists ==
  ASSUME NEW target, NEW below, Len(below) \in Nat
  PROVE  \E g : Walk(target, below, g)
<1> DEFINE n == Len(below)
           D == Grid(n)
           V(g, w) == Visit(target, below, g, w)
           Upto(k, g) == /\ g = [w \in D |-> g[w]]
                         /\ \A w \in D : w[2] - w[1] <= k => g[w] = V(g, w)
           T == {k \in Nat : \E g : Upto(k, g)}
<1>1. \A w \in D : /\ w[1] \in Int /\ w[2] \in Int /\ w[2] - w[1] <= n
                   /\ w[1] < w[2] => <<w[1], w[2] - 1>> \in D /\ <<w[1] + 1, w[2]>> \in D
  BY DEF Grid
<1> HIDE DEF n, D
<1>2. 0 \in T
  <2> DEFINE g == [w \in D |-> <<>>]
  <2>1. \A w \in D : w[2] - w[1] <= 0 => V(g, w) = <<>>
    BY <1>1 DEF Visit
  <2>2. Upto(0, g)
    BY <2>1
  <2> QED
    BY <2>2
<1>3. ASSUME NEW k \in Nat, k \in T PROVE k + 1 \in T
  <2>1. PICK g : Upto(k, g)
    BY <1>3
  <2> DEFINE h == [w \in D |-> IF w[2] - w[1] <= k THEN g[w] ELSE V(g, w)]
  <2> HIDE DEF V
  <2>2. \A w \in D : w[2] - w[1] <= k => h[w] = g[w]
    OBVIOUS
  <2>3. ASSUME NEW w \in D, w[2] - w[1] <= k + 1 PROVE h[w] = V(h, w)
    <3>1. h[w] = V(g, w)
      BY <2>1
    <3>2. w[1] < w[2] => /\ g[<<w[1], w[2] - 1>>] = h[<<w[1], w[2] - 1>>]
                         /\ g[<<w[1] + 1, w[2]>>] = h[<<w[1] + 1, w[2]>>]
      <4> SUFFICES ASSUME w[1] < w[2]
                   PROVE  /\ g[<<w[1], w[2] - 1>>] = h[<<w[1], w[2] - 1>>]
                          /\ g[<<w[1] + 1, w[2]>>] = h[<<w[1] + 1, w[2]>>]
        OBVIOUS
      <4> DEFINE u == <<w[1], w[2] - 1>>
                 v == <<w[1] + 1, w[2]>>
      <4>1. u \in D /\ v \in D
        BY <1>1
      <4>2. u[2] - u[1] <= k /\ v[2] - v[1] <= k
        <5>1. u[1] = w[1] /\ u[2] = w[2] - 1 /\ v[1] = w[1] + 1 /\ v[2] = w[2]
          OBVIOUS
        <5>2. w[1] \in Int /\ w[2] \in Int /\ w[2] - w[1] <= k + 1
          BY <1>1, <2>3
        <5> HIDE DEF u, v
        <5> QED
          BY <5>1, <5>2
      <4> HIDE DEF u, v, h
      <4>3. h[u] = g[u] /\ h[v] = g[v]
        BY <2>2, <4>1, <4>2
      <4> QED
        BY <4>3 DEF u, v
    <3>3. w[1] \in Int /\ w[2] \in Int
      BY <1>1
    <3> HIDE DEF h
    <3>4. V(g, w) = V(h, w)
      BY <3>2, <3>3, VisitSame DEF V
    <3> QED
      BY <3>1, <3>4
  <2>4. h = [w \in D |-> h[w]]
    OBVIOUS
  <2> HIDE DEF h
  <2>5. Upto(k + 1, h)
    BY <2>3, <2>4
  <2> HIDE DEF Upto
  <2> QED
    BY <2>5
<1>4. n \in T
  <2>1. Nat \subseteq T
    <3> HIDE DEF T
    <3> QED
      BY <1>2, <1>3, Induction
  <2> QED
    BY <2>1 DEF n
<1>5. PICK g : Upto(n, g)
  BY <1>4
<1>6. \A w \in D : w[2] - w[1] <= n
  BY <1>1
<1> HIDE DEF V
<1>7. \A w \in D : g[w] = V(g, w)
  BY <1>5, <1>6
<1>8. g = [w \in D |-> V(g, w)]
  BY <1>5, <1>7
<1> QED
  BY <1>8 DEF Walk, V, D, n

\* A list in the order that sorting by value leaves it in.
ByValue(list) == \A i, j \in DOMAIN list : i < j => list[i].value <= list[j].value

Two(list, i, j) == <<list[i], list[j]>>

\* The pair found between two places of a list, or none if no two of its
\* members cover the target.
BestPair(target, list, low, high, pair) ==
  \/ pair = <<>> /\ \A i, j \in low .. high : i < j => SumOf(Two(list, i, j)) < target
  \/ \E i, j \in low .. high :
       /\ i < j /\ pair = Two(list, i, j) /\ SumOf(pair) >= target
       /\ \A k, l \in low .. high :
            k < l /\ SumOf(Two(list, k, l)) >= target => SumOf(pair) <= SumOf(Two(list, k, l))

LEMMA TwoFacts ==
  ASSUME NEW E, \A e \in E : e.value \in Nat, NEW list \in Seq(E), ByValue(list)
  PROVE  /\ \A i, j \in DOMAIN list : SumOf(Two(list, i, j)) \in Nat
         /\ \A i, j, k \in DOMAIN list :
              i <= k => /\ SumOf(Two(list, i, j)) <= SumOf(Two(list, k, j))
                        /\ SumOf(Two(list, j, i)) <= SumOf(Two(list, j, k))
<1>1. \A i \in DOMAIN list : list[i] \in E /\ list[i].value \in Nat
  OBVIOUS
<1>2. \A i, j \in DOMAIN list : SumOf(Two(list, i, j)) = list[i].value + list[j].value
  BY <1>1, SumTwo DEF Two
<1>3. \A i, k \in DOMAIN list : i <= k => list[i].value <= list[k].value
  <2> TAKE i, k \in DOMAIN list
  <2> HAVE i <= k
  <2>1. i \in Int /\ k \in Int
    OBVIOUS
  <2>2. i < k \/ i = k
    BY <2>1
  <2> QED
    BY <1>1, <2>2 DEF ByValue
<1>4. \A i, j \in DOMAIN list : SumOf(Two(list, i, j)) \in Nat
  BY <1>1, <1>2
<1>5. ASSUME NEW i \in DOMAIN list, NEW j \in DOMAIN list, NEW k \in DOMAIN list, i <= k
      PROVE  /\ SumOf(Two(list, i, j)) <= SumOf(Two(list, k, j))
             /\ SumOf(Two(list, j, i)) <= SumOf(Two(list, j, k))
  <2>1. list[i].value \in Nat /\ list[j].value \in Nat /\ list[k].value \in Nat
    BY <1>1
  <2>2. list[i].value <= list[k].value
    BY <1>3, <1>5
  <2>3. /\ SumOf(Two(list, i, j)) = list[i].value + list[j].value
        /\ SumOf(Two(list, k, j)) = list[k].value + list[j].value
        /\ SumOf(Two(list, j, i)) = list[j].value + list[i].value
        /\ SumOf(Two(list, j, k)) = list[j].value + list[k].value
    BY <1>2
  <2> QED
    BY <2>1, <2>2, <2>3
<1> QED
  BY <1>4, <1>5

\* The values between the two places rise.
Rising(list, low, high) ==
  /\ \A i, j \in low .. high : SumOf(Two(list, i, j)) \in Nat
  /\ \A i, j, k \in low .. high :
       i <= k => /\ SumOf(Two(list, i, j)) <= SumOf(Two(list, k, j))
                 /\ SumOf(Two(list, j, i)) <= SumOf(Two(list, j, k))

\* The outermost two exceed the target: no other pair with the last is better.
LEMMA DropHigh ==
  ASSUME NEW list, NEW low \in Int, NEW high \in Int, low < high, Rising(list, low, high),
         NEW target \in Nat, SumOf(Two(list, low, high)) >= target,
         NEW left, BestPair(target, list, low, high - 1, left)
  PROVE  BestPair(target, list, low, high, BetterPair(Two(list, low, high), left))
<1> DEFINE sum(i, j) == SumOf(Two(list, i, j))
<1>1. low \in low .. high /\ high \in low .. high /\ sum(low, high) \in Nat
  BY DEF Rising
<1>2. ASSUME NEW k \in low .. high, NEW l \in low .. high, k < l
      PROVE  sum(low, high) <= sum(k, l) \/ (k \in low .. (high - 1) /\ l \in low .. (high - 1))
  <2>1. CASE l = high
    BY <1>1, <1>2, <2>1 DEF Rising
  <2>2. CASE l # high
    BY <1>2, <2>2
  <2> QED
    BY <2>1, <2>2
<1>3. \A i \in low .. (high - 1) : i \in low .. high
  OBVIOUS
<1>4. \A i, j \in low .. high : sum(i, j) \in Nat
  BY DEF Rising
<1> HIDE DEF sum
<1>5. CASE left = <<>> /\ \A i, j \in low .. (high - 1) : i < j => sum(i, j) < target
  <2>1. BetterPair(Two(list, low, high), left) = Two(list, low, high)
    BY <1>5 DEF BetterPair
  <2>2. \A k, l \in low .. high : k < l /\ sum(k, l) >= target => sum(low, high) <= sum(k, l)
    <3> SUFFICES ASSUME NEW k \in low .. high, NEW l \in low .. high, k < l, sum(k, l) >= target
                 PROVE  sum(low, high) <= sum(k, l)
      OBVIOUS
    <3>1. ~ (sum(k, l) < target)
      BY <1>4
    <3> QED
      BY <1>2, <1>5, <3>1
  <2> QED
    BY <1>1, <2>1, <2>2 DEF BestPair, sum
<1>6. CASE left # <<>>
  <2>1. PICK i \in low .. (high - 1), j \in low .. (high - 1) :
          /\ i < j /\ left = Two(list, i, j) /\ sum(i, j) >= target
          /\ \A k, l \in low .. (high - 1) :
               k < l /\ sum(k, l) >= target => sum(i, j) <= sum(k, l)
    BY <1>6 DEF BestPair, sum
  <2>2. SumOf(left) = sum(i, j) /\ i \in low .. high /\ j \in low .. high
    BY <1>3, <2>1 DEF sum
  <2>3. CASE sum(i, j) >= sum(low, high)
    <3>1. BetterPair(Two(list, low, high), left) = Two(list, low, high)
      BY <2>2, <2>3 DEF BetterPair, sum
    <3>2. ASSUME NEW k \in low .. high, NEW l \in low .. high, k < l, sum(k, l) >= target
          PROVE  sum(low, high) <= sum(k, l)
      <4>1. CASE k \in low .. (high - 1) /\ l \in low .. (high - 1)
        <5>1. sum(i, j) <= sum(k, l)
          BY <2>1, <3>2, <4>1
        <5> QED
          BY <1>1, <1>4, <2>2, <2>3, <5>1
      <4> QED
        BY <1>2, <3>2, <4>1
    <3> QED
      BY <1>1, <3>1, <3>2 DEF BestPair, sum
  <2>4. CASE sum(i, j) < sum(low, high)
    <3>0. ~ (sum(i, j) >= sum(low, high))
      BY <1>1, <1>4, <2>2, <2>4
    <3>1. BetterPair(Two(list, low, high), left) = left
      BY <1>6, <2>2, <3>0 DEF BetterPair, sum
    <3>2. ASSUME NEW k \in low .. high, NEW l \in low .. high, k < l, sum(k, l) >= target
          PROVE  sum(i, j) <= sum(k, l)
      <4>1. CASE k \in low .. (high - 1) /\ l \in low .. (high - 1)
        BY <2>1, <3>2, <4>1
      <4>2. CASE sum(low, high) <= sum(k, l)
        BY <1>1, <1>4, <2>2, <2>4, <4>2
      <4> QED
        BY <1>2, <3>2, <4>1, <4>2
    <3> QED
      BY <2>1, <2>2, <3>1, <3>2 DEF BestPair, sum
  <2> QED
    BY <1>1, <1>4, <2>2, <2>3, <2>4
<1>7. left = <<>> => \A i, j \in low .. (high - 1) : i < j => sum(i, j) < target
  <2>1. \A i, j \in Int : Two(list, i, j) # <<>>
    BY DEF Two
  <2> QED
    BY <2>1 DEF BestPair, sum
<1> QED
  BY <1>5, <1>6, <1>7

\* The outermost two fall short: so does the first with any other.
LEMMA DropLow ==
  ASSUME NEW list, NEW low \in Int, NEW high \in Int, low < high, Rising(list, low, high),
         NEW target \in Nat, SumOf(Two(list, low, high)) < target,
         NEW right, BestPair(target, list, low + 1, high, right)
  PROVE  BestPair(target, list, low, high, right)
<1> DEFINE sum(i, j) == SumOf(Two(list, i, j))
<1>1. low \in low .. high /\ high \in low .. high /\ sum(low, high) \in Nat
  BY DEF Rising
<1>2. \A i, j \in low .. high : sum(i, j) \in Nat
  BY DEF Rising
<1>3. ASSUME NEW k \in low .. high, NEW l \in low .. high, k < l
      PROVE  sum(k, l) < target \/ (k \in (low + 1) .. high /\ l \in (low + 1) .. high)
  <2>1. CASE k = low
    <3>1. sum(low, l) <= sum(low, high)
      BY <1>1 DEF Rising
    <3> HIDE DEF sum
    <3>2. sum(low, l) \in Nat
      BY <1>1, <1>2
    <3> QED
      BY <1>1, <2>1, <3>1, <3>2 DEF sum
  <2>2. CASE k # low
    BY <1>3, <2>2
  <2> QED
    BY <2>1, <2>2
<1>4. \A i \in (low + 1) .. high : i \in low .. high
  OBVIOUS
<1> HIDE DEF sum
<1>5. CASE right = <<>> /\ \A i, j \in (low + 1) .. high : i < j => sum(i, j) < target
  <2>1. \A k, l \in low .. high : k < l => sum(k, l) < target
    BY <1>3, <1>5
  <2> QED
    BY <1>5, <2>1 DEF BestPair, sum
<1>6. CASE \E i, j \in (low + 1) .. high :
             /\ i < j /\ right = Two(list, i, j) /\ SumOf(right) >= target
             /\ \A k, l \in (low + 1) .. high :
                  k < l /\ sum(k, l) >= target => SumOf(right) <= sum(k, l)
  <2>1. \A k, l \in low .. high :
          k < l /\ sum(k, l) >= target => k \in (low + 1) .. high /\ l \in (low + 1) .. high
    BY <1>2, <1>3
  <2> QED
    BY <1>4, <1>6, <2>1 DEF BestPair, sum
<1> QED
  BY <1>5, <1>6 DEF BestPair, sum

LEMMA VisitBest ==
  ASSUME NEW E, \A e \in E : e.value \in Nat, NEW list \in Seq(E), ByValue(list),
         NEW target \in Nat, NEW g,
         NEW low \in 1 .. Len(list), NEW high \in 1 .. Len(list),
         low < high => /\ BestPair(target, list, low, high - 1, g[<<low, high - 1>>])
                       /\ BestPair(target, list, low + 1, high, g[<<low + 1, high>>])
  PROVE  BestPair(target, list, low, high, Visit(target, list, g, <<low, high>>))
<1> DEFINE found == Visit(target, list, g, <<low, high>>)
           here == Two(list, low, high)
<1> SUFFICES BestPair(target, list, low, high, found)
  OBVIOUS
<1>1. Rising(list, low, high)
  <2>1. \A i \in low .. high : i \in DOMAIN list
    OBVIOUS
  <2>2. /\ \A i, j \in DOMAIN list : SumOf(Two(list, i, j)) \in Nat
        /\ \A i, j, k \in DOMAIN list :
              i <= k => /\ SumOf(Two(list, i, j)) <= SumOf(Two(list, k, j))
                        /\ SumOf(Two(list, j, i)) <= SumOf(Two(list, j, k))
    BY TwoFacts
  <2> QED
    BY <2>1, <2>2, Zenon DEF Rising
<1>2. CASE low >= high
  <2>1. found = <<>>
    BY <1>2 DEF Visit
  <2>2. ~ \E i, j \in low .. high : i < j
    BY <1>2
  <2> HIDE DEF found
  <2> QED
    BY <2>1, <2>2 DEF BestPair
<1>3. CASE low < high
  <2>1. found = IF SumOf(here) = target THEN here
                ELSE IF SumOf(here) > target THEN BetterPair(here, g[<<low, high - 1>>])
                ELSE g[<<low + 1, high>>]
    BY <1>3 DEF Visit, Two
  <2>2. SumOf(here) \in Nat /\ low \in low .. high /\ high \in low .. high
    BY <1>1, <1>3 DEF Rising
  <2>3. low \in Int /\ high \in Int
    OBVIOUS
  <2>4. CASE SumOf(here) = target
    <3>1. found = here
      BY <2>1, <2>4
    <3>2. \A k, l \in low .. high :
            SumOf(Two(list, k, l)) >= target => SumOf(here) <= SumOf(Two(list, k, l))
      BY <2>4
    <3> HIDE DEF found
    <3> QED
      BY <1>3, <2>2, <2>4, <3>1, <3>2 DEF BestPair
  <2>5. CASE SumOf(here) > target
    <3>1. found = BetterPair(here, g[<<low, high - 1>>])
      BY <2>1, <2>2, <2>5
    <3>2. SumOf(here) >= target
      BY <2>2, <2>5
    <3> HIDE DEF found
    <3> QED
      BY <1>1, <1>3, <2>3, <3>1, <3>2, DropHigh
  <2>6. CASE SumOf(here) < target
    <3>1. found = g[<<low + 1, high>>]
      BY <2>1, <2>2, <2>6
    <3> HIDE DEF found
    <3> QED
      BY <1>1, <1>3, <2>3, <2>6, <3>1, DropLow
  <2> QED
    BY <2>2, <2>4, <2>5, <2>6
<1> QED
  BY <1>2, <1>3

\* find_subset_two_commitments finds the two members of a list that leave
\* the least change, if two of them cover the target.
LEMMA PairIsBest ==
  ASSUME NEW E, \A e \in E : e.value \in Nat, NEW list \in Seq(E), ByValue(list),
         NEW target \in Nat, Len(list) >= 1
  PROVE  BestPair(target, list, 1, Len(list), find_subset_two_commitments(target, list))
<1> DEFINE n == Len(list)
           g == CHOOSE h : Walk(target, list, h)
           T == {k \in Nat : \A i, j \in 1 .. n :
                   j - i <= k => BestPair(target, list, i, j, g[<<i, j>>])}
<1>0. n \in Nat /\ n >= 1
  OBVIOUS
<1>1. Walk(target, list, g)
  BY <1>0, WalkExists
<1>2. \A i, j \in 1 .. n : g[<<i, j>>] = Visit(target, list, g, <<i, j>>)
  <2> HIDE DEF g
  <2>1. \A i, j \in 1 .. n : <<i, j>> \in Grid(n)
    BY DEF Grid
  <2> QED
    BY <1>1, <2>1 DEF Walk
<1>3. find_subset_two_commitments(target, list) = g[<<1, n>>]
  BY PairUnfold
<1> HIDE DEF g
<1>4. ASSUME NEW i \in 1 .. n, NEW j \in 1 .. n,
             i < j => /\ BestPair(target, list, i, j - 1, g[<<i, j - 1>>])
                      /\ BestPair(target, list, i + 1, j, g[<<i + 1, j>>])
      PROVE  BestPair(target, list, i, j, g[<<i, j>>])
  <2>1. BestPair(target, list, i, j, Visit(target, list, g, <<i, j>>))
    BY <1>4, VisitBest
  <2> QED
    BY <1>2, <2>1
<1> HIDE DEF n
<1>5. 0 \in T
  <2>1. \A i, j \in 1 .. n : j - i <= 0 => ~ (i < j)
    OBVIOUS
  <2> QED
    BY <1>4, <2>1
<1>6. ASSUME NEW k \in Nat, k \in T PROVE k + 1 \in T
  <2>1. ASSUME NEW i \in 1 .. n, NEW j \in 1 .. n, j - i <= k + 1
        PROVE  BestPair(target, list, i, j, g[<<i, j>>])
    <3>1. i < j => /\ j - 1 \in 1 .. n /\ (j - 1) - i <= k
                   /\ i + 1 \in 1 .. n /\ j - (i + 1) <= k
      BY <1>0, <2>1
    <3>2. i < j => /\ BestPair(target, list, i, j - 1, g[<<i, j - 1>>])
                   /\ BestPair(target, list, i + 1, j, g[<<i + 1, j>>])
      BY <1>6, <3>1
    <3> QED
      BY <1>4, <3>2
  <2> QED
    BY <2>1
<1>7. n \in T
  <2>1. Nat \subseteq T
    <3> HIDE DEF T
    <3> QED
      BY <1>5, <1>6, Induction
  <2> QED
    BY <1>0, <2>1
<1>8. 1 \in 1 .. n /\ n \in 1 .. n /\ n - 1 <= n
  BY <1>0
<1>9. BestPair(target, list, 1, n, g[<<1, n>>])
  BY <1>7, <1>8
<1> QED
  BY <1>3, <1>9 DEF n

-----------------------------------------------------------------------------
(* One commitment or two *)

\* How many members of a list are worth less than the target.
Short(list, target) == Cardinality({i \in DOMAIN list : list[i].value < target})

\* They come first.
LEMMA ShortFirst ==
  ASSUME NEW E, \A e \in E : e.value \in Nat, NEW list \in Seq(E), ByValue(list),
         NEW target \in Nat
  PROVE  /\ Short(list, target) \in 0 .. Len(list)
         /\ \A i \in DOMAIN list : list[i].value < target <=> i <= Short(list, target)
<1> DEFINE D == {i \in DOMAIN list : list[i].value < target}
<1>1. D \in SUBSET (1 .. Len(list)) /\ Len(list) \in Nat
  OBVIOUS
<1>2. ASSUME NEW j \in D, NEW i \in 1 .. j PROVE i \in D
  <2>1. i \in DOMAIN list /\ j \in DOMAIN list /\ list[i].value \in Nat /\ list[j].value \in Nat
    OBVIOUS
  <2>2. list[i].value <= list[j].value
    <3>1. i < j \/ i = j
      OBVIOUS
    <3> QED
      BY <2>1, <3>1 DEF ByValue
  <2> QED
    BY <2>1, <2>2
<1>3. Cardinality(D) \in 0 .. Len(list) /\ D = 1 .. Cardinality(D)
  <2>1. \A j \in D : 1 .. j \subseteq D
    BY <1>2
  <2> HIDE DEF D
  <2> QED
    BY <1>1, <2>1, Prefix
<1>4. Short(list, target) = Cardinality(D)
  BY DEF Short
<1>5. \A i \in DOMAIN list : i \in D <=> i <= Cardinality(D)
  <2>1. \A i \in DOMAIN list : i \in Int /\ 1 <= i
    OBVIOUS
  <2> HIDE DEF D
  <2> QED
    BY <1>3, <2>1
<1> QED
  BY <1>3, <1>4, <1>5

\* What the first members of a list have in common with it.
LEMMA FirstMembers ==
  ASSUME NEW E, NEW list \in Seq(E), NEW m \in 0 .. Len(list)
  PROVE  /\ SubSeq(list, 1, m) \in Seq(E) /\ Len(SubSeq(list, 1, m)) = m
         /\ \A i \in 1 .. m : SubSeq(list, 1, m)[i] = list[i]
         /\ ByValue(list) => ByValue(SubSeq(list, 1, m))
<1>1. /\ SubSeq(list, 1, m) \in Seq(E) /\ Len(SubSeq(list, 1, m)) = m
      /\ \A i \in 1 .. m : SubSeq(list, 1, m)[i] = list[i]
  <2>1. m \in Nat /\ \A i \in 1 .. m : list[i] \in E
    <3>1. Len(list) \in Nat
      BY LenProperties
    <3>2. m \in Nat /\ \A i \in 1 .. m : i \in 1 .. Len(list)
      BY <3>1
    <3> QED
      BY <3>2, ElementOfSeq
  <2>2. /\ SubSeq(list, 1, m) \in Seq(E)
        /\ Len(SubSeq(list, 1, m)) = IF 1 <= m THEN m - 1 + 1 ELSE 0
        /\ \A i \in 1 .. m - 1 + 1 : SubSeq(list, 1, m)[i] = list[1 + i - 1]
    BY <2>1, SubSeqProperties
  <2> QED
    BY <2>1, <2>2
<1>2. DOMAIN SubSeq(list, 1, m) = 1 .. m /\ 1 .. m \subseteq DOMAIN list
  BY <1>1
<1> DEFINE first == SubSeq(list, 1, m)
<1>3. DOMAIN first \subseteq DOMAIN list /\ \A i \in DOMAIN first : first[i] = list[i]
  BY <1>1, <1>2
<1> HIDE DEF first
<1>4. ByValue(list) => ByValue(first)
  BY <1>3 DEF ByValue
<1> QED
  BY <1>1, <1>4 DEF first

\* The commitment that covers the target alone.
LEMMA FindCovering ==
  ASSUME NEW list, NEW target, NEW n, Short(list, target) < Len(list),
         Len(SubSeq(list, 1, Short(list, target))) <= 1 \/ n = 1
  PROVE  find_subset_commitments(list, target, n) = <<list[Short(list, target) + 1]>>
BY DEF find_subset_commitments, Short, Below

\* The pair among those that do not.
LEMMA FindPair ==
  ASSUME NEW E, \A e \in E : e.value \in Nat, NEW list \in Seq(E), ByValue(list),
         NEW target \in Nat, Short(list, target) >= 2
  PROVE  BestPair(target, list, 1, Short(list, target), find_subset_commitments(list, target, 2))
<1> DEFINE m == Short(list, target)
           below == SubSeq(list, 1, m)
           found == find_subset_commitments(list, target, 2)
<1>1. m \in 0 .. Len(list) /\ m >= 2
  BY ShortFirst
<1>2. found = IF Len(below) <= 1 THEN IF m < Len(list) THEN <<list[m + 1]>> ELSE <<>>
              ELSE IF SumOf(below) >= target THEN find_subset_two_commitments(target, below)
              ELSE <<>>
  BY DEF find_subset_commitments, Short, Below
<1> HIDE DEF m
<1>3. /\ below \in Seq(E) /\ Len(below) = m /\ ByValue(below)
      /\ \A i \in 1 .. m : below[i] = list[i]
  BY <1>1, FirstMembers
<1>4. \A i, j \in 1 .. m : Two(below, i, j) = Two(list, i, j)
  BY <1>3 DEF Two
<1> HIDE DEF below, found
<1>5. CASE SumOf(below) >= target
  <2>1. found = find_subset_two_commitments(target, below)
    BY <1>1, <1>2, <1>3, <1>5
  <2>2. BestPair(target, below, 1, m, found)
    <3>1. Len(below) >= 1
      BY <1>1, <1>3
    <3> QED
      BY <1>3, <2>1, <3>1, PairIsBest
  <2>3. BestPair(target, list, 1, m, found)
    BY <1>4, <2>2 DEF BestPair
  <2> QED
    BY <2>3 DEF found, m
<1>6. CASE ~ (SumOf(below) >= target)
  <2>1. found = <<>>
    BY <1>1, <1>2, <1>3, <1>6
  <2>2. ASSUME NEW i \in 1 .. m, NEW j \in 1 .. m, i < j
        PROVE  SumOf(Two(list, i, j)) < target
    <3>1. SumOf(Two(below, i, j)) = below[i].value + below[j].value
      <4>1. below[i] \in E /\ below[j] \in E
        BY <1>3
      <4>2. below[i].value \in Nat /\ below[j].value \in Nat
        BY <4>1
      <4> QED
        BY <4>2, SumTwo DEF Two
    <3>2. i \in DOMAIN below /\ j \in DOMAIN below /\ i # j
      BY <1>3, <2>2
    <3>3. SumOf(below) \in Nat /\ below[i].value + below[j].value <= SumOf(below)
      BY <1>3, <3>2, SumAtLeast
    <3>4. below[i].value \in Nat /\ below[j].value \in Nat
      BY <1>3, <3>2
    <3> QED
      BY <1>4, <1>6, <3>1, <3>3, <3>4
  <2>3. BestPair(target, list, 1, m, found)
    BY <2>1, <2>2 DEF BestPair
  <2> QED
    BY <2>3 DEF found, m
<1> QED
  BY <1>5, <1>6

\* How many of the largest it takes.
LEMMA MinimumIs ==
  ASSUME NEW E, \A e \in E : e.value \in Nat, NEW list \in Seq(E), NEW target \in Nat
  PROVE  LET n == Len(list)
             one == n >= 1 /\ list[n].value >= target
             two == n >= 2 /\ SumOf(Two(list, n - 1, n)) >= target
         IN calculate_minimum_commitments(list, target) =
              IF one THEN 1 ELSE IF two THEN 2 ELSE 0
<1> DEFINE n == Len(list)
           taken(k) == SubSeq(Reverse(list), 1, k)
           one == n >= 1 /\ list[n].value >= target
           two == n >= 2 /\ SumOf(Two(list, n - 1, n)) >= target
           enough == {k \in 1 .. MAX_POSSIBLE_COMMITMENTS :
                        k <= Len(list) /\ SumOf(taken(k)) >= target}
<1>1. calculate_minimum_commitments(list, target) = IF enough = {} THEN 0 ELSE Min(enough)
  BY DEF calculate_minimum_commitments
<1>2. n \in Nat /\ \A i \in 1 .. n : list[i] \in E /\ list[i].value \in Nat
  OBVIOUS
<1>r. /\ Reverse(list) \in Seq(E) /\ Len(Reverse(list)) = n
      /\ n >= 1 => Reverse(list)[1] = list[n]
      /\ n >= 2 => Reverse(list)[2] = list[n - 1]
  <2>1. Reverse(list) = [i \in 1 .. n |-> list[(n - i) + 1]]
    BY DEF Reverse
  <2>2. \A i \in 1 .. n : list[(n - i) + 1] \in E
    <3> TAKE i \in 1 .. n
    <3>1. (n - i) + 1 \in 1 .. n
      BY <1>2
    <3> QED
      BY <1>2, <3>1
  <2>3. n >= 1 => 1 \in 1 .. n /\ (n - 1) + 1 = n
    BY <1>2
  <2>4. n >= 2 => 2 \in 1 .. n /\ (n - 2) + 1 = n - 1
    BY <1>2
  <2> HIDE DEF n
  <2>5. /\ n >= 1 => Reverse(list)[1] = list[n]
        /\ n >= 2 => Reverse(list)[2] = list[n - 1]
    BY <2>1, <2>3, <2>4
  <2>6. Reverse(list) \in [1 .. n -> E]
    BY <2>1, <2>2
  <2>7. Reverse(list) \in Seq(E) /\ Len(Reverse(list)) = n
    BY <1>2, <2>6
  <2> QED
    BY <2>5, <2>7
<1>3. n >= 1 => SumOf(taken(1)) = list[n].value
  <2> SUFFICES ASSUME n >= 1 PROVE SumOf(taken(1)) = list[n].value
    OBVIOUS
  <2>1. taken(1) = <<list[n]>>
    <3>1. /\ taken(1) \in Seq(E) /\ Len(taken(1)) = 1 /\ taken(1)[1] = Reverse(list)[1]
      <4>1. 1 \in 0 .. Len(Reverse(list)) /\ 1 \in 1 .. 1
        BY <1>2, <1>r
      <4> QED
        BY <1>r, <4>1, FirstMembers
    <3> HIDE DEF taken, n
    <3> QED
      BY <1>r, <3>1
  <2>2. list[n].value \in Nat
    BY <1>2
  <2> QED
    BY <2>1, <2>2, SumOne
<1>4. n >= 2 => SumOf(taken(2)) = SumOf(Two(list, n - 1, n))
  <2> SUFFICES ASSUME n >= 2 PROVE SumOf(taken(2)) = SumOf(Two(list, n - 1, n))
    OBVIOUS
  <2>1. taken(2) = <<list[n], list[n - 1]>>
    <3>1. /\ taken(2) \in Seq(E) /\ Len(taken(2)) = 2
          /\ taken(2)[1] = Reverse(list)[1] /\ taken(2)[2] = Reverse(list)[2]
      <4>1. 2 \in 0 .. Len(Reverse(list)) /\ 1 \in 1 .. 2 /\ 2 \in 1 .. 2
        BY <1>2, <1>r
      <4> QED
        BY <1>r, <4>1, FirstMembers
    <3>2. n >= 1
      BY <1>2
    <3> HIDE DEF taken, n
    <3> QED
      BY <1>r, <3>1, <3>2
  <2>2. list[n].value \in Nat /\ list[n - 1].value \in Nat
    <3>1. n \in 1 .. n /\ n - 1 \in 1 .. n
      BY <1>2
    <3> QED
      BY <1>2, <3>1
  <2>3. SumOf(<<list[n], list[n - 1]>>) = list[n].value + list[n - 1].value
    BY <2>2, SumTwo
  <2>4. SumOf(<<list[n - 1], list[n]>>) = list[n - 1].value + list[n].value
    BY <2>2, SumTwo
  <2>5. Two(list, n - 1, n) = <<list[n - 1], list[n]>>
    BY DEF Two
  <2> HIDE DEF taken, n
  <2>6. list[n].value + list[n - 1].value = list[n - 1].value + list[n].value
    BY <2>2
  <2> QED
    BY <2>1, <2>3, <2>4, <2>5, <2>6
<1> HIDE DEF taken
<1>5. \A k : k \in enough <=> (k = 1 /\ one) \/ (k = 2 /\ two)
  <2>1. 1 .. MAX_POSSIBLE_COMMITMENTS = {1, 2}
    BY DEF MAX_POSSIBLE_COMMITMENTS
  <2> QED
    BY <1>2, <1>3, <1>4, <2>1
<1> HIDE DEF enough
<1>6. one => Min(enough) = 1 /\ enough # {}
  <2> SUFFICES ASSUME one PROVE Min(enough) = 1 /\ enough # {}
    OBVIOUS
  <2>1. 1 \in enough /\ \A k \in enough : 1 <= k /\ (k <= 1 => k = 1)
    BY <1>5
  <2> HIDE DEF one, two
  <2> QED
    BY <2>1 DEF Min
<1>7. ~one /\ two => Min(enough) = 2 /\ enough # {}
  <2> SUFFICES ASSUME ~one, two PROVE Min(enough) = 2 /\ enough # {}
    OBVIOUS
  <2>1. enough = {2}
    <3> HIDE DEF one, two
    <3> QED
      BY <1>5
  <2> QED
    BY <2>1 DEF Min
<1>8. ~one /\ ~two => enough = {}
  <2> HIDE DEF one, two
  <2> QED
    BY <1>5
<1>9. calculate_minimum_commitments(list, target) = IF one THEN 1 ELSE IF two THEN 2 ELSE 0
  <2> HIDE DEF one, two
  <2> QED
    BY <1>1, <1>6, <1>7, <1>8
<1> QED
  BY <1>9

-----------------------------------------------------------------------------
(* The choice *)

\* Two members of a list that hold something and cover the target.
Covers(list, target, i, j) ==
  /\ i < j /\ list[i].value > 0 /\ list[j].value > 0
  /\ SumOf(Two(list, i, j)) >= target

NoChoice(list, target, chosen) ==
  /\ chosen = <<>>
  /\ \A i \in DOMAIN list : list[i].value < target
  /\ \A i, j \in DOMAIN list : ~ Covers(list, target, i, j)

OneChosen(list, target, chosen) ==
  \E i \in DOMAIN list :
    /\ chosen = <<list[i]>> /\ list[i].value >= target
    /\ \A k \in DOMAIN list : list[k].value >= target => list[i].value <= list[k].value
    /\ \A k, l \in DOMAIN list :
         Covers(list, target, k, l) => list[i].value < SumOf(Two(list, k, l))

TwoChosen(list, target, chosen) ==
  \E i, j \in DOMAIN list :
    /\ chosen = Two(list, i, j) /\ Covers(list, target, i, j)
    /\ \A k \in DOMAIN list :
         list[k].value >= target => SumOf(Two(list, i, j)) <= list[k].value
    /\ \A k, l \in DOMAIN list :
         Covers(list, target, k, l) => SumOf(Two(list, i, j)) <= SumOf(Two(list, k, l))

\* Two that cover what neither covers alone hold something.
LEMMA BothNeeded ==
  ASSUME NEW E, \A e \in E : e.value \in Nat, NEW list \in Seq(E), NEW target \in Nat,
         NEW i \in DOMAIN list, NEW j \in DOMAIN list, i < j,
         list[i].value < target, list[j].value < target, SumOf(Two(list, i, j)) >= target
  PROVE  Covers(list, target, i, j)
<1>1. list[i].value \in Nat /\ list[j].value \in Nat
  OBVIOUS
<1>2. SumOf(Two(list, i, j)) = list[i].value + list[j].value
  BY <1>1, SumTwo DEF Two
<1> QED
  BY <1>1, <1>2 DEF Covers

\* find_usable_commitments finds something to spend whenever one or two
\* commitments cover the target, leaves as little change as any choice of one
\* or two does, and of choices that leave the same takes the two: for lists of
\* any length.
THEOREM ChoiceIsBest ==
  ASSUME NEW E, \A e \in E : e.value \in Nat, NEW list \in Seq(E), ByValue(list),
         NEW target \in Nat \ {0}
  PROVE  LET chosen == UsableFrom(list, target)
         IN NoChoice(list, target, chosen) \/ OneChosen(list, target, chosen)
              \/ TwoChosen(list, target, chosen)
<1> DEFINE n == Len(list)
           D == DOMAIN list
           chosen == UsableFrom(list, target)
           m == Short(list, target)
           sum(i, j) == SumOf(Two(list, i, j))
           min == calculate_minimum_commitments(list, target)
<1> SUFFICES NoChoice(list, target, chosen) \/ OneChosen(list, target, chosen)
              \/ TwoChosen(list, target, chosen)
  OBVIOUS
<1>1. /\ n \in Nat /\ D = 1 .. n /\ target \in Nat /\ target > 0
      /\ \A i \in D : i \in Int /\ list[i] \in E /\ list[i].value \in Nat
  OBVIOUS
<1>2. m \in 0 .. n /\ \A i \in D : list[i].value < target <=> i <= m
  BY <1>1, ShortFirst
<1>3. /\ \A i, j \in D : sum(i, j) \in Nat
      /\ \A i, j, k \in D : i <= k => sum(i, j) <= sum(k, j) /\ sum(j, i) <= sum(j, k)
  BY TwoFacts
<1>4. \A i, j \in D : sum(i, j) = list[i].value + list[j].value
  BY <1>1, SumTwo DEF Two
<1>5. \A i, j \in D : i <= j => list[i].value <= list[j].value
  <2> TAKE i, j \in D
  <2> HAVE i <= j
  <2>1. i < j \/ i = j
    BY <1>1
  <2> QED
    BY <1>1, <2>1 DEF ByValue
<1>6. min = IF n >= 1 /\ list[n].value >= target THEN 1
            ELSE IF n >= 2 /\ sum(n - 1, n) >= target THEN 2 ELSE 0
  BY <1>1, MinimumIs
<1>7. chosen = IF min = 0 THEN <<>> ELSE select_commitment(list, target, min)
  BY DEF UsableFrom
<1> HIDE DEF n, D, chosen, m, sum, min
<1>8. CASE min = 0
  <2>1. chosen = <<>>
    BY <1>7, <1>8
  <2>2. \A i \in D : list[i].value < target
    <3> TAKE i \in D
    <3>1. n \in D /\ i <= n /\ n >= 1
      BY <1>1
    <3>2. list[n].value < target
      BY <1>1, <1>6, <1>8, <3>1
    <3> QED
      BY <1>1, <1>5, <3>1, <3>2
  <2>3. ASSUME NEW i \in D, NEW j \in D, Covers(list, target, i, j) PROVE FALSE
    <3>1. i < j /\ sum(i, j) >= target
      BY <2>3 DEF Covers, sum
    <3>2. n >= 2 /\ n - 1 \in D /\ n \in D /\ i <= n - 1 /\ j <= n
      BY <1>1, <3>1
    <3>3. sum(n - 1, n) < target
      <4>1. sum(n - 1, n) \in Nat /\ ~ (sum(n - 1, n) >= target)
        BY <1>3, <1>6, <1>8, <3>2
      <4> QED
        BY <1>1, <4>1
    <3>4. sum(i, j) <= sum(n - 1, j) /\ sum(n - 1, j) <= sum(n - 1, n)
      BY <1>3, <3>2
    <3>5. sum(i, j) \in Nat /\ sum(n - 1, j) \in Nat /\ sum(n - 1, n) \in Nat
      BY <1>3, <3>2
    <3> QED
      BY <1>1, <3>1, <3>3, <3>4, <3>5
  <2> QED
    BY <2>1, <2>2, <2>3 DEF NoChoice, D
<1>9. CASE min = 2
  <2>1. chosen = find_subset_commitments(list, target, 2)
    BY <1>7, <1>9 DEF select_commitment, MAX_POSSIBLE_COMMITMENTS
  <2>2. n >= 2 /\ n \in D /\ n - 1 \in D /\ sum(n - 1, n) >= target /\ ~ (list[n].value >= target)
    BY <1>1, <1>6, <1>9
  <2>3. m = n
    <3>1. list[n].value < target
      BY <1>1, <2>2
    <3> QED
      BY <1>1, <1>2, <2>2, <3>1
  <2>4. \A i \in D : list[i].value < target /\ ~ (list[i].value >= target)
    BY <1>1, <1>2, <2>3
  <2>5. BestPair(target, list, 1, n, chosen)
    <3>1. Short(list, target) >= 2
      BY <2>2, <2>3 DEF m
    <3> QED
      BY <1>1, <2>1, <2>3, <3>1, FindPair DEF m
  <2>6. ~ \A i, j \in 1 .. n : i < j => sum(i, j) < target
    <3>1. ~ (sum(n - 1, n) < target)
      BY <1>1, <1>3, <2>2
    <3> QED
      BY <1>1, <2>2, <3>1
  <2>7. PICK i \in D, j \in D :
          /\ i < j /\ chosen = Two(list, i, j) /\ sum(i, j) >= target
          /\ \A k, l \in D : k < l /\ sum(k, l) >= target => sum(i, j) <= sum(k, l)
    BY <1>1, <2>5, <2>6 DEF BestPair, sum
  <2>8. Covers(list, target, i, j)
    BY <1>1, <2>4, <2>7, BothNeeded DEF D, sum
  <2>9. \A k, l \in D : Covers(list, target, k, l) => sum(i, j) <= sum(k, l)
    BY <2>7 DEF Covers, sum
  <2>10. TwoChosen(list, target, chosen)
    BY <2>4, <2>7, <2>8, <2>9 DEF TwoChosen, D, sum
  <2> QED
    BY <2>10
<1>10. CASE min = 1
  <2> DEFINE one == <<list[m + 1]>>
             two == find_subset_commitments(list, target, 2)
             v == list[m + 1].value
  <2>1. n >= 1 /\ n \in D /\ list[n].value >= target
    BY <1>1, <1>6, <1>10
  <2>2. m < n /\ m + 1 \in D /\ m \in Nat
    <3>1. ~ (list[n].value < target)
      BY <1>1, <2>1
    <3>2. ~ (n <= m)
      BY <1>2, <2>1, <3>1
    <3> QED
      BY <1>1, <1>2, <3>2
  <2>3. v \in Nat /\ v >= target
    <3>1. ~ (m + 1 <= m)
      BY <2>2
    <3> QED
      BY <1>1, <1>2, <2>2, <3>1
  <2>4. find_subset_commitments(list, target, 1) = one
    BY <2>2, FindCovering DEF m, n
  <2>5. chosen = IF n = 1 \/ two = <<>> \/ Preferred(one, two) THEN one ELSE two
    BY <1>7, <1>10, <2>4 DEF select_commitment, MAX_POSSIBLE_COMMITMENTS, n
  <2>6. SumOf(one) = v /\ Len(one) = 1
    BY <2>3, SumOne
  <2> HIDE DEF one, two, v
  <2>7. \A k \in D : list[k].value >= target => v <= list[k].value
    <3> SUFFICES ASSUME NEW k \in D, list[k].value >= target PROVE v <= list[k].value
      OBVIOUS
    <3>1. ~ (k <= m)
      BY <1>1, <1>2
    <3>2. m + 1 <= k
      BY <1>1, <2>2, <3>1
    <3> QED
      BY <1>5, <2>2, <3>2 DEF v
  <2>8. ASSUME NEW k \in D, NEW l \in D, Covers(list, target, k, l), l > m
        PROVE  v < sum(k, l)
    <3>1. list[k].value > 0 /\ list[k].value \in Nat /\ list[l].value \in Nat
      BY <1>1, <2>8 DEF Covers
    <3>2. v <= list[l].value
      <4>1. m + 1 <= l
        BY <1>1, <2>2, <2>8
      <4> QED
        BY <1>5, <2>2, <4>1 DEF v
    <3>3. sum(k, l) = list[k].value + list[l].value
      BY <1>4
    <3> QED
      BY <2>3, <3>1, <3>2, <3>3
  <2>9. ASSUME chosen = one,
               \A k, l \in D : Covers(list, target, k, l) /\ l <= m => v < sum(k, l)
        PROVE  OneChosen(list, target, chosen)
    <3>1. \A k, l \in D : Covers(list, target, k, l) => v < sum(k, l)
      <4> TAKE k, l \in D
      <4>1. l <= m \/ l > m
        BY <1>1, <2>2
      <4> QED
        BY <2>8, <2>9, <4>1
    <3> QED
      BY <2>2, <2>3, <2>7, <2>9, <3>1 DEF OneChosen, D, sum, v, one
  <2>10. CASE m <= 1
    <3>1. two = one
      <4>1. Len(SubSeq(list, 1, m)) = m
        BY <1>1, <1>2, FirstMembers DEF n
      <4> QED
        BY <2>2, <2>10, <4>1, FindCovering DEF two, one, m, n
    <3>2. chosen = one
      BY <2>5, <3>1
    <3>3. \A k, l \in D : ~ (Covers(list, target, k, l) /\ l <= m)
      BY <1>1, <2>2, <2>10 DEF Covers
    <3> QED
      BY <2>9, <3>2, <3>3
  <2>11. CASE m >= 2
    <3>1. BestPair(target, list, 1, m, two)
      BY <1>1, <2>11, FindPair DEF m, two
    <3>2. n # 1
      BY <1>1, <2>2, <2>11
    <3>3. \A k, l \in D : Covers(list, target, k, l) /\ l <= m =>
            k \in 1 .. m /\ l \in 1 .. m /\ k < l /\ sum(k, l) >= target
      BY <1>1, <2>2 DEF Covers, sum
    <3>4. CASE two = <<>>
      <4>1. \A i, j \in 1 .. m : i < j => sum(i, j) < target
        <5>1. \A i, j \in Int : Two(list, i, j) # <<>>
          BY DEF Two
        <5> QED
          BY <3>1, <3>4, <5>1 DEF BestPair, sum
      <4>2. chosen = one
        BY <2>5, <3>4
      <4>3. ASSUME NEW k \in D, NEW l \in D, Covers(list, target, k, l), l <= m PROVE FALSE
        <5>1. sum(k, l) \in Nat /\ sum(k, l) >= target /\ sum(k, l) < target
          BY <1>3, <3>3, <4>1, <4>3
        <5> QED
          BY <1>1, <5>1
      <4> QED
        BY <2>9, <4>2, <4>3
    <3>5. CASE two # <<>>
      <4>1. PICK i \in 1 .. m, j \in 1 .. m :
              /\ i < j /\ two = Two(list, i, j) /\ sum(i, j) >= target
              /\ \A k, l \in 1 .. m : k < l /\ sum(k, l) >= target => sum(i, j) <= sum(k, l)
        BY <3>1, <3>5 DEF BestPair, sum
      <4>2. i \in D /\ j \in D /\ i <= m /\ j <= m
        BY <1>1, <2>2
      <4>3. Len(two) = 2 /\ SumOf(two) = sum(i, j) /\ sum(i, j) \in Nat
        BY <1>3, <4>1, <4>2 DEF Two, sum
      <4>4. Preferred(one, two) <=> v < sum(i, j)
        BY <2>3, <2>6, <4>3 DEF Preferred
      <4>5. CASE v < sum(i, j)
        <5>1. chosen = one
          BY <2>5, <4>4, <4>5
        <5>2. ASSUME NEW k \in D, NEW l \in D, Covers(list, target, k, l), l <= m
              PROVE  v < sum(k, l)
          <6>1. sum(i, j) <= sum(k, l) /\ sum(k, l) \in Nat
            BY <1>3, <3>3, <4>1, <5>2
          <6> QED
            BY <2>3, <4>3, <4>5, <6>1
        <5> QED
          BY <2>9, <5>1, <5>2
      <4>6. CASE ~ (v < sum(i, j))
        <5>1. chosen = two
          BY <2>5, <3>2, <3>5, <4>4, <4>6
        <5>2. sum(i, j) <= v
          BY <2>3, <4>3, <4>6
        <5>3. Covers(list, target, i, j)
          <6>1. list[i].value < target /\ list[j].value < target
            BY <1>2, <4>2
          <6> QED
            BY <1>1, <4>1, <4>2, <6>1, BothNeeded DEF D, sum
        <5>4. \A k \in D : list[k].value >= target => sum(i, j) <= list[k].value
          BY <1>1, <2>3, <2>7, <4>3, <5>2
        <5>5. ASSUME NEW k \in D, NEW l \in D, Covers(list, target, k, l)
              PROVE  sum(i, j) <= sum(k, l)
          <6>1. CASE l <= m
            BY <3>3, <4>1, <5>5, <6>1
          <6>2. CASE l > m
            <7>1. v < sum(k, l) /\ sum(k, l) \in Nat
              BY <1>3, <2>8, <5>5, <6>2
            <7> QED
              BY <2>3, <4>3, <5>2, <7>1
          <6> QED
            BY <1>1, <2>2, <6>1, <6>2
        <5>6. TwoChosen(list, target, chosen)
          BY <4>1, <4>2, <5>1, <5>3, <5>4, <5>5 DEF TwoChosen, D, sum
        <5> QED
          BY <5>6
      <4> QED
        BY <4>5, <4>6
    <3> QED
      BY <3>4, <3>5
  <2> QED
    BY <2>2, <2>10, <2>11
<1> QED
  BY <1>6, <1>8, <1>9, <1>10

\* Sorting gives a list in order, each member of the offer in it once.
LEMMA OrdersAreLists ==
  ASSUME NEW S, IsFiniteSet(S), NEW list \in Orders(S)
  PROVE  /\ list \in Seq(S) /\ Len(list) = Cardinality(S) /\ ByValue(list)
         /\ \A i, j \in DOMAIN list : i # j => list[i] # list[j]
<1>1. Cardinality(S) \in Nat
  BY FS_CardinalityType
<1>2. /\ list \in [1 .. Cardinality(S) -> S]
      /\ \A i, j \in 1 .. Cardinality(S) : i # j => list[i] # list[j]
      /\ ByValue(list)
  BY DEF Orders, SetToSeqs, ByValue
<1> QED
  BY <1>1, <1>2

\* What is chosen is on offer and covers the target.
LEMMA ChosenCovers ==
  ASSUME NEW S, IsFiniteSet(S), \A e \in S : e.value \in Nat, NEW list \in Orders(S),
         NEW target \in Nat \ {0}, UsableFrom(list, target) # <<>>
  PROVE  /\ UsableFrom(list, target) \in Seq(S)
         /\ SumOf(UsableFrom(list, target)) \in Nat
         /\ SumOf(UsableFrom(list, target)) >= target
<1> DEFINE chosen == UsableFrom(list, target)
<1>1. list \in Seq(S) /\ ByValue(list)
  BY OrdersAreLists
<1>2. OneChosen(list, target, chosen) \/ TwoChosen(list, target, chosen)
  BY <1>1, ChoiceIsBest DEF NoChoice
<1> SUFFICES chosen \in Seq(S) /\ SumOf(chosen) \in Nat /\ SumOf(chosen) >= target
  OBVIOUS
<1> HIDE DEF chosen
<1>3. CASE OneChosen(list, target, chosen)
  <2>1. PICK i \in DOMAIN list : chosen = <<list[i]>> /\ list[i].value >= target
    BY <1>3 DEF OneChosen
  <2>2. list[i] \in S /\ list[i].value \in Nat
    BY <1>1
  <2> QED
    BY <2>1, <2>2, SumOne
<1>4. CASE TwoChosen(list, target, chosen)
  <2>1. PICK i \in DOMAIN list, j \in DOMAIN list :
          chosen = Two(list, i, j) /\ Covers(list, target, i, j)
    BY <1>4 DEF TwoChosen
  <2>2. list[i] \in S /\ list[i].value \in Nat /\ list[j] \in S /\ list[j].value \in Nat
    BY <1>1
  <2>3. chosen = <<list[i], list[j]>> /\ SumOf(chosen) = list[i].value + list[j].value
    BY <2>1, <2>2, SumTwo DEF Two
  <2>4. SumOf(chosen) >= target
    BY <2>1 DEF Covers
  <2> QED
    BY <2>2, <2>3, <2>4
<1> QED
  BY <1>2, <1>3, <1>4

-----------------------------------------------------------------------------
(* Sorting *)

\* A set of entries has one of least value.
LEMMA LeastEntry ==
  ASSUME NEW S, S # {}, \A e \in S : e.value \in Nat
  PROVE  \E x \in S : \A y \in S : x.value <= y.value
<1> DEFINE V == {e.value : e \in S}
           less == {ss \in Nat \X Nat : ss[1] < ss[2]}
<1>1. IsWellFoundedOn(less, Nat)
  BY NatLessThanWellFounded DEF OpToRel
<1>2. V # {} /\ V \subseteq Nat
  OBVIOUS
<1>3. PICK v \in V : \A w \in V : ~ (<<w, v>> \in less)
  <2> HIDE DEF V, less
  <2> QED
    BY <1>1, <1>2, WFMin
<1>4. \A w \in V : v <= w
  <2> SUFFICES ASSUME NEW w \in V PROVE v <= w
    OBVIOUS
  <2>1. v \in Nat /\ w \in Nat /\ ~ (<<w, v>> \in less)
    BY <1>2, <1>3
  <2>2. ~ (w < v)
    BY <2>1
  <2> QED
    BY <2>1, <2>2
<1> QED
  BY <1>4

\* A finite set of entries can be sorted.
LEMMA OrdersExist ==
  ASSUME NEW S, IsFiniteSet(S), \A e \in S : e.value \in Nat
  PROVE  Orders(S) # {}
<1> DEFINE N == {n \in Nat : \A s \in SUBSET S : Cardinality(s) = n => Orders(s) # {}}
<1>1. \A s \in SUBSET S : IsFiniteSet(s) /\ Cardinality(s) \in Nat
  BY FS_Subset, FS_CardinalityType
<1>2. 0 \in N
  <2> SUFFICES ASSUME NEW s \in SUBSET S, Cardinality(s) = 0 PROVE <<>> \in Orders(s)
    BY DEF Orders
  <2>1. s = {} /\ 1 .. 0 = {}
    BY <1>1, FS_EmptySet
  <2>2. <<>> \in [1 .. 0 -> s]
    BY <2>1
  <2> QED
    BY <2>1, <2>2 DEF Orders, SetToSeqs
<1>3. ASSUME NEW n \in Nat, n \in N PROVE n + 1 \in N
  <2> SUFFICES ASSUME NEW s \in SUBSET S, Cardinality(s) = n + 1 PROVE Orders(s) # {}
    OBVIOUS
  <2>1. s # {} /\ IsFiniteSet(s)
    BY <1>1, FS_EmptySet
  <2>2. PICK x \in s : \A y \in s : x.value <= y.value
    BY <2>1, LeastEntry
  <2>3. s \ {x} \in SUBSET S /\ Cardinality(s \ {x}) = n
    <3>1. Cardinality(s \ {x}) = Cardinality(s) - 1
      BY <2>1, FS_RemoveElement
    <3> QED
      BY <3>1
  <2>4. PICK rest : rest \in Orders(s \ {x})
    BY <1>3, <2>3
  <2>5. /\ rest \in [1 .. n -> s \ {x}]
        /\ \A i, j \in 1 .. n : i # j => rest[i] # rest[j]
        /\ \A i, j \in 1 .. n : i < j => rest[i].value <= rest[j].value
    BY <2>3, <2>4 DEF Orders, SetToSeqs
  <2> DEFINE list == [i \in 1 .. n + 1 |-> IF i = 1 THEN x ELSE rest[i - 1]]
  <2>6. \A i \in 1 .. n + 1 : i # 1 => i - 1 \in 1 .. n
    OBVIOUS
  <2>7. list \in [1 .. n + 1 -> s]
    BY <2>5, <2>6
  <2>8. ASSUME NEW i \in 1 .. n + 1, NEW j \in 1 .. n + 1, i < j
        PROVE  list[i] # list[j] /\ list[i].value <= list[j].value
    <3>1. j # 1 /\ list[j] = rest[j - 1] /\ j - 1 \in 1 .. n
      BY <2>6, <2>8
    <3>2. CASE i = 1
      BY <2>2, <2>5, <3>1, <3>2
    <3>3. CASE i # 1
      <4>1. i - 1 \in 1 .. n /\ i - 1 < j - 1 /\ i - 1 # j - 1 /\ list[i] = rest[i - 1]
        BY <2>6, <2>8, <3>3
      <4> QED
        BY <2>5, <3>1, <4>1
    <3> QED
      BY <3>2, <3>3
  <2>9. \A i, j \in 1 .. n + 1 : i # j => list[i] # list[j]
    <3> SUFFICES ASSUME NEW i \in 1 .. n + 1, NEW j \in 1 .. n + 1, i # j
                 PROVE  list[i] # list[j]
      OBVIOUS
    <3>1. i < j \/ j < i
      OBVIOUS
    <3> QED
      BY <2>8, <3>1
  <2> HIDE DEF list
  <2>10. list \in SetToSeqs(s)
    BY <2>7, <2>9 DEF SetToSeqs
  <2>11. list \in Orders(s)
    BY <2>7, <2>8, <2>10 DEF Orders
  <2> QED
    BY <2>11
<1>4. Nat \subseteq N
  <2> HIDE DEF N
  <2> QED
    BY <1>2, <1>3, Induction
<1>5. S \in SUBSET S /\ Cardinality(S) \in N
  BY <1>1, <1>4
<1> QED
  BY <1>5

\* A sorted list of a set holds every entry of it once.
LEMMA SortedIsAll ==
  ASSUME NEW S, IsFiniteSet(S), \A e \in S : e.value \in Nat
  PROVE  /\ Sorted(S) \in Orders(S)
         /\ Sorted(S) \in Seq(S) /\ ByValue(Sorted(S))
         /\ \A i, j \in DOMAIN Sorted(S) : i # j => Sorted(S)[i] # Sorted(S)[j]
         /\ \A e \in S : \E i \in DOMAIN Sorted(S) : Sorted(S)[i] = e
<1> DEFINE list == Sorted(S)
           n == Cardinality(S)
<1>1. list \in Orders(S)
  BY OrdersExist DEF Sorted
<1>2. n \in Nat
  BY FS_CardinalityType
<1>3. list \in [1 .. n -> S] /\ \A i, j \in 1 .. n : i # j => list[i] # list[j]
  BY <1>1 DEF Orders, SetToSeqs
<1>4. IsFiniteSet(1 .. n) /\ Cardinality(1 .. n) = n
  BY <1>2, FS_Interval
<1> HIDE DEF list
<1>5. list \in Injection(1 .. n, S)
  BY <1>3 DEF Injection, IsInjective
<1>6. list \in Surjection(1 .. n, S)
  <2> HIDE DEF n
  <2>1. Cardinality(1 .. n) = Cardinality(S)
    BY <1>4 DEF n
  <2> QED
    BY <1>5, <2>1, FS_Injection
<1>7. \A e \in S : \E i \in 1 .. n : list[i] = e
  BY <1>6 DEF Surjection
<1>8. list \in Seq(S) /\ DOMAIN list = 1 .. n /\ ByValue(list)
  BY <1>1, <1>2, <1>3, OrdersAreLists
<1> QED
  BY <1>1, <1>3, <1>7, <1>8 DEF list

-----------------------------------------------------------------------------
(* What is chosen, for any target *)

\* A target of zero, which tokens without an amount have, takes the first.
LEMMA NothingWanted ==
  ASSUME NEW E, \A e \in E : e.value \in Nat, NEW list \in Seq(E), ByValue(list)
  PROVE  UsableFrom(list, 0) = IF Len(list) = 0 THEN <<>> ELSE <<list[1]>>
<1> DEFINE n == Len(list)
           min == calculate_minimum_commitments(list, 0)
<1>0. n \in Nat /\ \A i \in 1 .. n : list[i] \in E /\ list[i].value \in Nat
  OBVIOUS
<1>1. CASE n = 0
  <2>1. min = 0
    <3>1. ~ (n >= 1) /\ ~ (n >= 2) /\ 0 \in Nat
      BY <1>1
    <3> HIDE DEF n
    <3>2. calculate_minimum_commitments(list, 0) = 0
      BY <3>1, MinimumIs DEF n
    <3> QED
      BY <3>2
  <2> QED
    BY <1>1, <2>1 DEF UsableFrom
<1>2. CASE n # 0
  <2>1. n >= 1 /\ n \in 1 .. n /\ list[n].value >= 0
    BY <1>0, <1>2
  <2>2. min = 1
    BY <2>1, MinimumIs
  <2>3. Short(list, 0) \in 0 .. n /\ \A i \in DOMAIN list : list[i].value < 0 <=> i <= Short(list, 0)
    BY ShortFirst
  <2>4. 1 \in DOMAIN list /\ ~ (list[1].value < 0)
    BY <1>0, <2>1
  <2>5. Short(list, 0) = 0
    BY <1>0, <2>3, <2>4
  <2>6. Len(SubSeq(list, 1, 0)) = 0
    BY <1>0, FirstMembers
  <2>7. \A k \in {1, 2} : find_subset_commitments(list, 0, k) = <<list[1]>>
    <3> SUFFICES ASSUME NEW k \in {1, 2} PROVE find_subset_commitments(list, 0, k) = <<list[1]>>
      OBVIOUS
    <3>1. Short(list, 0) < Len(list) /\ Len(SubSeq(list, 1, Short(list, 0))) <= 1
      BY <1>0, <2>1, <2>5, <2>6
    <3>2. find_subset_commitments(list, 0, k) = <<list[Short(list, 0) + 1]>>
      BY <3>1, FindCovering
    <3> QED
      BY <2>5, <3>2
  <2>8. UsableFrom(list, 0) = select_commitment(list, 0, 1)
    BY <2>2 DEF UsableFrom
  <2>9. select_commitment(list, 0, 1) = <<list[1]>>
    BY <2>7 DEF select_commitment, MAX_POSSIBLE_COMMITMENTS
  <2> QED
    BY <1>2, <2>8, <2>9
<1> QED
  BY <1>1, <1>2

\* One commitment that covers the target, or two that each hold something
\* and do not cover it alone.
ChosenFrom(S, target, chosen) ==
  \/ chosen = <<>>
  \/ \E a \in S : chosen = <<a>> /\ a.value >= target
  \/ \E a, b \in S :
       /\ a # b /\ chosen = <<a, b>> /\ a.value + b.value >= target
       /\ a.value > 0 /\ b.value > 0 /\ a.value < target /\ b.value < target

LEMMA WhatIsChosen ==
  ASSUME NEW S, IsFiniteSet(S), \A e \in S : e.value \in Nat, NEW target \in Nat
  PROVE  ChosenFrom(S, target, Usable(S, target))
<1> DEFINE list == Sorted(S)
           chosen == UsableFrom(list, target)
<1>1. /\ list \in Seq(S) /\ ByValue(list)
      /\ \A i, j \in DOMAIN list : i # j => list[i] # list[j]
  BY SortedIsAll
<1> HIDE DEF list
<1> SUFFICES ChosenFrom(S, target, chosen)
  BY DEF Usable, list
<1>2. \A i \in DOMAIN list : list[i] \in S /\ list[i].value \in Nat
  BY <1>1
<1>3. CASE target = 0
  <2>1. chosen = <<>> \/ (chosen = <<list[1]>> /\ Len(list) # 0)
    BY <1>1, <1>3, NothingWanted
  <2>2. Len(list) # 0 => 1 \in DOMAIN list
    BY <1>1
  <2> QED
    BY <1>2, <1>3, <2>1, <2>2 DEF ChosenFrom
<1>4. CASE target # 0
  <2>1. \/ NoChoice(list, target, chosen) \/ OneChosen(list, target, chosen)
        \/ TwoChosen(list, target, chosen)
    BY <1>1, <1>4, ChoiceIsBest
  <2> HIDE DEF chosen
  <2>2. CASE NoChoice(list, target, chosen)
    BY <2>2 DEF NoChoice, ChosenFrom
  <2>3. CASE OneChosen(list, target, chosen)
    BY <1>2, <2>3 DEF OneChosen, ChosenFrom
  <2>4. CASE TwoChosen(list, target, chosen)
    <3>1. PICK i \in DOMAIN list, j \in DOMAIN list :
            /\ chosen = Two(list, i, j) /\ Covers(list, target, i, j)
            /\ \A k \in DOMAIN list :
                 list[k].value >= target => SumOf(Two(list, i, j)) <= list[k].value
      BY <2>4 DEF TwoChosen
    <3> DEFINE a == list[i]
               b == list[j]
    <3>2. a \in S /\ b \in S /\ a.value \in Nat /\ b.value \in Nat /\ chosen = <<a, b>>
      BY <1>2, <3>1 DEF Two
    <3>3. SumOf(Two(list, i, j)) = a.value + b.value
      BY <3>2, SumTwo DEF Two
    <3>4. i < j /\ a.value > 0 /\ b.value > 0 /\ a.value + b.value >= target
      BY <3>1, <3>3 DEF Covers
    <3>5. a # b
      BY <1>1, <3>4
    <3>6. (a.value >= target => a.value + b.value <= a.value)
          /\ (b.value >= target => a.value + b.value <= b.value)
      BY <3>1, <3>3
    <3>7. a.value < target /\ b.value < target
      BY <3>2, <3>4, <3>6
    <3> HIDE DEF a, b
    <3> QED
      BY <3>2, <3>4, <3>5, <3>7 DEF ChosenFrom
  <2> QED
    BY <2>1, <2>2, <2>3, <2>4
<1> QED
  BY <1>3, <1>4

=============================================================================
