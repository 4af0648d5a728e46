----------------------------- MODULE TreesProofs -----------------------------
(***************************************************************************)
(* Proofs about the nullifier lists of Trees, for any proposers, any       *)
(* heights, any blocks and any of the bounds: the leaf databases stay      *)
(* sorted lists, and a value is refused exactly when a block in the trees  *)
(* has nullified it.                                                       *)
(*                                                                         *)
(* The insertions are folds.  Each fold's equation is established first,   *)
(* as for the sums of SumTheorems: a solution is built up over the subsets *)
(* of its indices, and the values of the fold on 1 .. k, for each k, are   *)
(* the states the loop goes through.                                       *)
(***************************************************************************)
EXTENDS Trees, FiniteSetTheorems, SequenceTheorems, TLAPS

-----------------------------------------------------------------------------
(* Induction and greatest elements *)

\* By the smallest counterexample.
LEMMA NatInduct ==
  ASSUME NEW T, 0 \in T, \A n \in Nat : n \in T => n + 1 \in T
  PROVE  \A n \in Nat : n \in T
<1> DEFINE bad == Nat \ T
<1> SUFFICES ASSUME bad # {} PROVE FALSE
  OBVIOUS
<1> DEFINE less == {ss \in Nat \X Nat : ss[1] < ss[2]}
<1>0. IsWellFoundedOn(less, Nat)
  BY NatLessThanWellFounded DEF OpToRel
<1>1. PICK x \in bad : \A y \in bad : ~ (<<y, x>> \in less)
  <2> HIDE DEF less, bad
  <2>1. bad \subseteq Nat
    BY DEF bad
  <2> QED
    BY <1>0, <2>1, WFMin
<1>2. \A y \in bad : ~ (y < x)
  BY <1>1
<1>3. x # 0 /\ x - 1 \in Nat /\ x - 1 < x /\ (x - 1) + 1 = x
  OBVIOUS
<1>4. x - 1 \in T
  BY <1>2, <1>3
<1> QED
  BY <1>3, <1>4

LEMMA GreatestExists ==
  ASSUME NEW k \in Nat, NEW U \in SUBSET (0 .. k), U # {}
  PROVE  Max(U) \in U /\ \A y \in U : Max(U) >= y
<1> DEFINE Has(V) == \E x \in V : \A y \in V : x >= y
           T == {n \in Nat : \A V \in SUBSET (0 .. n) : V # {} => Has(V)}
<1>1. 0 \in T
  <2> SUFFICES ASSUME NEW V \in SUBSET (0 .. 0), V # {} PROVE Has(V)
    OBVIOUS
  <2>1. \A y \in V : y = 0
    OBVIOUS
  <2>2. 0 \in V
    BY <2>1
  <2> QED
    BY <2>1, <2>2
<1>2. ASSUME NEW n \in Nat, n \in T PROVE n + 1 \in T
  <2> SUFFICES ASSUME NEW V \in SUBSET (0 .. n + 1), V # {} PROVE Has(V)
    OBVIOUS
  <2>1. CASE n + 1 \in V
    BY <2>1
  <2>2. CASE n + 1 \notin V
    <3>1. V \in SUBSET (0 .. n)
      BY <2>2
    <3> QED
      BY <1>2, <3>1
  <2> QED
    BY <2>1, <2>2
<1>3. k \in T
  <2> HIDE DEF T
  <2> QED
    BY <1>1, <1>2, NatInduct
<1>4. Has(U)
  BY <1>3
<1> QED
  BY <1>4 DEF Max

LEMMA GreatestOfInterval ==
  ASSUME NEW k \in Nat \ {0}
  PROVE  Max(1 .. k) = k /\ (1 .. k) \ {k} = 1 .. k - 1
<1>1. k \in 1 .. k /\ 1 .. k \in SUBSET (0 .. k) /\ 1 .. k # {}
  OBVIOUS
<1>2. Max(1 .. k) \in 1 .. k /\ \A y \in 1 .. k : Max(1 .. k) >= y
  BY <1>1, GreatestExists
<1>3. Max(1 .. k) >= k
  BY <1>1, <1>2
<1> QED
  BY <1>2, <1>3

-----------------------------------------------------------------------------
(* Folds *)

\* What StoreAll does at one place of the values.
StoreStep(values, first, acc, x) == 
  LET k == [j \in DOMAIN values |-> j][x]
  IN IF acc.err # "none" \/ values[k] = 0 THEN acc
     ELSE store_leaf(acc.db, values[k], first + k - 1)
StoreRec(values, first, base, D, g) ==
  g = [s \in D |-> IF s = {} THEN base ELSE StoreStep(values, first, g[s \ {Max(s)}], Max(s))]
StoreRun(values, first, base, S) == CHOOSE g : StoreRec(values, first, base, SUBSET S, g)

LEMMA StoreExists ==
  ASSUME NEW values, NEW first, NEW base, NEW S, NEW m \in Nat, S \subseteq 0 .. m
  PROVE  \E g : StoreRec(values, first, base, SUBSET S, g)
<1> DEFINE Up(n) == SUBSET (S \cap (0 .. n))
           T == {n \in Nat : \E g : StoreRec(values, first, base, Up(n), g)}
           h(g, n) == [s \in Up(n) |-> IF s = {} THEN base
                                       ELSE StoreStep(values, first, g[s \ {Max(s)}], Max(s))]
           start == [s \in Up(0) |-> base]
<1>1. 0 \in T
  <2>1. ASSUME NEW s \in Up(0), s # {} PROVE s \ {Max(s)} = {}
    <3>1. Max(s) = 0 /\ s = {0}
      <4>1. s \in SUBSET (0 .. 0) /\ \A y \in s : y = 0
        OBVIOUS
      <4>2. Max(s) \in s
        BY <2>1, <4>1, GreatestExists
      <4> QED
        BY <4>1, <4>2
    <3> QED
      BY <3>1
  <2>2. ASSUME NEW s \in Up(0)
        PROVE  h(start, 0)[s] = IF s = {} THEN base
                  ELSE StoreStep(values, first, h(start, 0)[s \ {Max(s)}], Max(s))
    <3>1. {} \in Up(0) /\ h(start, 0)[{}] = base /\ start[{}] = base
      OBVIOUS
    <3> HIDE DEF start
    <3> QED
      BY <2>1, <3>1
  <2>3. StoreRec(values, first, base, Up(0), h(start, 0))
    BY <2>2 DEF StoreRec
  <2> QED
    BY <2>3
<1>2. ASSUME NEW n \in Nat, n \in T PROVE n + 1 \in T
  <2>1. PICK g : StoreRec(values, first, base, Up(n), g)
    BY <1>2
  <2>2. \A s \in Up(n) : g[s] = IF s = {} THEN base
                              ELSE StoreStep(values, first, g[s \ {Max(s)}], Max(s))
    BY <2>1 DEF StoreRec
  <2>3. ASSUME NEW s \in Up(n + 1), s # {} PROVE s \ {Max(s)} \in Up(n)
    <3>1. s \subseteq 0 .. n + 1
      OBVIOUS
    <3>2. Max(s) \in s /\ \A y \in s : Max(s) >= y
      BY <2>3, <3>1, GreatestExists
    <3>3. \A y \in s : y \in S /\ y \in 0 .. n + 1 /\ Max(s) \in 0 .. n + 1
      BY <3>1, <3>2
    <3>4. ASSUME NEW y \in s \ {Max(s)} PROVE y \in S \cap (0 .. n)
      BY <3>2, <3>3
    <3> QED
      BY <3>4
  <2>4. ASSUME NEW s \in Up(n) PROVE s \in Up(n + 1) /\ h(g, n + 1)[s] = g[s]
    <3>1. s \in Up(n + 1)
      OBVIOUS
    <3> QED
      BY <2>2, <3>1
  <2>5. ASSUME NEW s \in Up(n + 1)
        PROVE  h(g, n + 1)[s] = IF s = {} THEN base
                  ELSE StoreStep(values, first, h(g, n + 1)[s \ {Max(s)}], Max(s))
    BY <2>3, <2>4
  <2>6. StoreRec(values, first, base, Up(n + 1), h(g, n + 1))
    BY <2>5 DEF StoreRec
  <2> QED
    BY <2>6
<1>3. m \in T
  <2> HIDE DEF T
  <2> QED
    BY <1>1, <1>2, NatInduct
<1>4. Up(m) = SUBSET S
  OBVIOUS
<1> QED
  BY <1>3, <1>4

LEMMA StoreEquation ==
  ASSUME NEW values, NEW first, NEW base, NEW S, NEW m \in Nat, S \subseteq 0 .. m
  PROVE  StoreRec(values, first, base, SUBSET S, StoreRun(values, first, base, S))
BY StoreExists DEF StoreRun

LEMMA StoreUnfold ==
  ASSUME NEW values, NEW first, NEW base, NEW n \in Nat,
         NEW r, r = StoreRun(values, first, base, 1 .. n)[1 .. n]
  PROVE  \E F : /\ r = F[n] /\ F[0] = base
               /\ \A k \in 1 .. n : F[k] = StoreStep(values, first, F[k - 1], k)
<1> DEFINE G == StoreRun(values, first, base, 1 .. n)
           F == [k \in 0 .. n |-> G[1 .. k]]
<1>0. StoreRec(values, first, base, SUBSET (1 .. n), G)
  <2>1. 1 .. n \subseteq 0 .. n
    OBVIOUS
  <2> QED
    BY <2>1, StoreEquation
<1> HIDE DEF G
<1>1. \A s \in SUBSET (1 .. n) : G[s] = IF s = {} THEN base
                                        ELSE StoreStep(values, first, G[s \ {Max(s)}], Max(s))
  BY <1>0 DEF StoreRec
<1>2. F[0] = base /\ G[1 .. n] = F[n]
  <2>1. 1 .. 0 = {} /\ {} \in SUBSET (1 .. n) /\ 0 \in 0 .. n /\ n \in 0 .. n
    OBVIOUS
  <2>2. G[{}] = base
    BY <1>1, <2>1
  <2> QED
    BY <2>1, <2>2
<1>3. ASSUME NEW k \in 1 .. n PROVE F[k] = StoreStep(values, first, F[k - 1], k)
  <2>1. Max(1 .. k) = k /\ (1 .. k) \ {k} = 1 .. k - 1
    BY GreatestOfInterval
  <2>2. 1 .. k \in SUBSET (1 .. n) /\ 1 .. k # {} /\ k - 1 \in 0 .. n /\ k \in 0 .. n
    OBVIOUS
  <2>3. G[1 .. k] = StoreStep(values, first, G[(1 .. k) \ {Max(1 .. k)}], Max(1 .. k))
    BY <1>1, <2>2
  <2>4. F[k] = G[1 .. k] /\ F[k - 1] = G[1 .. k - 1]
    BY <2>2
  <2> HIDE DEF F
  <2> QED
    BY <2>1, <2>3, <2>4
<1> QED
  BY <1>2, <1>3 DEF G


LEMMA StoreAllIsRun ==
  ASSUME NEW db, NEW values, NEW first
  PROVE  LET D == DOMAIN [j \in DOMAIN values |-> j]
         IN StoreAll(db, values, first)
              = StoreRun(values, first, [err |-> "none", db |-> db], D)[D]
BY DEF StoreAll, FoldLeft, MapThenFoldSet, StoreRun, StoreRec, StoreStep

\* Relinked writes one low leaf again.
RefreshStep(acc, x) ==  Refresh(acc, x)
RefreshRec(base, D, g) ==
  g = [s \in D |-> IF s = {} THEN base ELSE RefreshStep(g[s \ {Max(s)}], Max(s))]
RefreshRun(base, S) == CHOOSE g : RefreshRec(base, SUBSET S, g)

LEMMA RefreshExists ==
  ASSUME NEW base, NEW S, NEW m \in Nat, S \subseteq 0 .. m
  PROVE  \E g : RefreshRec(base, SUBSET S, g)
<1> DEFINE Up(n) == SUBSET (S \cap (0 .. n))
           T == {n \in Nat : \E g : RefreshRec(base, Up(n), g)}
           h(g, n) == [s \in Up(n) |-> IF s = {} THEN base
                                       ELSE RefreshStep(g[s \ {Max(s)}], Max(s))]
           start == [s \in Up(0) |-> base]
<1>1. 0 \in T
  <2>1. ASSUME NEW s \in Up(0), s # {} PROVE s \ {Max(s)} = {}
    <3>1. Max(s) = 0 /\ s = {0}
      <4>1. s \in SUBSET (0 .. 0) /\ \A y \in s : y = 0
        OBVIOUS
      <4>2. Max(s) \in s
        BY <2>1, <4>1, GreatestExists
      <4> QED
        BY <4>1, <4>2
    <3> QED
      BY <3>1
  <2>2. ASSUME NEW s \in Up(0)
        PROVE  h(start, 0)[s] = IF s = {} THEN base
                  ELSE RefreshStep(h(start, 0)[s \ {Max(s)}], Max(s))
    <3>1. {} \in Up(0) /\ h(start, 0)[{}] = base /\ start[{}] = base
      OBVIOUS
    <3> HIDE DEF start
    <3> QED
      BY <2>1, <3>1
  <2>3. RefreshRec(base, Up(0), h(start, 0))
    BY <2>2 DEF RefreshRec
  <2> QED
    BY <2>3
<1>2. ASSUME NEW n \in Nat, n \in T PROVE n + 1 \in T
  <2>1. PICK g : RefreshRec(base, Up(n), g)
    BY <1>2
  <2>2. \A s \in Up(n) : g[s] = IF s = {} THEN base
                              ELSE RefreshStep(g[s \ {Max(s)}], Max(s))
    BY <2>1 DEF RefreshRec
  <2>3. ASSUME NEW s \in Up(n + 1), s # {} PROVE s \ {Max(s)} \in Up(n)
    <3>1. s \subseteq 0 .. n + 1
      OBVIOUS
    <3>2. Max(s) \in s /\ \A y \in s : Max(s) >= y
      BY <2>3, <3>1, GreatestExists
    <3>3. \A y \in s : y \in S /\ y \in 0 .. n + 1 /\ Max(s) \in 0 .. n + 1
      BY <3>1, <3>2
    <3>4. ASSUME NEW y \in s \ {Max(s)} PROVE y \in S \cap (0 .. n)
      BY <3>2, <3>3
    <3> QED
      BY <3>4
  <2>4. ASSUME NEW s \in Up(n) PROVE s \in Up(n + 1) /\ h(g, n + 1)[s] = g[s]
    <3>1. s \in Up(n + 1)
      OBVIOUS
    <3> QED
      BY <2>2, <3>1
  <2>5. ASSUME NEW s \in Up(n + 1)
        PROVE  h(g, n + 1)[s] = IF s = {} THEN base
                  ELSE RefreshStep(h(g, n + 1)[s \ {Max(s)}], Max(s))
    BY <2>3, <2>4
  <2>6. RefreshRec(base, Up(n + 1), h(g, n + 1))
    BY <2>5 DEF RefreshRec
  <2> QED
    BY <2>6
<1>3. m \in T
  <2> HIDE DEF T
  <2> QED
    BY <1>1, <1>2, NatInduct
<1>4. Up(m) = SUBSET S
  OBVIOUS
<1> QED
  BY <1>3, <1>4

LEMMA RefreshEquation ==
  ASSUME NEW base, NEW S, NEW m \in Nat, S \subseteq 0 .. m
  PROVE  RefreshRec(base, SUBSET S, RefreshRun(base, S))
BY RefreshExists DEF RefreshRun


LEMMA RelinkedIsRun ==
  ASSUME NEW db, NEW lows, NEW appended, appended.err = "none"
  PROVE  Relinked(db, lows, appended).n
           = RefreshRun([tree |-> appended.tree, leaves |-> db], lows)[lows]
BY DEF Relinked, MapThenFoldSet, RefreshRun, RefreshRec, RefreshStep

\* One value of insert_nullifiers_for_circuit.
InsertStep(t, values, acc, x) == 
  LET k == [j \in DOMAIN values |-> j][x]
      first == FirstFree(t)
      NoPath == [r \in 1 .. Height(t.tree) |-> [on |-> "left", value |-> Zero]]
      Padding == [value |-> 0, low |-> 0, entry |-> new_indexed_leaves_db[0],
                  pending |-> FALSE, path |-> NoPath]
      v == values[k]
      db == acc.n.leaves
      low == get_low_leaf(db, v)
      kept == store_leaf(db, v, first + k - 1)
      inTree == InTree(db[low], first)
      proof == get_non_membership_proof(acc.n, v)
      next == [acc.n EXCEPT !.leaves = kept.db]
  IN CASE acc.err # "none" -> acc
       [] acc.err = "none" /\ v = 0 -> [acc EXCEPT !.lows = Append(@, Padding)]
       [] acc.err = "none" /\ v # 0 /\ kept.err # "none" -> [acc EXCEPT !.err = kept.err]
       [] OTHER ->
            [err |-> "none",
             n |-> IF inTree THEN Refresh(next, low) ELSE next,
             lows |-> Append(acc.lows,
                        [value |-> v, low |-> low, entry |-> db[low],
                         pending |-> ~inTree,
                         path |-> IF inTree THEN proof.sibling_path ELSE NoPath])]
InsertRec(t, values, base, D, g) ==
  g = [s \in D |-> IF s = {} THEN base ELSE InsertStep(t, values, g[s \ {Max(s)}], Max(s))]
InsertRun(t, values, base, S) == CHOOSE g : InsertRec(t, values, base, SUBSET S, g)

LEMMA InsertExists ==
  ASSUME NEW t, NEW values, NEW base, NEW S, NEW m \in Nat, S \subseteq 0 .. m
  PROVE  \E g : InsertRec(t, values, base, SUBSET S, g)
<1> DEFINE Up(n) == SUBSET (S \cap (0 .. n))
           T == {n \in Nat : \E g : InsertRec(t, values, base, Up(n), g)}
           h(g, n) == [s \in Up(n) |-> IF s = {} THEN base
                                       ELSE InsertStep(t, values, g[s \ {Max(s)}], Max(s))]
           start == [s \in Up(0) |-> base]
<1>1. 0 \in T
  <2>1. ASSUME NEW s \in Up(0), s # {} PROVE s \ {Max(s)} = {}
    <3>1. Max(s) = 0 /\ s = {0}
      <4>1. s \in SUBSET (0 .. 0) /\ \A y \in s : y = 0
        OBVIOUS
      <4>2. Max(s) \in s
        BY <2>1, <4>1, GreatestExists
      <4> QED
        BY <4>1, <4>2
    <3> QED
      BY <3>1
  <2>2. ASSUME NEW s \in Up(0)
        PROVE  h(start, 0)[s] = IF s = {} THEN base
                  ELSE InsertStep(t, values, h(start, 0)[s \ {Max(s)}], Max(s))
    <3>1. {} \in Up(0) /\ h(start, 0)[{}] = base /\ start[{}] = base
      OBVIOUS
    <3> HIDE DEF start
    <3> QED
      BY <2>1, <3>1
  <2>3. InsertRec(t, values, base, Up(0), h(start, 0))
    BY <2>2 DEF InsertRec
  <2> QED
    BY <2>3
<1>2. ASSUME NEW n \in Nat, n \in T PROVE n + 1 \in T
  <2>1. PICK g : InsertRec(t, values, base, Up(n), g)
    BY <1>2
  <2>2. \A s \in Up(n) : g[s] = IF s = {} THEN base
                              ELSE InsertStep(t, values, g[s \ {Max(s)}], Max(s))
    BY <2>1 DEF InsertRec
  <2>3. ASSUME NEW s \in Up(n + 1), s # {} PROVE s \ {Max(s)} \in Up(n)
    <3>1. s \subseteq 0 .. n + 1
      OBVIOUS
    <3>2. Max(s) \in s /\ \A y \in s : Max(s) >= y
      BY <2>3, <3>1, GreatestExists
    <3>3. \A y \in s : y \in S /\ y \in 0 .. n + 1 /\ Max(s) \in 0 .. n + 1
      BY <3>1, <3>2
    <3>4. ASSUME NEW y \in s \ {Max(s)} PROVE y \in S \cap (0 .. n)
      BY <3>2, <3>3
    <3> QED
      BY <3>4
  <2>4. ASSUME NEW s \in Up(n) PROVE s \in Up(n + 1) /\ h(g, n + 1)[s] = g[s]
    <3>1. s \in Up(n + 1)
      OBVIOUS
    <3> QED
      BY <2>2, <3>1
  <2>5. ASSUME NEW s \in Up(n + 1)
        PROVE  h(g, n + 1)[s] = IF s = {} THEN base
                  ELSE InsertStep(t, values, h(g, n + 1)[s \ {Max(s)}], Max(s))
    BY <2>3, <2>4
  <2>6. InsertRec(t, values, base, Up(n + 1), h(g, n + 1))
    BY <2>5 DEF InsertRec
  <2> QED
    BY <2>6
<1>3. m \in T
  <2> HIDE DEF T
  <2> QED
    BY <1>1, <1>2, NatInduct
<1>4. Up(m) = SUBSET S
  OBVIOUS
<1> QED
  BY <1>3, <1>4

LEMMA InsertEquation ==
  ASSUME NEW t, NEW values, NEW base, NEW S, NEW m \in Nat, S \subseteq 0 .. m
  PROVE  InsertRec(t, values, base, SUBSET S, InsertRun(t, values, base, S))
BY InsertExists DEF InsertRun

LEMMA InsertUnfold ==
  ASSUME NEW t, NEW values, NEW base, NEW n \in Nat,
         NEW r, r = InsertRun(t, values, base, 1 .. n)[1 .. n]
  PROVE  \E F : /\ r = F[n] /\ F[0] = base
               /\ \A k \in 1 .. n : F[k] = InsertStep(t, values, F[k - 1], k)
<1> DEFINE G == InsertRun(t, values, base, 1 .. n)
           F == [k \in 0 .. n |-> G[1 .. k]]
<1>0. InsertRec(t, values, base, SUBSET (1 .. n), G)
  <2>1. 1 .. n \subseteq 0 .. n
    OBVIOUS
  <2> QED
    BY <2>1, InsertEquation
<1> HIDE DEF G
<1>1. \A s \in SUBSET (1 .. n) : G[s] = IF s = {} THEN base
                                        ELSE InsertStep(t, values, G[s \ {Max(s)}], Max(s))
  BY <1>0 DEF InsertRec
<1>2. F[0] = base /\ G[1 .. n] = F[n]
  <2>1. 1 .. 0 = {} /\ {} \in SUBSET (1 .. n) /\ 0 \in 0 .. n /\ n \in 0 .. n
    OBVIOUS
  <2>2. G[{}] = base
    BY <1>1, <2>1
  <2> QED
    BY <2>1, <2>2
<1>3. ASSUME NEW k \in 1 .. n PROVE F[k] = InsertStep(t, values, F[k - 1], k)
  <2>1. Max(1 .. k) = k /\ (1 .. k) \ {k} = 1 .. k - 1
    BY GreatestOfInterval
  <2>2. 1 .. k \in SUBSET (1 .. n) /\ 1 .. k # {} /\ k - 1 \in 0 .. n /\ k \in 0 .. n
    OBVIOUS
  <2>3. G[1 .. k] = InsertStep(t, values, G[(1 .. k) \ {Max(1 .. k)}], Max(1 .. k))
    BY <1>1, <2>2
  <2>4. F[k] = G[1 .. k] /\ F[k - 1] = G[1 .. k - 1]
    BY <2>2
  <2> HIDE DEF F
  <2> QED
    BY <2>1, <2>3, <2>4
<1> QED
  BY <1>2, <1>3 DEF G


LEMMA InsertIsRun ==
  ASSUME NEW t, NEW values, Len(values) = Capacity(t.tree)
  PROVE  LET D == DOMAIN [j \in DOMAIN values |-> j]
         IN insert_nullifiers_for_circuit(t, values)
              = InsertSubTree(t, values,
                  InsertRun(t, values, [err |-> "none", n |-> t, lows |-> <<>>], D)[D])
BY DEF insert_nullifiers_for_circuit, FoldLeft, MapThenFoldSet, InsertRun, InsertRec, InsertStep

\* One subtree of batch_insert_nullifiers_with_circuit_info.
BatchStep(chunks, acc, x) == 
  LET one == insert_nullifiers_for_circuit(acc.n, chunks[x])
  IN IF acc.err # "none" THEN acc ELSE [one EXCEPT !.info = acc.info \o @]
BatchRec(chunks, base, D, g) ==
  g = [s \in D |-> IF s = {} THEN base ELSE BatchStep(chunks, g[s \ {Max(s)}], Max(s))]
BatchRun(chunks, base, S) == CHOOSE g : BatchRec(chunks, base, SUBSET S, g)

LEMMA BatchExists ==
  ASSUME NEW chunks, NEW base, NEW S, NEW m \in Nat, S \subseteq 0 .. m
  PROVE  \E g : BatchRec(chunks, base, SUBSET S, g)
<1> DEFINE Up(n) == SUBSET (S \cap (0 .. n))
           T == {n \in Nat : \E g : BatchRec(chunks, base, Up(n), g)}
           h(g, n) == [s \in Up(n) |-> IF s = {} THEN base
                                       ELSE BatchStep(chunks, g[s \ {Max(s)}], Max(s))]
           start == [s \in Up(0) |-> base]
<1>1. 0 \in T
  <2>1. ASSUME NEW s \in Up(0), s # {} PROVE s \ {Max(s)} = {}
    <3>1. Max(s) = 0 /\ s = {0}
      <4>1. s \in SUBSET (0 .. 0) /\ \A y \in s : y = 0
        OBVIOUS
      <4>2. Max(s) \in s
        BY <2>1, <4>1, GreatestExists
      <4> QED
        BY <4>1, <4>2
    <3> QED
      BY <3>1
  <2>2. ASSUME NEW s \in Up(0)
        PROVE  h(start, 0)[s] = IF s = {} THEN base
                  ELSE BatchStep(chunks, h(start, 0)[s \ {Max(s)}], Max(s))
    <3>1. {} \in Up(0) /\ h(start, 0)[{}] = base /\ start[{}] = base
      OBVIOUS
    <3> HIDE DEF start
    <3> QED
      BY <2>1, <3>1
  <2>3. BatchRec(chunks, base, Up(0), h(start, 0))
    BY <2>2 DEF BatchRec
  <2> QED
    BY <2>3
<1>2. ASSUME NEW n \in Nat, n \in T PROVE n + 1 \in T
  <2>1. PICK g : BatchRec(chunks, base, Up(n), g)
    BY <1>2
  <2>2. \A s \in Up(n) : g[s] = IF s = {} THEN base
                              ELSE BatchStep(chunks, g[s \ {Max(s)}], Max(s))
    BY <2>1 DEF BatchRec
  <2>3. ASSUME NEW s \in Up(n + 1), s # {} PROVE s \ {Max(s)} \in Up(n)
    <3>1. s \subseteq 0 .. n + 1
      OBVIOUS
    <3>2. Max(s) \in s /\ \A y \in s : Max(s) >= y
      BY <2>3, <3>1, GreatestExists
    <3>3. \A y \in s : y \in S /\ y \in 0 .. n + 1 /\ Max(s) \in 0 .. n + 1
      BY <3>1, <3>2
    <3>4. ASSUME NEW y \in s \ {Max(s)} PROVE y \in S \cap (0 .. n)
      BY <3>2, <3>3
    <3> QED
      BY <3>4
  <2>4. ASSUME NEW s \in Up(n) PROVE s \in Up(n + 1) /\ h(g, n + 1)[s] = g[s]
    <3>1. s \in Up(n + 1)
      OBVIOUS
    <3> QED
      BY <2>2, <3>1
  <2>5. ASSUME NEW s \in Up(n + 1)
        PROVE  h(g, n + 1)[s] = IF s = {} THEN base
                  ELSE BatchStep(chunks, h(g, n + 1)[s \ {Max(s)}], Max(s))
    BY <2>3, <2>4
  <2>6. BatchRec(chunks, base, Up(n + 1), h(g, n + 1))
    BY <2>5 DEF BatchRec
  <2> QED
    BY <2>6
<1>3. m \in T
  <2> HIDE DEF T
  <2> QED
    BY <1>1, <1>2, NatInduct
<1>4. Up(m) = SUBSET S
  OBVIOUS
<1> QED
  BY <1>3, <1>4

LEMMA BatchEquation ==
  ASSUME NEW chunks, NEW base, NEW S, NEW m \in Nat, S \subseteq 0 .. m
  PROVE  BatchRec(chunks, base, SUBSET S, BatchRun(chunks, base, S))
BY BatchExists DEF BatchRun

\* F lists the states of the loop, from base to r.
BatchStates(F, chunks, base, n, r) ==
  /\ r = F[n] /\ F[0] = base
  /\ \A k \in 1 .. n : F[k] = BatchStep(chunks, F[k - 1], k)

LEMMA BatchUnfold ==
  ASSUME NEW chunks, NEW base, NEW n \in Nat,
         NEW r, r = BatchRun(chunks, base, 1 .. n)[1 .. n]
  PROVE  \E F : BatchStates(F, chunks, base, n, r)
<1> DEFINE G == BatchRun(chunks, base, 1 .. n)
           F == [k \in 0 .. n |-> G[1 .. k]]
<1>0. BatchRec(chunks, base, SUBSET (1 .. n), G)
  <2>1. 1 .. n \subseteq 0 .. n
    OBVIOUS
  <2> QED
    BY <2>1, BatchEquation
<1> HIDE DEF G
<1>1. \A s \in SUBSET (1 .. n) : G[s] = IF s = {} THEN base
                                        ELSE BatchStep(chunks, G[s \ {Max(s)}], Max(s))
  BY <1>0 DEF BatchRec
<1>2. F[0] = base /\ G[1 .. n] = F[n]
  <2>1. 1 .. 0 = {} /\ {} \in SUBSET (1 .. n) /\ 0 \in 0 .. n /\ n \in 0 .. n
    OBVIOUS
  <2>2. G[{}] = base
    BY <1>1, <2>1
  <2> QED
    BY <2>1, <2>2
<1>3. ASSUME NEW k \in 1 .. n PROVE F[k] = BatchStep(chunks, F[k - 1], k)
  <2>1. Max(1 .. k) = k /\ (1 .. k) \ {k} = 1 .. k - 1
    BY GreatestOfInterval
  <2>2. 1 .. k \in SUBSET (1 .. n) /\ 1 .. k # {} /\ k - 1 \in 0 .. n /\ k \in 0 .. n
    OBVIOUS
  <2>3. G[1 .. k] = BatchStep(chunks, G[(1 .. k) \ {Max(1 .. k)}], Max(1 .. k))
    BY <1>1, <2>2
  <2>4. F[k] = G[1 .. k] /\ F[k - 1] = G[1 .. k - 1]
    BY <2>2
  <2> HIDE DEF F
  <2> QED
    BY <2>1, <2>3, <2>4
<1>4. BatchStates(F, chunks, base, n, G[1 .. n])
  BY <1>2, <1>3 DEF BatchStates
<1> QED
  BY <1>4 DEF G


LEMMA BatchIsRun ==
  ASSUME NEW t, NEW values
  PROVE  LET chunks == Chunks(values, Capacity(t.tree))
             D == DOMAIN chunks
         IN batch_insert_nullifiers_with_circuit_info(t, values)
              = BatchRun(chunks, [err |-> "none", n |-> t, info |-> <<>>], D)[D]
BY DEF batch_insert_nullifiers_with_circuit_info, FoldLeft, MapThenFoldSet, BatchRun, BatchRec,
       BatchStep

\* One subtree of append_sub_trees.
AddStep(t, chunks, update, acc, x) == 
  Counted(Hook(acc.tree, make_complete_tree(t.sub_tree_height, chunks[x]), t.sub_tree_height,
               2 ^ t.tree_height - 1 + acc.tree.sub_tree_count, t.tree_height, update))
AddRec(t, chunks, update, base, D, g) ==
  g = [s \in D |-> IF s = {} THEN base ELSE AddStep(t, chunks, update, g[s \ {Max(s)}], Max(s))]
AddRun(t, chunks, update, base, S) == CHOOSE g : AddRec(t, chunks, update, base, SUBSET S, g)

LEMMA AddExists ==
  ASSUME NEW t, NEW chunks, NEW update, NEW base, NEW S, NEW m \in Nat, S \subseteq 0 .. m
  PROVE  \E g : AddRec(t, chunks, update, base, SUBSET S, g)
<1> DEFINE Up(n) == SUBSET (S \cap (0 .. n))
           T == {n \in Nat : \E g : AddRec(t, chunks, update, base, Up(n), g)}
           h(g, n) == [s \in Up(n) |-> IF s = {} THEN base
                                       ELSE AddStep(t, chunks, update, g[s \ {Max(s)}], Max(s))]
           start == [s \in Up(0) |-> base]
<1>1. 0 \in T
  <2>1. ASSUME NEW s \in Up(0), s # {} PROVE s \ {Max(s)} = {}
    <3>1. Max(s) = 0 /\ s = {0}
      <4>1. s \in SUBSET (0 .. 0) /\ \A y \in s : y = 0
        OBVIOUS
      <4>2. Max(s) \in s
        BY <2>1, <4>1, GreatestExists
      <4> QED
        BY <4>1, <4>2
    <3> QED
      BY <3>1
  <2>2. ASSUME NEW s \in Up(0)
        PROVE  h(start, 0)[s] = IF s = {} THEN base
                  ELSE AddStep(t, chunks, update, h(start, 0)[s \ {Max(s)}], Max(s))
    <3>1. {} \in Up(0) /\ h(start, 0)[{}] = base /\ start[{}] = base
      OBVIOUS
    <3> HIDE DEF start
    <3> QED
      BY <2>1, <3>1
  <2>3. AddRec(t, chunks, update, base, Up(0), h(start, 0))
    BY <2>2 DEF AddRec
  <2> QED
    BY <2>3
<1>2. ASSUME NEW n \in Nat, n \in T PROVE n + 1 \in T
  <2>1. PICK g : AddRec(t, chunks, update, base, Up(n), g)
    BY <1>2
  <2>2. \A s \in Up(n) : g[s] = IF s = {} THEN base
                              ELSE AddStep(t, chunks, update, g[s \ {Max(s)}], Max(s))
    BY <2>1 DEF AddRec
  <2>3. ASSUME NEW s \in Up(n + 1), s # {} PROVE s \ {Max(s)} \in Up(n)
    <3>1. s \subseteq 0 .. n + 1
      OBVIOUS
    <3>2. Max(s) \in s /\ \A y \in s : Max(s) >= y
      BY <2>3, <3>1, GreatestExists
    <3>3. \A y \in s : y \in S /\ y \in 0 .. n + 1 /\ Max(s) \in 0 .. n + 1
      BY <3>1, <3>2
    <3>4. ASSUME NEW y \in s \ {Max(s)} PROVE y \in S \cap (0 .. n)
      BY <3>2, <3>3
    <3> QED
      BY <3>4
  <2>4. ASSUME NEW s \in Up(n) PROVE s \in Up(n + 1) /\ h(g, n + 1)[s] = g[s]
    <3>1. s \in Up(n + 1)
      OBVIOUS
    <3> QED
      BY <2>2, <3>1
  <2>5. ASSUME NEW s \in Up(n + 1)
        PROVE  h(g, n + 1)[s] = IF s = {} THEN base
                  ELSE AddStep(t, chunks, update, h(g, n + 1)[s \ {Max(s)}], Max(s))
    BY <2>3, <2>4
  <2>6. AddRec(t, chunks, update, base, Up(n + 1), h(g, n + 1))
    BY <2>5 DEF AddRec
  <2> QED
    BY <2>6
<1>3. m \in T
  <2> HIDE DEF T
  <2> QED
    BY <1>1, <1>2, NatInduct
<1>4. Up(m) = SUBSET S
  OBVIOUS
<1> QED
  BY <1>3, <1>4

LEMMA AddEquation ==
  ASSUME NEW t, NEW chunks, NEW update, NEW base, NEW S, NEW m \in Nat, S \subseteq 0 .. m
  PROVE  AddRec(t, chunks, update, base, SUBSET S, AddRun(t, chunks, update, base, S))
BY AddExists DEF AddRun

LEMMA AddUnfold ==
  ASSUME NEW t, NEW chunks, NEW update, NEW base, NEW n \in Nat,
         NEW r, r = AddRun(t, chunks, update, base, 1 .. n)[1 .. n]
  PROVE  \E F : /\ r = F[n] /\ F[0] = base
               /\ \A k \in 1 .. n : F[k] = AddStep(t, chunks, update, F[k - 1], k)
<1> DEFINE G == AddRun(t, chunks, update, base, 1 .. n)
           F == [k \in 0 .. n |-> G[1 .. k]]
<1>0. AddRec(t, chunks, update, base, SUBSET (1 .. n), G)
  <2>1. 1 .. n \subseteq 0 .. n
    OBVIOUS
  <2> QED
    BY <2>1, AddEquation
<1> HIDE DEF G
<1>1. \A s \in SUBSET (1 .. n) : G[s] = IF s = {} THEN base
                                        ELSE AddStep(t, chunks, update, G[s \ {Max(s)}], Max(s))
  BY <1>0 DEF AddRec
<1>2. F[0] = base /\ G[1 .. n] = F[n]
  <2>1. 1 .. 0 = {} /\ {} \in SUBSET (1 .. n) /\ 0 \in 0 .. n /\ n \in 0 .. n
    OBVIOUS
  <2>2. G[{}] = base
    BY <1>1, <2>1
  <2> QED
    BY <2>1, <2>2
<1>3. ASSUME NEW k \in 1 .. n PROVE F[k] = AddStep(t, chunks, update, F[k - 1], k)
  <2>1. Max(1 .. k) = k /\ (1 .. k) \ {k} = 1 .. k - 1
    BY GreatestOfInterval
  <2>2. 1 .. k \in SUBSET (1 .. n) /\ 1 .. k # {} /\ k - 1 \in 0 .. n /\ k \in 0 .. n
    OBVIOUS
  <2>3. G[1 .. k] = AddStep(t, chunks, update, G[(1 .. k) \ {Max(1 .. k)}], Max(1 .. k))
    BY <1>1, <2>2
  <2>4. F[k] = G[1 .. k] /\ F[k - 1] = G[1 .. k - 1]
    BY <2>2
  <2> HIDE DEF F
  <2> QED
    BY <2>1, <2>3, <2>4
<1> QED
  BY <1>2, <1>3 DEF G


LEMMA AppendIsRun ==
  ASSUME NEW t, NEW leaves, NEW update, Len(leaves) % Capacity(t) = 0, leaves # <<>>,
         ~(t.sub_tree_count > 2 ^ t.tree_height)
  PROVE  LET chunks == Chunks(leaves, Capacity(t))
             D == DOMAIN chunks
         IN append_sub_trees(t, leaves, update)
              = Appended(t, AddRun(t, chunks, update, Done(t, Zero), D)[D], update)
BY DEF append_sub_trees, FoldLeft, MapThenFoldSet, AddRun, AddRec, AddStep

-----------------------------------------------------------------------------
(* The leaf database *)

\* Every value's entry names the next value and the leaf that holds it.
Linked(db) ==
  \A u \in DOMAIN db :
    /\ (\A w \in DOMAIN db : w <= u) => db[u].next_value = 0 /\ db[u].next_index = 0
    /\ (\E w \in DOMAIN db : w > u) =>
         /\ db[u].next_value \in DOMAIN db /\ db[u].next_value > u
         /\ \A w \in DOMAIN db : w > u => db[u].next_value <= w
         /\ db[u].next_index = db[db[u].next_value].id

DbInv(db) ==
  /\ 0 \in DOMAIN db
  /\ \E k \in Nat : DOMAIN db \subseteq 0 .. k
  /\ \A u \in DOMAIN db : DOMAIN db[u] = {"id", "next_index", "next_value"}
  /\ Linked(db)

LEMMA NewDb == DbInv(new_indexed_leaves_db) /\ DOMAIN new_indexed_leaves_db = {0}
<1> DEFINE db == new_indexed_leaves_db
<1>1. DOMAIN db = {0} /\ db[0] = [id |-> 0, next_index |-> 0, next_value |-> 0]
  BY DEF new_indexed_leaves_db
<1>2. DOMAIN db \subseteq 0 .. 0
  BY <1>1
<1> HIDE DEF db
<1>3. Linked(db)
  BY <1>1 DEF Linked
<1> QED
  BY <1>1, <1>2, <1>3 DEF DbInv, db

LEMMA LinkedIsSorted ==
  ASSUME NEW db, DbInv(db)
  PROVE  ListIsSorted(db)
<1>1. DOMAIN db \subseteq Nat
  BY DEF DbInv
<1> SUFFICES ASSUME NEW u \in DOMAIN db
             PROVE  LET above == {v \in DOMAIN db : v > u}
                    IN IF above = {} THEN db[u].next_value = 0 /\ db[u].next_index = 0
                       ELSE /\ db[u].next_value = CHOOSE v \in above : \A w \in above : v <= w
                            /\ db[u].next_index = db[db[u].next_value].id
  BY DEF ListIsSorted
<1> DEFINE above == {v \in DOMAIN db : v > u}
           x == db[u].next_value
<1>2. CASE above = {}
  <2>1. \A w \in DOMAIN db : w <= u
    BY <1>1, <1>2
  <2> QED
    BY <1>2, <2>1 DEF DbInv, Linked
<1>3. CASE above # {}
  <2>1. /\ x \in above /\ \A w \in above : x <= w
        /\ db[u].next_index = db[x].id
    BY <1>3 DEF DbInv, Linked
  <2>2. \A y \in above : (\A w \in above : y <= w) => y = x
    BY <1>1, <2>1
  <2> HIDE DEF above, x
  <2>3. x = CHOOSE v \in above : \A w \in above : v <= w
    BY <2>1, <2>2
  <2> QED
    BY <1>3, <2>1, <2>3 DEF above, x
<1> QED
  BY <1>2, <1>3

LEMMA LowLeaf ==
  ASSUME NEW db, DbInv(db), NEW v \in Nat \ {0}
  PROVE  /\ get_low_leaf(db, v) \in DOMAIN db /\ get_low_leaf(db, v) < v
         /\ \A u \in DOMAIN db : u < v => u <= get_low_leaf(db, v)
         /\ Lower(db, v) # {}
<1>1. PICK k \in Nat : DOMAIN db \subseteq 0 .. k
  BY DEF DbInv
<1>2. Lower(db, v) \in SUBSET (0 .. k) /\ 0 \in Lower(db, v)
  BY <1>1 DEF Lower, DbInv
<1>3. /\ Max(Lower(db, v)) \in Lower(db, v)
      /\ \A y \in Lower(db, v) : Max(Lower(db, v)) >= y
  BY <1>2, GreatestExists
<1>4. /\ Max(Lower(db, v)) \in DOMAIN db /\ Max(Lower(db, v)) < v
      /\ \A u \in DOMAIN db : u < v => u \in Lower(db, v)
  BY <1>3 DEF Lower
<1>5. \A u \in DOMAIN db : u \in 0 .. k
  BY <1>1
<1> QED
  BY <1>2, <1>3, <1>4, <1>5 DEF get_low_leaf

\* A value goes between its low leaf and the one after it, or nowhere.
LEMMA StoreLeaf ==
  ASSUME NEW db, DbInv(db), NEW v \in Nat \ {0}, NEW index
  PROVE  LET r == store_leaf(db, v, index)
         IN /\ DbInv(r.db)
            /\ r.err = "none" => DOMAIN r.db = DOMAIN db \cup {v}
<1> DEFINE low == get_low_leaf(db, v)
           r == store_leaf(db, v, index)
           new == [u \in DOMAIN db \cup {v} |->
                     CASE u = v -> [db[low] EXCEPT !.id = index]
                       [] u = low -> [db[u] EXCEPT !.next_index = index, !.next_value = v]
                       [] OTHER -> db[u]]
<1>1. /\ low \in DOMAIN db /\ low < v /\ Lower(db, v) # {}
      /\ \A u \in DOMAIN db : u < v => u <= low
  BY LowLeaf
<1>2. \/ r = [err |-> "LeafExists", db |-> db]
      \/ r = [err |-> "DatabaseError", db |-> db]
      \/ v \notin DOMAIN db /\ r = [err |-> "none", db |-> new]
  BY <1>1 DEF store_leaf
<1>3. ASSUME v \notin DOMAIN db PROVE DbInv(new)
  <2>1. PICK k \in Nat : DOMAIN db \subseteq 0 .. k
    BY DEF DbInv
  <2>2. DOMAIN new = DOMAIN db \cup {v} /\ DOMAIN new \subseteq 0 .. k + v
    BY <2>1
  <2>3. /\ DOMAIN db[low] = {"id", "next_index", "next_value"}
        /\ \A u \in DOMAIN db : DOMAIN db[u] = {"id", "next_index", "next_value"}
    BY <1>1 DEF DbInv
  <2>4. /\ new[v].id = index /\ new[v].next_index = db[low].next_index
        /\ new[v].next_value = db[low].next_value
        /\ DOMAIN new[v] = {"id", "next_index", "next_value"}
    <3>1. new[v] = [db[low] EXCEPT !.id = index]
      BY <1>1
    <3> HIDE DEF new
    <3> QED
      BY <2>3, <3>1
  <2>5. /\ new[low].id = db[low].id /\ new[low].next_index = index /\ new[low].next_value = v
        /\ DOMAIN new[low] = {"id", "next_index", "next_value"}
    <3>1. new[low] = [db[low] EXCEPT !.next_index = index, !.next_value = v]
      BY <1>1, <1>3
    <3> HIDE DEF new
    <3> QED
      BY <2>3, <3>1
  <2>6. \A u \in DOMAIN db \ {low} : new[u] = db[u]
    BY <1>3
  <2>7. \A u \in DOMAIN db : new[u].id = db[u].id
    BY <2>5, <2>6
  <2> HIDE DEF new
  <2>8. \A u \in DOMAIN new : DOMAIN new[u] = {"id", "next_index", "next_value"}
    BY <2>2, <2>3, <2>4, <2>5, <2>6
  <2>9. Linked(new)
    <3> SUFFICES ASSUME NEW u \in DOMAIN new
                 PROVE  /\ (\A w \in DOMAIN new : w <= u) =>
                             new[u].next_value = 0 /\ new[u].next_index = 0
                        /\ (\E w \in DOMAIN new : w > u) =>
                             /\ new[u].next_value \in DOMAIN new /\ new[u].next_value > u
                             /\ \A w \in DOMAIN new : w > u => new[u].next_value <= w
                             /\ new[u].next_index = new[new[u].next_value].id
      BY DEF Linked
    <3>0. DOMAIN new \subseteq Nat /\ DOMAIN db \subseteq Nat /\ u \in Nat /\ low \in Nat
      BY <1>1, <2>1, <2>2
    <3>1. CASE u = v
      <4>1. \A w \in DOMAIN db : w > v <=> w > low
        BY <1>1, <1>3, <3>0
      <4>2. CASE \A w \in DOMAIN new : w <= u
        <5>1. \A w \in DOMAIN db : w <= low
          BY <2>2, <3>0, <3>1, <4>1, <4>2
        <5>2. db[low].next_value = 0 /\ db[low].next_index = 0
          BY <1>1, <5>1 DEF DbInv, Linked
        <5> QED
          BY <2>4, <3>0, <3>1, <4>2, <5>2
      <4>3. CASE \E w \in DOMAIN new : w > u
        <5>1. \E w \in DOMAIN db : w > low
          BY <2>2, <3>0, <3>1, <4>1, <4>3
        <5>2. /\ db[low].next_value \in DOMAIN db /\ db[low].next_value > low
              /\ \A w \in DOMAIN db : w > low => db[low].next_value <= w
              /\ db[low].next_index = db[db[low].next_value].id
          BY <1>1, <5>1 DEF DbInv, Linked
        <5> QED
          BY <2>2, <2>4, <2>7, <3>0, <3>1, <4>1, <4>3, <5>2
      <4> QED
        BY <3>0, <4>2, <4>3
    <3>2. CASE u = low
      <4>1. \A w \in DOMAIN new : w > low => v <= w
        BY <1>1, <2>2, <3>0
      <4> QED
        BY <1>1, <2>2, <2>4, <2>5, <3>0, <3>2, <4>1
    <3>3. CASE u # v /\ u # low
      <4>1. u \in DOMAIN db /\ new[u] = db[u]
        BY <2>2, <2>6, <3>3
      <4>2. u < v => u < low
        BY <1>1, <3>0, <3>3, <4>1
      <4>3. CASE \A w \in DOMAIN new : w <= u
        <5>1. \A w \in DOMAIN db : w <= u
          BY <2>2, <4>3
        <5>2. db[u].next_value = 0 /\ db[u].next_index = 0
          BY <4>1, <5>1 DEF DbInv, Linked
        <5> QED
          BY <3>0, <4>1, <4>3, <5>2
      <4>4. CASE \E w \in DOMAIN new : w > u
        <5>1. \E w \in DOMAIN db : w > u
          BY <1>1, <2>2, <3>0, <4>2, <4>4
        <5>2. /\ db[u].next_value \in DOMAIN db /\ db[u].next_value > u
              /\ \A w \in DOMAIN db : w > u => db[u].next_value <= w
              /\ db[u].next_index = db[db[u].next_value].id
          BY <4>1, <5>1 DEF DbInv, Linked
        <5>3. v > u => db[u].next_value <= v
          BY <1>1, <3>0, <4>2, <5>2
        <5> QED
          BY <2>2, <2>7, <3>0, <4>1, <4>4, <5>2, <5>3
      <4> QED
        BY <3>0, <4>3, <4>4
    <3> QED
      BY <3>1, <3>2, <3>3
  <2> QED
    BY <2>2, <2>8, <2>9 DEF DbInv
<1>4. DOMAIN new = DOMAIN db \cup {v}
  OBVIOUS
<1> HIDE DEF new, r
<1> QED
  BY <1>2, <1>3, <1>4 DEF r

-----------------------------------------------------------------------------
(* Trees keep the height of their subtrees *)

IsTree(t, h) == "sub_tree_height" \in DOMAIN t /\ t.sub_tree_height = h
IsIndexed(n, h) == DOMAIN n = {"tree", "leaves"} /\ IsTree(n.tree, h)

LEMMA PowerPositive ==
  ASSUME NEW h \in Nat
  PROVE  2 ^ h \in Nat \ {0}
<1>1. IsFiniteSet(1 .. h) /\ Cardinality(1 .. h) = h
  BY FS_Interval
<1>2. IsFiniteSet(SUBSET (1 .. h)) /\ Cardinality(SUBSET (1 .. h)) = 2 ^ h
  BY <1>1, FS_SUBSET
<1>3. Cardinality(SUBSET (1 .. h)) \in Nat /\ SUBSET (1 .. h) # {}
  BY <1>2, FS_CardinalityType
<1>4. Cardinality(SUBSET (1 .. h)) # 0
  BY <1>2, <1>3, FS_EmptySet
<1> QED
  BY <1>2, <1>3, <1>4

LEMMA SetNodesShape ==
  ASSUME NEW t, NEW h, IsTree(t, h), NEW new, NEW update
  PROVE  IsTree(set_nodes(t, new, update), h)
BY DEF IsTree, set_nodes

LEMMA FlushShape ==
  ASSUME NEW t, NEW h, IsTree(t, h)
  PROVE  IsTree(flush_cache(t), h)
BY DEF IsTree, flush_cache

LEMMA UpdateShape ==
  ASSUME NEW t, NEW h, IsTree(t, h), NEW index, NEW leaf
  PROVE  IsTree(update_sub_tree(t, index, leaf, TRUE).tree, h)
<1> DEFINE n == Height(t)
           at == 2 ^ n - 1 + index
           path == PathUp(t, at, leaf, n)
           out == flush_cache(set_nodes(t, AsNodes(at, path), TRUE))
<1>1. IsTree(out, h)
  BY SetNodesShape, FlushShape
<1>2. update_sub_tree(t, index, leaf, TRUE).tree = IF index >= 2 ^ n THEN t
                                                   ELSE [out EXCEPT !.root = path[n]]
  BY DEF update_sub_tree, Refused, Done
<1> HIDE DEF out, path, n
<1>3. IsTree([out EXCEPT !.root = path[n]], h)
  BY <1>1 DEF IsTree
<1> QED
  BY <1>2, <1>3

LEMMA RefreshShape ==
  ASSUME NEW n, NEW h, IsIndexed(n, h), NEW v
  PROVE  IsIndexed(Refresh(n, v), h) /\ Refresh(n, v).leaves = n.leaves
<1> DEFINE t == update_sub_tree(n.tree, n.leaves[v].id, leaf_hash(v, n.leaves[v]), TRUE).tree
<1>1. IsTree(t, h)
  BY UpdateShape DEF IsIndexed
<1>2. Refresh(n, v) = [n EXCEPT !.tree = t]
  BY DEF Refresh
<1> HIDE DEF t
<1> QED
  BY <1>1, <1>2 DEF IsIndexed

LEMMA AddShape ==
  ASSUME NEW t, NEW h, NEW chunks, NEW update, NEW acc, IsTree(acc.tree, h), NEW x
  PROVE  IsTree(AddStep(t, chunks, update, acc, x).tree, h)
<1> DEFINE sub == make_complete_tree(t.sub_tree_height, chunks[x])
           at == 2 ^ t.tree_height - 1 + acc.tree.sub_tree_count
           path == PathUp(acc.tree, at, sub[0], t.tree_height)
           nodes == Over(AsNodes(at, path), Below(sub, at, t.sub_tree_height))
           set == set_nodes(acc.tree, nodes, update)
<1>1. IsTree(set, h)
  BY SetNodesShape
<1>2. AddStep(t, chunks, update, acc, x).tree = [set EXCEPT !.sub_tree_count = @ + 1]
  BY DEF AddStep, Counted, Hook, HookAlong, Done
<1> HIDE DEF set
<1> QED
  BY <1>1, <1>2 DEF IsTree

LEMMA ChunksShape ==
  ASSUME NEW leaves, Len(leaves) \in Nat, NEW c \in Nat \ {0}
  PROVE  DOMAIN Chunks(leaves, c) = 1 .. Len(leaves) \div c /\ Len(leaves) \div c \in Nat
<1>1. Len(leaves) \div c \in Nat
  OBVIOUS
<1> QED
  BY <1>1 DEF Chunks

LEMMA AppendShape ==
  ASSUME NEW t, NEW h \in Nat, IsTree(t, h), NEW leaves, Len(leaves) \in Nat, NEW update
  PROVE  IsTree(append_sub_trees(t, leaves, update).tree, h)
<1> DEFINE chunks == Chunks(leaves, Capacity(t))
           m == Len(leaves) \div Capacity(t)
           added == AddRun(t, chunks, update, Done(t, Zero), 1 .. m)[1 .. m]
<1>1. Capacity(t) \in Nat \ {0}
  BY PowerPositive DEF Capacity, IsTree
<1>2. DOMAIN chunks = 1 .. m /\ m \in Nat
  BY <1>1, ChunksShape
<1>3. IsTree(added.tree, h)
  <2>0. m \in Nat /\ added = AddRun(t, chunks, update, Done(t, Zero), 1 .. m)[1 .. m]
    BY <1>2
  <2> HIDE DEF added, m
  <2>1. PICK F : /\ added = F[m] /\ F[0] = Done(t, Zero)
                 /\ \A k \in 1 .. m : F[k] = AddStep(t, chunks, update, F[k - 1], k)
    BY <2>0, AddUnfold
  <2> DEFINE T == {k \in Nat : k <= m => IsTree(F[k].tree, h)}
  <2>2. 0 \in T
    BY <2>1 DEF Done
  <2>3. ASSUME NEW k \in Nat, k \in T PROVE k + 1 \in T
    <3> SUFFICES ASSUME k + 1 <= m PROVE IsTree(F[k + 1].tree, h)
      OBVIOUS
    <3>1. k + 1 \in 1 .. m /\ (k + 1) - 1 = k /\ IsTree(F[k].tree, h)
      BY <1>2, <2>3
    <3>2. F[k + 1] = AddStep(t, chunks, update, F[k], k + 1)
      BY <2>1, <3>1
    <3> HIDE DEF chunks
    <3> QED
      BY <3>1, <3>2, AddShape
  <2>4. m \in T
    <3> HIDE DEF T
    <3> QED
      BY <2>0, <2>2, <2>3, NatInduct
  <2>5. m <= m
    BY <2>0
  <2> QED
    BY <2>1, <2>4, <2>5
<1>4. CASE /\ Len(leaves) % Capacity(t) = 0 /\ leaves # <<>>
           /\ ~(t.sub_tree_count > 2 ^ t.tree_height)
  <2>1. append_sub_trees(t, leaves, update) = Appended(t, added, update)
    BY <1>2, <1>4, AppendIsRun
  <2> HIDE DEF added
  <2>2. append_sub_trees(t, leaves, update).tree
          \in {flush_cache([added.tree EXCEPT !.root = added.root]),
              [added.tree EXCEPT !.sub_tree_count = t.sub_tree_count]}
    BY <2>1 DEF Appended, Done
  <2>3. /\ IsTree([added.tree EXCEPT !.root = added.root], h)
        /\ IsTree([added.tree EXCEPT !.sub_tree_count = t.sub_tree_count], h)
    BY <1>3 DEF IsTree
  <2>4. IsTree(flush_cache([added.tree EXCEPT !.root = added.root]), h)
    BY <2>3, FlushShape
  <2> QED
    BY <2>2, <2>3, <2>4
<1>5. CASE ~(/\ Len(leaves) % Capacity(t) = 0 /\ leaves # <<>>
             /\ ~(t.sub_tree_count > 2 ^ t.tree_height))
  <2>1. append_sub_trees(t, leaves, update).tree = t
    BY <1>5 DEF append_sub_trees, Refused, Done
  <2> QED
    BY <2>1
<1> QED
  BY <1>4, <1>5

LEMMA HookShape ==
  ASSUME NEW t, NEW h \in Nat, IsTree(t, h), NEW leaves, Len(leaves) \in Nat
  PROVE  IsTree(insert_for_circuit(t, leaves).tree, h)
<1> DEFINE at == t.sub_tree_count * Capacity(t)
           empty == membership_proof_at(t, at)
           added == append_sub_trees(t, leaves, TRUE)
<1>1. IsTree(added.tree, h)
  BY AppendShape
<1>2. insert_for_circuit(t, leaves).tree \in {t, added.tree}
  <2> HIDE DEF added, empty, at
  <2>1. \/ Len(leaves) # Capacity(t)
        \/ Len(leaves) = Capacity(t) /\ empty.err # "none"
        \/ Len(leaves) = Capacity(t) /\ empty.err = "none"
    OBVIOUS
  <2> QED
    BY <2>1 DEF insert_for_circuit, InsertedFor, added, empty, at
<1> QED
  BY <1>1, <1>2

-----------------------------------------------------------------------------
(* What insertions leave in the database *)

\* The values at the first k places that are not padding.
Placed(values, k) == {values[j] : j \in 1 .. k} \ {0}

\* A database that goes on from another with some values, or stops.
Extends(r, db, new, err) == DbInv(r) /\ (err = "none" => DOMAIN r = DOMAIN db \cup new)

LEMMA PlacedGrows ==
  ASSUME NEW n \in Nat, NEW values, NEW k \in Nat
  PROVE  /\ Placed(values, 0) = {}
         /\ values[k + 1] = 0 => Placed(values, k + 1) = Placed(values, k)
         /\ values[k + 1] # 0 => Placed(values, k + 1) = Placed(values, k) \cup {values[k + 1]}
<1>1. 1 .. k + 1 = (1 .. k) \cup {k + 1} /\ 1 .. 0 = {}
  OBVIOUS
<1> QED
  BY <1>1 DEF Placed

LEMMA PlacedOfAll ==
  ASSUME NEW values \in Seq(Nat)
  PROVE  /\ Len(values) \in Nat /\ DOMAIN values = 1 .. Len(values)
         /\ DOMAIN [j \in DOMAIN values |-> j] = 1 .. Len(values)
         /\ Placed(values, Len(values)) = ToSet(values) \ {0}
         /\ \A j \in 1 .. Len(values) : values[j] \in Nat /\ [i \in DOMAIN values |-> i][j] = j
BY DEF Placed, ToSet

LEMMA StoreAllExtends ==
  ASSUME NEW db, DbInv(db), NEW values \in Seq(Nat), NEW first
  PROVE  LET r == StoreAll(db, values, first)
         IN Extends(r.db, db, ToSet(values) \ {0}, r.err)
<1> DEFINE n == Len(values)
           base == [err |-> "none", db |-> db]
           r == StoreAll(db, values, first)
<1>1. /\ n \in Nat /\ DOMAIN [j \in DOMAIN values |-> j] = 1 .. n
      /\ \A j \in 1 .. n : values[j] \in Nat /\ [i \in DOMAIN values |-> i][j] = j
  BY PlacedOfAll
<1>2. r = StoreRun(values, first, base, 1 .. n)[1 .. n]
  BY <1>1, StoreAllIsRun
<1> HIDE DEF n, r
<1>3. PICK F : /\ r = F[n] /\ F[0] = base
               /\ \A k \in 1 .. n : F[k] = StoreStep(values, first, F[k - 1], k)
  BY <1>1, <1>2, StoreUnfold
<1> DEFINE T == {k \in Nat : k <= n => Extends(F[k].db, db, Placed(values, k), F[k].err)}
<1>4. 0 \in T
  <2>1. F[0].db = db /\ Placed(values, 0) = {}
    BY <1>3, PlacedGrows
  <2> QED
    BY <2>1 DEF Extends
<1>5. ASSUME NEW k \in Nat, k \in T PROVE k + 1 \in T
  <2> SUFFICES ASSUME k + 1 <= n
               PROVE  Extends(F[k + 1].db, db, Placed(values, k + 1), F[k + 1].err)
    OBVIOUS
  <2> DEFINE v == values[k + 1]
             s == store_leaf(F[k].db, v, first + (k + 1) - 1)
  <2>1. k + 1 \in 1 .. n /\ (k + 1) - 1 = k /\ Extends(F[k].db, db, Placed(values, k), F[k].err)
    BY <1>1, <1>5
  <2>2. v \in Nat /\ [j \in DOMAIN values |-> j][k + 1] = k + 1
    BY <1>1, <2>1
  <2>3. F[k + 1] = IF F[k].err # "none" \/ v = 0 THEN F[k] ELSE s
    BY <1>3, <2>1, <2>2 DEF StoreStep
  <2>4. CASE F[k].err # "none" \/ v = 0
    BY <2>1, <2>3, <2>4, PlacedGrows DEF Extends
  <2>5. CASE F[k].err = "none" /\ v # 0
    <3>1. DbInv(F[k].db) /\ DOMAIN F[k].db = DOMAIN db \cup Placed(values, k)
      BY <2>1, <2>5 DEF Extends
    <3>2. DbInv(s.db) /\ (s.err = "none" => DOMAIN s.db = DOMAIN F[k].db \cup {v})
      BY <2>2, <2>5, <3>1, StoreLeaf
    <3>3. Placed(values, k + 1) = Placed(values, k) \cup {v}
      BY <2>5, PlacedGrows
    <3> HIDE DEF s, v
    <3> QED
      BY <2>3, <2>5, <3>1, <3>2, <3>3 DEF Extends
  <2> QED
    BY <2>4, <2>5
<1>6. n \in T
  <2> HIDE DEF T
  <2> QED
    BY <1>1, <1>4, <1>5, NatInduct
<1>7. n <= n /\ Placed(values, n) = ToSet(values) \ {0}
  BY <1>1, PlacedOfAll DEF n
<1>8. Extends(r.db, db, ToSet(values) \ {0}, r.err)
  BY <1>3, <1>6, <1>7
<1> QED
  BY <1>8 DEF r

Bounded(S) == \E m \in Nat : S \subseteq 0 .. m

Holds(n, h, db) == IsIndexed(n, h) /\ n.leaves = db

LEMMA RelinkedKeeps ==
  ASSUME NEW db, NEW h, NEW lows, Bounded(lows), NEW appended, IsTree(appended.tree, h)
  PROVE  Holds(Relinked(db, lows, appended).n, h, db)
<1> DEFINE base == [tree |-> appended.tree, leaves |-> db]
           n == Relinked(db, lows, appended).n
           F == RefreshRun(base, lows)
<1> SUFFICES IsIndexed(n, h) /\ n.leaves = db
  BY DEF Holds
<1>0. IsIndexed(base, h) /\ base.leaves = db
  BY DEF IsIndexed
<1> PICK m \in Nat : lows \subseteq 0 .. m
  BY DEF Bounded
<1>1. CASE appended.err # "none"
  <2>1. n = base
    BY <1>1 DEF Relinked
  <2> QED
    BY <1>0, <2>1
<1>2. CASE appended.err = "none"
  <2>1. n = F[lows]
    BY <1>2, RelinkedIsRun
  <2>2. \A s \in SUBSET lows : F[s] = IF s = {} THEN base ELSE Refresh(F[s \ {Max(s)}], Max(s))
    <3>1. RefreshRec(base, SUBSET lows, F)
      BY RefreshEquation
    <3> QED
      BY <3>1 DEF RefreshRec, RefreshStep
  <2> HIDE DEF F, base
  <2> DEFINE Good(s) == IsIndexed(F[s], h) /\ F[s].leaves = db
             T == {k \in Nat : \A s \in SUBSET (lows \cap (0 .. k)) : Good(s)}
  <2>3. Good({})
    BY <1>0, <2>2
  <2>4. ASSUME NEW s \in SUBSET lows, s # {}, Good(s \ {Max(s)}) PROVE Good(s)
    <3>1. F[s] = Refresh(F[s \ {Max(s)}], Max(s))
      BY <2>2, <2>4
    <3> QED
      BY <2>4, <3>1, RefreshShape
  <2>5. ASSUME NEW s \in SUBSET lows, s # {}
        PROVE  Max(s) \in s /\ \A y \in s : y \in 0 .. m /\ Max(s) >= y
    <3>1. s \in SUBSET (0 .. m)
      OBVIOUS
    <3> QED
      BY <2>5, <3>1, GreatestExists
  <2>6. 0 \in T
    <3> SUFFICES ASSUME NEW s \in SUBSET (lows \cap (0 .. 0)) PROVE Good(s)
      OBVIOUS
    <3>1. CASE s # {}
      <4>1. \A y \in s : y = 0
        OBVIOUS
      <4>2. s \ {Max(s)} = {}
        BY <2>5, <3>1, <4>1
      <4> HIDE DEF Good
      <4> QED
        BY <2>3, <2>4, <3>1, <4>2
    <3> QED
      BY <2>3, <3>1
  <2>7. ASSUME NEW k \in Nat, k \in T PROVE k + 1 \in T
    <3> SUFFICES ASSUME NEW s \in SUBSET (lows \cap (0 .. k + 1)) PROVE Good(s)
      OBVIOUS
    <3>1. CASE s # {}
      <4>1. s \in SUBSET lows /\ \A y \in s : y \in 0 .. k + 1
        OBVIOUS
      <4>2. ASSUME NEW y \in s \ {Max(s)} PROVE y \in lows \cap (0 .. k)
        <5>1. Max(s) \in 0 .. k + 1 /\ Max(s) >= y /\ y # Max(s)
          BY <2>5, <3>1, <4>1
        <5> QED
          BY <4>1, <5>1
      <4>3. Good(s \ {Max(s)})
        BY <2>7, <4>2
      <4> HIDE DEF Good
      <4> QED
        BY <2>4, <3>1, <4>1, <4>3
    <3> QED
      BY <2>3, <3>1
  <2>8. m \in T
    <3> HIDE DEF T
    <3> QED
      BY <2>6, <2>7, NatInduct
  <2>9. Good(lows)
    BY <2>8
  <2> QED
    BY <2>1, <2>9
<1> QED
  BY <1>1, <1>2

\* The leaves of a batch are as many as its values.
LEMMA LeavesLength ==
  ASSUME NEW values \in Seq(Nat), NEW db
  PROVE  Len([k \in DOMAIN values |-> LeafOf(db, values[k])]) = Len(values)
<1> DEFINE s == [k \in DOMAIN values |-> LeafOf(db, values[k])]
<1>1. DOMAIN s = 1 .. Len(values) /\ Len(values) \in Nat
  OBVIOUS
<1>2. s \in Seq({s[k] : k \in 1 .. Len(values)})
  BY <1>1, IsASeq
<1> QED
  BY <1>1, <1>2, LenProperties

LEMMA InsertLeavesExtends ==
  ASSUME NEW n, NEW h \in Nat, IsIndexed(n, h), DbInv(n.leaves), NEW values \in Seq(Nat)
  PROVE  LET r == insert_leaves(n, values)
         IN IsIndexed(r.n, h) /\ Extends(r.n.leaves, n.leaves, ToSet(values) \ {0}, r.err)
<1> DEFINE new == ToSet(values) \ {0}
           lows == {get_low_leaf(n.leaves, v) : v \in new}
           kept == StoreAll(n.leaves, values, FirstFree(n))
           leaves == [k \in DOMAIN values |-> LeafOf(kept.db, values[k])]
           added == append_sub_trees(n.tree, leaves, TRUE)
           r == insert_leaves(n, values)
           Good(x) == IsIndexed(x.n, h) /\ Extends(x.n.leaves, n.leaves, new, x.err)
<1> SUFFICES Good(r)
  OBVIOUS
<1>1. Extends(kept.db, n.leaves, new, kept.err)
  BY StoreAllExtends
<1>2. IsTree(added.tree, h)
  <2>1. Len(leaves) \in Nat
    BY LeavesLength
  <2> HIDE DEF leaves
  <2> QED
    BY <2>1, AppendShape DEF IsIndexed
<1>3. Bounded(lows)
  <2>1. PICK m \in Nat : DOMAIN n.leaves \subseteq 0 .. m
    BY DEF DbInv
  <2>2. \A v \in new : v \in Nat \ {0}
    BY DEF ToSet
  <2>3. \A v \in new : get_low_leaf(n.leaves, v) \in DOMAIN n.leaves
    BY <2>2, LowLeaf
  <2>4. lows \subseteq 0 .. m
    BY <2>1, <2>3
  <2> QED
    BY <2>4 DEF Bounded
<1>4. CASE values = <<>>
  <2>1. r = [err |-> "none", n |-> n]
    BY <1>4 DEF insert_leaves
  <2>2. new = {}
    BY <1>4 DEF ToSet
  <2> QED
    BY <2>1, <2>2 DEF Extends
<1>5. CASE values # <<>> /\ new \cap DOMAIN n.leaves # {}
  <2>1. r = [err |-> "LeafExists", n |-> n]
    BY <1>5 DEF insert_leaves
  <2> QED
    BY <2>1 DEF Extends
<1>6. CASE values # <<>> /\ new \cap DOMAIN n.leaves = {}
  <2>1. r = InsertStored(n, values, lows, kept)
    BY <1>6 DEF insert_leaves
  <2>2. CASE kept.err # "none"
    <3>1. r = [err |-> kept.err, n |-> [n EXCEPT !.leaves = kept.db]]
      BY <2>1, <2>2 DEF InsertStored
    <3>2. Good([err |-> kept.err, n |-> [n EXCEPT !.leaves = kept.db]])
      <4> HIDE DEF kept
      <4> QED
        BY <1>1, <2>2 DEF Extends, IsIndexed
    <3> HIDE DEF Good, r
    <3> QED
      BY <3>1, <3>2
  <2>3. CASE kept.err = "none"
    <3>1. r = Relinked(kept.db, lows, added)
      BY <2>1, <2>3 DEF InsertStored
    <3>2. Good(Relinked(kept.db, lows, added))
      <4> HIDE DEF kept, lows, added
      <4>1. /\ IsIndexed(Relinked(kept.db, lows, added).n, h)
            /\ Relinked(kept.db, lows, added).n.leaves = kept.db
        <5>1. Holds(Relinked(kept.db, lows, added).n, h, kept.db)
          BY <1>2, <1>3, RelinkedKeeps
        <5> QED
          BY <5>1 DEF Holds
      <4> QED
        BY <1>1, <2>3, <4>1 DEF Extends
    <3> HIDE DEF Good, r
    <3> QED
      BY <3>1, <3>2
  <2> QED
    BY <2>2, <2>3
<1> QED
  BY <1>4, <1>5, <1>6

\* The state of insert_nullifiers_for_circuit's loop after k values.
Inserting(acc, h, db, values, k) ==
  /\ DOMAIN acc = {"err", "n", "lows"}
  /\ IsIndexed(acc.n, h)
  /\ Extends(acc.n.leaves, db, Placed(values, k), acc.err)

LEMMA InsertStepExtends ==
  ASSUME NEW t, NEW values \in Seq(Nat), NEW h, NEW db, NEW k \in Nat, k + 1 \in 1 .. Len(values),
         NEW acc, Inserting(acc, h, db, values, k)
  PROVE  Inserting(InsertStep(t, values, acc, k + 1), h, db, values, k + 1)
<1> DEFINE v == values[k + 1]
           low == get_low_leaf(acc.n.leaves, v)
           kept == store_leaf(acc.n.leaves, v, FirstFree(t) + (k + 1) - 1)
           next == [acc.n EXCEPT !.leaves = kept.db]
           r == InsertStep(t, values, acc, k + 1)
<1> SUFFICES Inserting(r, h, db, values, k + 1)
  OBVIOUS
<1>1. v \in Nat /\ [j \in DOMAIN values |-> j][k + 1] = k + 1
  BY PlacedOfAll
<1>2. \/ acc.err # "none" /\ r = acc
      \/ /\ acc.err = "none" /\ v = 0
         /\ \E x : r = [acc EXCEPT !.lows = x]
      \/ /\ acc.err = "none" /\ v # 0 /\ kept.err # "none"
         /\ r = [acc EXCEPT !.err = kept.err]
      \/ /\ acc.err = "none" /\ v # 0 /\ kept.err = "none"
         /\ \E x : r = [err |-> "none", n |-> Refresh(next, low), lows |-> x]
                 \/ r = [err |-> "none", n |-> next, lows |-> x]
  <2>1. CASE acc.err # "none"
    BY <2>1 DEF InsertStep
  <2>2. CASE acc.err = "none" /\ v = 0
    <3>1. \E x : r = [acc EXCEPT !.lows = x]
      BY <1>1, <2>2 DEF InsertStep
    <3> QED
      BY <2>2, <3>1
  <2>3. CASE acc.err = "none" /\ v # 0 /\ kept.err # "none"
    <3>1. r = [acc EXCEPT !.err = kept.err]
      BY <1>1, <2>3 DEF InsertStep
    <3> QED
      BY <2>3, <3>1
  <2>4. CASE acc.err = "none" /\ v # 0 /\ kept.err = "none"
    <3>1. \E x : r = [err |-> "none", n |-> Refresh(next, low), lows |-> x]
              \/ r = [err |-> "none", n |-> next, lows |-> x]
      BY <1>1, <2>4 DEF InsertStep
    <3> QED
      BY <2>4, <3>1
  <2> QED
    BY <2>1, <2>2, <2>3, <2>4
<1> HIDE DEF r
<1>3. CASE acc.err # "none" /\ r = acc
  BY <1>3 DEF Inserting, Extends
<1>4. CASE acc.err = "none" /\ v = 0 /\ \E x : r = [acc EXCEPT !.lows = x]
  <2>1. r.err = acc.err /\ r.n = acc.n /\ DOMAIN r = {"err", "n", "lows"}
    BY <1>4 DEF Inserting
  <2>2. Placed(values, k + 1) = Placed(values, k)
    BY <1>4, PlacedGrows
  <2> QED
    BY <2>1, <2>2 DEF Inserting, Extends
<1>5. CASE acc.err = "none" /\ v # 0 /\ kept.err # "none" /\ r = [acc EXCEPT !.err = kept.err]
  <2>1. r.err # "none" /\ r.n = acc.n /\ DOMAIN r = {"err", "n", "lows"}
    <3> HIDE DEF kept
    <3> QED
      BY <1>5 DEF Inserting
  <2> QED
    BY <2>1 DEF Inserting, Extends
<1>6. CASE /\ acc.err = "none" /\ v # 0 /\ kept.err = "none"
           /\ \E x : r = [err |-> "none", n |-> Refresh(next, low), lows |-> x]
                   \/ r = [err |-> "none", n |-> next, lows |-> x]
  <2>1. DbInv(acc.n.leaves) /\ DOMAIN acc.n.leaves = DOMAIN db \cup Placed(values, k)
    BY <1>6 DEF Inserting, Extends
  <2>2. DbInv(kept.db) /\ DOMAIN kept.db = DOMAIN acc.n.leaves \cup {v}
    BY <1>1, <1>6, <2>1, StoreLeaf
  <2>3. Placed(values, k + 1) = Placed(values, k) \cup {v}
    BY <1>6, PlacedGrows
  <2> HIDE DEF kept, v, low
  <2>4. IsIndexed(next, h) /\ next.leaves = kept.db
    BY DEF Inserting, IsIndexed
  <2> HIDE DEF next
  <2>5. IsIndexed(Refresh(next, low), h) /\ Refresh(next, low).leaves = kept.db
    BY <2>4, RefreshShape
  <2>6. r.err = "none" /\ r.n \in {next, Refresh(next, low)} /\ DOMAIN r = {"err", "n", "lows"}
    BY <1>6
  <2> QED
    BY <2>1, <2>2, <2>3, <2>4, <2>5, <2>6 DEF Inserting, Extends
<1> QED
  BY <1>2, <1>3, <1>4, <1>5, <1>6

LEMMA CircuitExtends ==
  ASSUME NEW t, NEW h \in Nat, IsIndexed(t, h), DbInv(t.leaves), NEW values \in Seq(Nat)
  PROVE  LET r == insert_nullifiers_for_circuit(t, values)
         IN /\ DOMAIN r = {"err", "n", "info"}
            /\ IsIndexed(r.n, h)
            /\ Extends(r.n.leaves, t.leaves, ToSet(values) \ {0}, r.err)
<1> DEFINE r == insert_nullifiers_for_circuit(t, values)
           new == ToSet(values) \ {0}
           Good(x) == /\ DOMAIN x = {"err", "n", "info"}
                      /\ IsIndexed(x.n, h)
                      /\ Extends(x.n.leaves, t.leaves, new, x.err)
<1> SUFFICES Good(r)
  OBVIOUS
<1>1. CASE Len(values) # Capacity(t.tree)
  <2>1. r = [err |-> "IncorrectBatchSize", n |-> t, info |-> <<>>]
    BY <1>1 DEF insert_nullifiers_for_circuit
  <2>2. Good([err |-> "IncorrectBatchSize", n |-> t, info |-> <<>>])
    BY DEF Extends
  <2> HIDE DEF Good, r
  <2> QED
    BY <2>1, <2>2
<1>2. CASE Len(values) = Capacity(t.tree)
  <2> DEFINE n == Len(values)
             base == [err |-> "none", n |-> t, lows |-> <<>>]
             done == InsertRun(t, values, base, 1 .. n)[1 .. n]
             leaves == [k \in DOMAIN values |-> LeafOf(done.n.leaves, values[k])]
             hooked == insert_for_circuit(done.n.tree, leaves)
  <2>1. n \in Nat /\ DOMAIN [j \in DOMAIN values |-> j] = 1 .. n /\ Placed(values, n) = new
    BY PlacedOfAll
  <2>2. r = InsertSubTree(t, values, done)
    BY <1>2, <2>1, InsertIsRun
  <2>3. n \in Nat /\ done = InsertRun(t, values, base, 1 .. n)[1 .. n]
    BY <2>1
  <2>4. Inserting(base, h, t.leaves, values, 0)
    BY PlacedGrows DEF Inserting, Extends
  <2>5. Inserting(done, h, t.leaves, values, n)
    <3> HIDE DEF done, base
    <3>1. PICK F : /\ done = F[n] /\ F[0] = base
                   /\ \A k \in 1 .. n : F[k] = InsertStep(t, values, F[k - 1], k)
      BY <2>3, InsertUnfold
    <3> DEFINE T == {k \in Nat : k <= n => Inserting(F[k], h, t.leaves, values, k)}
    <3>2. 0 \in T
      BY <2>4, <3>1
    <3>3. ASSUME NEW k \in Nat, k \in T PROVE k + 1 \in T
      <4> SUFFICES ASSUME k + 1 <= n PROVE Inserting(F[k + 1], h, t.leaves, values, k + 1)
        OBVIOUS
      <4>1. k + 1 \in 1 .. n /\ (k + 1) - 1 = k /\ Inserting(F[k], h, t.leaves, values, k)
        BY <2>1, <3>3
      <4>2. F[k + 1] = InsertStep(t, values, F[k], k + 1)
        BY <3>1, <4>1
      <4> QED
        BY <4>1, <4>2, InsertStepExtends
    <3>4. n \in T
      <4> HIDE DEF T, n
      <4> QED
        BY <2>1, <3>2, <3>3, NatInduct
    <3> QED
      BY <2>1, <3>1, <3>4
  <2> HIDE DEF done
  <2>6. /\ IsIndexed(done.n, h) /\ Extends(done.n.leaves, t.leaves, new, done.err)
    BY <2>1, <2>5 DEF Inserting
  <2>7. IsTree(hooked.tree, h)
    <3>1. Len(leaves) \in Nat
      BY <2>1, LeavesLength
    <3> HIDE DEF leaves
    <3> QED
      BY <2>6, <3>1, HookShape DEF IsIndexed
  <2> HIDE DEF n
  <2>8. CASE done.err # "none"
    <3>1. r = [err |-> done.err, n |-> done.n, info |-> <<>>]
      BY <2>2, <2>8 DEF InsertSubTree
    <3>2. Good([err |-> done.err, n |-> done.n, info |-> <<>>])
      BY <2>6
    <3> HIDE DEF Good, r
    <3> QED
      BY <3>1, <3>2
  <2>9. CASE done.err = "none"
    <3>1. r = HookIn(t, done, hooked)
      BY <2>2, <2>9 DEF InsertSubTree
    <3> HIDE DEF hooked
    <3>2. \E x : HookIn(t, done, hooked) =
                   [err |-> hooked.err, n |-> [done.n EXCEPT !.tree = hooked.tree], info |-> x]
      BY DEF HookIn
    <3>3. /\ IsIndexed([done.n EXCEPT !.tree = hooked.tree], h)
          /\ [done.n EXCEPT !.tree = hooked.tree].leaves = done.n.leaves
      BY <2>6, <2>7 DEF IsIndexed
    <3>4. Good(HookIn(t, done, hooked))
      <4> DEFINE m == [done.n EXCEPT !.tree = hooked.tree]
      <4>1. PICK x : HookIn(t, done, hooked) = [err |-> hooked.err, n |-> m, info |-> x]
        BY <3>2
      <4>2. IsIndexed(m, h) /\ m.leaves = done.n.leaves
        BY <3>3
      <4> HIDE DEF new, m
      <4>3. Good([err |-> hooked.err, n |-> m, info |-> x])
        BY <2>6, <2>9, <4>2 DEF Extends
      <4> HIDE DEF Good
      <4> QED
        BY <4>1, <4>3
    <3> HIDE DEF Good, r
    <3> QED
      BY <3>1, <3>4
  <2> QED
    BY <2>8, <2>9
<1> QED
  BY <1>1, <1>2

\* The values of the first k chunks that are not padding.
Batched(chunks, k) == (UNION {ToSet(chunks[i]) : i \in 1 .. k}) \ {0}

LEMMA BatchedGrows ==
  ASSUME NEW chunks, NEW k \in Nat
  PROVE  /\ Batched(chunks, 0) = {}
         /\ Batched(chunks, k + 1) = Batched(chunks, k) \cup (ToSet(chunks[k + 1]) \ {0})
<1>1. 1 .. k + 1 = (1 .. k) \cup {k + 1} /\ 1 .. 0 = {}
  OBVIOUS
<1>2. Batched(chunks, 0) = {}
  BY <1>1 DEF Batched
<1>3. ASSUME NEW v
      PROVE  v \in UNION {ToSet(chunks[i]) : i \in 1 .. k + 1}
               <=> v \in UNION {ToSet(chunks[i]) : i \in 1 .. k} \/ v \in ToSet(chunks[k + 1])
  <2> DEFINE S(i) == ToSet(chunks[i])
  <2> HIDE DEF S
  <2>1. v \in UNION {S(i) : i \in 1 .. k + 1} <=> v \in UNION {S(i) : i \in 1 .. k} \/ v \in S(k + 1)
    BY <1>1
  <2> QED
    BY <2>1 DEF S
<1> DEFINE X(j) == UNION {ToSet(chunks[i]) : i \in 1 .. j}
<1>4. Batched(chunks, k + 1) = X(k + 1) \ {0} /\ Batched(chunks, k) = X(k) \ {0}
  BY DEF Batched
<1>5. X(k + 1) = X(k) \cup ToSet(chunks[k + 1])
  BY <1>3
<1> HIDE DEF X
<1> QED
  BY <1>2, <1>4, <1>5

LEMMA Division ==
  ASSUME NEW n \in Nat, NEW c \in Nat \ {0}, n % c = 0
  PROVE  n \div c \in Nat /\ n = (n \div c) * c
<1>1. n = c * (n \div c) + (n % c) /\ n \div c \in Nat
  OBVIOUS
<1> DEFINE m == n \div c
<1> HIDE DEF m
<1>2. n = c * m /\ m \in Nat
  BY <1>1 DEF m
<1>3. n = m * c
  BY <1>2
<1> QED
  BY <1>2, <1>3 DEF m

\* The chunks of a sequence of whole chunks hold all of it.
LEMMA ChunksCover ==
  ASSUME NEW values \in Seq(Nat), NEW c \in Nat \ {0}, Len(values) % c = 0
  PROVE  LET m == Len(values) \div c
         IN /\ m \in Nat
            /\ \A k \in 1 .. m : Chunks(values, c)[k] \in Seq(Nat)
            /\ Batched(Chunks(values, c), m) = ToSet(values) \ {0}
<1> DEFINE n == Len(values)
           m == n \div c
           ch == Chunks(values, c)
<1>0. n \in Nat /\ DOMAIN values = 1 .. n
  OBVIOUS
<1>1. m \in Nat /\ n = m * c
  <2>1. n % c = 0
    OBVIOUS
  <2> HIDE DEF n
  <2> QED
    BY <1>0, <2>1, Division
<1> DEFINE Covers(q) == \A j \in 1 .. q * c : \E k \in 1 .. q : (k - 1) * c < j /\ j <= k * c
           T == {q \in Nat : Covers(q)}
<1>2. 0 \in T
  OBVIOUS
<1>3. ASSUME NEW q \in Nat, q \in T PROVE q + 1 \in T
  <2>1. (q + 1) * c = q * c + c /\ ((q + 1) - 1) * c = q * c /\ q * c \in Nat
    OBVIOUS
  <2>2. ASSUME NEW j \in 1 .. (q + 1) * c
        PROVE  \E k \in 1 .. q + 1 : (k - 1) * c < j /\ j <= k * c
    <3>1. CASE j <= q * c
      <4>1. j \in 1 .. q * c
        BY <2>1, <3>1
      <4>2. PICK k \in 1 .. q : (k - 1) * c < j /\ j <= k * c
        BY <1>3, <4>1
      <4>3. k \in 1 .. q + 1
        OBVIOUS
      <4> QED
        BY <4>2, <4>3
    <3>2. CASE j > q * c
      <4>1. q + 1 \in 1 .. q + 1 /\ ((q + 1) - 1) * c < j /\ j <= (q + 1) * c
        BY <2>1, <3>2
      <4> QED
        BY <4>1
    <3> QED
      BY <2>1, <3>1, <3>2
  <2> QED
    BY <2>2
<1>4. Covers(m)
  <2>1. m \in T
    <3> HIDE DEF T, m
    <3> QED
      BY <1>1, <1>2, <1>3, NatInduct
  <2> QED
    BY <2>1
<1>5. ASSUME NEW k \in 1 .. m
      PROVE  /\ ch[k] \in Seq(Nat) /\ Len(ch[k]) = c
             /\ \A i \in 1 .. c : ch[k][i] = values[(k - 1) * c + i] /\ (k - 1) * c + i \in 1 .. n
  <2> DEFINE lo == (k - 1) * c + 1
             hi == k * c
  <2>1. ch[k] = SubSeq(values, lo, hi)
    BY <1>0 DEF Chunks
  <2>2. lo \in Int /\ hi \in Int /\ lo >= 1 /\ hi <= n /\ hi - lo + 1 = c
    <3>1. /\ (k - 1) * c \in Nat /\ k * c \in Nat /\ k * c = (k - 1) * c + c
      <4>1. k - 1 \in Nat /\ k = (k - 1) + 1
        BY <1>1
      <4> QED
        BY <4>1
    <3>2. k * c <= m * c
      <4>1. PICK d \in Nat : m = k + d
        <5>1. m - k \in Nat /\ m = k + (m - k)
          BY <1>1
        <5> QED
          BY <5>1
      <4>2. m * c = k * c + d * c /\ d * c \in Nat
        BY <4>1
      <4> QED
        BY <3>1, <4>2
    <3> HIDE DEF m, n
    <3> QED
      BY <1>1, <3>1, <3>2
  <2> HIDE DEF lo, hi, ch, n, m
  <2>3. \A i \in lo .. hi : values[i] \in Nat
    BY <1>0, <2>2 DEF n
  <2>4. SubSeq(values, lo, hi) = [i \in 1 .. c |-> values[i + lo - 1]]
    BY <1>0, <2>2
  <2>5. ASSUME NEW i \in 1 .. c PROVE i + lo - 1 \in lo .. hi /\ i + lo - 1 = (k - 1) * c + i
                                       /\ i + lo - 1 \in 1 .. n
    BY <1>0, <2>2 DEF lo
  <2>6. \A i \in 1 .. c : ch[k][i] = values[i + lo - 1] /\ values[i + lo - 1] \in Nat
    BY <2>1, <2>3, <2>4, <2>5
  <2>7. ch[k] \in Seq(Nat) /\ Len(ch[k]) = c
    BY <2>1, <2>4, <2>6
  <2>8. ASSUME NEW i \in 1 .. c
        PROVE  ch[k][i] = values[(k - 1) * c + i] /\ (k - 1) * c + i \in 1 .. n
    <3>1. i + lo - 1 = (k - 1) * c + i /\ i + lo - 1 \in 1 .. n
      BY <2>5
    <3>2. ch[k][i] = values[i + lo - 1]
      BY <2>6
    <3> QED
      BY <3>1, <3>2
  <2> QED
    BY <2>7, <2>8
<1>6. ASSUME NEW v PROVE v \in ToSet(values) <=> \E k \in 1 .. m : v \in ToSet(ch[k])
  <2> HIDE DEF ch, m
  <2>1. ASSUME NEW k \in 1 .. m, v \in ToSet(ch[k]) PROVE v \in ToSet(values)
    <3>1. PICK i \in 1 .. c : v = ch[k][i]
      BY <1>5, <2>1 DEF ToSet
    <3>2. v = values[(k - 1) * c + i] /\ (k - 1) * c + i \in DOMAIN values
      BY <1>0, <1>5, <3>1
    <3> QED
      BY <3>2 DEF ToSet
  <2>2. ASSUME v \in ToSet(values) PROVE \E k \in 1 .. m : v \in ToSet(ch[k])
    <3>1. PICK j \in 1 .. n : v = values[j]
      BY <1>0, <2>2 DEF ToSet
    <3>2. PICK k \in 1 .. m : (k - 1) * c < j /\ j <= k * c
      BY <1>1, <1>4, <3>1
    <3> DEFINE i == j - (k - 1) * c
    <3>3. i \in 1 .. c /\ (k - 1) * c + i = j
      <4>1. k \in Nat /\ k - 1 \in Nat /\ k = (k - 1) + 1
        BY <1>1
      <4>2. (k - 1) * c \in Nat /\ k * c = (k - 1) * c + c
        BY <4>1
      <4> QED
        BY <3>2, <4>2
    <3> HIDE DEF i
    <3>4. ch[k][i] = v /\ i \in DOMAIN ch[k]
      <4>1. ch[k][i] = values[(k - 1) * c + i]
        BY <1>5, <3>3
      <4>2. ch[k] \in Seq(Nat) /\ Len(ch[k]) = c
        BY <1>5
      <4>3. DOMAIN ch[k] = 1 .. c
        BY <4>2
      <4> QED
        BY <3>1, <3>3, <4>1, <4>3
    <3> QED
      BY <3>4 DEF ToSet
  <2> QED
    BY <2>1, <2>2
<1>7. Batched(ch, m) = ToSet(values) \ {0}
  <2> HIDE DEF ch, m
  <2>1. ASSUME NEW v
        PROVE  v \in UNION {ToSet(ch[k]) : k \in 1 .. m} <=> v \in ToSet(values)
    <3> DEFINE S(k) == ToSet(ch[k])
    <3>1. v \in ToSet(values) <=> \E k \in 1 .. m : v \in S(k)
      BY <1>6
    <3> HIDE DEF S
    <3>2. v \in UNION {S(k) : k \in 1 .. m} <=> v \in ToSet(values)
      BY <3>1
    <3> QED
      BY <3>2 DEF S
  <2>2. UNION {ToSet(ch[k]) : k \in 1 .. m} = ToSet(values)
    BY <2>1
  <2> QED
    BY <2>2 DEF Batched
<1> QED
  BY <1>1, <1>5, <1>7

LEMMA BatchExtends ==
  ASSUME NEW t, NEW h \in Nat, IsIndexed(t, h), DbInv(t.leaves), NEW values \in Seq(Nat),
         Len(values) % 2 ^ h = 0
  PROVE  LET r == batch_insert_nullifiers_with_circuit_info(t, values)
         IN IsIndexed(r.n, h) /\ Extends(r.n.leaves, t.leaves, ToSet(values) \ {0}, r.err)
<1> DEFINE chunks == Chunks(values, Capacity(t.tree))
           m == Len(values) \div Capacity(t.tree)
           base == [err |-> "none", n |-> t, info |-> <<>>]
           r == batch_insert_nullifiers_with_circuit_info(t, values)
<1>1. Capacity(t.tree) = 2 ^ h /\ Capacity(t.tree) \in Nat \ {0}
  BY PowerPositive DEF Capacity, IsIndexed, IsTree
<1>2. /\ m \in Nat /\ DOMAIN chunks = 1 .. m
      /\ \A k \in 1 .. m : chunks[k] \in Seq(Nat)
      /\ Batched(chunks, m) = ToSet(values) \ {0}
  <2> DEFINE c == Capacity(t.tree)
  <2> HIDE DEF c
  <2>1. c \in Nat \ {0} /\ Len(values) % c = 0 /\ Len(values) \in Nat
    BY <1>1 DEF c
  <2>2. /\ Len(values) \div c \in Nat
        /\ \A k \in 1 .. Len(values) \div c : Chunks(values, c)[k] \in Seq(Nat)
        /\ Batched(Chunks(values, c), Len(values) \div c) = ToSet(values) \ {0}
    BY <2>1, ChunksCover
  <2>3. DOMAIN Chunks(values, c) = 1 .. Len(values) \div c
    BY <2>1, ChunksShape
  <2> QED
    BY <2>2, <2>3 DEF c
<1>3. r = BatchRun(chunks, base, 1 .. m)[1 .. m]
  BY <1>2, BatchIsRun
<1> HIDE DEF m, chunks, r, base
<1>3a. PICK F : BatchStates(F, chunks, base, m, r)
  BY <1>2, <1>3, BatchUnfold
<1>4. /\ r = F[m] /\ F[0] = base
      /\ \A k \in 1 .. m : F[k] = BatchStep(chunks, F[k - 1], k)
  BY <1>3a DEF BatchStates
<1> DEFINE Good(x, k) == /\ DOMAIN x = {"err", "n", "info"} /\ IsIndexed(x.n, h)
                         /\ Extends(x.n.leaves, t.leaves, Batched(chunks, k), x.err)
           T == {k \in Nat : k <= m => Good(F[k], k)}
<1>5. 0 \in T
  <2>1. Good(base, 0)
    BY BatchedGrows DEF Extends, base
  <2> QED
    BY <1>4, <2>1
<1>6. ASSUME NEW k \in Nat, k \in T PROVE k + 1 \in T
  <2> SUFFICES ASSUME k + 1 <= m PROVE Good(F[k + 1], k + 1)
    OBVIOUS
  <2> DEFINE acc == F[k]
             v == chunks[k + 1]
             one == insert_nullifiers_for_circuit(acc.n, v)
  <2>1. k + 1 \in 1 .. m /\ (k + 1) - 1 = k /\ Good(acc, k)
    BY <1>2, <1>6
  <2>2. F[k + 1] = BatchStep(chunks, acc, k + 1)
    BY <1>4, <2>1
  <2>3. CASE acc.err # "none"
    <3>1. F[k + 1] = acc
      BY <2>2, <2>3 DEF BatchStep
    <3> HIDE DEF acc
    <3> QED
      BY <2>1, <2>3, <3>1 DEF Extends
  <2>4. CASE acc.err = "none"
    <3>1. F[k + 1] = [one EXCEPT !.info = acc.info \o @]
      BY <2>2, <2>4 DEF BatchStep
    <3>2. IsIndexed(acc.n, h) /\ DbInv(acc.n.leaves)
          /\ DOMAIN acc.n.leaves = DOMAIN t.leaves \cup Batched(chunks, k)
      BY <2>1, <2>4 DEF Extends
    <3>3. v \in Seq(Nat)
      BY <1>2, <2>1
    <3>4. /\ DOMAIN one = {"err", "n", "info"} /\ IsIndexed(one.n, h)
          /\ Extends(one.n.leaves, acc.n.leaves, ToSet(v) \ {0}, one.err)
      <4> HIDE DEF acc, v
      <4> QED
        BY <3>2, <3>3, CircuitExtends
    <3>5. Batched(chunks, k + 1) = Batched(chunks, k) \cup (ToSet(v) \ {0})
      BY BatchedGrows
    <3> HIDE DEF acc, v, one
    <3>6. /\ DOMAIN F[k + 1] = {"err", "n", "info"}
          /\ F[k + 1].n = one.n /\ F[k + 1].err = one.err
      BY <3>1, <3>4
    <3> QED
      BY <3>2, <3>4, <3>5, <3>6 DEF Extends
  <2> QED
    BY <2>3, <2>4
<1>7. m \in T
  <2> HIDE DEF T
  <2> QED
    BY <1>2, <1>5, <1>6, NatInduct
<1>8. Good(r, m)
  <2>1. m <= m
    BY <1>2
  <2>2. Good(F[m], m)
    BY <1>7, <2>1
  <2> QED
    BY <1>4, <2>2
<1>9. IsIndexed(r.n, h) /\ Extends(r.n.leaves, t.leaves, ToSet(values) \ {0}, r.err)
  BY <1>2, <1>8
<1> QED
  BY <1>9 DEF r

LEMMA NewTree ==
  /\ IsIndexed(new_nullifier_tree, SubTreeHeight)
  /\ DbInv(new_nullifier_tree.leaves) /\ DOMAIN new_nullifier_tree.leaves = {0}
<1> DEFINE t == new_mutable_tree(TreeHeight, SubTreeHeight)
           leaf == leaf_hash(0, new_indexed_leaves_db[0])
           n == Height(t)
           at == 2 ^ n - 1 + t.sub_tree_count * Capacity(t)
           path == PathUp(t, at, leaf, n)
           set == set_nodes(t, AsNodes(at, path), TRUE)
           s2 == [set EXCEPT !.sub_tree_count = @ + 1, !.root = path[n]]
<1>1. IsTree(t, SubTreeHeight)
  BY DEF IsTree, new_mutable_tree
<1>2. insert_leaf(t, leaf, TRUE).tree = flush_cache(s2)
  BY DEF insert_leaf, Done
<1> HIDE DEF t, n, at, path, leaf
<1>3. IsTree(set, SubTreeHeight)
  BY <1>1, SetNodesShape
<1> HIDE DEF set
<1>4. IsTree(s2, SubTreeHeight)
  BY <1>3 DEF IsTree
<1> HIDE DEF s2
<1>5. IsTree(flush_cache(s2), SubTreeHeight)
  BY <1>4, FlushShape
<1>6. new_nullifier_tree = [tree |-> flush_cache(s2), leaves |-> new_indexed_leaves_db]
  BY <1>2 DEF new_nullifier_tree, new_indexed_tree, t, leaf
<1> QED
  BY <1>5, <1>6, NewDb DEF IsIndexed

-----------------------------------------------------------------------------
(* The invariant *)

IsSeq(s) == \E S : s \in Seq(S)

\* The blocks of the chain and of the queues are made of Contents, a queue
\* holds its proposer's blocks, and nobody expects a block beyond the next.
BlocksInv ==
  /\ IsSeq(chain) /\ \A i \in DOMAIN chain : chain[i].content \in Contents
  /\ \A p \in Proposers :
       /\ expected[p] \in 0 .. Len(chain)
       /\ IsSeq(queue[p])
       /\ \A i \in DOMAIN queue[p] : queue[p][i].content \in Contents /\ queue[p][i].by = p

\* Every nullifier tree is one, its database is a linked list, and as long as
\* nothing went wrong it holds exactly the nullifiers of the proposer's blocks.
ListsInv ==
  \A p \in Proposers :
    /\ IsIndexed(nullifier_tree[p], SubTreeHeight)
    /\ DbInv(nullifier_tree[p].leaves)
    /\ ~spoiled[p] => DOMAIN nullifier_tree[p].leaves = {0} \cup SpentFor(p)

TablesInv ==
  /\ DOMAIN nullifier_tree = Proposers /\ DOMAIN expected = Proposers
  /\ DOMAIN queue = Proposers /\ DOMAIN spoiled = Proposers

TreesInv == TablesInv /\ BlocksInv /\ ListsInv

\* SpentFor, element by element and for any state.
SpentIn(ch, qs, e, p, v) ==
  \/ \E i \in 1 .. e : v \in ToSet(ch[i].content.ns)
  \/ \E i \in DOMAIN qs : v \in ToSet(qs[i].content.ns)
  \/ \E i \in e + 1 .. Len(ch) : ch[i].by = p /\ v \in ToSet(ch[i].content.ns)

LEMMA SpentElement ==
  ASSUME NEW p
  PROVE  /\ \A v : v \in SpentFor(p) <=> SpentIn(chain, queue[p], expected[p], p, v)
         /\ \A v : v \in SpentFor(p)' <=> SpentIn(chain', queue'[p], expected'[p], p, v)
<1>1. \A v : v \in SpentFor(p) <=> SpentIn(chain, queue[p], expected[p], p, v)
  <2> SUFFICES ASSUME NEW v PROVE v \in SpentFor(p) <=> SpentIn(chain, queue[p], expected[p], p, v)
    OBVIOUS
  <2> DEFINE N(c) == ToSet(c.ns)
  <2>1. v \in SpentFor(p) <=> \/ \E i \in 1 .. expected[p] : v \in N(chain[i].content)
                             \/ \E c \in Ahead(p) : v \in N(c)
    BY DEF SpentFor
  <2> HIDE DEF N
  <2>2. (\E c \in Ahead(p) : v \in N(c))
          <=> \/ \E i \in DOMAIN queue[p] : v \in N(queue[p][i].content)
              \/ \E i \in expected[p] + 1 .. Len(chain) : chain[i].by = p /\ v \in N(chain[i].content)
    BY DEF Ahead
  <2> QED
    BY <2>1, <2>2 DEF SpentIn, N
<1>2. \A v : v \in SpentFor(p)' <=> SpentIn(chain', queue'[p], expected'[p], p, v)
  <2> SUFFICES ASSUME NEW v
               PROVE  v \in SpentFor(p)' <=> SpentIn(chain', queue'[p], expected'[p], p, v)
    OBVIOUS
  <2> DEFINE N(c) == ToSet(c.ns)
  <2>1. v \in SpentFor(p)' <=> \/ \E i \in 1 .. expected'[p] : v \in N(chain'[i].content)
                              \/ \E c \in Ahead(p)' : v \in N(c)
    BY DEF SpentFor
  <2> HIDE DEF N
  <2>2. (\E c \in Ahead(p)' : v \in N(c))
          <=> \/ \E i \in DOMAIN queue'[p] : v \in N(queue'[p][i].content)
              \/ \E i \in expected'[p] + 1 .. Len(chain') :
                   chain'[i].by = p /\ v \in N(chain'[i].content)
    BY DEF Ahead
  <2> QED
    BY <2>1, <2>2 DEF SpentIn, N
<1> QED
  BY <1>1, <1>2

LEMMA SpentSame ==
  ASSUME NEW p, chain' = chain, queue'[p] = queue[p], expected'[p] = expected[p]
  PROVE  SpentFor(p)' = SpentFor(p)
<1>1. ASSUME NEW v PROVE v \in SpentFor(p)' <=> v \in SpentFor(p)
  <2>1. v \in SpentFor(p) <=> SpentIn(chain, queue[p], expected[p], p, v)
    BY SpentElement
  <2>2. v \in SpentFor(p)' <=> SpentIn(chain', queue'[p], expected'[p], p, v)
    BY SpentElement
  <2> QED
    BY <2>1, <2>2
<1> QED
  BY <1>1

LEMMA InitTrees == Init => TreesInv
<1> SUFFICES ASSUME Init PROVE TreesInv
  OBVIOUS
<1>1. TablesInv
  BY DEF Init, TablesInv
<1>2. IsSeq(<<>>)
  <2>1. <<>> \in Seq({})
    OBVIOUS
  <2> QED
    BY <2>1 DEF IsSeq
<1>3. chain = <<>> /\ \A p \in Proposers : queue[p] = <<>> /\ expected[p] = 0
  BY DEF Init
<1>4. BlocksInv
  BY <1>2, <1>3 DEF BlocksInv
<1>5. ListsInv
  <2> SUFFICES ASSUME NEW p \in Proposers
               PROVE  /\ IsIndexed(nullifier_tree[p], SubTreeHeight)
                      /\ DbInv(nullifier_tree[p].leaves)
                      /\ DOMAIN nullifier_tree[p].leaves = {0} \cup SpentFor(p)
    BY DEF ListsInv
  <2>1. nullifier_tree[p] = new_nullifier_tree
    BY DEF Init
  <2>2. \A v : v \notin SpentFor(p)
    BY <1>3, SpentElement DEF SpentIn
  <2> QED
    BY <2>1, <2>2, NewTree
<1> QED
  BY <1>1, <1>4, <1>5 DEF TreesInv

-----------------------------------------------------------------------------
(* Steps *)

LEMMA AppendIsSeq ==
  ASSUME NEW s, IsSeq(s), NEW e
  PROVE  /\ Len(s) \in Nat /\ DOMAIN s = 1 .. Len(s)
         /\ IsSeq(Append(s, e)) /\ Len(Append(s, e)) = Len(s) + 1
         /\ DOMAIN Append(s, e) = 1 .. Len(s) + 1
         /\ \A i \in 1 .. Len(s) : Append(s, e)[i] = s[i]
         /\ Append(s, e)[Len(s) + 1] = e
<1>1. PICK S : s \in Seq(S)
  BY DEF IsSeq
<1>2. s \in Seq(S \cup {e})
  BY <1>1
<1>3. Append(s, e) \in Seq(S \cup {e})
  BY <1>2, AppendProperties
<1> QED
  BY <1>2, <1>3, AppendProperties, LenProperties DEF IsSeq

LEMMA TailIsSeq ==
  ASSUME NEW s, IsSeq(s), s # <<>>
  PROVE  /\ Len(s) \in Nat \ {0} /\ DOMAIN s = 1 .. Len(s) /\ Head(s) = s[1]
         /\ IsSeq(Tail(s)) /\ DOMAIN Tail(s) = 1 .. Len(s) - 1
         /\ \A i \in 1 .. Len(s) - 1 : Tail(s)[i] = s[i + 1]
<1>1. PICK S : s \in Seq(S)
  BY DEF IsSeq
<1> QED
  BY <1>1, HeadTailProperties, LenProperties DEF IsSeq

\* A block of ours goes into the tree and into the queue.
LEMMA AssembledStep ==
  ASSUME TreesInv, NEW p \in Proposers, NEW c \in Contents, NEW t, NEW item,
         item.by = p, item.content = c,
         IsIndexed(t, SubTreeHeight),
         Extends(t.leaves, nullifier_tree[p].leaves, ToSet(c.ns) \ {0}, "none"),
         nullifier_tree' = [nullifier_tree EXCEPT ![p] = t],
         queue' = [queue EXCEPT ![p] = Append(@, item)],
         UNCHANGED <<chain, expected, spoiled>>
  PROVE  TreesInv'
<1>1. TablesInv'
  BY DEF TreesInv, TablesInv
<1>2. /\ \A q \in Proposers \ {p} : nullifier_tree'[q] = nullifier_tree[q] /\ queue'[q] = queue[q]
      /\ nullifier_tree'[p] = t /\ queue'[p] = Append(queue[p], item)
  BY DEF TreesInv, TablesInv
<1>3. IsSeq(queue[p])
  BY DEF TreesInv, BlocksInv
<1> DEFINE n == Len(queue[p])
<1>4. /\ n \in Nat /\ DOMAIN queue[p] = 1 .. n
      /\ IsSeq(queue'[p]) /\ DOMAIN queue'[p] = 1 .. n + 1
      /\ \A i \in 1 .. n : queue'[p][i] = queue[p][i]
      /\ queue'[p][n + 1] = item
  BY <1>2, <1>3, AppendIsSeq
<1> HIDE DEF n
<1>5. BlocksInv'
  <2>1. \A i \in DOMAIN queue'[p] : queue'[p][i].content \in Contents /\ queue'[p][i].by = p
    <3>1. \A i \in 1 .. n + 1 : i \in 1 .. n \/ i = n + 1
      BY <1>4
    <3> QED
      BY <1>4, <3>1 DEF TreesInv, BlocksInv
  <2> QED
    BY <1>2, <1>4, <2>1 DEF TreesInv, BlocksInv
<1>6. ListsInv'
  <2> SUFFICES ASSUME NEW q \in Proposers
               PROVE  /\ IsIndexed(nullifier_tree'[q], SubTreeHeight)
                      /\ DbInv(nullifier_tree'[q].leaves)
                      /\ ~spoiled'[q] =>
                           DOMAIN nullifier_tree'[q].leaves = {0} \cup SpentFor(q)'
    BY DEF ListsInv
  <2>1. CASE q # p
    <3>1. SpentFor(q)' = SpentFor(q)
      BY <1>2, <2>1, SpentSame
    <3> QED
      BY <1>2, <2>1, <3>1 DEF TreesInv, ListsInv
  <2>2. CASE q = p
    <3>1. \A v : v \in SpentFor(p)' <=> v \in SpentFor(p) \/ v \in ToSet(c.ns)
      <4>1. ASSUME NEW v
            PROVE  (\E i \in DOMAIN queue'[p] : v \in ToSet(queue'[p][i].content.ns))
                     <=> \/ \E i \in DOMAIN queue[p] : v \in ToSet(queue[p][i].content.ns)
                         \/ v \in ToSet(c.ns)
        <5> DEFINE N(i) == v \in ToSet(queue'[p][i].content.ns)
                   M(i) == v \in ToSet(queue[p][i].content.ns)
        <5>1. (\A i \in 1 .. n : N(i) <=> M(i)) /\ (N(n + 1) <=> v \in ToSet(c.ns))
          BY <1>4
        <5>2. \A i : i \in 1 .. n + 1 <=> i \in 1 .. n \/ i = n + 1
          BY <1>4
        <5> HIDE DEF N, M
        <5>3. (\E i \in 1 .. n + 1 : N(i)) <=> (\E i \in 1 .. n : M(i)) \/ v \in ToSet(c.ns)
          BY <5>1, <5>2
        <5> QED
          BY <1>4, <5>3 DEF N, M
      <4> QED
        BY <4>1, SpentElement DEF SpentIn
    <3>2. /\ DbInv(t.leaves)
          /\ DOMAIN t.leaves = DOMAIN nullifier_tree[p].leaves \cup (ToSet(c.ns) \ {0})
      BY DEF Extends
    <3>3. ~spoiled[p] => DOMAIN nullifier_tree[p].leaves = {0} \cup SpentFor(p)
      BY DEF TreesInv, ListsInv
    <3> QED
      BY <1>2, <2>2, <3>1, <3>2, <3>3
  <2> QED
    BY <2>1, <2>2
<1> QED
  BY <1>1, <1>5, <1>6 DEF TreesInv

\* Something goes wrong: whatever is left is a list.
LEMMA SpoiledStep ==
  ASSUME TreesInv, NEW p \in Proposers, NEW t,
         IsIndexed(t, SubTreeHeight), DbInv(t.leaves),
         nullifier_tree' = [nullifier_tree EXCEPT ![p] = t],
         spoiled' = [spoiled EXCEPT ![p] = TRUE],
         UNCHANGED <<chain, expected, queue>>
  PROVE  TreesInv'
<1>1. TablesInv'
  BY DEF TreesInv, TablesInv
<1>2. BlocksInv'
  BY DEF TreesInv, BlocksInv
<1>3. /\ \A q \in Proposers \ {p} : nullifier_tree'[q] = nullifier_tree[q]
                                    /\ spoiled'[q] = spoiled[q]
      /\ nullifier_tree'[p] = t /\ spoiled'[p] = TRUE
  BY DEF TreesInv, TablesInv
<1>4. ListsInv'
  <2> SUFFICES ASSUME NEW q \in Proposers
               PROVE  /\ IsIndexed(nullifier_tree'[q], SubTreeHeight)
                      /\ DbInv(nullifier_tree'[q].leaves)
                      /\ ~spoiled'[q] =>
                           DOMAIN nullifier_tree'[q].leaves = {0} \cup SpentFor(q)'
    BY DEF ListsInv
  <2>1. SpentFor(q)' = SpentFor(q)
    BY SpentSame
  <2> QED
    BY <1>3, <2>1 DEF TreesInv, ListsInv
<1> QED
  BY <1>1, <1>2, <1>4 DEF TreesInv

LEMMA AssemblyStep ==
  ASSUME TreesInv, NEW p \in Proposers, NEW c \in Contents, prepare_state_transition(p, c)
  PROVE  TreesInv'
<1> DEFINE ns == batch_insert_nullifiers_with_circuit_info(nullifier_tree[p], c.ns)
           ins == Insertion(p, c)
<1>1. ins.ns = ns
  BY DEF Insertion
<1>2. /\ IsIndexed(ns.n, SubTreeHeight)
      /\ Extends(ns.n.leaves, nullifier_tree[p].leaves, ToSet(c.ns) \ {0}, ns.err)
  <2>1. SubTreeHeight \in Nat
    BY HeightsAssumption
  <2>2. c.ns \in Seq(Nat) /\ Len(c.ns) % 2 ^ SubTreeHeight = 0
    BY ContentsAssumption
  <2>3. IsIndexed(nullifier_tree[p], SubTreeHeight) /\ DbInv(nullifier_tree[p].leaves)
    BY DEF TreesInv, ListsInv
  <2> QED
    BY <2>1, <2>2, <2>3, BatchExtends
<1>3. Transition(p, c, ins)
  BY DEF prepare_state_transition
<1> HIDE DEF ins, ns
<1>4. CASE assembly_fails(p, ins)
  <2>1. DbInv(ns.n.leaves)
    BY <1>2 DEF Extends
  <2> QED
    BY <1>1, <1>2, <1>4, <2>1, SpoiledStep DEF assembly_fails
<1>5. CASE ~assembly_fails(p, ins)
  <2>1. PICK rp, preview : assemble_block(p, c, ins, rp, preview)
    BY <1>3, <1>5 DEF Transition
  <2>2. /\ ns.err = "none"
        /\ nullifier_tree' = [nullifier_tree EXCEPT ![p] = ns.n]
        /\ UNCHANGED <<chain, expected, spoiled>>
    BY <1>1, <2>1 DEF assemble_block
  <2>3. \E item : /\ item.by = p /\ item.content = c
                  /\ queue' = [queue EXCEPT ![p] = Append(@, item)]
    BY <2>1 DEF assemble_block
  <2>4. Extends(ns.n.leaves, nullifier_tree[p].leaves, ToSet(c.ns) \ {0}, "none")
    BY <1>2, <2>2
  <2>5. PICK item : /\ item.by = p /\ item.content = c
                    /\ queue' = [queue EXCEPT ![p] = Append(@, item)]
    BY <2>3
  <2> QED
    BY <1>2, <2>2, <2>4, <2>5, AssembledStep
<1> QED
  BY <1>4, <1>5

\* A block leaves the queue: it is in the chain, or its proposer is wrong.
LEMMA ProposeStep ==
  ASSUME TreesInv, NEW p \in Proposers, propose_block(p)
  PROVE  TreesInv'
<1> DEFINE b == Head(queue[p])
           m == Len(queue[p])
           n == Len(chain)
<1>1. /\ queue[p] # <<>> /\ queue' = [queue EXCEPT ![p] = Tail(@)]
      /\ UNCHANGED <<nullifier_tree, expected>>
  BY DEF propose_block, treeVars
<1>2. \/ /\ chain' = Append(chain, [by |-> b.by, content |-> b.content, new |-> b.new])
         /\ spoiled' = spoiled
      \/ spoiled' = [spoiled EXCEPT ![p] = TRUE] /\ chain' = chain
  BY DEF propose_block
<1>3. /\ IsSeq(queue[p]) /\ IsSeq(chain)
  BY DEF TreesInv, BlocksInv
<1>4. /\ m \in Nat \ {0} /\ DOMAIN queue[p] = 1 .. m /\ b = queue[p][1]
      /\ queue'[p] = Tail(queue[p]) /\ IsSeq(queue'[p]) /\ DOMAIN queue'[p] = 1 .. m - 1
      /\ \A i \in 1 .. m - 1 : queue'[p][i] = queue[p][i + 1]
  <2>1. queue'[p] = Tail(queue[p])
    BY <1>1 DEF TreesInv, TablesInv
  <2> QED
    BY <1>1, <1>3, <2>1, TailIsSeq
<1>5. \A q \in Proposers \ {p} : queue'[q] = queue[q]
  BY <1>1 DEF TreesInv, TablesInv
<1>6. TablesInv'
  BY <1>1, <1>2 DEF TreesInv, TablesInv
<1>7. b.by = p /\ b.content \in Contents
  BY <1>4 DEF TreesInv, BlocksInv
<1> HIDE DEF b, m
<1>8. \A i \in DOMAIN queue'[p] : queue'[p][i].content \in Contents /\ queue'[p][i].by = p
  <2> SUFFICES ASSUME NEW i \in 1 .. m - 1
               PROVE  queue'[p][i].content \in Contents /\ queue'[p][i].by = p
    BY <1>4
  <2>1. queue'[p][i] = queue[p][i + 1] /\ i + 1 \in DOMAIN queue[p]
    BY <1>4
  <2> QED
    BY <2>1 DEF TreesInv, BlocksInv
<1>9. CASE spoiled' = [spoiled EXCEPT ![p] = TRUE] /\ chain' = chain
  <2>1. BlocksInv'
    BY <1>1, <1>4, <1>5, <1>8, <1>9 DEF TreesInv, BlocksInv
  <2>2. ListsInv'
    <3> SUFFICES ASSUME NEW q \in Proposers, ~spoiled'[q]
                 PROVE  DOMAIN nullifier_tree'[q].leaves = {0} \cup SpentFor(q)'
      BY <1>1 DEF ListsInv, TreesInv
    <3>1. q # p /\ ~spoiled[q]
      BY <1>9 DEF TreesInv, TablesInv
    <3>2. SpentFor(q)' = SpentFor(q)
      BY <1>1, <1>5, <1>9, <3>1, SpentSame
    <3> QED
      BY <1>1, <3>1, <3>2 DEF TreesInv, ListsInv
  <2> QED
    BY <1>6, <2>1, <2>2 DEF TreesInv
<1>10. CASE /\ chain' = Append(chain, [by |-> b.by, content |-> b.content, new |-> b.new])
            /\ spoiled' = spoiled
  <2> DEFINE e == [by |-> b.by, content |-> b.content, new |-> b.new]
  <2>1. /\ n \in Nat /\ DOMAIN chain = 1 .. n
        /\ IsSeq(chain') /\ Len(chain') = n + 1 /\ DOMAIN chain' = 1 .. n + 1
        /\ \A i \in 1 .. n : chain'[i] = chain[i]
        /\ chain'[n + 1] = e
    BY <1>3, <1>10, AppendIsSeq
  <2>2. e.by = p /\ e.content = b.content
    BY <1>7
  <2> HIDE DEF e, n
  <2>3. \A i \in 1 .. n + 1 : i \in 1 .. n \/ i = n + 1
    BY <2>1
  <2>4. \A q \in Proposers : expected'[q] = expected[q] /\ expected[q] \in 0 .. n
    BY <1>1 DEF TreesInv, BlocksInv, n
  <2>5. BlocksInv'
    <3>1. \A i \in DOMAIN chain' : chain'[i].content \in Contents
      BY <1>7, <2>1, <2>2, <2>3 DEF TreesInv, BlocksInv
    <3>2. \A q \in Proposers : expected'[q] \in 0 .. Len(chain')
      BY <2>1, <2>4
    <3>3. ASSUME NEW q \in Proposers
          PROVE  /\ IsSeq(queue'[q])
                 /\ \A i \in DOMAIN queue'[q] : queue'[q][i].content \in Contents
                                              /\ queue'[q][i].by = q
      <4>1. CASE q = p
        BY <1>4, <1>8, <4>1
      <4>2. CASE q # p
        BY <1>5, <4>2 DEF TreesInv, BlocksInv
      <4> QED
        BY <4>1, <4>2
    <3> QED
      BY <2>1, <3>1, <3>2, <3>3 DEF BlocksInv
  <2>6. ASSUME NEW q \in Proposers PROVE SpentFor(q)' = SpentFor(q)
    <3> SUFFICES ASSUME NEW v
                 PROVE  SpentIn(chain', queue'[q], expected'[q], q, v)
                          <=> SpentIn(chain, queue[q], expected[q], q, v)
      BY SpentElement
    <3> DEFINE N(i) == v \in ToSet(chain'[i].content.ns)
               M(i) == v \in ToSet(chain[i].content.ns)
               x == expected[q]
               B == v \in ToSet(b.content.ns)
               Q(i) == v \in ToSet(queue[q][i].content.ns)
               R(i) == v \in ToSet(queue'[q][i].content.ns)
    <3>1. x \in 0 .. n
      BY <2>4
    <3>2. \A i \in 1 .. n : (N(i) <=> M(i)) /\ chain'[i].by = chain[i].by
      BY <2>1
    <3>3. (N(n + 1) <=> B) /\ chain'[n + 1].by = p
      BY <2>1, <2>2
    <3>4. (\E i \in 1 .. x : N(i)) <=> (\E i \in 1 .. x : M(i))
      <4>1. \A i \in 1 .. x : i \in 1 .. n
        BY <2>1, <3>1
      <4> HIDE DEF N, M, x
      <4> QED
        BY <3>2, <4>1
    <3>5. (\E i \in x + 1 .. n + 1 : chain'[i].by = q /\ N(i))
            <=> (\E i \in x + 1 .. n : chain[i].by = q /\ M(i)) \/ (p = q /\ B)
      <4>1. \A i : i \in x + 1 .. n + 1 <=> i \in x + 1 .. n \/ i = n + 1
        BY <2>1, <3>1
      <4>2. \A i \in x + 1 .. n : i \in 1 .. n
        BY <2>1, <3>1
      <4> HIDE DEF N, M, x, B
      <4> QED
        BY <3>2, <3>3, <4>1, <4>2
    <3>6. (\E i \in DOMAIN queue'[q] : R(i)) \/ (p = q /\ B) <=> (\E i \in DOMAIN queue[q] : Q(i))
      <4>1. CASE q # p
        BY <1>5, <4>1
      <4>2. CASE q = p
        <5>1. /\ DOMAIN queue[q] = 1 .. m /\ DOMAIN queue'[q] = 1 .. m - 1
              /\ (Q(1) <=> B) /\ \A i \in 1 .. m - 1 : R(i) <=> Q(i + 1)
          BY <1>4, <4>2
        <5>2. \A i \in 1 .. m : i = 1 \/ (i - 1 \in 1 .. m - 1 /\ (i - 1) + 1 = i)
          BY <1>4
        <5>3. \A i \in 1 .. m - 1 : i + 1 \in 1 .. m
          BY <1>4
        <5>4. 1 \in 1 .. m
          BY <1>4
        <5> HIDE DEF Q, R, B
        <5> QED
          BY <4>2, <5>1, <5>2, <5>3, <5>4
      <4> QED
        BY <4>1, <4>2
    <3>7. Len(chain') = n + 1 /\ Len(chain) = n /\ expected'[q] = x
      BY <2>1, <2>4 DEF n
    <3> QED
      BY <3>4, <3>5, <3>6, <3>7 DEF SpentIn
  <2>7. ListsInv'
    BY <1>1, <1>10, <2>6 DEF TreesInv, ListsInv
  <2> QED
    BY <1>6, <2>5, <2>7 DEF TreesInv
<1> QED
  BY <1>2, <1>9, <1>10

LEMMA HashErrorStep ==
  ASSUME TreesInv, NEW p \in Proposers, block_hash_error(p)
  PROVE  TreesInv'
<1>1. /\ nullifier_tree' = [nullifier_tree EXCEPT ![p] = new_nullifier_tree]
      /\ spoiled' = [spoiled EXCEPT ![p] = TRUE]
      /\ UNCHANGED <<chain, expected, queue>>
  BY DEF block_hash_error, reset_nullifier_tree
<1> QED
  BY <1>1, NewTree, SpoiledStep

\* A block of the chain is handled.  A block of the proposer's own is in its
\* tree, and if it is inserted again there is nothing new in it.
LEMMA HandledStep ==
  ASSUME TreesInv, NEW p \in Proposers, process_block_proposed(p)
  PROVE  TreesInv'
<1> DEFINE b == EventOf(p)
           e == expected[p]
           ns == insert_leaves(nullifier_tree[p], b.content.ns)
           new == ToSet(b.content.ns) \ {0}
           n == Len(chain)
<1>1. /\ e < n /\ (NeedsUpdate(p) => ns.err = "none")
      /\ expected' = [expected EXCEPT ![p] = @ + 1]
      /\ nullifier_tree' =
           IF NeedsUpdate(p) THEN [nullifier_tree EXCEPT ![p] = ns.n] ELSE nullifier_tree
      /\ UNCHANGED <<chain, queue, spoiled>>
  BY DEF process_block_proposed, NextEvent
<1>2. e \in Nat /\ n \in Nat /\ DOMAIN chain = 1 .. n /\ b = chain[e + 1]
  <2>1. IsSeq(chain) /\ e \in 0 .. n
    BY DEF TreesInv, BlocksInv
  <2> QED
    BY <2>1, AppendIsSeq DEF EventOf
<1>3. e + 1 \in DOMAIN chain /\ b.content \in Contents
  BY <1>1, <1>2 DEF TreesInv, BlocksInv
<1>4. /\ IsIndexed(ns.n, SubTreeHeight)
      /\ Extends(ns.n.leaves, nullifier_tree[p].leaves, new, ns.err)
  <2>1. SubTreeHeight \in Nat
    BY HeightsAssumption
  <2>2. b.content.ns \in Seq(Nat)
    BY <1>3, ContentsAssumption
  <2>3. IsIndexed(nullifier_tree[p], SubTreeHeight) /\ DbInv(nullifier_tree[p].leaves)
    BY DEF TreesInv, ListsInv
  <2> HIDE DEF b
  <2> QED
    BY <2>1, <2>2, <2>3, InsertLeavesExtends
<1>5. NeedsUpdate(p) \/ b.by = p
  BY DEF NeedsUpdate
<1> HIDE DEF ns, b
<1>6. TablesInv'
  BY <1>1 DEF TreesInv, TablesInv
<1>7. /\ \A q \in Proposers \ {p} : nullifier_tree'[q] = nullifier_tree[q]
                                    /\ expected'[q] = expected[q]
      /\ expected'[p] = e + 1
      /\ nullifier_tree'[p] = IF NeedsUpdate(p) THEN ns.n ELSE nullifier_tree[p]
  BY <1>1 DEF TreesInv, TablesInv
<1>8. BlocksInv'
  <2>1. \A q \in Proposers : expected'[q] \in 0 .. n
    BY <1>1, <1>2, <1>7 DEF TreesInv, BlocksInv
  <2> QED
    BY <1>1, <2>1 DEF TreesInv, BlocksInv
<1>9. \A v : v \in SpentFor(p)' <=> v \in SpentFor(p) \/ v \in ToSet(b.content.ns)
  <2> SUFFICES ASSUME NEW v
               PROVE  SpentIn(chain', queue'[p], expected'[p], p, v)
                        <=> SpentIn(chain, queue[p], e, p, v) \/ v \in ToSet(b.content.ns)
    BY SpentElement
  <2> DEFINE N(i) == v \in ToSet(chain[i].content.ns)
  <2>1. N(e + 1) <=> v \in ToSet(b.content.ns)
    BY <1>2
  <2>2. \A i : i \in 1 .. e + 1 <=> i \in 1 .. e \/ i = e + 1
    BY <1>2
  <2>3. \A i : i \in e + 1 .. n <=> i \in (e + 1) + 1 .. n \/ i = e + 1
    BY <1>1, <1>2
  <2>4. chain' = chain /\ queue'[p] = queue[p] /\ expected'[p] = e + 1
    BY <1>1, <1>7
  <2> HIDE DEF N, n, e
  <2>5. SpentIn(chain, queue[p], e, p, v)
          <=> \/ \E i \in 1 .. e : N(i)
              \/ \E i \in DOMAIN queue[p] : v \in ToSet(queue[p][i].content.ns)
              \/ \E i \in e + 1 .. n : chain[i].by = p /\ N(i)
    BY DEF SpentIn, N, n
  <2>6. SpentIn(chain', queue'[p], expected'[p], p, v)
          <=> \/ \E i \in 1 .. e + 1 : N(i)
              \/ \E i \in DOMAIN queue[p] : v \in ToSet(queue[p][i].content.ns)
              \/ \E i \in (e + 1) + 1 .. n : chain[i].by = p /\ N(i)
    BY <2>4 DEF SpentIn, N, n
  <2> QED
    BY <2>1, <2>2, <2>3, <2>5, <2>6
<1>10. b.by = p => ToSet(b.content.ns) \subseteq SpentFor(p)
  <2> SUFFICES ASSUME b.by = p, NEW v \in ToSet(b.content.ns)
               PROVE  SpentIn(chain, queue[p], expected[p], p, v)
    BY SpentElement
  <2>1. e + 1 \in e + 1 .. n
    BY <1>1, <1>2
  <2> QED
    BY <1>2, <2>1 DEF SpentIn
<1>11. ListsInv'
  <2> SUFFICES ASSUME NEW q \in Proposers
               PROVE  /\ IsIndexed(nullifier_tree'[q], SubTreeHeight)
                      /\ DbInv(nullifier_tree'[q].leaves)
                      /\ ~spoiled'[q] =>
                           DOMAIN nullifier_tree'[q].leaves = {0} \cup SpentFor(q)'
    BY DEF ListsInv
  <2>1. CASE q # p
    <3>1. SpentFor(q)' = SpentFor(q)
      BY <1>1, <1>7, <2>1, SpentSame
    <3> QED
      BY <1>1, <1>7, <2>1, <3>1 DEF TreesInv, ListsInv
  <2>2. CASE q = p /\ NeedsUpdate(p)
    <3>1. /\ nullifier_tree'[p] = ns.n /\ DbInv(ns.n.leaves)
          /\ DOMAIN ns.n.leaves = DOMAIN nullifier_tree[p].leaves \cup new
      BY <1>1, <1>4, <1>7, <2>2 DEF Extends
    <3>2. ~spoiled[p] => DOMAIN nullifier_tree[p].leaves = {0} \cup SpentFor(p)
      BY DEF TreesInv, ListsInv
    <3> QED
      BY <1>1, <1>4, <1>9, <2>2, <3>1, <3>2
  <2>3. CASE q = p /\ ~NeedsUpdate(p)
    <3>1. SpentFor(p)' = SpentFor(p)
      BY <1>5, <1>9, <1>10, <2>3
    <3>2. nullifier_tree'[p] = nullifier_tree[p]
      BY <1>7, <2>3
    <3> QED
      BY <1>1, <2>3, <3>1, <3>2 DEF TreesInv, ListsInv
  <2> QED
    BY <2>1, <2>2, <2>3
<1> QED
  BY <1>6, <1>8, <1>11 DEF TreesInv

LEMMA TreesUnchanged == TreesInv /\ UNCHANGED vars => TreesInv'
<1> SUFFICES ASSUME TreesInv, UNCHANGED vars PROVE TreesInv'
  OBVIOUS
<1>1. UNCHANGED <<chain, nullifier_tree, expected, queue, spoiled>>
  BY DEF vars, treeVars
<1>2. \A p \in Proposers : SpentFor(p)' = SpentFor(p)
  BY <1>1, SpentSame
<1> QED
  BY <1>1, <1>2 DEF TreesInv, TablesInv, BlocksInv, ListsInv

LEMMA NextTrees == TreesInv /\ [Next]_vars => TreesInv'
<1> SUFFICES ASSUME TreesInv, [Next]_vars PROVE TreesInv'
  OBVIOUS
<1>1. CASE UNCHANGED vars
  BY <1>1, TreesUnchanged
<1>2. CASE Next
  <2>1. PICK p \in Proposers :
          \/ Assembling(p) /\ \E c \in Contents : prepare_state_transition(p, c)
          \/ propose_block(p)
          \/ block_hash_error(p)
          \/ process_block_proposed(p)
    BY <1>2 DEF Next
  <2>2. CASE \E c \in Contents : prepare_state_transition(p, c)
    BY <2>2, AssemblyStep
  <2>3. CASE propose_block(p)
    BY <2>3, ProposeStep
  <2>4. CASE block_hash_error(p)
    BY <2>4, HashErrorStep
  <2>5. CASE process_block_proposed(p)
    BY <2>5, HandledStep
  <2> QED
    BY <2>1, <2>2, <2>3, <2>4, <2>5
<1> QED
  BY <1>1, <1>2

LEMMA TreesInvariant == Spec => []TreesInv
BY InitTrees, NextTrees, PTL DEF Spec

-----------------------------------------------------------------------------
(* Theorems *)

\* Whatever is inserted, by insert_leaves or one subtree at a time, whichever
\* insertion stops half way and whatever is reset, every leaf database is a
\* list in the order of its values.
THEOREM ListsCorrect == Spec => []ListsAreSorted
<1>1. TreesInv => ListsAreSorted
  BY LinkedIsSorted DEF TreesInv, ListsInv, ListsAreSorted
<1> QED
  BY <1>1, TreesInvariant, PTL

\* As long as nothing went wrong get_non_membership_proof refuses exactly the
\* values that a block in the proposer's trees has nullified: what the others
\* insert from the chain and what it inserts while it assembles agree, and its
\* own blocks count once.
THEOREM RefusalCorrect == Spec => []SpentAreRefused
<1>1. TreesInv => SpentAreRefused
  <2> SUFFICES ASSUME TreesInv, NEW p \in Proposers, ~spoiled[p], NEW v \in Values
               PROVE  get_non_membership_proof(nullifier_tree[p], v).err
                        = IF v \in SpentFor(p) THEN "LeafExists" ELSE "none"
    BY DEF SpentAreRefused
  <2>1. v # 0
    BY DEF Values
  <2>2. v \in DOMAIN nullifier_tree[p].leaves <=> v \in SpentFor(p)
    BY <2>1 DEF TreesInv, ListsInv
  <2>3. /\ \A t, i, x : ProofAt(t, i, x).err = "none"
        /\ NoProof("LeafExists").err = "LeafExists"
    BY DEF ProofAt, NoProof
  <2> QED
    BY <2>2, <2>3 DEF get_non_membership_proof
<1> QED
  BY <1>1, TreesInvariant, PTL

\* Both at once: proofs of non-membership are had for exactly the values that
\* no block in the trees has nullified, from lists that are in order.
THEOREM NonMembershipCorrect == Spec => []NonMembershipIsExact
BY ListsCorrect, RefusalCorrect, PTL DEF NonMembershipIsExact

=============================================================================
