------------------------------ MODULE FenceSums ------------------------------
(***************************************************************************)
(* Sums over finite sets (SumFunctionOnSet of Functions), for the counters *)
(* that fenced status and the metrics add up over the hosts.               *)
(*                                                                         *)
(* A fold takes its elements in an order nobody knows, by a recursive      *)
(* function on the subsets.  The facts below are proved by taking a least  *)
(* counterexample: first that the function exists, then that the order     *)
(* does not matter.                                                        *)
(***************************************************************************)
EXTENDS FiniteSetTheorems, WellFoundedInduction, TLAPS

\* The element a fold takes next.
Pick(s) == CHOOSE x \in s : TRUE

\* g is the recursive function of the sum of f over T.
Adds(f, T, g) ==
    g = [s \in SUBSET T |-> IF s = {} THEN 0 ELSE f[Pick(s)] + g[s \ {Pick(s)}]]

\* What is picked is there.
LEMMA PickIn ==
    ASSUME NEW s, s # {}
    PROVE  Pick(s) \in s
BY DEF Pick

\* The library's definition, in these terms.
LEMMA SumIsFold ==
    ASSUME NEW f, NEW T
    PROVE  SumFunctionOnSet(f, T) = (CHOOSE g : Adds(f, T, g))[T]
BY DEF SumFunctionOnSet, FoldFunctionOnSet, MapThenFoldSet, Adds, Pick

\* Every set of naturals has a least element.
LEMMA LeastNat ==
    ASSUME NEW T, T \subseteq Nat, T # {}
    PROVE  \E x \in T : \A y \in T : x <= y
<1>1. \E x \in T : \A y \in T : ~ (<<y, x>> \in OpToRel(<, Nat))
  BY WFMin, NatLessThanWellFounded
<1>2. PICK x \in T : \A y \in T : ~ (<<y, x>> \in OpToRel(<, Nat))
  BY <1>1
<1>3. ASSUME NEW y \in T, y < x PROVE FALSE
  <2>1. <<y, x>> \in OpToRel(<, Nat)
    BY <1>3 DEF OpToRel
  <2> QED
    BY <1>2, <2>1
<1>4. \A y \in T : x <= y
  BY <1>3
<1> QED
  BY <1>4

\* Of finite sets, one has the fewest elements.
LEMMA Fewest ==
    ASSUME NEW F, F # {}, \A s \in F : IsFiniteSet(s)
    PROVE  \E s \in F : \A r \in F : Cardinality(s) <= Cardinality(r)
<1> DEFINE N == {Cardinality(s) : s \in F}
<1>1. N \subseteq Nat /\ N # {}
  BY FS_CardinalityType
<1>2. PICK n \in N : \A m \in N : n <= m
  BY <1>1, LeastNat
<1>3. PICK s \in F : n = Cardinality(s)
  BY <1>2
<1> QED
  BY <1>2, <1>3

\* The part of the recursive function on the sets of at most n elements.
Small(T, n) == {s \in SUBSET T : Cardinality(s) <= n}

AddsUpTo(f, T, n, g) ==
    /\ g \in [Small(T, n) -> Nat]
    /\ \A s \in Small(T, n) : g[s] = IF s = {} THEN 0 ELSE f[Pick(s)] + g[s \ {Pick(s)}]

\* One element less.
LEMMA Smaller ==
    ASSUME NEW T, IsFiniteSet(T), NEW s \in SUBSET T, s # {}
    PROVE  /\ IsFiniteSet(s) /\ IsFiniteSet(s \ {Pick(s)}) /\ s \ {Pick(s)} \in SUBSET T
           /\ Cardinality(s) \in Nat /\ Cardinality(s) # 0
           /\ Cardinality(s \ {Pick(s)}) = Cardinality(s) - 1
<1>1. IsFiniteSet(s)
  BY FS_Subset
<1>2. Cardinality(s) \in Nat /\ Cardinality(s) # 0
  BY <1>1, FS_CardinalityType, FS_EmptySet
<1>3. IsFiniteSet(s \ {Pick(s)}) /\ Cardinality(s \ {Pick(s)}) = Cardinality(s) - 1
  BY <1>1, PickIn, FS_RemoveElement
<1> QED
  BY <1>1, <1>2, <1>3

\* The function exists on the sets of at most n elements, for every n ...
LEMMA AddsUpToExists ==
    ASSUME NEW T, IsFiniteSet(T), NEW f, \A x \in T : f[x] \in Nat, NEW n \in Nat
    PROVE  \E g : AddsUpTo(f, T, n, g)
<1> DEFINE Bad == {m \in Nat : ~ \E g : AddsUpTo(f, T, m, g)}
<1> SUFFICES ASSUME Bad # {} PROVE FALSE
  OBVIOUS
<1>1. PICK m \in Bad : \A k \in Bad : m <= k
  BY LeastNat
<1>2. m \in Nat /\ ~ \E g : AddsUpTo(f, T, m, g)
  OBVIOUS
<1> HIDE DEF Bad
<1>3. CASE m = 0
  <2> DEFINE g == [s \in Small(T, 0) |-> 0]
  <2>1. \A s \in Small(T, 0) : s = {}
    <3> SUFFICES ASSUME NEW s \in SUBSET T, Cardinality(s) <= 0, s # {} PROVE FALSE
      BY DEF Small
    <3>1. Cardinality(s) \in Nat /\ Cardinality(s) # 0
      BY Smaller
    <3> QED
      BY <3>1
  <2>2. AddsUpTo(f, T, 0, g)
    BY <2>1 DEF AddsUpTo
  <2> QED
    BY <1>2, <1>3, <2>2
<1>4. CASE m # 0
  <2>1. m - 1 \in Nat /\ ~ (m <= m - 1)
    BY <1>2, <1>4
  <2>2. PICK h : AddsUpTo(f, T, m - 1, h)
    BY <1>1, <2>1 DEF Bad
  <2> DEFINE g == [s \in Small(T, m) |-> IF s = {} THEN 0 ELSE f[Pick(s)] + h[s \ {Pick(s)}]]
  <2>3. ASSUME NEW s \in Small(T, m), s # {} PROVE s \ {Pick(s)} \in Small(T, m - 1) /\ Pick(s) \in T
    <3>1. s \in SUBSET T /\ Cardinality(s) <= m
      BY DEF Small
    <3>2. s \ {Pick(s)} \in SUBSET T /\ Cardinality(s \ {Pick(s)}) <= m - 1
      BY <1>2, <2>3, <3>1, Smaller
    <3> QED
      BY <2>3, <3>1, <3>2, PickIn DEF Small
  <2>4. g \in [Small(T, m) -> Nat]
    <3> SUFFICES ASSUME NEW s \in Small(T, m), s # {} PROVE f[Pick(s)] + h[s \ {Pick(s)}] \in Nat
      OBVIOUS
    <3>1. f[Pick(s)] \in Nat /\ h[s \ {Pick(s)}] \in Nat
      BY <2>2, <2>3 DEF AddsUpTo
    <3> QED
      BY <3>1
  <2>5. ASSUME NEW s \in Small(T, m - 1) PROVE s \in Small(T, m) /\ g[s] = h[s]
    <3>1. s \in Small(T, m)
      <4>1. s \in SUBSET T /\ Cardinality(s) <= m - 1 /\ Cardinality(s) \in Nat
        BY FS_Subset, FS_CardinalityType DEF Small
      <4> QED
        BY <1>2, <4>1 DEF Small
    <3>2. g[s] = IF s = {} THEN 0 ELSE f[Pick(s)] + h[s \ {Pick(s)}]
      BY <3>1
    <3> QED
      BY <2>2, <3>1, <3>2 DEF AddsUpTo
  <2>6. ASSUME NEW s \in Small(T, m)
        PROVE  g[s] = IF s = {} THEN 0 ELSE f[Pick(s)] + g[s \ {Pick(s)}]
    <3>1. CASE s = {}
      BY <3>1
    <3>2. CASE s # {}
      <4>1. g[s \ {Pick(s)}] = h[s \ {Pick(s)}]
        BY <2>3, <2>5, <3>2
      <4>2. g[s] = f[Pick(s)] + h[s \ {Pick(s)}]
        BY <3>2
      <4> HIDE DEF g
      <4> QED
        BY <3>2, <4>1, <4>2
    <3> QED
      BY <3>1, <3>2
  <2> HIDE DEF g
  <2>7. AddsUpTo(f, T, m, g)
    BY <2>4, <2>6 DEF AddsUpTo
  <2> QED
    BY <1>2, <2>7
<1> QED
  BY <1>3, <1>4

\* ... and so on all subsets of a finite set.
LEMMA AddsExists ==
    ASSUME NEW T, IsFiniteSet(T), NEW f, \A x \in T : f[x] \in Nat
    PROVE  \E g : Adds(f, T, g) /\ g \in [SUBSET T -> Nat]
<1>1. Cardinality(T) \in Nat
  BY FS_CardinalityType
<1>2. Small(T, Cardinality(T)) = SUBSET T
  BY FS_Subset DEF Small
<1>3. PICK g : AddsUpTo(f, T, Cardinality(T), g)
  BY <1>1, AddsUpToExists
<1>4. /\ g \in [SUBSET T -> Nat]
      /\ \A s \in SUBSET T : g[s] = IF s = {} THEN 0 ELSE f[Pick(s)] + g[s \ {Pick(s)}]
  BY <1>2, <1>3 DEF AddsUpTo
<1>5. Adds(f, T, g)
  BY <1>4 DEF Adds
<1> QED
  BY <1>4, <1>5

\* A sum satisfies its recursive equation.
LEMMA AddsChosen ==
    ASSUME NEW T, IsFiniteSet(T), NEW f, \A x \in T : f[x] \in Nat
    PROVE  \E g : Adds(f, T, g) /\ SumFunctionOnSet(f, T) = g[T]
<1>1. Adds(f, T, CHOOSE g : Adds(f, T, g))
  BY AddsExists
<1> QED
  BY <1>1, SumIsFold

\* Functions that add up over different sets, of summands that agree, agree on what is in both.
LEMMA AddsAgree ==
    ASSUME NEW T, IsFiniteSet(T), NEW f, NEW g, Adds(f, T, g),
           NEW U, NEW h, NEW k, Adds(h, U, k),
           NEW s \in SUBSET T, s \subseteq U, \A x \in s : f[x] = h[x]
    PROVE  g[s] = k[s]
<1> DEFINE Bad == {r \in SUBSET s : g[r] # k[r]}
<1> SUFFICES ASSUME Bad # {} PROVE FALSE
  OBVIOUS
<1>1. \A r \in Bad : IsFiniteSet(r)
  BY FS_Subset
<1>2. PICK r \in Bad : \A q \in Bad : Cardinality(r) <= Cardinality(q)
  BY <1>1, Fewest
<1>3. r \in SUBSET s /\ r \in SUBSET T /\ r \in SUBSET U /\ g[r] # k[r]
  OBVIOUS
<1>4. /\ g[r] = IF r = {} THEN 0 ELSE f[Pick(r)] + g[r \ {Pick(r)}]
      /\ k[r] = IF r = {} THEN 0 ELSE h[Pick(r)] + k[r \ {Pick(r)}]
  BY <1>3 DEF Adds
<1>5. r # {}
  BY <1>3, <1>4
<1>6. r \ {Pick(r)} \in SUBSET s /\ ~ (Cardinality(r) <= Cardinality(r \ {Pick(r)}))
  BY <1>3, <1>5, Smaller
<1>7. g[r \ {Pick(r)}] = k[r \ {Pick(r)}]
  BY <1>2, <1>6
<1>8. f[Pick(r)] = h[Pick(r)]
  BY <1>3, <1>5, PickIn
<1> HIDE DEF Bad
<1> QED
  BY <1>3, <1>4, <1>5, <1>7, <1>8

\* The sum of nothing.
LEMMA SumEmpty ==
    ASSUME NEW f
    PROVE  SumFunctionOnSet(f, {}) = 0
<1>1. PICK g : Adds(f, {}, g) /\ SumFunctionOnSet(f, {}) = g[{}]
  BY FS_EmptySet, AddsChosen
<1> QED
  BY <1>1 DEF Adds

\* Sums of the same summands are the same.
LEMMA SumSame ==
    ASSUME NEW T, IsFiniteSet(T), NEW f, NEW h, \A x \in T : f[x] \in Nat /\ f[x] = h[x]
    PROVE  SumFunctionOnSet(f, T) = SumFunctionOnSet(h, T)
<1>1. PICK g : Adds(f, T, g) /\ SumFunctionOnSet(f, T) = g[T]
  BY AddsChosen
<1>2. PICK k : Adds(h, T, k) /\ SumFunctionOnSet(h, T) = k[T]
  BY AddsChosen
<1>3. g[T] = k[T]
  BY <1>1, <1>2, AddsAgree
<1> QED
  BY <1>1, <1>2, <1>3

\* The picked element comes first.
LEMMA SumPicked ==
    ASSUME NEW T, IsFiniteSet(T), T # {}, NEW f, \A x \in T : f[x] \in Nat
    PROVE  SumFunctionOnSet(f, T) = f[Pick(T)] + SumFunctionOnSet(f, T \ {Pick(T)})
<1> DEFINE U == T \ {Pick(T)}
<1>1. PICK g : Adds(f, T, g) /\ SumFunctionOnSet(f, T) = g[T]
  BY AddsChosen
<1>2. IsFiniteSet(U) /\ U \in SUBSET T
  BY Smaller
<1>3. PICK k : Adds(f, U, k) /\ SumFunctionOnSet(f, U) = k[U]
  BY <1>2, AddsChosen
<1>4. g[U] = k[U]
  BY <1>1, <1>2, <1>3, AddsAgree
<1>5. g[T] = f[Pick(T)] + g[U]
  BY <1>1 DEF Adds
<1> QED
  BY <1>1, <1>3, <1>4, <1>5

\* A sum of naturals is a natural.
LEMMA SumNat ==
    ASSUME NEW T, IsFiniteSet(T), NEW f, \A x \in T : f[x] \in Nat
    PROVE  SumFunctionOnSet(f, T) \in Nat
<1> DEFINE Bad == {s \in SUBSET T : SumFunctionOnSet(f, s) \notin Nat}
<1> SUFFICES ASSUME Bad # {} PROVE FALSE
  OBVIOUS
<1>1. \A r \in Bad : IsFiniteSet(r)
  BY FS_Subset
<1>2. PICK r \in Bad : \A q \in Bad : Cardinality(r) <= Cardinality(q)
  BY <1>1, Fewest
<1>3. r \in SUBSET T /\ IsFiniteSet(r) /\ SumFunctionOnSet(f, r) \notin Nat
  BY <1>1
<1>4. r # {}
  BY <1>3, SumEmpty
<1>5. r \ {Pick(r)} \in SUBSET T /\ ~ (Cardinality(r) <= Cardinality(r \ {Pick(r)}))
  BY <1>3, <1>4, Smaller
<1>6. SumFunctionOnSet(f, r \ {Pick(r)}) \in Nat
  BY <1>2, <1>5
<1>7. SumFunctionOnSet(f, r) = f[Pick(r)] + SumFunctionOnSet(f, r \ {Pick(r)})
  BY <1>3, <1>4, SumPicked
<1>8. f[Pick(r)] \in Nat
  BY <1>3, <1>4, PickIn
<1> HIDE DEF Bad
<1> QED
  BY <1>3, <1>6, <1>7, <1>8

\* The order does not matter: any element may come first.
THEOREM SumTakes ==
    ASSUME NEW T, IsFiniteSet(T), NEW f, \A y \in T : f[y] \in Nat, NEW x \in T
    PROVE  SumFunctionOnSet(f, T) = f[x] + SumFunctionOnSet(f, T \ {x})
<1> DEFINE Ok(s) == \A y \in s : SumFunctionOnSet(f, s) = f[y] + SumFunctionOnSet(f, s \ {y})
           Bad == {s \in SUBSET T : ~ Ok(s)}
<1> SUFFICES ASSUME Bad # {} PROVE FALSE
  OBVIOUS
<1>1. \A r \in Bad : IsFiniteSet(r)
  BY FS_Subset
<1>2. PICK r \in Bad : \A q \in Bad : Cardinality(r) <= Cardinality(q)
  BY <1>1, Fewest
<1>3. r \in SUBSET T /\ IsFiniteSet(r)
  BY <1>1
<1>4. PICK y \in r : SumFunctionOnSet(f, r) # f[y] + SumFunctionOnSet(f, r \ {y})
  BY <1>2
<1> DEFINE p == Pick(r)
           rest == r \ {p, y}
<1>5. p \in r /\ SumFunctionOnSet(f, r) = f[p] + SumFunctionOnSet(f, r \ {p})
  BY <1>3, <1>4, PickIn, SumPicked
<1>6. p # y
  BY <1>4, <1>5
<1>7. \A q \in {p, y} : r \ {q} \in SUBSET T /\ Ok(r \ {q})
  <2> SUFFICES ASSUME NEW q \in r PROVE r \ {q} \in SUBSET T /\ Ok(r \ {q})
    BY <1>4, <1>5
  <2>1. Cardinality(r) \in Nat /\ Cardinality(r \ {q}) = Cardinality(r) - 1
    BY <1>3, FS_RemoveElement, FS_CardinalityType
  <2>2. ~ (Cardinality(r) <= Cardinality(r \ {q}))
    BY <2>1
  <2>3. r \ {q} \notin Bad
    BY <1>2, <2>2
  <2> QED
    BY <1>3, <2>3
<1>8. SumFunctionOnSet(f, r \ {p}) = f[y] + SumFunctionOnSet(f, rest)
  <2>1. y \in r \ {p} /\ (r \ {p}) \ {y} = rest
    BY <1>4, <1>6
  <2> QED
    BY <1>7, <2>1
<1>9. SumFunctionOnSet(f, r \ {y}) = f[p] + SumFunctionOnSet(f, rest)
  <2>1. p \in r \ {y} /\ (r \ {y}) \ {p} = rest
    BY <1>5, <1>6
  <2> QED
    BY <1>7, <2>1
<1>10. SumFunctionOnSet(f, rest) \in Nat
  BY <1>3, SumNat, FS_Subset
<1>11. f[p] \in Nat /\ f[y] \in Nat
  BY <1>3, <1>4, <1>5
<1> HIDE DEF p, rest, Bad, Ok
<1> QED
  BY <1>4, <1>5, <1>8, <1>9, <1>10, <1>11

\* One summand changes: so does the sum.
LEMMA SumUpdate ==
    ASSUME NEW T, IsFiniteSet(T), NEW f, NEW h, NEW x \in T,
           \A y \in T : f[y] \in Nat /\ h[y] \in Nat, \A y \in T \ {x} : h[y] = f[y]
    PROVE  SumFunctionOnSet(h, T) + f[x] = SumFunctionOnSet(f, T) + h[x]
<1>1. IsFiniteSet(T \ {x})
  BY FS_RemoveElement
<1>2. /\ SumFunctionOnSet(f, T) = f[x] + SumFunctionOnSet(f, T \ {x})
      /\ SumFunctionOnSet(h, T) = h[x] + SumFunctionOnSet(h, T \ {x})
  BY SumTakes
<1>3. SumFunctionOnSet(h, T \ {x}) = SumFunctionOnSet(f, T \ {x})
  BY <1>1, SumSame
<1>4. SumFunctionOnSet(f, T \ {x}) \in Nat
  BY <1>1, SumNat
<1> QED
  BY <1>2, <1>3, <1>4

\* The sum of zeros.
LEMMA SumZero ==
    ASSUME NEW T, IsFiniteSet(T), NEW f, \A y \in T : f[y] = 0
    PROVE  SumFunctionOnSet(f, T) = 0
<1> DEFINE Bad == {s \in SUBSET T : SumFunctionOnSet(f, s) # 0}
<1> SUFFICES ASSUME Bad # {} PROVE FALSE
  OBVIOUS
<1>1. \A r \in Bad : IsFiniteSet(r)
  BY FS_Subset
<1>2. PICK r \in Bad : \A q \in Bad : Cardinality(r) <= Cardinality(q)
  BY <1>1, Fewest
<1>3. r \in SUBSET T /\ IsFiniteSet(r) /\ SumFunctionOnSet(f, r) # 0
  BY <1>1
<1>4. r # {}
  BY <1>3, SumEmpty
<1>5. r \ {Pick(r)} \in SUBSET T /\ ~ (Cardinality(r) <= Cardinality(r \ {Pick(r)}))
  BY <1>3, <1>4, Smaller
<1>6. SumFunctionOnSet(f, r \ {Pick(r)}) = 0
  BY <1>2, <1>5
<1>7. SumFunctionOnSet(f, r) = f[Pick(r)] + SumFunctionOnSet(f, r \ {Pick(r)})
  BY <1>3, <1>4, SumPicked
<1>8. f[Pick(r)] = 0
  BY <1>3, <1>4, PickIn
<1> HIDE DEF Bad
<1> QED
  BY <1>3, <1>6, <1>7, <1>8

\* One summand is not more than all.
LEMMA SumCovers ==
    ASSUME NEW T, IsFiniteSet(T), NEW f, \A y \in T : f[y] \in Nat, NEW x \in T
    PROVE  f[x] <= SumFunctionOnSet(f, T)
<1>1. IsFiniteSet(T \ {x})
  BY FS_RemoveElement
<1>2. SumFunctionOnSet(f, T) = f[x] + SumFunctionOnSet(f, T \ {x})
  BY SumTakes
<1>3. SumFunctionOnSet(f, T \ {x}) \in Nat
  BY <1>1, SumNat
<1> QED
  BY <1>2, <1>3
=============================================================================
