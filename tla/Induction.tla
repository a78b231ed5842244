------------------------------ MODULE Induction ------------------------------
(***************************************************************************)
(* Induction for the proofs about recursive functions, folds and           *)
(* selections of any size.  It is stated for a set of numbers, which the   *)
(* provers can instantiate, instead of for a predicate; likewise the step  *)
(* of a fold is a function here and not an operator.                       *)
(***************************************************************************)
EXTENDS Integers, FiniteSetTheorems, WellFoundedInduction, TLAPS

(* Course-of-values induction over the naturals: a set that holds n        *)
(* whenever it holds everything below n holds every natural number.        *)
LEMMA SetInduction ==
  ASSUME NEW T \in SUBSET Nat,
         \A n \in Nat : (\A m \in Nat : m < n => m \in T) => n \in T
  PROVE  T = Nat
<1> SUFFICES ASSUME Nat \ T # {} PROVE FALSE
  OBVIOUS
<1>1. PICK x \in Nat \ T : \A y \in Nat \ T : ~(<<y, x>> \in OpToRel(<, Nat))
  <2>1. Nat \ T \subseteq Nat
    OBVIOUS
  <2> QED BY <2>1, NatLessThanWellFounded, WFMin
<1>2. \A y \in Nat : y < x => <<y, x>> \in OpToRel(<, Nat)
  <2> SUFFICES ASSUME NEW y \in Nat, y < x PROVE <<y, x>> \in OpToRel(<, Nat)
    OBVIOUS
  <2>1. <<y, x>> \in Nat \X Nat /\ <<y, x>>[1] < <<y, x>>[2]
    OBVIOUS
  <2> QED BY <2>1 DEF OpToRel
<1> QED BY <1>1, <1>2

(* A finite set has an element of greatest value. *)
LEMMA GreatestExists ==
  ASSUME NEW D, IsFiniteSet(D), D # {}, NEW f, \A x \in D : f[x] \in Int
  PROVE  \E m \in D : \A x \in D : f[m] >= f[x]
<1> DEFINE Max(E) == \E m \in E : \A x \in E : f[m] >= f[x]
           T == {n \in Nat : \A E \in SUBSET D :
                   (E # {} /\ Cardinality(E) = n) => Max(E)}
<1>1. ASSUME NEW n \in Nat, \A k \in Nat : k < n => k \in T
      PROVE  n \in T
  <2> SUFFICES ASSUME NEW E \in SUBSET D, E # {}, Cardinality(E) = n
               PROVE  Max(E)
    OBVIOUS
  <2>1. PICK a \in E : TRUE
    OBVIOUS
  <2> DEFINE F == E \ {a}
  <2>2. IsFiniteSet(E)
    BY FS_Subset
  <2>3. IsFiniteSet(F) /\ Cardinality(F) = n - 1 /\ Cardinality(F) \in Nat
    BY <2>1, <2>2, FS_RemoveElement, FS_CardinalityType
  <2>4. CASE F = {}
    <3>1. E = {a}
      BY <2>4
    <3> QED BY <3>1
  <2>5. CASE F # {}
    <3>1. n - 1 \in Nat /\ n - 1 < n
      BY <2>3
    <3>2. n - 1 \in T
      BY <1>1, <3>1
    <3>3. F \in SUBSET D
      OBVIOUS
    <3>4. PICK b \in F : \A x \in F : f[b] >= f[x]
      BY <2>3, <2>5, <3>2, <3>3
    <3>5. f[a] \in Int /\ f[b] \in Int /\ \A x \in E : f[x] \in Int
      OBVIOUS
    <3>6. CASE f[a] >= f[b]
      <4>1. \A x \in E : f[a] >= f[x]
        BY <3>4, <3>5, <3>6
      <4> QED BY <4>1
    <3>7. CASE ~(f[a] >= f[b])
      <4>1. \A x \in E : f[b] >= f[x]
        BY <3>4, <3>5, <3>7
      <4> QED BY <4>1
    <3> QED BY <3>6, <3>7
  <2> QED BY <2>4, <2>5
<1> HIDE DEF T
<1>2. T = Nat
  <2>1. T \in SUBSET Nat
    BY DEF T
  <2> QED BY <1>1, <2>1, SetInduction
<1>3. Cardinality(D) \in T /\ D \in SUBSET D
  BY <1>2, FS_CardinalityType
<1> QED BY <1>3 DEF T

-----------------------------------------------------------------------------
(* Folds.                                                                   *)

(* pick takes a member of every set that has one. *)
Selects(pick, S) == \A s \in SUBSET S : s # {} => pick[s] \in s

(* h folds F over the subsets of S, taking the members that pick picks. *)
IsFold(h, S, base, pick, F) ==
  \A s \in SUBSET S :
    h[s] = IF s = {} THEN base ELSE F[<<h[s \ {pick[s]}], pick[s]>>]

(* Induction over the subsets of a finite set in the order of a fold. *)
LEMMA FoldInduction ==
  ASSUME NEW S, IsFiniteSet(S), NEW pick, Selects(pick, S),
         NEW P \in SUBSET (SUBSET S), {} \in P,
         \A s \in SUBSET S : s # {} /\ s \ {pick[s]} \in P => s \in P
  PROVE  S \in P
<1> DEFINE T == {n \in Nat : \A s \in SUBSET S : Cardinality(s) = n => s \in P}
<1>1. ASSUME NEW n \in Nat, \A k \in Nat : k < n => k \in T
      PROVE  n \in T
  <2> SUFFICES ASSUME NEW s \in SUBSET S, Cardinality(s) = n
               PROVE  s \in P
    OBVIOUS
  <2>1. CASE s = {}
    BY <2>1
  <2>2. CASE s # {}
    <3>1. pick[s] \in s
      BY <2>2 DEF Selects
    <3> DEFINE r == s \ {pick[s]}
    <3>2. IsFiniteSet(s)
      BY FS_Subset
    <3>3. IsFiniteSet(r) /\ Cardinality(r) = n - 1 /\ Cardinality(r) \in Nat
      BY <3>1, <3>2, FS_RemoveElement, FS_CardinalityType
    <3>4. n - 1 \in T
      BY <1>1, <3>3
    <3>5. r \in P
      BY <3>3, <3>4
    <3> QED BY <2>2, <3>5
  <2> QED BY <2>1, <2>2
<1> HIDE DEF T
<1>2. T = Nat
  <2>1. T \in SUBSET Nat
    BY DEF T
  <2> QED BY <1>1, <2>1, SetInduction
<1>3. Cardinality(S) \in T /\ S \in SUBSET S
  BY <1>2, FS_CardinalityType
<1> QED BY <1>3 DEF T

(* The function a fold is defined by exists: it takes the subsets of S to  *)
(* C if the step F keeps C.                                                *)
LEMMA FoldExists ==
  ASSUME NEW S, IsFiniteSet(S), NEW C, NEW base \in C,
         NEW pick, Selects(pick, S), NEW F \in [C \X S -> C]
  PROVE  \E h \in [SUBSET S -> C] : IsFold(h, S, base, pick, F)
<1> DEFINE Sub(n) == {s \in SUBSET S : Cardinality(s) <= n}
           Step(h, s) == IF s = {} THEN base
                         ELSE F[<<h[s \ {pick[s]}], pick[s]>>]
           T == {n \in Nat : \E h \in [Sub(n) -> C] :
                               \A s \in Sub(n) : h[s] = Step(h, s)}
<1>0. ASSUME NEW s \in SUBSET S
      PROVE  /\ Cardinality(s) \in Nat
             /\ Cardinality(s) = 0 <=> s = {}
             /\ s # {} => /\ s \ {pick[s]} \in SUBSET S
                          /\ Cardinality(s \ {pick[s]}) = Cardinality(s) - 1
  <2>1. IsFiniteSet(s)
    BY FS_Subset
  <2> QED BY <2>1, FS_CardinalityType, FS_EmptySet, FS_RemoveElement
          DEF Selects
<1>1. ASSUME NEW n \in Nat, \A k \in Nat : k < n => k \in T
      PROVE  n \in T
  <2>1. CASE n = 0
    <3> DEFINE h == [s \in Sub(n) |-> base]
    <3>1. ASSUME NEW s \in Sub(n) PROVE s = {}
      <4>1. s \in SUBSET S /\ Cardinality(s) <= 0
        BY <2>1
      <4>2. Cardinality(s) \in Nat /\ (Cardinality(s) = 0 <=> s = {})
        BY <1>0, <4>1
      <4>3. Cardinality(s) = 0
        BY <4>1, <4>2
      <4> QED BY <4>2, <4>3
    <3>2. h \in [Sub(n) -> C] /\ \A s \in Sub(n) : h[s] = Step(h, s)
      BY <3>1
    <3> HIDE DEF h
    <3> QED BY <3>2
  <2>2. CASE n # 0
    <3> HIDE DEF T
    <3>0. n - 1 \in Nat /\ n - 1 < n
      BY <2>2
    <3>1. n - 1 \in T
      BY <1>1, <3>0
    <3> USE DEF T
    <3>2. PICK g \in [Sub(n - 1) -> C] :
            \A s \in Sub(n - 1) : g[s] = Step(g, s)
      BY <3>1
    <3> DEFINE h == [s \in Sub(n) |-> IF s \in Sub(n - 1) THEN g[s]
                                      ELSE Step(g, s)]
    <3>3. ASSUME NEW s \in Sub(n), s # {}
          PROVE  s \ {pick[s]} \in Sub(n - 1)
      BY <1>0, <3>0, <3>3
    <3>4. ASSUME NEW s \in Sub(n - 1) PROVE s \in Sub(n)
      <4>1. Cardinality(s) \in Nat /\ Cardinality(s) <= n - 1
        BY <1>0
      <4>2. Cardinality(s) <= n
        BY <3>0, <4>1
      <4> QED BY <4>2
    <3>5. ASSUME NEW s \in Sub(n) PROVE Step(g, s) \in C
      BY <3>3, <3>5 DEF Selects
    <3>6. h \in [Sub(n) -> C]
      BY <3>5
    <3>7. \A s \in Sub(n) : h[s] = Step(g, s)
      BY <3>2
    <3>8. \A s \in Sub(n - 1) : h[s] = g[s]
      BY <3>4
    <3> HIDE DEF h
    <3>9. ASSUME NEW s \in Sub(n) PROVE h[s] = Step(h, s)
      <4>1. s # {} => h[s \ {pick[s]}] = g[s \ {pick[s]}]
        BY <3>3, <3>8
      <4> QED BY <3>7, <4>1
    <3> QED BY <3>6, <3>9
  <2> QED BY <2>1, <2>2
<1> HIDE DEF T
<1>2. T = Nat
  <2>1. T \in SUBSET Nat
    BY DEF T
  <2> QED BY <1>1, <2>1, SetInduction
<1> DEFINE m == Cardinality(S)
<1>3. Sub(m) = SUBSET S /\ m \in Nat
  <2>1. ASSUME NEW s \in SUBSET S PROVE Cardinality(s) <= m
    BY FS_Subset
  <2> QED BY <2>1, FS_CardinalityType
<1> HIDE DEF m, Sub
<1>4. PICK h \in [Sub(m) -> C] : \A s \in Sub(m) : h[s] = Step(h, s)
  BY <1>2, <1>3 DEF T
<1> QED BY <1>3, <1>4 DEF IsFold

(* h sums f over the subsets of S, taking the members that pick picks, or  *)
(* in any order.                                                           *)
IsSum(h, S, pick, f) ==
  \A s \in SUBSET S : s # {} => h[s] = f[pick[s]] + h[s \ {pick[s]}]
IsSumAnyOrder(h, S, f) ==
  \A s \in SUBSET S : \A x \in s : h[s] = f[x] + h[s \ {x}]

(* A sum may take its terms in any order. *)
LEMMA SumAnyOrder ==
  ASSUME NEW S, IsFiniteSet(S), NEW pick, Selects(pick, S),
         NEW f \in [S -> Nat], NEW h \in [SUBSET S -> Nat],
         IsSum(h, S, pick, f)
  PROVE  IsSumAnyOrder(h, S, f)
<1> DEFINE T == {n \in Nat : \A s \in SUBSET S : Cardinality(s) = n =>
                               \A x \in s : h[s] = f[x] + h[s \ {x}]}
<1>1. ASSUME NEW n \in Nat, \A k \in Nat : k < n => k \in T
      PROVE  n \in T
  <2> SUFFICES ASSUME NEW s \in SUBSET S, Cardinality(s) = n, NEW x \in s
               PROVE  h[s] = f[x] + h[s \ {x}]
    OBVIOUS
  <2> DEFINE y == pick[s]
  <2>1. y \in s /\ h[s] = f[y] + h[s \ {y}]
    BY DEF Selects, IsSum
  <2>2. CASE x = y
    BY <2>1, <2>2
  <2>3. CASE x # y
    <3> HIDE DEF T, y
    <3> DEFINE r == s \ {x, y}
    <3>1. IsFiniteSet(s)
      BY FS_Subset
    <3>2. ASSUME NEW z \in s
          PROVE  /\ s \ {z} \in SUBSET S /\ Cardinality(s \ {z}) = n - 1
                 /\ n - 1 \in Nat /\ n - 1 \in T
      <4>1. IsFiniteSet(s \ {z}) /\ Cardinality(s \ {z}) = n - 1
        BY <3>1, FS_RemoveElement
      <4>2. n - 1 \in Nat
        BY <4>1, FS_CardinalityType
      <4> QED BY <1>1, <4>1, <4>2
    <3>3. h[s \ {y}] = f[x] + h[r]
      <4>1. x \in s \ {y} /\ (s \ {y}) \ {x} = r
        BY <2>3
      <4>2. \A u \in SUBSET S : Cardinality(u) = n - 1 =>
              \A z \in u : h[u] = f[z] + h[u \ {z}]
        BY <2>1, <3>2 DEF T
      <4>3. s \ {y} \in SUBSET S /\ Cardinality(s \ {y}) = n - 1
        BY <2>1, <3>2
      <4>4. h[s \ {y}] = f[x] + h[(s \ {y}) \ {x}]
        BY <4>1, <4>2, <4>3
      <4> QED BY <4>1, <4>4
    <3>4. h[s \ {x}] = f[y] + h[r]
      <4>1. y \in s \ {x} /\ (s \ {x}) \ {y} = r
        BY <2>1, <2>3
      <4>2. \A u \in SUBSET S : Cardinality(u) = n - 1 =>
              \A z \in u : h[u] = f[z] + h[u \ {z}]
        BY <3>2 DEF T
      <4>3. s \ {x} \in SUBSET S /\ Cardinality(s \ {x}) = n - 1
        BY <3>2
      <4>4. h[s \ {x}] = f[y] + h[(s \ {x}) \ {y}]
        BY <4>1, <4>2, <4>3
      <4> QED BY <4>1, <4>4
    <3>5. f[x] \in Nat /\ f[y] \in Nat /\ h[r] \in Nat
      BY <2>1
    <3> QED BY <2>1, <3>3, <3>4, <3>5
  <2> QED BY <2>2, <2>3
<1> HIDE DEF T
<1>2. T = Nat
  <2>1. T \in SUBSET Nat
    BY DEF T
  <2> QED BY <1>1, <2>1, SetInduction
<1>3. ASSUME NEW s \in SUBSET S PROVE Cardinality(s) \in T
  BY <1>2, FS_Subset, FS_CardinalityType
<1> QED BY <1>3 DEF T, IsSumAnyOrder

(* A set of numbers from 1 on that has no gaps is an initial segment. *)
LEMMA InitialSegment ==
  ASSUME NEW n \in Nat, NEW J \in SUBSET (1..n),
         \A i, j \in 1..n : i < j /\ j \in J => i \in J
  PROVE  J = 1..Cardinality(J) /\ Cardinality(J) \in 0..n
<1>1. IsFiniteSet(1..n)
  BY FS_Interval
<1>2. IsFiniteSet(J)
  BY <1>1, FS_Subset
<1>3. CASE J = {}
  <2>1. Cardinality(J) = 0
    BY <1>3, FS_EmptySet
  <2> QED BY <1>3, <2>1
<1>4. CASE J # {}
  <2> DEFINE f == [x \in J |-> x]
  <2>1. \A x \in J : f[x] \in Int
    OBVIOUS
  <2> HIDE DEF f
  <2>2. PICK m \in J : \A x \in J : f[m] >= f[x]
    BY <1>2, <1>4, <2>1, GreatestExists
  <2>3. m \in 1..n /\ \A x \in J : m >= x
    BY <2>2 DEF f
  <2>4. J = 1..m
    <3>1. ASSUME NEW i \in 1..m PROVE i \in J
      <4>1. i \in 1..n /\ (i < m \/ i = m)
        BY <2>3
      <4> QED BY <2>3, <4>1
    <3>2. ASSUME NEW i \in J PROVE i \in 1..m
      <4>1. i \in 1..n /\ m >= i
        BY <2>3
      <4> QED BY <2>3, <4>1
    <3> QED BY <3>1, <3>2
  <2>5. Cardinality(J) = m
    <3>1. Cardinality(1..m) = IF 1 > m THEN 0 ELSE m - 1 + 1
      BY <2>3, FS_Interval
    <3> QED BY <2>3, <2>4, <3>1
  <2> QED BY <2>3, <2>4, <2>5
<1> QED BY <1>3, <1>4

-----------------------------------------------------------------------------
(* Iteration.                                                               *)

(* g starts with base and takes the step F from each number up to n to the *)
(* next.                                                                   *)
Iterates(g, n, base, F) ==
  g[0] = base /\ \A i \in 1..n : g[i] = F[<<g[i - 1], i>>]

(* A function defined step by step from 0 to n exists. *)
LEMMA IterateExists ==
  ASSUME NEW C, NEW n \in Nat, NEW base \in C, NEW F \in [C \X (1..n) -> C]
  PROVE  \E g \in [0..n -> C] : Iterates(g, n, base, F)
<1> USE DEF Iterates
<1> DEFINE Steps(g, k) == Iterates(g, k, base, F)
           T == {k \in Nat : k <= n => \E g \in [0..k -> C] : Steps(g, k)}
<1>1. ASSUME NEW k \in Nat, \A j \in Nat : j < k => j \in T
      PROVE  k \in T
  <2> SUFFICES ASSUME k <= n PROVE \E g \in [0..k -> C] : Steps(g, k)
    OBVIOUS
  <2>1. CASE k = 0
    <3> DEFINE g == [i \in 0..k |-> base]
    <3>1. g \in [0..k -> C] /\ Steps(g, k)
      BY <2>1
    <3> QED BY <3>1
  <2>2. CASE k # 0
    <3>1. k - 1 \in Nat /\ k - 1 < k /\ k - 1 <= n /\ k - 1 \in T
      BY <1>1, <2>2
    <3>2. PICK g \in [0..(k - 1) -> C] : Steps(g, k - 1)
      BY <3>1
    <3> DEFINE h == [i \in 0..k |-> IF i = k THEN F[<<g[k - 1], k>>]
                                    ELSE g[i]]
    <3>3. g[k - 1] \in C /\ k \in 1..n
      BY <2>2, <3>1
    <3>4. h \in [0..k -> C]
      BY <3>1, <3>3
    <3>5. h[0] = base
      BY <2>2, <3>2
    <3>6. ASSUME NEW i \in 1..k PROVE h[i] = F[<<h[i - 1], i>>]
      <4>1. h[i - 1] = g[i - 1]
        BY <3>1
      <4>2. CASE i = k
        <5>1. h[k] = F[<<g[k - 1], k>>]
          OBVIOUS
        <5> HIDE DEF h
        <5> QED BY <4>1, <4>2, <5>1
      <4>3. CASE i # k
        <5>1. i \in 1..(k - 1)
          BY <4>3
        <5>2. h[i] = g[i]
          BY <4>3
        <5> QED BY <3>2, <4>1, <5>1, <5>2
      <4> QED BY <4>2, <4>3
    <3> HIDE DEF h
    <3> QED BY <3>4, <3>5, <3>6
  <2> QED BY <2>1, <2>2
<1> HIDE DEF T
<1>2. T = Nat
  <2>1. T \in SUBSET Nat
    BY DEF T
  <2> QED BY <1>1, <2>1, SetInduction
<1>3. n \in T
  BY <1>2
<1> QED BY <1>3 DEF T

(* P holds a number up to n if it holds the one before. *)
Climbs(P, n) == \A i \in 1..n : i - 1 \in P => i \in P

(* Induction from 0 to n. *)
LEMMA UptoInduction ==
  ASSUME NEW n \in Nat, NEW P \in SUBSET Nat, 0 \in P, Climbs(P, n)
  PROVE  \A i \in 0..n : i \in P
<1> DEFINE T == {k \in Nat : k <= n => k \in P}
<1>1. ASSUME NEW k \in Nat, \A j \in Nat : j < k => j \in T
      PROVE  k \in T
  <2> SUFFICES ASSUME k <= n PROVE k \in P
    OBVIOUS
  <2>1. CASE k = 0
    BY <2>1
  <2>2. CASE k # 0
    <3>1. k - 1 \in Nat /\ k - 1 < k /\ k - 1 <= n /\ k \in 1..n
      BY <2>2
    <3>2. k - 1 \in T
      BY <1>1, <3>1
    <3> QED BY <3>1, <3>2 DEF Climbs
  <2> QED BY <2>1, <2>2
<1> HIDE DEF T
<1>2. T = Nat
  <2>1. T \in SUBSET Nat
    BY DEF T
  <2> QED BY <1>1, <2>1, SetInduction
<1>3. \A i \in 0..n : i \in Nat /\ i <= n
  OBVIOUS
<1> QED BY <1>2, <1>3 DEF T

=============================================================================
