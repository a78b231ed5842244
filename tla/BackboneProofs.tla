--------------------------- MODULE BackboneProofs ---------------------------
(***************************************************************************)
(* For any layers, groups, kernel sizes, prompts, chunk size and logits:   *)
(* the chunked forward of both backbones computes every position from      *)
(* exactly the positions before it, the loop draws from fresh logits, and  *)
(* with the hidden clip an overflow stays in one layer.                    *)
(***************************************************************************)
EXTENDS Backbone, Induction, SequenceTheorems, TLAPS

(* The first n positions, the keys of the first n positions, and the last  *)
(* m rows of n positions with zeros in front.                              *)
Upto(n) == [i \in 1..n |-> i - 1]
Keys(n) == [i \in 1..n |-> <<i - 1, i - 1>>]
Row(p) == IF p < 0 THEN Zero ELSE p
Window(n, m) == [j \in 1..m |-> Row(n - m - 1 + j)]

(* The positions layer l has taken while a request runs. *)
Taken(l) == IF phase = "head" \/ (phase = "forward" /\ l < li)
            THEN fed + fwd ELSE fed

(* Every layer's cache holds the first t[l] positions. *)
CachesHold(t) ==
  /\ kv = [l \in LayerIds |-> IF AttentionLayer(l) THEN Keys(t[l])
                              ELSE <<>>]
  /\ ssm = [l \in LayerIds |-> IF AttentionLayer(l) THEN <<>>
                               ELSE Upto(t[l])]
  /\ conv = [l \in LayerIds |->
       IF AttentionLayer(l) \/ t[l] = 0 THEN None
       ELSE [s \in Streams |-> Window(t[l], kernel - 1)]]

(* An aborted forward leaves some layers ahead of others. *)
CacheInv ==
  \E t \in [LayerIds -> Positions] :
    /\ CachesHold(t)
    /\ phase # "idle" => \A l \in LayerIds : t[l] = Taken(l)

ScalarInv ==
  /\ family \in Families /\ kernel \in Kernels /\ clip \in BOOLEAN
  /\ family = "qwen" => kernel > 1
  /\ req \in 0..Requests /\ gen \in GenConfigs
  /\ phase \in {"idle", "forward", "head", "sample"}
  /\ prompt \in Seq(Vocab)
  /\ prefilling \in BOOLEAN /\ fed \in Positions
  /\ fwd \in 0..PrefillChunk /\ li \in LayerIds /\ hidden \in {"ok", "nan"}
  /\ poisoned \in SUBSET LayerIds
  /\ lastLogits \in LogitsType \cup {None} /\ logits \in LogitsType \cup {None}
  /\ hist \in SUBSET Vocab /\ out \in 0..MaxNew
  /\ faulted \in BOOLEAN

(* What is still to be fed, against what the prompt and the tokens drawn   *)
(* so far allow.                                                            *)
LoopInv ==
  /\ phase \in {"forward", "head"} =>
       /\ fwd >= 1 /\ fed + fwd + Len(prompt) <= MaxPrompt + out
       /\ out > 0 => fwd = 1 /\ prompt = <<>>
  /\ phase = "sample" =>
       /\ prompt = <<>> /\ fed >= 1 /\ fed <= MaxPrompt + out
       /\ logits # None /\ logits.at = fed - 1

(* With the clip the hidden state is finite between layers, and a layer is *)
(* poisoned only by the overflow of the request.                           *)
FaultInv ==
  clip => /\ hidden = "ok" /\ (~faulted => poisoned = {})
          /\ lastLogits # None => lastLogits.vec # None

IInv == /\ ScalarInv /\ LoopInv /\ CacheInv /\ FaultInv /\ CausalContext
        /\ FiniteLogits

-----------------------------------------------------------------------------
(* Sequences of positions.                                                  *)

(* A chunk of m positions follows the first n. *)
LEMMA AppendKeys ==
  ASSUME NEW n \in Nat, NEW m \in Nat
  PROVE  Keys(n) \o [i \in 1..m |-> <<n + i - 1, n + i - 1>>] = Keys(n + m)
  BY DEF Keys

(* The first k of n keys. *)
LEMMA PrefixKeys ==
  ASSUME NEW n \in Nat, NEW k \in 0..n
  PROVE  SubSeq(Keys(n), 1, k) = Keys(k)
  BY DEF Keys

(* The first k positions of a chunk of m follow the first n. *)
LEMMA AppendUpto ==
  ASSUME NEW n \in Nat, NEW m \in Nat, NEW k \in 0..m
  PROVE  Upto(n) \o SubSeq([i \in 1..m |-> n + i - 1], 1, k) = Upto(n + k)
  BY DEF Upto

(* A convolution state and a chunk behind it are a longer window. *)
LEMMA AppendWindow ==
  ASSUME NEW n \in Nat, NEW r \in Nat, NEW m \in Nat
  PROVE  Window(n, r) \o [i \in 1..m |-> n + i - 1] = Window(n + m, r + m)
  BY DEF Window, Row

(* Before the first token the state is all zeros. *)
LEMMA EmptyWindow ==
  ASSUME NEW r \in Nat
  PROVE  [i \in 1..r |-> Zero] = Window(0, r)
  BY DEF Window, Row

(* Consecutive rows of a window are a window. *)
LEMMA SubWindow ==
  ASSUME NEW n \in Nat, NEW m \in Nat, NEW a \in 1..(m + 1), NEW b \in 0..m
  PROVE  SubSeq(Window(n, m), a, b) = Window(n - m + b, b - a + 1)
  BY DEF Window, Row

(* The window of a position ends with it. *)
LEMMA WindowAt ==
  ASSUME NEW p \in Nat, NEW k \in Nat
  PROVE  Window(p + 1, k) =
           [j \in 1..k |-> IF p - k + j < 0 THEN Zero ELSE p - k + j]
<1> DEFINE f == Window(p + 1, k)
           g == [j \in 1..k |-> IF p - k + j < 0 THEN Zero ELSE p - k + j]
<1>1. /\ f = [j \in DOMAIN f |-> f[j]] /\ DOMAIN f = 1..k
      /\ \A j \in 1..k : f[j] = Row(p + 1 - k - 1 + j)
  BY DEF Window
<1>2. /\ g = [j \in DOMAIN g |-> g[j]] /\ DOMAIN g = 1..k
      /\ \A j \in 1..k : g[j] = Row(p - k + j)
  BY DEF Row
<1>3. \A j \in 1..k : p + 1 - k - 1 + j = p - k + j
  OBVIOUS
<1>4. \A j \in 1..k : f[j] = g[j]
  BY <1>1, <1>2, <1>3
<1> HIDE DEF f, g
<1>5. f = g
  BY <1>1, <1>2, <1>4
<1> QED BY <1>5 DEF f, g

-----------------------------------------------------------------------------
(* What the loop can draw.                                                  *)

(* The tokens can be sorted by their logits. *)
LEMMA DescendingExists ==
  ASSUME NEW vec \in [Vocab -> Int]
  PROVE  /\ Descending(vec) \in [1..VocabSize -> Vocab]
         /\ \A i, j \in 1..VocabSize : i < j =>
              /\ Descending(vec)[i] # Descending(vec)[j]
              /\ vec[Descending(vec)[i]] >= vec[Descending(vec)[j]]
<1> DEFINE Image(f, n) == {f[j] : j \in 1..n}
           Sorted(f, n) == \A i, j \in 1..n :
             i < j => f[i] # f[j] /\ vec[f[i]] >= vec[f[j]]
           Best(f, n) == \A i \in 1..n, t \in Vocab \ Image(f, n) :
             vec[f[i]] >= vec[t]
           T == {n \in Nat : n <= VocabSize =>
                   \E f \in [1..n -> Vocab] : Sorted(f, n) /\ Best(f, n)}
<1>0. VocabSize \in Nat /\ IsFiniteSet(Vocab)
      /\ Cardinality(Vocab) = VocabSize
  BY VocabAssumption, FS_Interval DEF Vocab
<1>1. ASSUME NEW n \in Nat, \A k \in Nat : k < n => k \in T
      PROVE  n \in T
  <2> SUFFICES ASSUME n <= VocabSize
               PROVE  \E f \in [1..n -> Vocab] : Sorted(f, n) /\ Best(f, n)
    OBVIOUS
  <2>1. CASE n = 0
    <3> DEFINE f == [i \in 1..0 |-> 0]
    <3>1. f \in [1..n -> Vocab] /\ Sorted(f, n) /\ Best(f, n)
      BY <2>1
    <3> QED BY <3>1
  <2>2. CASE n # 0
    <3> DEFINE k == n - 1
    <3>1. k \in Nat /\ k < n /\ k <= VocabSize /\ k \in T
      BY <1>0, <1>1, <2>2
    <3>2. PICK f \in [1..k -> Vocab] : Sorted(f, k) /\ Best(f, k)
      BY <3>1
    <3> DEFINE R == Vocab \ Image(f, k)
    <3>3. IsFiniteSet(Image(f, k)) /\ Cardinality(Image(f, k)) <= k
          /\ Image(f, k) \subseteq Vocab
      <4>1. IsFiniteSet(1..k) /\ Cardinality(1..k) = k
        <5>1. 1 \in Int /\ k \in Int /\ k >= 0
          BY <3>1
        <5> HIDE DEF k
        <5>2. IsFiniteSet(1..k)
              /\ Cardinality(1..k) = IF 1 > k THEN 0 ELSE k - 1 + 1
          BY <5>1, FS_Interval
        <5> QED BY <5>1, <5>2
      <4>2. Image(f, k) \subseteq Vocab
        OBVIOUS
      <4>3. Image(f, k) = {f[x] : x \in 1..k}
        OBVIOUS
      <4>4. IsFiniteSet(Image(f, k)) /\ Cardinality(Image(f, k)) <= k
        <5>1. IsFiniteSet(Image(f, k))
          BY <1>0, <4>2, FS_Subset
        <5>2. f \in Surjection(1..k, Image(f, k))
          BY DEF Surjection
        <5> QED BY <4>1, <5>1, <5>2, FS_Surjection
      <4> QED BY <4>2, <4>4
    <3>4. R # {} /\ IsFiniteSet(R)
      <4>1. IsFiniteSet(R)
        BY <1>0, FS_Difference
      <4>2. ASSUME R = {} PROVE FALSE
        <5>1. Vocab = Image(f, k)
          BY <3>3, <4>2
        <5> HIDE DEF Image
        <5> QED BY <1>0, <3>1, <3>3, <5>1
      <4> QED BY <4>1, <4>2
    <3>5. PICK m \in R : \A x \in R : vec[m] >= vec[x]
      <4>1. \A x \in R : vec[x] \in Int
        OBVIOUS
      <4> HIDE DEF R
      <4> QED BY <3>4, <4>1, GreatestExists
    <3> DEFINE g == [i \in 1..n |-> IF i < n THEN f[i] ELSE m]
    <3>6. g \in [1..n -> Vocab] /\ g[n] = m /\ \A i \in 1..k : g[i] = f[i]
      BY <2>2, <3>2, <3>5
    <3>7. \A i \in 1..n : i = n \/ i \in 1..k
      OBVIOUS
    <3> HIDE DEF g
    <3>8. Image(g, n) = Image(f, k) \cup {m}
      BY <2>2, <3>6, <3>7
    <3>9. \A i \in 1..k : m # f[i] /\ vec[f[i]] >= vec[m]
      BY <3>2, <3>5
    <3>10. Sorted(g, n)
      <4> SUFFICES ASSUME NEW i \in 1..n, NEW j \in 1..n, i < j
                   PROVE  g[i] # g[j] /\ vec[g[i]] >= vec[g[j]]
        OBVIOUS
      <4>1. i \in 1..k
        BY <3>1
      <4>2. CASE j = n
        BY <3>6, <3>9, <4>1, <4>2
      <4>3. CASE j \in 1..k
        BY <3>2, <3>6, <4>1, <4>3
      <4> QED BY <3>7, <4>2, <4>3
    <3>11. Best(g, n)
      <4> SUFFICES ASSUME NEW i \in 1..n, NEW t \in Vocab, t \notin Image(g, n)
                   PROVE  vec[g[i]] >= vec[t]
        OBVIOUS
      <4>1. t \notin Image(f, k) /\ t \in R
        BY <3>8
      <4>2. CASE i = n
        BY <3>5, <3>6, <4>1, <4>2
      <4>3. CASE i \in 1..k
        BY <3>2, <3>6, <4>1, <4>3
      <4> QED BY <3>7, <4>2, <4>3
    <3> QED BY <3>6, <3>10, <3>11
  <2> QED BY <2>1, <2>2
<1> HIDE DEF T
<1>2. T = Nat
  <2>1. T \in SUBSET Nat
    BY DEF T
  <2> QED BY <1>1, <2>1, SetInduction
<1>3. PICK f \in [1..VocabSize -> Vocab] : Sorted(f, VocabSize)
  BY <1>0, <1>2 DEF T
<1> QED BY <1>3 DEF Descending

(* The tokens with a greater logit than t. *)
Beat(vec, t) == {u \in Vocab : vec[u] > vec[t]}

(* The best n tokens of the order. *)
First(vec, n) == {Descending(vec)[j] : j \in 1..n}

(* The vocabulary is finite, and so is every set of tokens. *)
LEMMA VocabFinite ==
  /\ VocabSize \in Nat /\ VocabSize >= 1 /\ IsFiniteSet(Vocab)
  /\ Cardinality(Vocab) = VocabSize
BY VocabAssumption, FS_Interval DEF Vocab

(* The order lists every token once. *)
LEMMA DescendingLists ==
  ASSUME NEW vec \in [Vocab -> Int]
  PROVE  /\ \A i, j \in 1..VocabSize :
              Descending(vec)[i] = Descending(vec)[j] => i = j
         /\ \A t \in Vocab : \E i \in 1..VocabSize : Descending(vec)[i] = t
<1> DEFINE d == Descending(vec)
           n == VocabSize
<1>1. d \in [1..n -> Vocab] /\ \A i, j \in 1..n : i < j => d[i] # d[j]
  BY DescendingExists
<1>2. n \in Nat /\ IsFiniteSet(Vocab) /\ Cardinality(Vocab) = n
  BY VocabFinite
<1> HIDE DEF d, n
<1>3. \A i, j \in 1..n : d[i] = d[j] => i = j
  BY <1>1, <1>2
<1>4. d \in Injection(1..n, Vocab)
  BY <1>1, <1>3 DEF Injection, IsInjective
<1>5. Cardinality(1..n) = n
  BY <1>2, FS_Interval
<1>6. d \in Surjection(1..n, Vocab)
  BY <1>2, <1>4, <1>5, FS_Injection
<1> QED BY <1>3, <1>6 DEF Surjection, d, n

(* The tokens that beat t come first in the order, and the next token has  *)
(* the logit of t.                                                         *)
LEMMA Ranks ==
  ASSUME NEW vec \in [Vocab -> Int], NEW t \in Vocab
  PROVE  /\ Cardinality(Beat(vec, t)) \in 0..(VocabSize - 1)
         /\ Beat(vec, t) = First(vec, Cardinality(Beat(vec, t)))
         /\ vec[Descending(vec)[Cardinality(Beat(vec, t)) + 1]] = vec[t]
         /\ \A k \in 1..VocabSize : vec[Descending(vec)[k]] > vec[t] <=>
                                      k <= Cardinality(Beat(vec, t))
<1> DEFINE d == Descending(vec)
           n == VocabSize
           J == {j \in 1..n : vec[d[j]] > vec[t]}
           B == Beat(vec, t)
           b == Cardinality(J)
<1>1. /\ d \in [1..n -> Vocab]
      /\ \A i, j \in 1..n : i < j => vec[d[i]] >= vec[d[j]]
  BY DescendingExists
<1>2. /\ \A i, j \in 1..n : d[i] = d[j] => i = j
      /\ \A u \in Vocab : \E i \in 1..n : d[i] = u
  BY DescendingLists
<1>3. n \in Nat /\ n >= 1 /\ IsFiniteSet(Vocab) /\ Cardinality(Vocab) = n
  BY VocabFinite
<1> HIDE DEF d, n
<1>4. \A j \in 1..n : d[j] \in Vocab /\ vec[d[j]] \in Int
  BY <1>1
<1>5. vec[t] \in Int
  OBVIOUS
<1>6. J = 1..b /\ b \in 0..n
  <2>1. J \in SUBSET (1..n)
    OBVIOUS
  <2>2. ASSUME NEW i \in 1..n, NEW j \in 1..n, i < j, j \in J
        PROVE  i \in J
    BY <1>1, <1>4, <1>5, <2>2
  <2> HIDE DEF J
  <2> QED BY <1>3, <2>1, <2>2, InitialSegment
<1>7. B = {d[j] : j \in J}
  <2>1. ASSUME NEW u \in B PROVE u \in {d[j] : j \in J}
    <3>1. u \in Vocab /\ vec[u] > vec[t]
      BY DEF Beat
    <3>2. PICK j \in 1..n : d[j] = u
      BY <1>2, <3>1
    <3> QED BY <3>1, <3>2
  <2>2. ASSUME NEW j \in J PROVE d[j] \in B
    BY <1>4 DEF Beat
  <2> QED BY <2>1, <2>2
<1>8. Cardinality(B) = b
  <2> DEFINE g == [j \in J |-> d[j]]
  <2>1. g \in Bijection(J, B)
    <3>1. g \in Injection(J, B)
      BY <1>2, <1>7 DEF Injection, IsInjective
    <3>2. g \in Surjection(J, B)
      BY <1>7 DEF Surjection
    <3> QED BY <3>1, <3>2 DEF Bijection
  <2>2. ExistsBijection(J, B)
    BY <2>1 DEF ExistsBijection
  <2>3. IsFiniteSet(J)
    <3>1. IsFiniteSet(1..n)
      BY <1>3, FS_Interval
    <3> QED BY <3>1, FS_Subset
  <2> HIDE DEF J, B
  <2>4. Cardinality(B) = Cardinality(J)
    BY <2>2, <2>3, FS_Bijection
  <2> QED BY <2>4 DEF B
<1>9. \A k \in 1..n : vec[d[k]] > vec[t] <=> k <= b
  <2> SUFFICES ASSUME NEW k \in 1..n PROVE k \in J <=> k <= b
    OBVIOUS
  <2> HIDE DEF J
  <2> QED BY <1>3, <1>6
<1>10. PICK i \in 1..n : d[i] = t
  BY <1>2
<1> HIDE DEF J, b
<1>11. i > b
  BY <1>5, <1>6, <1>9, <1>10
<1>12. b \in 0..(n - 1) /\ b + 1 \in 1..n
  BY <1>3, <1>6, <1>11
<1>13. vec[d[b + 1]] = vec[t]
  <2>1. ~(vec[d[b + 1]] > vec[t])
    BY <1>6, <1>9, <1>12
  <2>2. vec[d[b + 1]] >= vec[d[i]]
    <3>1. CASE b + 1 = i
      BY <1>4, <3>1
    <3>2. CASE b + 1 < i
      BY <1>1, <1>12, <3>2
    <3> QED BY <1>6, <1>11, <3>1, <3>2
  <2> QED BY <1>4, <1>5, <1>10, <1>12, <2>1, <2>2
<1>14. B = First(vec, b)
  BY <1>6, <1>7 DEF First, d
<1> QED BY <1>8, <1>9, <1>12, <1>13, <1>14 DEF d, n

(* Keeping from the k-th largest logit on keeps the tokens that fewer than *)
(* k others beat.                                                          *)
LEMMA KeepFromIs ==
  ASSUME NEW vec \in [Vocab -> Int], NEW k \in 1..VocabSize, NEW t \in Vocab
  PROVE  KeepFrom(vec, k)[t] =
           IF Cardinality(Beat(vec, t)) < k THEN vec[t] ELSE MaskedOut
<1> DEFINE b == Cardinality(Beat(vec, t))
           v == vec[Descending(vec)[k]]
<1>1. v > vec[t] <=> k <= b
  BY Ranks
<1>2. b \in Int /\ k \in Int
  BY Ranks
<1>3. v \in Int /\ vec[t] \in Int
  BY DescendingExists
<1>4. KeepFrom(vec, k)[t] = IF vec[t] < v THEN MaskedOut ELSE vec[t]
  BY DEF KeepFrom
<1> HIDE DEF b, v
<1>5. vec[t] < v <=> ~(b < k)
  BY <1>1, <1>2, <1>3
<1> QED BY <1>4, <1>5 DEF b

-----------------------------------------------------------------------------
(* Softmax mass.                                                            *)

(* The mass of a logit within the bound, or of a masked one, is a number. *)
LEMMA MassType ==
  ASSUME NEW v, v \in (-LogitBound)..LogitBound \/ v = MaskedOut
  PROVE  Mass(v) \in Nat
<1>1. CASE v = MaskedOut
  BY <1>1 DEF Mass
<1>2. CASE v # MaskedOut
  <2> DEFINE n == v + LogitBound
  <2>1. n \in Nat
    BY <1>2, BoundAssumption
  <2> HIDE DEF n
  <2>2. IsFiniteSet(1..n) /\ Cardinality(1..n) = n
    BY <2>1, FS_Interval
  <2>3. IsFiniteSet(SUBSET (1..n)) /\ Cardinality(SUBSET (1..n)) = 2^n
    BY <2>2, FS_SUBSET
  <2>4. 2^n \in Nat
    BY <2>3, FS_CardinalityType
  <2> QED BY <1>2, <2>4 DEF Mass, n
<1> QED BY <1>1, <1>2

(* Logits, some of them masked. *)
Masked == {vec \in [Vocab -> Int] : \A t \in Vocab :
             vec[t] \in (-LogitBound)..LogitBound \/ vec[t] = MaskedOut}

(* The mass of a set of tokens adds up, in any order. *)
LEMMA MassAdds ==
  ASSUME NEW vec \in Masked
  PROVE  \E h \in [SUBSET Vocab -> Nat] :
           /\ h[{}] = 0
           /\ \A S \in SUBSET Vocab : /\ MassOf(vec, S) = h[S]
                                      /\ \A x \in S : h[S] = Mass(vec[x])
                                                             + h[S \ {x}]
<1> DEFINE f == [t \in Vocab |-> Mass(vec[t])]
           pick == [s \in SUBSET Vocab |-> CHOOSE x \in s : TRUE]
           F == [p \in Nat \X Vocab |-> f[p[2]] + p[1]]
<1>1. f \in [Vocab -> Nat]
  BY MassType DEF Masked
<1>2. Selects(pick, Vocab)
  BY DEF Selects
<1>3. \A s \in SUBSET Vocab : pick[s] = CHOOSE x \in s : TRUE
  OBVIOUS
<1>4. F \in [Nat \X Vocab -> Nat]
  BY <1>1
<1>5. \A b \in Nat, x \in Vocab : F[<<b, x>>] = f[x] + b
  OBVIOUS
<1>6. IsFiniteSet(Vocab) /\ 0 \in Nat
  BY VocabFinite
<1>7. \A x \in Vocab : f[x] = Mass(vec[x])
  OBVIOUS
<1>8. \A S : MassOf(vec, S) = SumFunctionOnSet(f, S)
  BY DEF MassOf
<1> HIDE DEF f, pick, F
<1>9. PICK h \in [SUBSET Vocab -> Nat] : IsFold(h, Vocab, 0, pick, F)
  BY <1>2, <1>4, <1>6, FoldExists
<1>10. h[{}] = 0
  BY <1>9 DEF IsFold
<1>11. ASSUME NEW s \in SUBSET Vocab, s # {}
       PROVE  h[s] = f[pick[s]] + h[s \ {pick[s]}]
  <2>1. h[s \ {pick[s]}] \in Nat /\ pick[s] \in Vocab
    BY <1>2, <1>9, <1>11 DEF Selects
  <2> QED BY <1>5, <1>9, <1>11, <2>1 DEF IsFold
<1>12. \A s \in SUBSET Vocab : \A x \in s : h[s] = f[x] + h[s \ {x}]
  <2>1. IsSum(h, Vocab, pick, f)
    BY <1>11 DEF IsSum
  <2>2. IsSumAnyOrder(h, Vocab, f)
    BY <1>1, <1>2, <1>6, <2>1, SumAnyOrder
  <2> QED BY <2>2 DEF IsSumAnyOrder
<1>13. ASSUME NEW S \in SUBSET Vocab PROVE SumFunctionOnSet(f, S) = h[S]
  <2> DEFINE Is(g) == g = [s \in SUBSET S |->
                             IF s = {} THEN 0
                             ELSE f[CHOOSE x \in s : TRUE]
                                    + g[s \ {CHOOSE x \in s : TRUE}]]
             G == CHOOSE g : Is(g)
             r == [s \in SUBSET S |-> h[s]]
  <2>1. SumFunctionOnSet(f, S) = G[S]
    BY DEF SumFunctionOnSet, FoldFunctionOnSet, MapThenFoldSet
  <2>2. ASSUME NEW s \in SUBSET S
        PROVE  h[s] = IF s = {} THEN 0
                      ELSE f[CHOOSE x \in s : TRUE]
                             + h[s \ {CHOOSE x \in s : TRUE}]
    BY <1>3, <1>10, <1>11
  <2>3. Is(r)
    <3>1. ASSUME NEW s \in SUBSET S
          PROVE  r[s] = IF s = {} THEN 0
                        ELSE f[CHOOSE x \in s : TRUE]
                               + r[s \ {CHOOSE x \in s : TRUE}]
      <4>1. r[s] = h[s] /\ \A x : r[s \ {x}] = h[s \ {x}]
        OBVIOUS
      <4> HIDE DEF r
      <4> QED BY <2>2, <4>1
    <3> QED BY <3>1
  <2>4. Is(G)
    BY <2>3
  <2> HIDE DEF G, r
  <2> DEFINE P == {s \in SUBSET S : G[s] = h[s]}
  <2>5. {} \in P
    BY <1>10, <2>4
  <2>6. ASSUME NEW s \in SUBSET S, s # {}, s \ {pick[s]} \in P
        PROVE  s \in P
    <3>1. pick[s] = CHOOSE x \in s : TRUE
      BY <1>3
    <3>2. G[s] = f[pick[s]] + G[s \ {pick[s]}]
      BY <2>4, <2>6, <3>1
    <3>3. h[s] = f[pick[s]] + h[s \ {pick[s]}]
      BY <1>11, <2>6
    <3> QED BY <2>6, <3>2, <3>3
  <2>7. P \in SUBSET (SUBSET S) /\ IsFiniteSet(S) /\ Selects(pick, S)
    BY <1>2, <1>6, FS_Subset DEF Selects
  <2> HIDE DEF P
  <2>8. \A s \in SUBSET S : s # {} /\ s \ {pick[s]} \in P => s \in P
    BY <2>6
  <2>9. S \in P
    BY <2>5, <2>7, <2>8, FoldInduction
  <2> QED BY <2>1, <2>9 DEF P
<1>14. ASSUME NEW S \in SUBSET Vocab
       PROVE  /\ MassOf(vec, S) = h[S]
              /\ \A x \in S : h[S] = Mass(vec[x]) + h[S \ {x}]
  <2>1. MassOf(vec, S) = h[S]
    BY <1>8, <1>13
  <2>2. ASSUME NEW x \in S PROVE h[S] = Mass(vec[x]) + h[S \ {x}]
    <3>1. h[S] = f[x] + h[S \ {x}]
      BY <1>12
    <3> QED BY <1>7, <3>1
  <2> QED BY <2>1, <2>2
<1> QED BY <1>10, <1>14

(* A larger set of tokens has at least the mass. *)
LEMMA MassGrows ==
  ASSUME NEW vec \in Masked, NEW S \in SUBSET Vocab, NEW R \in SUBSET S
  PROVE  /\ MassOf(vec, R) <= MassOf(vec, S)
         /\ MassOf(vec, R) \in Nat /\ MassOf(vec, S) \in Nat
<1>1. PICK h \in [SUBSET Vocab -> Nat] :
        \A U \in SUBSET Vocab : /\ MassOf(vec, U) = h[U]
                                /\ \A x \in U : h[U] = Mass(vec[x])
                                                       + h[U \ {x}]
  BY MassAdds
<1> DEFINE pick == [s \in SUBSET (S \ R) |-> CHOOSE x \in s : TRUE]
           P == {s \in SUBSET (S \ R) : h[R] <= h[R \cup s]}
<1>2. Selects(pick, S \ R) /\ IsFiniteSet(S \ R)
  BY VocabFinite, FS_Subset DEF Selects
<1>3. {} \in P
  <2>1. R \cup {} = R /\ h[R] \in Nat
    OBVIOUS
  <2> QED BY <2>1
<1>4. ASSUME NEW s \in SUBSET (S \ R), s # {}, s \ {pick[s]} \in P
      PROVE  s \in P
  <2> DEFINE x == pick[s]
             U == R \cup s
  <2>1. x \in s
    BY <1>2, <1>4 DEF Selects
  <2>2. h[R] <= h[R \cup (s \ {x})]
    BY <1>4
  <2> HIDE DEF x
  <2>3. U \in SUBSET Vocab /\ x \in U /\ U \ {x} = R \cup (s \ {x})
        /\ x \in Vocab
    BY <2>1
  <2>4. h[U] = Mass(vec[x]) + h[R \cup (s \ {x})]
    BY <1>1, <2>3
  <2>5. Mass(vec[x]) \in Nat /\ h[R \cup (s \ {x})] \in Nat
        /\ h[R] \in Nat
    BY <2>3, MassType DEF Masked
  <2> DEFINE a == Mass(vec[x])
             c == h[R \cup (s \ {x})]
             e == h[U]
             r == h[R]
  <2>6. a \in Nat /\ c \in Nat /\ r \in Nat /\ r <= c /\ e = a + c
    BY <2>2, <2>4, <2>5
  <2>7. r <= e
    <3> HIDE DEF a, c, e, r
    <3> QED BY <2>6
  <2> QED BY <2>7
<1>5. P \in SUBSET (SUBSET (S \ R))
  OBVIOUS
<1> HIDE DEF P, pick
<1>6. S \ R \in P
  <2>1. \A s \in SUBSET (S \ R) : s # {} /\ s \ {pick[s]} \in P => s \in P
    BY <1>4
  <2> QED BY <1>2, <1>3, <1>5, <2>1, FoldInduction
<1>7. R \cup (S \ R) = S
  OBVIOUS
<1> QED BY <1>1, <1>6, <1>7 DEF P

(* Vectors that agree on R, one of which has no mass elsewhere in S, have  *)
(* the mass of R in common.                                                *)
LEMMA MassAgrees ==
  ASSUME NEW v \in Masked, NEW w \in Masked, NEW S \in SUBSET Vocab,
         NEW R \in SUBSET S, \A t \in R : v[t] = w[t],
         \A t \in S \ R : v[t] = MaskedOut
  PROVE  MassOf(v, S) = MassOf(w, R)
<1>1. PICK h \in [SUBSET Vocab -> Nat] :
        /\ h[{}] = 0
        /\ \A U \in SUBSET Vocab : /\ MassOf(v, U) = h[U]
                                   /\ \A x \in U : h[U] = Mass(v[x])
                                                          + h[U \ {x}]
  BY MassAdds
<1>2. PICK g \in [SUBSET Vocab -> Nat] :
        /\ g[{}] = 0
        /\ \A U \in SUBSET Vocab : /\ MassOf(w, U) = g[U]
                                   /\ \A x \in U : g[U] = Mass(w[x])
                                                          + g[U \ {x}]
  BY MassAdds
<1> DEFINE pick == [s \in SUBSET S |-> CHOOSE x \in s : TRUE]
           P == {s \in SUBSET S : h[s] = g[s \cap R]}
<1>3. Selects(pick, S) /\ IsFiniteSet(S)
  BY VocabFinite, FS_Subset DEF Selects
<1>4. {} \in P
  <2>1. {} \cap R = {}
    OBVIOUS
  <2> QED BY <1>1, <1>2, <2>1
<1>5. ASSUME NEW s \in SUBSET S, s # {}, s \ {pick[s]} \in P
      PROVE  s \in P
  <2> DEFINE x == pick[s]
  <2>1. x \in s
    BY <1>3, <1>5 DEF Selects
  <2>2. h[s \ {x}] = g[(s \ {x}) \cap R]
    BY <1>5
  <2> HIDE DEF x
  <2>3. h[s] = Mass(v[x]) + h[s \ {x}]
    BY <1>1, <2>1
  <2>4. CASE x \in R
    <3>1. x \in s \cap R /\ (s \cap R) \ {x} = (s \ {x}) \cap R
          /\ s \cap R \in SUBSET Vocab
      BY <2>1, <2>4
    <3>2. g[s \cap R] = Mass(w[x]) + g[(s \cap R) \ {x}]
      BY <1>2, <3>1
    <3> QED BY <2>2, <2>3, <2>4, <3>1, <3>2
  <2>5. CASE x \notin R
    <3>1. (s \ {x}) \cap R = s \cap R /\ s \cap R \in SUBSET Vocab
      BY <2>5
    <3>2. Mass(v[x]) = 0
      BY <2>1, <2>5 DEF Mass
    <3>3. h[s \ {x}] \in Nat
      OBVIOUS
    <3>4. h[s] = h[s \ {x}]
      <4> DEFINE a == Mass(v[x])
                 c == h[s \ {x}]
                 e == h[s]
      <4>1. a = 0 /\ c \in Nat /\ e = a + c
        BY <2>3, <3>2, <3>3
      <4>2. e = c
        <5> HIDE DEF a, c, e
        <5> QED BY <4>1
      <4> QED BY <4>2
    <3>5. h[s] = g[s \cap R]
      BY <2>2, <3>1, <3>4
    <3> QED BY <3>5
  <2> QED BY <2>4, <2>5
<1>6. P \in SUBSET (SUBSET S)
  OBVIOUS
<1> HIDE DEF P, pick
<1>7. S \in P
  <2>1. \A s \in SUBSET S : s # {} /\ s \ {pick[s]} \in P => s \in P
    BY <1>5
  <2> QED BY <1>3, <1>4, <1>6, <2>1, FoldInduction
<1>8. S \cap R = R
  OBVIOUS
<1> QED BY <1>1, <1>2, <1>7, <1>8 DEF P

-----------------------------------------------------------------------------
(* The masks.                                                               *)

(* A masked logit is below every other. *)
LEMMA MaskedBelow == MaskedOut \in Int /\ MaskedOut < -LogitBound
BY BoundAssumption DEF MaskedOut

(* A token is beaten by nobody iff no more than zero beat it. *)
LEMMA BestRank ==
  ASSUME NEW vec, NEW t
  PROVE  Cardinality(Beat(vec, t)) = 0 <=> Beat(vec, t) = {}
<1>1. Beat(vec, t) \in SUBSET Vocab
  BY DEF Beat
<1>2. IsFiniteSet(Beat(vec, t))
  BY <1>1, VocabFinite, FS_Subset
<1> QED BY <1>2, FS_EmptySet

(* Masking keeps logits within the bound or masked. *)
LEMMA KeepFromMasked ==
  ASSUME NEW vec \in Masked, NEW k
  PROVE  KeepFrom(vec, k) \in Masked
BY MaskedBelow DEF KeepFrom, Masked

(* What top-k keeps: the tokens that fewer than k others beat. *)
LEMMA TopKIs ==
  ASSUME NEW vec \in Masked, NEW k \in Nat
  PROVE  /\ TopKMask(vec, k) \in Masked
         /\ \A t \in Vocab :
              TopKMask(vec, k)[t] =
                IF k = 0 \/ Cardinality(Beat(vec, t)) < k THEN vec[t]
                ELSE MaskedOut
<1> DEFINE n == VocabSize
           K == IF k < n THEN k ELSE n
<1>1. vec \in [Vocab -> Int] /\ n \in Nat /\ n >= 1
  BY VocabFinite DEF Masked
<1>2. CASE k = 0
  BY <1>2 DEF TopKMask
<1>3. CASE k # 0
  <2>1. TopKMask(vec, k) = KeepFrom(vec, K)
    BY <1>3 DEF TopKMask
  <2>2. K \in 1..n
    BY <1>1, <1>3
  <2>3. ASSUME NEW t \in Vocab
        PROVE  TopKMask(vec, k)[t] =
                 IF Cardinality(Beat(vec, t)) < k THEN vec[t] ELSE MaskedOut
    <3> DEFINE b == Cardinality(Beat(vec, t))
    <3>1. b \in 0..(n - 1)
      BY <1>1, Ranks
    <3>2. KeepFrom(vec, K)[t] = IF b < K THEN vec[t] ELSE MaskedOut
      BY <1>1, <2>2, KeepFromIs
    <3> HIDE DEF b
    <3>3. b < K <=> b < k
      BY <1>1, <3>1
    <3> QED BY <2>1, <3>2, <3>3 DEF b
  <2> QED BY <1>3, <2>1, <2>3, KeepFromMasked
<1> QED BY <1>2, <1>3

(* The best tokens up to and including the rank of t have the mass of the  *)
(* tokens that beat t and the mass of t.                                   *)
LEMMA MassUpTo ==
  ASSUME NEW vec \in Masked, NEW t \in Vocab
  PROVE  MassOf(vec, First(vec, Cardinality(Beat(vec, t)) + 1)) =
           MassOf(vec, Beat(vec, t)) + Mass(vec[t])
<1> DEFINE d == Descending(vec)
           n == VocabSize
           b == Cardinality(Beat(vec, t))
           S == First(vec, b + 1)
           x == d[b + 1]
<1>1. vec \in [Vocab -> Int] /\ n \in Nat
  BY VocabFinite DEF Masked
<1>2. d \in [1..n -> Vocab]
  BY <1>1, DescendingExists
<1>3. \A i, j \in 1..n : d[i] = d[j] => i = j
  BY <1>1, DescendingLists
<1>4. b \in 0..(n - 1) /\ Beat(vec, t) = First(vec, b) /\ vec[x] = vec[t]
  BY <1>1, Ranks
<1>5. S = {d[j] : j \in 1..(b + 1)} /\ First(vec, b) = {d[j] : j \in 1..b}
  BY DEF First
<1> HIDE DEF d, b, S, n
<1>6. b + 1 \in 1..n /\ \A j \in 1..(b + 1) : j \in 1..n
  BY <1>1, <1>4
<1>7. S \in SUBSET Vocab /\ x \in S
  BY <1>2, <1>4, <1>5, <1>6
<1>8. S \ {x} = First(vec, b)
  <2>1. \A j \in 1..b : j \in 1..(b + 1) /\ j # b + 1
    BY <1>4
  <2>2. \A j \in 1..(b + 1) : j = b + 1 \/ j \in 1..b
    BY <1>4
  <2>3. ASSUME NEW j \in 1..b PROVE d[j] \in S \ {x}
    BY <1>3, <1>5, <1>6, <2>1
  <2>4. ASSUME NEW u \in S \ {x} PROVE u \in First(vec, b)
    BY <1>5, <2>2
  <2> QED BY <1>5, <2>3, <2>4
<1>9. PICK h \in [SUBSET Vocab -> Nat] :
        \A U \in SUBSET Vocab : /\ MassOf(vec, U) = h[U]
                                /\ \A y \in U : h[U] = Mass(vec[y])
                                                       + h[U \ {y}]
  BY MassAdds
<1> DEFINE a == Mass(vec[x])
           c == h[S \ {x}]
           e == h[S]
<1>10. a \in Nat /\ c \in Nat /\ e = a + c
  <2>1. x \in Vocab
    BY <1>7
  <2>2. Mass(vec[x]) \in Nat
    BY <2>1, MassType DEF Masked
  <2> QED BY <1>7, <1>9, <2>2
<1>11. e = c + a
  <2> HIDE DEF a, c, e
  <2> QED BY <1>10
<1>12. MassOf(vec, S) = e /\ MassOf(vec, Beat(vec, t)) = c
  <2>1. S \ {x} \in SUBSET Vocab /\ Beat(vec, t) = S \ {x}
    BY <1>4, <1>7, <1>8
  <2> QED BY <1>7, <1>9, <2>1
<1>13. a = Mass(vec[t])
  BY <1>4
<1> HIDE DEF a, c, e
<1> QED BY <1>11, <1>12, <1>13 DEF S, b

(* The tokens of the nucleus. *)
InNucleus(vec, p, t) ==
  \/ Beat(vec, t) = {} \/ p[1] >= p[2]
  \/ (MassOf(vec, Beat(vec, t)) + Mass(vec[t])) * p[2]
       <= p[1] * MassOf(vec, Vocab)

(* What top-p keeps: the nucleus. *)
LEMMA TopPIs ==
  ASSUME NEW vec \in Masked, NEW p \in Nat \X Nat
  PROVE  /\ TopPMask(vec, p) \in Masked
         /\ \A t \in Vocab : TopPMask(vec, p)[t] =
              IF InNucleus(vec, p, t) THEN vec[t] ELSE MaskedOut
<1> DEFINE d == Descending(vec)
           n == VocabSize
           total == MassOf(vec, Vocab)
           Q == {i \in 1..n : MassOf(vec, First(vec, i)) * p[2]
                                <= p[1] * total}
           c == Cardinality(Q)
           K == IF c > 1 THEN c ELSE 1
<1>1. vec \in [Vocab -> Int] /\ n \in Nat /\ n >= 1
  BY VocabFinite DEF Masked
<1>2. CASE p[1] >= p[2]
  BY <1>2 DEF TopPMask, InNucleus
<1>3. CASE ~(p[1] >= p[2])
  <2>1. TopPMask(vec, p) = KeepFrom(vec, K)
    BY <1>3 DEF TopPMask, First
  <2>2. d \in [1..n -> Vocab]
    BY <1>1, DescendingExists
  <2>3. p[1] \in Nat /\ p[2] \in Nat /\ total \in Nat
    BY MassGrows
  <2>4. ASSUME NEW i \in 1..n, NEW j \in 1..n, i < j, j \in Q
        PROVE  i \in Q
    <3> DEFINE a == MassOf(vec, First(vec, i))
               e == MassOf(vec, First(vec, j))
    <3>1. First(vec, j) \in SUBSET Vocab
          /\ First(vec, i) \in SUBSET First(vec, j)
      <4>1. \A k \in 1..j : k \in 1..n
        BY <1>1
      <4>2. \A k \in 1..i : k \in 1..j
        BY <1>1, <2>4
      <4> QED BY <2>2, <4>1, <4>2 DEF First
    <3>2. a \in Nat /\ e \in Nat /\ a <= e
      BY <3>1, MassGrows
    <3>3. e * p[2] <= p[1] * total
      BY <2>4
    <3>4. a * p[2] <= p[1] * total
      <4> DEFINE q == p[2]
                 y == p[1] * total
      <4>1. q \in Nat /\ y \in Int /\ e * q <= y
        BY <2>3, <3>3
      <4> HIDE DEF a, e, q, y
      <4>2. a * q <= e * q /\ a * q \in Int /\ e * q \in Int
        BY <3>2, <4>1
      <4>3. a * q <= y
        BY <4>1, <4>2
      <4> QED BY <4>3 DEF q, y
    <3> QED BY <3>4
  <2>5. Q \in SUBSET (1..n)
    OBVIOUS
  <2>6. Q = 1..c /\ c \in 0..n
    <3> HIDE DEF Q
    <3> QED BY <1>1, <2>4, <2>5, InitialSegment
  <2>7. K \in 1..n
    <3> HIDE DEF c
    <3> QED BY <1>1, <2>6
  <2>8. ASSUME NEW t \in Vocab
        PROVE  TopPMask(vec, p)[t] =
                 IF InNucleus(vec, p, t) THEN vec[t] ELSE MaskedOut
    <3> DEFINE b == Cardinality(Beat(vec, t))
    <3>1. b \in 0..(n - 1) /\ b + 1 \in 1..n
      BY <1>1, Ranks
    <3>2. KeepFrom(vec, K)[t] = IF b < K THEN vec[t] ELSE MaskedOut
      BY <1>1, <2>7, KeepFromIs
    <3>3. b < K <=> b = 0 \/ b + 1 \in 1..c
      <4> HIDE DEF b, c
      <4> QED BY <1>1, <2>6, <3>1
    <3>4. b + 1 \in Q <=>
            (MassOf(vec, Beat(vec, t)) + Mass(vec[t])) * p[2]
              <= p[1] * total
      BY <3>1, MassUpTo
    <3>5. b = 0 <=> Beat(vec, t) = {}
      BY BestRank
    <3>6. b < K <=> InNucleus(vec, p, t)
      <4> HIDE DEF b, c, Q, K
      <4> QED BY <1>3, <2>6, <3>3, <3>4, <3>5 DEF InNucleus
    <3> HIDE DEF b, K
    <3> QED BY <2>1, <3>2, <3>6
  <2> QED BY <2>1, <2>8, KeepFromMasked
<1> QED BY <1>2, <1>3

-----------------------------------------------------------------------------
(* The draw.                                                                *)

(* Logits within the bound. *)
Bounded == [Vocab -> (-LogitBound)..LogitBound]

(* What top-k leaves. *)
Left(vec, k) == {t \in Vocab : k = 0 \/ Cardinality(Beat(vec, t)) < k}

(* A token is left after top-k and in the nucleus of what is left. *)
Kept(vec, k, p, t) ==
  /\ t \in Left(vec, k)
  /\ \/ Beat(vec, t) = {} \/ p[1] >= p[2]
     \/ (MassOf(vec, Beat(vec, t)) + Mass(vec[t])) * p[2]
          <= p[1] * MassOf(vec, Left(vec, k))

(* Whoever beats a token that top-k leaves is left too. *)
LEMMA LeftUpwards ==
  ASSUME NEW vec \in Bounded, NEW k \in Nat, NEW t \in Left(vec, k)
  PROVE  Beat(vec, t) \in SUBSET Left(vec, k)
<1>1. \A u \in Vocab : vec[u] \in Int
  BY BoundAssumption DEF Bounded
<1> SUFFICES ASSUME NEW u \in Beat(vec, t), k # 0
             PROVE  Cardinality(Beat(vec, u)) < k
  BY DEF Left, Beat
<1>2. t \in Vocab /\ Cardinality(Beat(vec, t)) < k
  BY DEF Left
<1>3. Beat(vec, u) \in SUBSET Beat(vec, t) /\ Beat(vec, t) \in SUBSET Vocab
  BY <1>1, <1>2 DEF Beat
<1>4. /\ IsFiniteSet(Beat(vec, t))
      /\ Cardinality(Beat(vec, u)) <= Cardinality(Beat(vec, t))
  BY <1>3, VocabFinite, FS_Subset
<1>5. /\ Cardinality(Beat(vec, t)) \in Nat
      /\ Cardinality(Beat(vec, u)) \in Nat
  BY <1>3, <1>4, FS_Subset, FS_CardinalityType
<1> QED BY <1>2, <1>4, <1>5

(* Top-p after top-k keeps the tokens it should, with their logits. *)
LEMMA TruncationIs ==
  ASSUME NEW vec \in Bounded, NEW k \in Nat, NEW p \in Nat \X Nat
  PROVE  /\ TopPMask(TopKMask(vec, k), p) \in Masked
         /\ \A t \in Vocab : TopPMask(TopKMask(vec, k), p)[t] =
              IF Kept(vec, k, p, t) THEN vec[t] ELSE MaskedOut
<1> DEFINE m == TopKMask(vec, k)
           L == Left(vec, k)
<1>1. vec \in Masked /\ \A t \in Vocab : vec[t] \in Int /\ vec[t] > MaskedOut
  BY BoundAssumption, MaskedBelow DEF Bounded, Masked
<1>2. m \in Masked
  BY <1>1, TopKIs
<1>3. \A t \in Vocab : m[t] = IF t \in L THEN vec[t] ELSE MaskedOut
  BY <1>1, TopKIs DEF Left
<1>4. L \in SUBSET Vocab
  BY DEF Left
<1> HIDE DEF m
<1>5. MassOf(m, Vocab) = MassOf(vec, L)
  <2> HIDE DEF L
  <2> QED BY <1>1, <1>2, <1>3, <1>4, MassAgrees
<1>6. ASSUME NEW t \in L
      PROVE  /\ Beat(m, t) = Beat(vec, t)
             /\ MassOf(m, Beat(m, t)) = MassOf(vec, Beat(vec, t))
             /\ m[t] = vec[t]
  <2>1. Beat(vec, t) \in SUBSET L
    BY LeftUpwards
  <2> HIDE DEF L
  <2>2. m[t] = vec[t] /\ t \in Vocab
    BY <1>3, <1>4
  <2>3. Beat(m, t) = Beat(vec, t)
    <3>1. ASSUME NEW u \in Beat(m, t) PROVE u \in Beat(vec, t)
      BY <1>1, <1>3, <2>2, MaskedBelow DEF Beat
    <3>2. ASSUME NEW u \in Beat(vec, t) PROVE u \in Beat(m, t)
      <4>1. u \in L /\ u \in Vocab /\ vec[u] > vec[t]
        BY <2>1 DEF Beat
      <4> QED BY <1>3, <2>2, <4>1 DEF Beat
    <3> QED BY <3>1, <3>2
  <2> DEFINE B == Beat(vec, t)
  <2>4. B \in SUBSET Vocab /\ B \in SUBSET B /\ \A u \in B : m[u] = vec[u]
    BY <1>3, <1>4, <2>1
  <2>5. MassOf(m, B) = MassOf(vec, B)
    <3> HIDE DEF B
    <3> QED BY <1>1, <1>2, <2>4, MassAgrees
  <2> QED BY <2>2, <2>3, <2>5
<1>7. ASSUME NEW t \in Vocab
      PROVE  TopPMask(m, p)[t] =
               IF Kept(vec, k, p, t) THEN vec[t] ELSE MaskedOut
  <2>1. TopPMask(m, p)[t] =
          IF InNucleus(m, p, t) THEN m[t] ELSE MaskedOut
    BY <1>2, TopPIs
  <2>2. CASE t \in L
    <3>1. InNucleus(m, p, t) <=> Kept(vec, k, p, t)
      BY <1>5, <1>6, <2>2 DEF InNucleus, Kept
    <3> QED BY <1>6, <2>1, <2>2, <3>1
  <2>3. CASE t \notin L
    <3>1. m[t] = MaskedOut /\ ~Kept(vec, k, p, t)
      BY <1>3, <2>3 DEF Kept
    <3> QED BY <2>1, <3>1
  <2> QED BY <2>2, <2>3
<1>8. TopPMask(m, p) \in Masked
  BY <1>2, TopPIs
<1> QED BY <1>7, <1>8 DEF m

(* There is a best token, the one argmax returns. *)
LEMMA ArgmaxBest ==
  ASSUME NEW vec \in [Vocab -> Int]
  PROVE  /\ Argmax(vec) \in Vocab
         /\ \A u \in Vocab : vec[u] <= vec[Argmax(vec)]
<1> DEFINE d == Descending(vec)
           n == VocabSize
<1>1. n \in Nat /\ n >= 1 /\ 1 \in 1..n
  BY VocabFinite
<1>2. /\ d \in [1..n -> Vocab]
      /\ \A i, j \in 1..n : i < j => vec[d[i]] >= vec[d[j]]
  BY DescendingExists
<1>3. ASSUME NEW u \in Vocab PROVE vec[u] <= vec[d[1]]
  <2>1. PICK i \in 1..n : d[i] = u
    BY DescendingLists
  <2>2. d[1] \in Vocab /\ vec[d[1]] \in Int /\ vec[u] \in Int
    BY <1>1, <1>2
  <2> HIDE DEF d, n
  <2>3. CASE i = 1
    BY <2>1, <2>2, <2>3
  <2>4. CASE i # 1
    <3>1. 1 < i
      BY <1>1, <2>4
    <3> QED BY <1>1, <1>2, <2>1, <2>2, <3>1
  <2> QED BY <2>3, <2>4
<1> QED BY <1>1, <1>2, <1>3 DEF Argmax

(* The masks together leave what the settings promise. *)
LEMMA MaskLogitsIs ==
  ASSUME NEW vec \in Bounded, NEW temperature \in Int, NEW k \in Nat,
         NEW p \in Nat \X Nat, NEW t \in Vocab
  PROVE  MaskLogits(vec, temperature, k, p)[t] # MaskedOut <=>
           /\ Kept(vec, k, p, t)
           /\ temperature > 0 \/ Beat(vec, t) = {}
<1> DEFINE m == TopPMask(TopKMask(vec, k), p)
<1>1. \A u \in Vocab : vec[u] \in Int /\ vec[u] > MaskedOut
  BY BoundAssumption, MaskedBelow DEF Bounded
<1>2. m \in Masked /\ \A u \in Vocab :
        m[u] = IF Kept(vec, k, p, u) THEN vec[u] ELSE MaskedOut
  BY TruncationIs
<1>3. MaskLogits(vec, temperature, k, p) =
        IF temperature > 0 THEN m ELSE KeepFrom(m, 1)
  BY DEF MaskLogits, GreedyMask
<1> HIDE DEF m
<1>4. CASE temperature > 0
  BY <1>1, <1>2, <1>3, <1>4, MaskedBelow
<1>5. CASE ~(temperature > 0)
  <2>1. m \in [Vocab -> Int] /\ 1 \in 1..VocabSize
    BY <1>2, VocabFinite DEF Masked
  <2>2. KeepFrom(m, 1)[t] =
          IF Cardinality(Beat(m, t)) < 1 THEN m[t] ELSE MaskedOut
    BY <2>1, KeepFromIs
  <2>3. Cardinality(Beat(m, t)) < 1 <=> Beat(m, t) = {}
    <3>1. Cardinality(Beat(m, t)) \in Nat
      BY <2>1, Ranks
    <3> QED BY <3>1, BestRank
  <2>4. CASE ~Kept(vec, k, p, t)
    BY <1>2, <1>3, <1>5, <2>2, <2>4
  <2>5. CASE Kept(vec, k, p, t)
    <3>1. m[t] = vec[t] /\ m[t] # MaskedOut
      BY <1>1, <1>2, <2>5, MaskedBelow
    <3>2. ASSUME Beat(vec, t) = {} PROVE Beat(m, t) = {}
      <4> SUFFICES ASSUME NEW u \in Vocab, m[u] > m[t] PROVE FALSE
        BY DEF Beat
      <4>1. ~(vec[u] > vec[t])
        BY <3>2 DEF Beat
      <4> QED BY <1>1, <1>2, <3>1, <4>1, MaskedBelow
    <3>3. ASSUME Beat(vec, t) # {} PROVE Beat(m, t) # {}
      <4> DEFINE best == Argmax(vec)
      <4>1. vec \in [Vocab -> Int]
        BY BoundAssumption DEF Bounded
      <4>2. best \in Vocab /\ \A u \in Vocab : vec[u] <= vec[best]
        BY <4>1, ArgmaxBest
      <4> HIDE DEF best
      <4>3. Beat(vec, best) = {}
        BY <1>1, <4>2 DEF Beat
      <4>4. Cardinality(Beat(vec, best)) = 0
        BY <4>3, FS_EmptySet
      <4>5. Kept(vec, k, p, best)
        BY <4>2, <4>3, <4>4 DEF Kept, Left
      <4>6. PICK u \in Vocab : vec[u] > vec[t]
        BY <3>3 DEF Beat
      <4>7. vec[best] > vec[t]
        BY <1>1, <4>2, <4>6
      <4>8. m[best] > m[t]
        BY <1>2, <3>1, <4>2, <4>5, <4>7
      <4> QED BY <4>2, <4>8 DEF Beat
    <3> QED BY <1>3, <1>5, <2>2, <2>3, <2>5, <3>1, <3>2, <3>3
  <2> QED BY <2>4, <2>5
<1> QED BY <1>4, <1>5

(* The tokens sample can return are the drawable ones. *)
LEMMA SampleIsDrawable ==
  ASSUME NEW vec \in LogitSet, NEW g \in GenConfigs, NEW h \in SUBSET Vocab
  PROVE  Sample(vec, g, h) = Drawable(vec, g, h)
<1> DEFINE seen == IF g.penalty = 1 THEN {} ELSE h
           l == Penalise(vec, g.penalty, h)
<1>1. /\ g.temperature \in Int /\ g.topK \in Nat /\ g.topP \in Nat \X Nat
      /\ g.penalty \in Nat \ {0}
  BY GenAssumption
<1>2. vec \in [Vocab -> Int] /\ \A t \in Vocab : vec[t] \in Int
  BY LogitAssumption
<1>3. Penalise(vec, g.penalty, seen) = l
  <2>1. CASE g.penalty = 1
    <3>1. \A t \in Vocab : vec[t] \div 1 = vec[t] /\ vec[t] * 1 = vec[t]
      BY <1>2
    <3> QED BY <2>1, <3>1 DEF Penalise
  <2>2. CASE g.penalty # 1
    BY <2>2
  <2> QED BY <2>1, <2>2
<1>4. l \in Bounded
  <2>1. \A t \in Vocab : l[t] \in (-LogitBound)..LogitBound
    BY LogitAssumption
  <2>2. l = [t \in Vocab |-> l[t]]
    BY DEF Penalise
  <2> HIDE DEF l
  <2> QED BY <2>1, <2>2 DEF Bounded
<1>5. Sample(vec, g, h) =
        {t \in Vocab : MaskLogits(l, g.temperature, g.topK, g.topP)[t]
                         # MaskedOut}
  BY <1>3 DEF Sample
<1>6. Drawable(vec, g, h) =
        {t \in Vocab : /\ Kept(l, g.topK, g.topP, t)
                       /\ g.temperature > 0 \/ Beat(l, t) = {}}
  <2>1. Left(l, g.topK) =
          IF g.topK = 0 THEN Vocab
          ELSE {t \in Vocab : Cardinality(Beat(l, t)) < g.topK}
    BY DEF Left
  <2>2. Drawable(vec, g, h) =
          {t \in Left(l, g.topK) :
             /\ \/ Beat(l, t) = {} \/ g.topP[1] >= g.topP[2]
                \/ (MassOf(l, Beat(l, t)) + Mass(l[t])) * g.topP[2]
                     <= g.topP[1] * MassOf(l, Left(l, g.topK))
             /\ g.temperature > 0 \/ Beat(l, t) = {}}
    BY <2>1 DEF Drawable, Beat
  <2>3. Left(l, g.topK) \in SUBSET Vocab
    BY DEF Left
  <2> HIDE DEF l
  <2> QED BY <2>2, <2>3 DEF Kept
<1> HIDE DEF l
<1>7. \A t \in Vocab :
        MaskLogits(l, g.temperature, g.topK, g.topP)[t] # MaskedOut <=>
          /\ Kept(l, g.topK, g.topP, t)
          /\ g.temperature > 0 \/ Beat(l, t) = {}
  BY <1>1, <1>4, MaskLogitsIs
<1> QED BY <1>5, <1>6, <1>7

(* The loop draws tokens of the vocabulary. *)
LEMMA ChoicesInVocab ==
  ASSUME logits \in LogitsType
  PROVE  Choices \in SUBSET Vocab
<1>1. 0 \in Vocab /\ 1 \in 1..VocabSize
  BY VocabAssumption DEF Vocab
<1>2. CASE logits.vec = None
  BY <1>1, <1>2 DEF Choices
<1>3. CASE logits.vec # None
  <2>1. logits.vec \in [Vocab -> Int]
    BY <1>3, LogitAssumption DEF LogitsType
  <2>2. Argmax(logits.vec) \in Vocab
    BY <1>1, <2>1, DescendingExists DEF Argmax
  <2>3. Sample(logits.vec, gen, hist) \in SUBSET Vocab
    BY DEF Sample
  <2> HIDE DEF Sample, Argmax
  <2> QED BY <1>3, <2>2, <2>3 DEF Choices
<1> QED BY <1>2, <1>3

-----------------------------------------------------------------------------
(* A layer call.                                                            *)

(* The positions of a chunk as numbers. *)
LEMMA ChunkType ==
  ASSUME ScalarInv, LoopInv, phase \in {"forward", "head"}
  PROVE  /\ fed \in Nat /\ fwd \in Nat /\ fwd >= 1
         /\ fed + fwd \in Positions /\ kernel \in Nat /\ kernel >= 1
         /\ li \in LayerIds /\ fed + fwd - 1 \in Positions
<1>1. /\ fed \in Nat /\ fwd \in Nat /\ out \in 0..MaxNew
      /\ MaxPrompt \in Nat /\ MaxNew \in Nat /\ Len(prompt) \in Nat
  BY LoopAssumption, PromptAssumption, LenProperties
     DEF ScalarInv, Positions, MaxLen
<1>2. fwd >= 1 /\ fed + fwd + Len(prompt) <= MaxPrompt + out
  BY DEF LoopInv
<1>3. fed + fwd \in 1..(MaxPrompt + MaxNew)
  BY <1>1, <1>2
<1>4. kernel \in Nat /\ kernel >= 1 /\ li \in LayerIds
  BY KernelAssumption DEF ScalarInv
<1> QED BY <1>1, <1>2, <1>3, <1>4 DEF Positions, MaxLen

(* The keys of all positions so far, as Attend computes them. *)
ChunkKeys(l) == kv[l] \o [i \in 1..fwd |-> <<fed + i - 1, Rotary(l, i)>>]

(* The attention of one chunk: the keys of all positions so far, and for   *)
(* each position those up to it.                                            *)
LEMMA AttendFacts ==
  ASSUME fed \in Nat, fwd \in Nat, fwd >= 1, NEW l, kv[l] = Keys(fed)
  PROVE  /\ ChunkKeys(l) = Keys(fed + fwd)
         /\ \A i \in 1..fwd : /\ Rotary(l, i) = fed + i - 1
                              /\ Visible(ChunkKeys(l), i) = Keys(fed + i)
<1>1. Len(kv[l]) = fed
  BY DEF Keys
<1>2. \A i \in 1..fwd : Rotary(l, i) = fed + i - 1
  BY <1>1 DEF Rotary
<1>3. [i \in 1..fwd |-> <<fed + i - 1, Rotary(l, i)>>]
        = [i \in 1..fwd |-> <<fed + i - 1, fed + i - 1>>]
  BY <1>2
<1>4. ChunkKeys(l) = Keys(fed + fwd)
  BY <1>3, AppendKeys DEF ChunkKeys
<1>5. Len(Keys(fed + fwd)) = fed + fwd
  BY DEF Keys
<1>6. ASSUME NEW i \in 1..fwd PROVE Visible(ChunkKeys(l), i) = Keys(fed + i)
  <2>1. CASE fwd = 1
    <3>1. i = 1
      BY <2>1
    <3> QED BY <1>4, <2>1, <3>1 DEF Visible
  <2>2. CASE fwd # 1
    <3>1. fed + fwd - fwd + i = fed + i /\ fed + i \in 0..(fed + fwd)
          /\ fed + fwd \in Nat
      OBVIOUS
    <3>2. SubSeq(Keys(fed + fwd), 1, fed + i) = Keys(fed + i)
      BY <3>1, PrefixKeys
    <3>3. Visible(ChunkKeys(l), i)
            = SubSeq(Keys(fed + fwd), 1, fed + fwd - fwd + i)
      BY <1>4, <1>5, <2>2 DEF Visible
    <3> QED BY <3>1, <3>2, <3>3
  <2> QED BY <2>1, <2>2
<1> QED BY <1>2, <1>4, <1>6

(* The windows and the recurrence of one chunk. *)
LEMMA LinearFacts ==
  ASSUME fed \in Nat, fwd \in Nat, fwd >= 1, NEW l, NEW s \in Streams,
         ssm[l] = Upto(fed),
         kernel \in Nat, kernel >= 1, family = "qwen" => kernel > 1,
         IF fed = 0 THEN conv[l] = None
         ELSE conv[l] # None /\ conv[l][s] = Window(fed, kernel - 1)
  PROVE  /\ ssm[l] \o NewPositions = Upto(fed + fwd)
         /\ ShortConvState(ConvInput(l, s)) = Window(fed + fwd, kernel - 1)
         /\ family = "qwen" => GatedDeltaConvState(ConvInput(l, s))
                                 = Window(fed + fwd, kernel - 1)
         /\ \A i \in 1..fwd :
              /\ SubSeq(ConvInput(l, s), i, i + kernel - 1)
                   = Window(fed + i, kernel)
              /\ ssm[l] \o SubSeq(NewPositions, 1, i) = Upto(fed + i)
<1> DEFINE n == fed
           m == fwd
           new == [i \in 1..m |-> n + i - 1]
           r == kernel - 1
<1>1. NewPositions = new
  BY DEF NewPositions
<1>2. r \in Nat /\ kernel = r + 1
  OBVIOUS
<1>3. ConvInput(l, s) = Window(n, r) \o new
  <2>1. CASE n = 0
    <3>1. [i \in 1..r |-> Zero] = Window(n, r)
      BY <1>2, <2>1, EmptyWindow
    <3> QED BY <1>1, <2>1, <3>1 DEF ConvInput
  <2>2. CASE n # 0
    BY <1>1, <2>2 DEF ConvInput
  <2> QED BY <2>1, <2>2
<1>4. ConvInput(l, s) = Window(n + m, r + m)
  BY <1>2, <1>3, AppendWindow
<1> DEFINE in == ConvInput(l, s)
<1>5. Len(in) = r + m
  BY <1>2, <1>4 DEF Window
<1>6. \A a \in 1..(r + m + 1), b \in 0..(r + m) :
        SubSeq(in, a, b) = Window(n + m - (r + m) + b, b - a + 1)
  <2> DEFINE N == n + m
             M == r + m
  <2>1. N \in Nat /\ M \in Nat /\ in = Window(N, M)
    BY <1>2, <1>4
  <2> HIDE DEF N, M, in
  <2>2. \A a \in 1..(M + 1), b \in 0..M :
          SubSeq(in, a, b) = Window(N - M + b, b - a + 1)
    BY <2>1, SubWindow
  <2> SUFFICES ASSUME NEW a \in 1..(r + m + 1), NEW b \in 0..(r + m)
               PROVE  SubSeq(in, a, b)
                        = Window(n + m - (r + m) + b, b - a + 1)
    OBVIOUS
  <2>3. a \in 1..(M + 1) /\ b \in 0..M
        /\ N - M + b = n + m - (r + m) + b
    BY DEF N, M
  <2>4. SubSeq(in, a, b) = Window(N - M + b, b - a + 1)
    BY <2>2, <2>3
  <2> QED BY <2>3, <2>4
<1> HIDE DEF in, r
<1>7. SubSeq(in, Len(in) - r + 1, Len(in)) = Window(n + m, r)
  <2>1. m + 1 \in 1..(r + m + 1) /\ r + m \in 0..(r + m)
    BY <1>2
  <2>2. SubSeq(in, m + 1, r + m)
          = Window(n + m - (r + m) + (r + m), (r + m) - (m + 1) + 1)
    BY <1>6, <2>1
  <2>3. n + m - (r + m) + (r + m) = n + m /\ (r + m) - (m + 1) + 1 = r
        /\ (r + m) - r + 1 = m + 1
    BY <1>2
  <2> QED BY <1>5, <2>2, <2>3
<1>8. ShortConvState(in) = Window(n + m, r)
  <2>1. CASE r = 0
    <3>1. Window(n + m, 0) = <<>>
      BY DEF Window
    <3> QED BY <1>2, <2>1, <3>1 DEF ShortConvState
  <2>2. CASE r # 0
    <3>1. kernel # 1 /\ kernel - 1 = r
      BY <1>2, <2>2
    <3> QED BY <1>7, <2>2, <3>1 DEF ShortConvState, LastRows
  <2> QED BY <2>1, <2>2
<1>9. family = "qwen" => GatedDeltaConvState(in) = Window(n + m, r)
  <2>1. kernel - 1 = r /\ (family = "qwen" => r # 0)
    BY <1>2
  <2> QED BY <1>7, <2>1 DEF GatedDeltaConvState, LastRows
<1>10. ASSUME NEW i \in 1..m
       PROVE  SubSeq(in, i, i + kernel - 1) = Window(n + i, kernel)
  <2>1. i \in 1..(r + m + 1) /\ i + r \in 0..(r + m) /\ i + kernel - 1 = i + r
        /\ n + m - (r + m) + (i + r) = n + i /\ (i + r) - i + 1 = kernel
    BY <1>2
  <2> QED BY <1>6, <2>1
<1>11. \A i \in 0..m : ssm[l] \o SubSeq(NewPositions, 1, i) = Upto(n + i)
  BY <1>1, AppendUpto
<1>12. SubSeq(NewPositions, 1, m) = NewPositions
  BY <1>1
<1>13. ssm[l] \o NewPositions = Upto(n + m)
  <2>1. m \in 0..m
    OBVIOUS
  <2> HIDE DEF n, m
  <2> QED BY <1>11, <1>12, <2>1
<1>14. \A i \in 1..fwd :
         /\ SubSeq(in, i, i + kernel - 1) = Window(n + i, kernel)
         /\ ssm[l] \o SubSeq(NewPositions, 1, i) = Upto(n + i)
  <2>1. fwd = m /\ \A i \in 1..m : i \in 0..m
    OBVIOUS
  <2> QED BY <1>10, <1>11, <2>1, Zenon
<1> QED BY <1>8, <1>9, <1>13, <1>14, Zenon DEF in, r

(* A cache's shape, layer by layer. *)
LEMMA HeldAt ==
  ASSUME NEW t, CachesHold(t), NEW l \in LayerIds
  PROVE  /\ AttentionLayer(l) => kv[l] = Keys(t[l])
         /\ ~AttentionLayer(l) =>
              /\ ssm[l] = Upto(t[l])
              /\ IF t[l] = 0 THEN conv[l] = None
                 ELSE conv[l] = [s \in Streams |-> Window(t[l], kernel - 1)]
  BY DEF CachesHold

(* The streams of a layer are not None. *)
LEMMA StreamsNotNone ==
  ASSUME NEW f, DOMAIN f = Streams
  PROVE  f # None
  BY DEF Streams, None

(* An attention layer takes the chunk. *)
LEMMA AttentionCall ==
  ASSUME ScalarInv, LoopInv, phase = "forward", UNCHANGED <<family, kernel>>,
         NEW t \in [LayerIds -> Positions], CachesHold(t), t[li] = fed,
         NEW u, u = [t EXCEPT ![li] = fed + fwd],
         AttentionLayer(li), Attend(li), UNCHANGED <<conv, ssm>>
  PROVE  CachesHold(u)' /\ CausalContext'
<1> DEFINE keys == ChunkKeys(li)
<1>1. fed \in Nat /\ fwd \in Nat /\ fwd >= 1 /\ li \in LayerIds
  BY ChunkType
<1>2. kv[li] = Keys(fed)
  BY <1>1, HeldAt
<1>3. /\ keys = Keys(fed + fwd)
      /\ \A i \in 1..fwd : /\ Rotary(li, i) = fed + i - 1
                           /\ Visible(keys, i) = Keys(fed + i)
  BY <1>1, <1>2, AttendFacts
<1>4. /\ kv' = [kv EXCEPT ![li] = keys]
      /\ view' = {[p |-> fed + i - 1, rotary |-> Rotary(li, i),
                   keys |-> Visible(keys, i)] : i \in 1..fwd}
  BY DEF Attend, ChunkKeys
<1> HIDE DEF keys
<1>5. \A l \in LayerIds : AttentionLayer(l)' = AttentionLayer(l)
  BY DEF AttentionLayer
<1>6. Streams' = Streams
  BY DEF Streams
<1>7. u[li] = fed + fwd /\ \A l \in LayerIds \ {li} : u[l] = t[l]
  BY <1>1
<1>8. kv' = [l \in LayerIds |-> IF AttentionLayer(l) THEN Keys(u[l])
                                ELSE <<>>]
  BY <1>1, <1>3, <1>4, <1>7 DEF CachesHold
<1>9. ssm' = [l \in LayerIds |-> IF AttentionLayer(l) THEN <<>>
                                 ELSE Upto(u[l])]
  BY <1>1, <1>7 DEF CachesHold
<1>10. conv' = [l \in LayerIds |->
         IF AttentionLayer(l) \/ u[l] = 0 THEN None
         ELSE [s \in Streams |-> Window(u[l], kernel - 1)]]
  BY <1>1, <1>7 DEF CachesHold
<1>11. CachesHold(u)'
  <2>1. kernel' = kernel
    OBVIOUS
  <2>2. (kv = [l \in LayerIds |-> IF AttentionLayer(l) THEN Keys(u[l])
                                  ELSE <<>>])'
    BY <1>5, <1>8
  <2>3. (ssm = [l \in LayerIds |-> IF AttentionLayer(l) THEN <<>>
                                   ELSE Upto(u[l])])'
    BY <1>5, <1>9
  <2>4. (conv = [l \in LayerIds |->
           IF AttentionLayer(l) \/ u[l] = 0 THEN None
           ELSE [s \in Streams |-> Window(u[l], kernel - 1)]])'
    BY <1>5, <1>6, <1>10, <2>1
  <2> QED BY <2>2, <2>3, <2>4 DEF CachesHold
<1>12. CausalContext'
  <2> SUFFICES ASSUME NEW v \in view'
               PROVE  /\ "keys" \in DOMAIN v /\ v.rotary = v.p
                      /\ v.keys = [i \in 1..(v.p + 1) |-> <<i - 1, i - 1>>]
    BY DEF CausalContext
  <2>1. PICK i \in 1..fwd :
          v = [p |-> fed + i - 1, rotary |-> Rotary(li, i),
               keys |-> Visible(keys, i)]
    BY <1>4
  <2>2. v.p = fed + i - 1 /\ v.rotary = fed + i - 1 /\ v.keys = Keys(fed + i)
        /\ "keys" \in DOMAIN v
    BY <1>3, <2>1
  <2>3. v.p + 1 = fed + i
    BY <1>1, <2>2
  <2> QED BY <2>2, <2>3 DEF Keys
<1> QED BY <1>11, <1>12

(* A linear layer takes the chunk. *)
LEMMA LinearCall ==
  ASSUME ScalarInv, LoopInv, phase = "forward", UNCHANGED <<family, kernel>>,
         NEW t \in [LayerIds -> Positions], CachesHold(t), t[li] = fed,
         NEW u, u = [t EXCEPT ![li] = fed + fwd],
         ~AttentionLayer(li),
         BailingKDA(li) \/ (family = "qwen" /\ GatedDeltaNet(li))
  PROVE  CachesHold(u)' /\ CausalContext'
<1>1. fed \in Nat /\ fwd \in Nat /\ fwd >= 1 /\ li \in LayerIds
      /\ kernel \in Nat /\ kernel >= 1
  BY ChunkType
<1>2. /\ ssm[li] = Upto(fed)
      /\ IF fed = 0 THEN conv[li] = None
         ELSE conv[li] = [s \in Streams |-> Window(fed, kernel - 1)]
  <2>1. /\ ssm[li] = Upto(t[li])
        /\ IF t[li] = 0 THEN conv[li] = None
           ELSE conv[li] = [s \in Streams |-> Window(t[li], kernel - 1)]
    BY <1>1, HeldAt, Zenon
  <2> QED BY <2>1
<1>3. ASSUME NEW s \in Streams
      PROVE  /\ ssm[li] \o NewPositions = Upto(fed + fwd)
             /\ ShortConvState(ConvInput(li, s))
                  = Window(fed + fwd, kernel - 1)
             /\ family = "qwen" => GatedDeltaConvState(ConvInput(li, s))
                                     = Window(fed + fwd, kernel - 1)
             /\ \A i \in 1..fwd :
                  /\ SubSeq(ConvInput(li, s), i, i + kernel - 1)
                       = Window(fed + i, kernel)
                  /\ ssm[li] \o SubSeq(NewPositions, 1, i) = Upto(fed + i)
  <2>1. family = "qwen" => kernel > 1
    BY DEF ScalarInv
  <2>2. IF fed = 0 THEN conv[li] = None
        ELSE conv[li] # None /\ conv[li][s] = Window(fed, kernel - 1)
    <3>1. fed # 0 => DOMAIN conv[li] = Streams
                     /\ conv[li][s] = Window(fed, kernel - 1)
      BY <1>2
    <3> QED BY <1>2, <3>1, StreamsNotNone
  <2> QED BY <1>1, <1>2, <2>1, <2>2, LinearFacts
<1>4. PICK s0 \in Streams : TRUE
  BY DEF Streams
<1>5. /\ conv' = [conv EXCEPT ![li] =
                    [s \in Streams |-> Window(fed + fwd, kernel - 1)]]
      /\ ssm' = [ssm EXCEPT ![li] = Upto(fed + fwd)]
      /\ view' = {LinearView(li, i) : i \in 1..fwd} /\ kv' = kv
  <2>1. ssm[li] \o NewPositions = Upto(fed + fwd)
    BY <1>3, <1>4
  <2>2. CASE BailingKDA(li)
    <3>1. [s \in Streams |-> ShortConvState(ConvInput(li, s))]
            = [s \in Streams |-> Window(fed + fwd, kernel - 1)]
      BY <1>3
    <3> QED BY <1>1, <2>1, <2>2, <3>1 DEF BailingKDA, CachesHold
  <2>3. CASE GatedDeltaNet(li) /\ family = "qwen"
    <3>1. [s \in Streams |-> GatedDeltaConvState(ConvInput(li, s))]
            = [s \in Streams |-> Window(fed + fwd, kernel - 1)]
      BY <1>3, <2>3
    <3> QED BY <1>1, <2>1, <2>3, <3>1 DEF GatedDeltaNet, CachesHold
  <2> QED BY <2>2, <2>3
<1>6. \A l \in LayerIds : AttentionLayer(l)' = AttentionLayer(l)
  BY DEF AttentionLayer
<1>7. Streams' = Streams
  BY DEF Streams
<1>8. /\ u[li] = fed + fwd /\ u[li] # 0
      /\ \A l \in LayerIds \ {li} : u[l] = t[l]
  BY <1>1
<1>9. kv' = [l \in LayerIds |-> IF AttentionLayer(l) THEN Keys(u[l])
                                ELSE <<>>]
  BY <1>1, <1>5, <1>8 DEF CachesHold
<1>10. ssm' = [l \in LayerIds |-> IF AttentionLayer(l) THEN <<>>
                                  ELSE Upto(u[l])]
  BY <1>1, <1>5, <1>8 DEF CachesHold
<1>11. conv' = [l \in LayerIds |->
         IF AttentionLayer(l) \/ u[l] = 0 THEN None
         ELSE [s \in Streams |-> Window(u[l], kernel - 1)]]
  BY <1>1, <1>5, <1>8 DEF CachesHold
<1>12. CachesHold(u)'
  BY <1>6, <1>7, <1>9, <1>10, <1>11 DEF CachesHold
<1>13. CausalContext'
  <2> SUFFICES ASSUME NEW v \in view'
               PROVE  /\ "keys" \notin DOMAIN v
                      /\ v.prefix = [i \in 1..(v.p + 1) |-> i - 1]
                      /\ \A s \in DOMAIN v.windows : v.windows[s] =
                           [j \in 1..kernel |->
                              IF v.p - kernel + j < 0 THEN Zero
                              ELSE v.p - kernel + j]
    BY DEF CausalContext
  <2>1. PICK i \in 1..fwd : v = LinearView(li, i)
    BY <1>5
  <2>2. /\ v.p = fed + i - 1 /\ "keys" \notin DOMAIN v
        /\ v.windows = [s \in Streams |->
                          SubSeq(ConvInput(li, s), i, i + kernel - 1)]
        /\ v.prefix = ssm[li] \o SubSeq(NewPositions, 1, i)
    BY <2>1 DEF LinearView
  <2>3. v.p + 1 = fed + i
    BY <1>1, <2>2
  <2>4. v.prefix = Upto(fed + i)
    BY <1>3, <1>4, <2>2
  <2>5. \A s \in DOMAIN v.windows : v.windows[s] = Window(fed + i, kernel)
    BY <1>3, <2>2
  <2>6. Window(fed + i, kernel) =
          [j \in 1..kernel |-> IF v.p - kernel + j < 0 THEN Zero
                               ELSE v.p - kernel + j]
    <3>1. v.p \in Nat
      BY <1>1, <2>2
    <3> QED BY <1>1, <2>3, <3>1, WindowAt
  <2> QED BY <2>2, <2>3, <2>4, <2>5, <2>6 DEF Upto
<1> QED BY <1>12, <1>13

(* A layer of either family takes the chunk and computes every position of *)
(* it from exactly the positions before.                                    *)
LEMMA LayerTakesChunk ==
  ASSUME ScalarInv, LoopInv, phase = "forward", UNCHANGED <<family, kernel>>,
         NEW t \in [LayerIds -> Positions], CachesHold(t), t[li] = fed,
         NEW u, u = [t EXCEPT ![li] = fed + fwd],
         IF family = "ling" THEN BailingDecoderLayer(li)
         ELSE QwenDecoderLayer(li)
  PROVE  CachesHold(u)' /\ CausalContext'
<1>1. CASE family = "ling" /\ AttentionLayer(li)
  BY <1>1, AttentionCall DEF AttentionLayer, BailingDecoderLayer, BailingMLA
<1>2. CASE family = "ling" /\ ~AttentionLayer(li)
  <2>1. BailingKDA(li)
    BY <1>2 DEF AttentionLayer, BailingDecoderLayer
  <2> QED BY <1>2, <2>1, LinearCall
<1>3. CASE family # "ling" /\ AttentionLayer(li)
  BY <1>3, AttentionCall DEF AttentionLayer, QwenDecoderLayer, QwenAttention
<1>4. CASE family # "ling" /\ ~AttentionLayer(li)
  <2>1. GatedDeltaNet(li) /\ family = "qwen"
    BY <1>4, FamilyAssumption
       DEF AttentionLayer, QwenDecoderLayer, ScalarInv
  <2> QED BY <1>4, <2>1, LinearCall
<1> QED BY <1>1, <1>2, <1>3, <1>4

-----------------------------------------------------------------------------
(* The steps of the engine.                                                 *)

(* None is neither a vector nor logits. *)
LEMMA NoneIsNothing ==
  /\ None \notin LogitSet
  /\ \A x, y : [at |-> x, vec |-> y] # None
<1>1. 0 \in Vocab
  BY VocabAssumption DEF Vocab
<1>2. \A f \in [Vocab -> Int] : f # None
  BY <1>1 DEF None
<1>3. \A x, y : [at |-> x, vec |-> y] # None
  BY DEF None
<1> QED BY <1>2, <1>3, LogitAssumption

(* The layer after the last is the first one of the next forward. *)
LEMMA Wraps == \A n \in Nat : \A i \in 0..(n - 1) :
                 (i + 1) % n = IF i = n - 1 THEN 0 ELSE i + 1
  OBVIOUS

(* The engine starts with empty caches. *)
LEMMA EmptyHold ==
  /\ kv = [l \in LayerIds |-> <<>>] /\ conv = [l \in LayerIds |-> None]
     /\ ssm = [l \in LayerIds |-> <<>>]
     => CachesHold([l \in LayerIds |-> 0])
  /\ [l \in LayerIds |-> 0] \in [LayerIds -> Positions]
<1>1. Keys(0) = <<>> /\ Upto(0) = <<>>
  BY DEF Keys, Upto
<1>2. 0 \in Positions
  BY LoopAssumption, PromptAssumption DEF Positions, MaxLen
<1> QED BY <1>1, <1>2 DEF CachesHold

(* The initial states. *)
LEMMA InitIInv == Init => IInv
<1> SUFFICES ASSUME Init PROVE IInv
  OBVIOUS
<1> USE LayerAssumption, LoopAssumption, PromptAssumption DEF Init
<1>1. ScalarInv
  <2>1. 0 \in LayerIds /\ 0 \in Positions /\ <<>> \in Seq(Vocab)
    BY DEF LayerIds, Positions, MaxLen
  <2> QED BY <2>1 DEF ScalarInv
<1>2. LoopInv /\ CausalContext /\ FaultInv
  BY DEF LoopInv, CausalContext, FaultInv
<1>3. CacheInv
  BY EmptyHold DEF CacheInv
<1>4. FiniteLogits
  BY FS_EmptySet DEF FiniteLogits
<1> QED BY <1>1, <1>2, <1>3, <1>4 DEF IInv

(* One layer of a forward, with an overflow or an exception. *)
LEMMA LayerCallIInv ==
  ASSUME IInv, LayerCall
  PROVE  IInv'
<1> USE DEF IInv
<1>1. /\ phase = "forward"
      /\ IF family = "ling" THEN BailingDecoderLayer(li)
         ELSE QwenDecoderLayer(li)
      /\ \/ /\ li' = (li + 1) % LayerCount
            /\ phase' = IF li = LayerCount - 1 THEN "head" ELSE "forward"
         \/ li' = 0 /\ phase' = "idle"
      /\ UNCHANGED <<family, kernel, clip, req, gen, prompt, prefilling, fed,
                     fwd, lastLogits, logits, hist, out, drawn>>
  BY DEF LayerCall, model
<1>2. PICK overflow \in {"none", "output", "state"} :
        /\ faulted => overflow = "none"
        /\ faulted' = (faulted \/ overflow # "none")
        /\ poisoned' = IF hidden = "nan" \/ overflow = "state"
                       THEN poisoned \cup {li} ELSE poisoned
        /\ hidden' = Clipped(IF overflow # "none" \/ li \in poisoned'
                             THEN "nan" ELSE hidden)
  BY DEF LayerCall
<1>3. /\ fed \in Nat /\ fwd \in Nat /\ fwd >= 1 /\ fed + fwd \in Positions
      /\ li \in LayerIds
  BY <1>1, ChunkType
<1>4. li' = IF li = LayerCount - 1 \/ phase' = "idle" THEN 0 ELSE li + 1
  BY <1>1, <1>3, LayerAssumption, Wraps DEF LayerIds
<1>5. ScalarInv'
  <2>1. li' \in LayerIds
    BY <1>3, <1>4, LayerAssumption DEF LayerIds
  <2>2. poisoned' \in SUBSET LayerIds /\ faulted' \in BOOLEAN
    BY <1>2, <1>3 DEF ScalarInv
  <2>3. hidden' \in {"ok", "nan"}
    BY <1>2 DEF ScalarInv, Clipped
  <2>4. phase' \in {"idle", "forward", "head", "sample"}
    BY <1>1
  <2> QED BY <1>1, <2>1, <2>2, <2>3, <2>4 DEF ScalarInv
<1>6. LoopInv'
  BY <1>1 DEF LoopInv
<1>7. PICK t \in [LayerIds -> Positions] :
        CachesHold(t) /\ \A l \in LayerIds : t[l] = Taken(l)
  BY <1>1 DEF CacheInv
<1>8. t[li] = fed
  <2>1. ~(li < li)
    BY <1>3 DEF LayerIds
  <2> QED BY <1>1, <1>3, <1>7, <2>1 DEF Taken
<1>9. PICK u \in [LayerIds -> Positions] : u = [t EXCEPT ![li] = fed + fwd]
  <2>1. [t EXCEPT ![li] = fed + fwd] \in [LayerIds -> Positions]
    BY <1>3, <1>7
  <2> QED BY <2>1
<1>10. CachesHold(u)' /\ CausalContext'
  BY <1>1, <1>7, <1>8, <1>9, LayerTakesChunk
<1>11. CacheInv'
  <2>1. ASSUME phase' # "idle", NEW l \in LayerIds
        PROVE  u[l] = Taken(l)'
    <3>1. phase' = IF li = LayerCount - 1 THEN "head" ELSE "forward"
      BY <1>1, <2>1
    <3>2. CASE l = li
      <4>1. u[l] = fed + fwd
        BY <1>3, <1>7, <1>9, <3>2
      <4>2. phase' = "head" \/ l < li'
        BY <1>3, <1>4, <2>1, <3>1, <3>2 DEF LayerIds
      <4> QED BY <1>1, <3>1, <4>1, <4>2 DEF Taken
    <3>3. CASE l # li
      <4>1. u[l] = t[l] /\ t[l] = IF l < li THEN fed + fwd ELSE fed
        BY <1>1, <1>7, <1>9, <3>3 DEF Taken
      <4>2. IF phase' = "head" THEN l < li ELSE l < li' <=> l < li
        BY <1>3, <1>4, <2>1, <3>1, <3>3, LayerAssumption DEF LayerIds
      <4> QED BY <1>1, <3>1, <4>1, <4>2 DEF Taken
    <3> QED BY <3>2, <3>3
  <2> QED BY <1>10, <2>1 DEF CacheInv
<1>12. FaultInv' /\ FiniteLogits'
  <2> SUFFICES ASSUME clip
               PROVE  /\ hidden' = "ok" /\ (~faulted' => poisoned' = {})
                      /\ Cardinality(poisoned') <= 1
    BY <1>1 DEF FaultInv, FiniteLogits
  <2>1. hidden' = "ok"
    BY <1>2 DEF Clipped
  <2>2. hidden = "ok" /\ (~faulted => poisoned = {})
        /\ Cardinality(poisoned) <= 1
    BY DEF FaultInv, FiniteLogits
  <2>3. CASE overflow = "state"
    <3>1. ~faulted /\ faulted' /\ poisoned' = {li}
      BY <1>2, <2>2, <2>3
    <3>2. Cardinality({li}) = 1
      BY FS_Singleton
    <3> QED BY <2>1, <3>1, <3>2
  <2>4. CASE overflow # "state"
    <3>1. poisoned' = poisoned /\ (faulted => faulted')
      BY <1>2, <2>2, <2>4
    <3> QED BY <2>1, <2>2, <3>1
  <2> QED BY <2>3, <2>4
<1> QED BY <1>5, <1>6, <1>10, <1>11, <1>12

(* The next chunk of a prompt. *)
ChunkSize(ids) == IF Len(ids) < PrefillChunk THEN Len(ids) ELSE PrefillChunk

(* A chunk is cut off the front of what is left. *)
LEMMA ChunkCut ==
  ASSUME NEW ids \in Seq(Vocab), ids # <<>>
  PROVE  LET n == ChunkSize(ids)
             rest == SubSeq(ids, n + 1, Len(ids))
         IN  /\ n \in 1..PrefillChunk /\ n <= Len(ids)
             /\ rest \in Seq(Vocab) /\ Len(rest) = Len(ids) - n
             /\ Len(ids) \in Nat
<1> DEFINE n == ChunkSize(ids)
           rest == SubSeq(ids, n + 1, Len(ids))
<1>1. Len(ids) \in Nat /\ Len(ids) >= 1
  BY EmptySeq, LenProperties
<1>2. n \in 1..PrefillChunk /\ n <= Len(ids)
  BY <1>1, LoopAssumption DEF ChunkSize
<1> HIDE DEF n
<1>3. \A i \in (n + 1)..Len(ids) : ids[i] \in Vocab
  BY <1>1, <1>2, ElementOfSeq
<1>4. rest \in Seq(Vocab) /\ Len(rest) = Len(ids) - n
  BY <1>1, <1>2, <1>3
<1> QED BY <1>1, <1>2, <1>4 DEF n

(* A forward begins when every layer has taken what was fed. *)
LEMMA ForwardCaches ==
  ASSUME CacheInv, phase # "idle", UNCHANGED <<family, kernel, kv, conv, ssm>>,
         \A l \in LayerIds : Taken(l) = fed',
         li' = 0 \/ phase' # "forward", phase' # "head"
  PROVE  CacheInv'
<1>1. PICK t \in [LayerIds -> Positions] :
        CachesHold(t) /\ \A l \in LayerIds : t[l] = Taken(l)
  BY DEF CacheInv
<1>2. CachesHold(t)'
  <2>1. Streams' = Streams /\ \A l \in LayerIds :
          AttentionLayer(l)' = AttentionLayer(l)
    BY DEF Streams, AttentionLayer
  <2> QED BY <1>1, <2>1 DEF CachesHold
<1>3. \A l \in LayerIds : t[l] = Taken(l)'
  <2>1. \A l \in LayerIds : ~(l < 0)
    BY LayerAssumption DEF LayerIds
  <2> QED BY <1>1, <2>1 DEF Taken
<1> QED BY <1>2, <1>3 DEF CacheInv

(* A request starts from a reset. *)
LEMMA StartRequestIInv ==
  ASSUME IInv, StartRequest
  PROVE  IInv'
<1> USE DEF IInv
<1>1. /\ kv' = [l \in LayerIds |-> <<>>] /\ conv' = [l \in LayerIds |-> None]
      /\ ssm' = [l \in LayerIds |-> <<>>] /\ poisoned' = {}
      /\ fed' = 0 /\ lastLogits' = None /\ logits' = None /\ view' = {}
      /\ out' = 0 /\ faulted' = FALSE /\ gen' \in GenConfigs
      /\ req' = req + 1 /\ req < Requests
      /\ UNCHANGED <<family, kernel, clip>>
  BY DEF StartRequest, EmptyCaches, model
<1>2. PICK ids \in Prompts :
        /\ hist' = {ids[i] : i \in 1..Len(ids)}
        /\ \/ /\ Len(ids) > 1 /\ prefilling' = TRUE
              /\ prompt' = SubSeq(ids, ChunkSize(ids) + 1, Len(ids))
              /\ Forward(ChunkSize(ids))
           \/ /\ Len(ids) = 1 /\ prefilling' = FALSE
              /\ prompt' = <<>> /\ Forward(1)
           \/ /\ Len(ids) = 0 /\ prefilling' = FALSE /\ prompt' = <<>>
              /\ phase' = "idle" /\ UNCHANGED <<fwd, li, hidden>>
  BY DEF StartRequest, ChunkSize
<1>3. /\ ids \in Seq(Vocab) /\ Len(ids) <= MaxPrompt /\ MaxPrompt \in Nat
      /\ Len(ids) \in Nat
  BY PromptAssumption, LenProperties
<1>4. /\ prompt' \in Seq(Vocab) /\ prefilling' \in BOOLEAN
      /\ phase' \in {"forward", "idle"}
      /\ fwd' \in 0..PrefillChunk /\ li' \in LayerIds
      /\ hidden' \in {"ok", "nan"} /\ (clip => hidden' = "ok")
      /\ phase' = "forward" =>
           fwd' >= 1 /\ fwd' + Len(prompt') <= MaxPrompt /\ li' = 0
  <2>0. 0 \in LayerIds /\ PrefillChunk \in Nat /\ PrefillChunk >= 1
        /\ <<>> \in Seq(Vocab) /\ Len(<<>>) = 0
    BY LayerAssumption, LoopAssumption DEF LayerIds
  <2>1. CASE Len(ids) > 1 /\ prefilling' = TRUE
             /\ prompt' = SubSeq(ids, ChunkSize(ids) + 1, Len(ids))
             /\ Forward(ChunkSize(ids))
    <3>1. ids # <<>>
      BY <2>1
    <3>2. /\ ChunkSize(ids) \in 1..PrefillChunk /\ ChunkSize(ids) <= Len(ids)
          /\ prompt' \in Seq(Vocab)
          /\ Len(prompt') = Len(ids) - ChunkSize(ids)
      BY <1>3, <2>1, <3>1, ChunkCut
    <3>3. /\ fwd' = ChunkSize(ids) /\ li' = 0 /\ hidden' = "ok"
          /\ phase' = "forward" /\ prefilling' = TRUE
      BY <2>1 DEF Forward
    <3>4. /\ fwd' \in 0..PrefillChunk /\ fwd' >= 1
          /\ fwd' + Len(prompt') <= MaxPrompt
      BY <1>3, <2>0, <3>2, <3>3
    <3> QED BY <2>0, <3>2, <3>3, <3>4
  <2>2. CASE Len(ids) = 1 /\ prefilling' = FALSE /\ prompt' = <<>>
             /\ Forward(1)
    <3>1. /\ fwd' = 1 /\ li' = 0 /\ hidden' = "ok" /\ phase' = "forward"
          /\ prompt' = <<>> /\ prefilling' = FALSE
      BY <2>2 DEF Forward
    <3>2. Len(prompt') = 0 /\ prompt' \in Seq(Vocab)
      BY <2>0, <3>1
    <3>3. fwd' \in 0..PrefillChunk /\ fwd' >= 1 /\ 1 <= MaxPrompt
      BY <1>3, <2>0, <2>2, <3>1
    <3>4. fwd' + Len(prompt') <= MaxPrompt
      BY <1>3, <3>1, <3>2, <3>3
    <3> QED BY <2>0, <3>1, <3>2, <3>3, <3>4
  <2>3. CASE Len(ids) = 0 /\ prefilling' = FALSE /\ prompt' = <<>>
             /\ phase' = "idle" /\ UNCHANGED <<fwd, li, hidden>>
    BY <2>0, <2>3 DEF ScalarInv, FaultInv
  <2> QED BY <1>2, <2>1, <2>2, <2>3
<1>5. ScalarInv'
  <2>1. hist' \in SUBSET Vocab
    BY <1>2, <1>3, ElementOfSeq
  <2>2. fed' \in Positions /\ out' \in 0..MaxNew /\ req' \in 0..Requests
    BY <1>1, LoopAssumption, PromptAssumption
       DEF ScalarInv, Positions, MaxLen
  <2> QED BY <1>1, <1>4, <2>1, <2>2 DEF ScalarInv
<1>6. LoopInv'
  <2>1. prompt' \in Seq(Vocab) => Len(prompt') \in Nat
    BY LenProperties
  <2> QED BY <1>1, <1>3, <1>4, <2>1 DEF LoopInv
<1>7. CacheInv'
  <2> DEFINE t == [l \in LayerIds |-> 0]
  <2>1. CachesHold(t)' /\ t \in [LayerIds -> Positions]
    <3>1. Keys(0) = <<>> /\ Upto(0) = <<>>
      BY DEF Keys, Upto
    <3> QED BY <1>1, <3>1, EmptyHold DEF CachesHold
  <2>2. phase' # "idle" => \A l \in LayerIds : t[l] = Taken(l)'
    <3>1. \A l \in LayerIds : ~(l < 0)
      BY LayerAssumption DEF LayerIds
    <3> QED BY <1>1, <1>4, <3>1 DEF Taken
  <2> HIDE DEF t
  <2> QED BY <2>1, <2>2 DEF CacheInv
<1>8. CausalContext' /\ FaultInv'
  BY <1>1, <1>4 DEF CausalContext, FaultInv
<1>9. FiniteLogits'
  BY <1>1, FS_EmptySet DEF FiniteLogits
<1> QED BY <1>5, <1>6, <1>7, <1>8, <1>9

(* What the head computes. *)
LEMMA HeadFacts ==
  ASSUME ScalarInv, LoopInv, FaultInv, phase = "head",
         NEW x \in HeadLogits
  PROVE  /\ x \in LogitsType /\ x # None /\ x.at = fed + fwd - 1
         /\ clip => x.vec # None
<1>1. fed + fwd - 1 \in Positions
  BY ChunkType
<1>2. x.at = fed + fwd - 1 /\ x = [at |-> x.at, vec |-> x.vec]
      /\ x.vec \in IF hidden = "nan" THEN {None} ELSE LogitSet
  BY DEF HeadLogits
<1>3. x \in LogitsType
  BY <1>1, <1>2 DEF LogitsType
<1>4. x # None
  BY <1>2, NoneIsNothing
<1>5. clip => x.vec # None
  BY <1>2, NoneIsNothing DEF FaultInv
<1> QED BY <1>2, <1>3, <1>4, <1>5

(* The end of a prompt forward. *)
LEMMA PromptForwardEndIInv ==
  ASSUME IInv, PromptForwardEnd
  PROVE  IInv'
<1> USE DEF IInv
<1>1. /\ phase = "head" /\ out = 0 /\ lastLogits' \in HeadLogits
      /\ fed' = fed + fwd
      /\ UNCHANGED <<family, kernel, clip, req, gen, kv, conv, ssm, poisoned,
                     view, hist, out, drawn, faulted>>
  BY DEF PromptForwardEnd, model, caches
<1>2. \/ /\ prompt # <<>>
         /\ prompt' = SubSeq(prompt, ChunkSize(prompt) + 1, Len(prompt))
         /\ Forward(ChunkSize(prompt)) /\ UNCHANGED <<prefilling, logits>>
      \/ /\ prompt = <<>> /\ prefilling' = FALSE /\ phase' = "sample"
         /\ logits' = lastLogits' /\ UNCHANGED <<prompt, fwd, li, hidden>>
  BY DEF PromptForwardEnd, ChunkSize
<1>3. /\ fed \in Nat /\ fwd \in Nat /\ fwd >= 1 /\ fed + fwd \in Positions
  BY <1>1, ChunkType
<1>4. /\ lastLogits' \in LogitsType /\ lastLogits' # None
      /\ lastLogits'.at = fed + fwd - 1 /\ (clip => lastLogits'.vec # None)
  BY <1>1, HeadFacts
<1>5. fed + fwd + Len(prompt) <= MaxPrompt /\ prompt \in Seq(Vocab)
      /\ Len(prompt) \in Nat /\ MaxPrompt \in Nat
  BY <1>1, PromptAssumption, LenProperties DEF LoopInv, ScalarInv
<1>6. CausalContext'
  BY <1>1 DEF CausalContext
<1>7. \A l \in LayerIds : Taken(l) = fed'
  BY <1>1 DEF Taken
<1>8. CASE prompt # <<>>
  <2>1. /\ ChunkSize(prompt) \in 1..PrefillChunk
        /\ ChunkSize(prompt) <= Len(prompt) /\ prompt' \in Seq(Vocab)
        /\ Len(prompt') = Len(prompt) - ChunkSize(prompt)
    BY <1>2, <1>5, <1>8, ChunkCut
  <2>2. /\ fwd' = ChunkSize(prompt) /\ li' = 0 /\ hidden' = "ok"
        /\ phase' = "forward" /\ UNCHANGED <<prefilling, logits>>
    BY <1>2, <1>8 DEF Forward
  <2>3. fwd' >= 1 /\ fwd' \in 0..PrefillChunk
        /\ fed' + fwd' + Len(prompt') <= MaxPrompt
    BY <1>1, <1>3, <1>5, <2>1, <2>2, LoopAssumption
  <2>4. ScalarInv'
    <3>1. li' \in LayerIds
      BY <2>2, LayerAssumption DEF LayerIds
    <3> QED BY <1>1, <1>3, <1>4, <2>1, <2>2, <2>3, <3>1 DEF ScalarInv
  <2>5. LoopInv'
    BY <1>1, <1>5, <2>2, <2>3 DEF LoopInv
  <2>6. CacheInv'
    BY <1>1, <1>7, <2>2, ForwardCaches
  <2>7. FaultInv' /\ FiniteLogits'
    BY <1>1, <1>4, <2>2 DEF FaultInv, FiniteLogits
  <2> QED BY <1>6, <2>4, <2>5, <2>6, <2>7
<1>9. CASE prompt = <<>>
  <2>1. /\ prefilling' = FALSE /\ phase' = "sample" /\ logits' = lastLogits'
        /\ UNCHANGED <<prompt, fwd, li, hidden>>
    BY <1>2, <1>9
  <2>2. ScalarInv'
    BY <1>1, <1>3, <1>4, <2>1 DEF ScalarInv
  <2>3. LoopInv'
    <3>1. fed' >= 1 /\ fed' <= MaxPrompt + out' /\ fed' - 1 = fed + fwd - 1
      BY <1>1, <1>3, <1>5
    <3> QED BY <1>4, <1>9, <2>1, <3>1 DEF LoopInv
  <2>4. CacheInv'
    BY <1>1, <1>7, <2>1, ForwardCaches
  <2>5. FaultInv' /\ FiniteLogits'
    BY <1>1, <1>4, <2>1 DEF FaultInv, FiniteLogits
  <2> QED BY <1>6, <2>2, <2>3, <2>4, <2>5
<1> QED BY <1>8, <1>9

(* The end of a decoding step. *)
LEMMA StepEndIInv ==
  ASSUME IInv, StepEnd
  PROVE  IInv'
<1> USE DEF IInv
<1>1. /\ phase = "head" /\ out > 0 /\ logits' \in HeadLogits
      /\ fed' = fed + 1 /\ phase' = "sample"
      /\ UNCHANGED <<family, kernel, clip, req, gen, prompt, prefilling, fwd,
                     li, hidden, kv, conv, ssm, poisoned, view, lastLogits,
                     hist, out, drawn, faulted>>
  BY DEF StepEnd, model, caches
<1>2. /\ fed \in Nat /\ fwd \in Nat /\ fwd >= 1 /\ fed + fwd \in Positions
  BY <1>1, ChunkType
<1>3. fwd = 1 /\ prompt = <<>> /\ fed + fwd + Len(prompt) <= MaxPrompt + out
  BY <1>1 DEF LoopInv
<1>4. /\ logits' \in LogitsType /\ logits' # None
      /\ logits'.at = fed + fwd - 1 /\ (clip => logits'.vec # None)
  BY <1>1, HeadFacts
<1>5. ScalarInv'
  BY <1>1, <1>2, <1>3, <1>4 DEF ScalarInv
<1>6. LoopInv'
  <2>1. Len(prompt) = 0 /\ MaxPrompt \in Nat /\ out \in Nat
    BY <1>3, PromptAssumption, LoopAssumption DEF ScalarInv
  <2>2. fed' >= 1 /\ fed' <= MaxPrompt + out' /\ fed' - 1 = fed + fwd - 1
    BY <1>1, <1>2, <1>3, <2>1
  <2> QED BY <1>1, <1>3, <1>4, <2>2 DEF LoopInv
<1>7. CacheInv'
  <2>1. \A l \in LayerIds : Taken(l) = fed'
    BY <1>1, <1>3 DEF Taken
  <2> QED BY <1>1, <2>1, ForwardCaches
<1>8. CausalContext'
  BY <1>1 DEF CausalContext
<1>9. FaultInv' /\ FiniteLogits'
  BY <1>1, <1>4 DEF FaultInv, FiniteLogits
<1> QED BY <1>5, <1>6, <1>7, <1>8, <1>9

(* An idle engine keeps the caches of the last request. *)
LEMMA IdleCaches ==
  ASSUME CacheInv, UNCHANGED <<family, kernel, kv, conv, ssm>>,
         phase' = "idle"
  PROVE  CacheInv'
<1>1. PICK t \in [LayerIds -> Positions] : CachesHold(t)
  BY DEF CacheInv
<1>2. CachesHold(t)'
  <2>1. Streams' = Streams /\ \A l \in LayerIds :
          AttentionLayer(l)' = AttentionLayer(l)
    BY DEF Streams, AttentionLayer
  <2> QED BY <1>1, <2>1 DEF CachesHold
<1> QED BY <1>2 DEF CacheInv

(* An iteration of the generate loop. *)
LEMMA GenerateStepIInv ==
  ASSUME IInv, GenerateStep
  PROVE  IInv'
<1> USE DEF IInv
<1>1. /\ phase = "sample" /\ out < MaxNew
      /\ UNCHANGED <<family, kernel, clip, req, gen, prompt, prefilling, fed,
                     kv, conv, ssm, poisoned, view, lastLogits, logits,
                     faulted>>
  BY DEF GenerateStep, model, caches
<1>2. PICK tid \in Choices :
        IF tid \in Eos
        THEN phase' = "idle" /\ UNCHANGED <<hist, out, fwd, li, hidden>>
        ELSE hist' = hist \cup {tid} /\ out' = out + 1 /\ Forward(1)
  BY DEF GenerateStep
<1>3. /\ prompt = <<>> /\ fed >= 1 /\ fed <= MaxPrompt + out
      /\ logits # None /\ logits.at = fed - 1
  BY <1>1 DEF LoopInv
<1>4. tid \in Vocab
  <2>1. logits \in LogitsType
    BY <1>3 DEF ScalarInv
  <2> QED BY <1>2, <2>1, ChoicesInVocab
<1>5. CausalContext'
  BY <1>1 DEF CausalContext
<1>6. CASE tid \in Eos
  <2>1. phase' = "idle" /\ UNCHANGED <<hist, out, fwd, li, hidden>>
    BY <1>2, <1>6
  <2>2. ScalarInv'
    BY <1>1, <2>1 DEF ScalarInv
  <2>3. LoopInv'
    BY <2>1 DEF LoopInv
  <2>4. CacheInv'
    BY <1>1, <2>1, IdleCaches
  <2>5. FaultInv' /\ FiniteLogits'
    BY <1>1, <2>1 DEF FaultInv, FiniteLogits
  <2> QED BY <1>5, <2>2, <2>3, <2>4, <2>5
<1>7. CASE tid \notin Eos
  <2>1. /\ hist' = hist \cup {tid} /\ out' = out + 1 /\ fwd' = 1 /\ li' = 0
        /\ hidden' = "ok" /\ phase' = "forward"
    BY <1>2, <1>7 DEF Forward
  <2>2. out \in Nat /\ out' \in 0..MaxNew /\ fed \in Nat /\ MaxPrompt \in Nat
    BY <1>1, <2>1, LoopAssumption, PromptAssumption
       DEF ScalarInv, Positions, MaxLen
  <2>3. ScalarInv'
    <3>1. li' \in LayerIds /\ fwd' \in 0..PrefillChunk
      BY <2>1, LayerAssumption, LoopAssumption DEF LayerIds
    <3>2. hist' \in SUBSET Vocab
      BY <1>4, <2>1 DEF ScalarInv
    <3> QED BY <1>1, <2>1, <2>2, <3>1, <3>2 DEF ScalarInv
  <2>4. LoopInv'
    <3>1. Len(prompt') = 0
      BY <1>1, <1>3
    <3>2. fed' + fwd' + Len(prompt') <= MaxPrompt + out' /\ fwd' >= 1
      BY <1>1, <1>3, <2>1, <2>2, <3>1
    <3> QED BY <1>1, <1>3, <2>1, <3>2 DEF LoopInv
  <2>5. CacheInv'
    <3>1. \A l \in LayerIds : Taken(l) = fed'
      BY <1>1 DEF Taken
    <3> QED BY <1>1, <2>1, <3>1, ForwardCaches
  <2>6. FaultInv' /\ FiniteLogits'
    BY <1>1, <2>1 DEF FaultInv, FiniteLogits
  <2> QED BY <1>5, <2>3, <2>4, <2>5, <2>6
<1> QED BY <1>6, <1>7

(* The end of the generate loop. *)
LEMMA GenerateCapIInv ==
  ASSUME IInv, GenerateCap
  PROVE  IInv'
<1> USE DEF IInv
<1>1. /\ phase' = "idle"
      /\ UNCHANGED <<family, kernel, clip, req, gen, prompt, prefilling, fed,
                     fwd, li, hidden, kv, conv, ssm, poisoned, view,
                     lastLogits, logits, hist, out, drawn, faulted>>
  BY DEF GenerateCap, model, caches
<1>2. ScalarInv' /\ LoopInv'
  BY <1>1 DEF ScalarInv, LoopInv
<1>3. CacheInv'
  BY <1>1, IdleCaches
<1>4. CausalContext' /\ FaultInv' /\ FiniteLogits'
  BY <1>1 DEF CausalContext, FaultInv, FiniteLogits
<1> QED BY <1>2, <1>3, <1>4

(* A stuttering step. *)
LEMMA StutterIInv ==
  ASSUME IInv, UNCHANGED vars
  PROVE  IInv'
<1>1. UNCHANGED <<family, kernel, clip, req, gen, phase, prompt, prefilling,
                  fed, fwd, li, hidden, kv, conv, ssm, poisoned, view,
                  lastLogits, logits, hist, out, drawn, faulted>>
  BY DEF vars, model, caches
<1>2. ScalarInv' /\ LoopInv' /\ CausalContext' /\ FaultInv' /\ FiniteLogits'
  <2>1. ScalarInv'
    BY <1>1 DEF IInv, ScalarInv
  <2>2. LoopInv'
    BY <1>1 DEF IInv, LoopInv
  <2>3. CausalContext'
    BY <1>1 DEF IInv, CausalContext
  <2>4. FaultInv' /\ FiniteLogits'
    BY <1>1 DEF IInv, FaultInv, FiniteLogits
  <2> QED BY <2>1, <2>2, <2>3, <2>4
<1>3. CacheInv'
  <2>1. \A l \in LayerIds : Taken(l)' = Taken(l)
    BY <1>1 DEF Taken
  <2>2. \A t : CachesHold(t)' = CachesHold(t)
    BY <1>1 DEF CachesHold, AttentionLayer, Streams
  <2> QED BY <1>1, <2>1, <2>2 DEF IInv, CacheInv
<1> QED BY <1>2, <1>3 DEF IInv

(* Every step keeps the inductive invariant. *)
LEMMA NextIInv == IInv /\ [Next]_vars => IInv'
  BY StartRequestIInv, LayerCallIInv, PromptForwardEndIInv, StepEndIInv,
     GenerateStepIInv, GenerateCapIInv, StutterIInv DEF Next, EngineStep

-----------------------------------------------------------------------------
(* The theorems.                                                            *)

(* The inductive invariant holds: while a request runs, every layer's      *)
(* cache holds exactly the positions that layer has taken, each once and   *)
(* in order, whatever the chunks, the overflows and the aborted forwards.  *)
THEOREM InvariantHolds == Spec => []IInv
<1>1. Init => IInv
  BY InitIInv
<1>2. IInv /\ [Next]_vars => IInv'
  BY NextIInv
<1> QED BY <1>1, <1>2, PTL DEF Spec

(* The shapes of the caches. *)
LEMMA CacheShapes ==
  ASSUME CacheInv, ScalarInv, NEW l \in LayerIds
  PROVE  /\ Len(kv[l]) <= MaxLen /\ Len(ssm[l]) <= MaxLen
         /\ conv[l] # None => \A s \in Streams : Len(conv[l][s]) = kernel - 1
         /\ AttentionLayer(l) => conv[l] = None /\ ssm[l] = <<>>
         /\ ~AttentionLayer(l) => kv[l] = <<>>
<1>1. PICK t \in [LayerIds -> Positions] : CachesHold(t)
  BY DEF CacheInv
<1>2. t[l] \in Nat /\ t[l] <= MaxLen /\ MaxLen \in Nat
      /\ kernel \in Nat /\ kernel >= 1
  BY LoopAssumption, PromptAssumption, KernelAssumption
     DEF Positions, MaxLen, ScalarInv
<1>3. Len(Keys(t[l])) = t[l] /\ Len(Upto(t[l])) = t[l] /\ Len(<<>>) = 0
  BY <1>2 DEF Keys, Upto
<1>4. Len(Window(t[l], kernel - 1)) = kernel - 1
  <2>1. kernel - 1 \in Nat
    BY <1>2
  <2> QED BY <2>1 DEF Window
<1>5. CASE AttentionLayer(l)
  <2>1. kv[l] = Keys(t[l]) /\ ssm[l] = <<>> /\ conv[l] = None
    BY <1>1, <1>5 DEF CachesHold
  <2> QED BY <1>2, <1>3, <1>5, <2>1
<1>6. CASE ~AttentionLayer(l)
  <2>1. /\ kv[l] = <<>> /\ ssm[l] = Upto(t[l])
        /\ \/ conv[l] = None
           \/ conv[l] = [s \in Streams |-> Window(t[l], kernel - 1)]
    BY <1>1, <1>6 DEF CachesHold
  <2>2. conv[l] # None => \A s \in Streams : Len(conv[l][s]) = kernel - 1
    BY <1>4, <2>1
  <2> QED BY <1>2, <1>3, <1>6, <2>1, <2>2
<1> QED BY <1>5, <1>6

(* Type correctness: caches within the positions of a request, convolution *)
(* states of kernel - 1 rows, a layer using only its own kind of cache.    *)
THEOREM TypeCorrect == Spec => []TypeOK
<1>1. IInv => TypeOK
  BY CacheShapes DEF IInv, ScalarInv, TypeOK
<1> QED BY <1>1, InvariantHolds, PTL

(* However a prompt is cut into chunks, a layer of either family computes  *)
(* position p from the positions 0..p of this request, each once and under *)
(* its own rotary position, and from nothing an aborted request left.      *)
THEOREM ContextIsCausal == Spec => []CausalContext
<1>1. IInv => CausalContext
  BY DEF IInv
<1> QED BY <1>1, InvariantHolds, PTL

(* The generate loop draws from the logits of the last position fed, with  *)
(* every layer's cache at that position.                                   *)
THEOREM LogitsAreFresh == Spec => []FreshLogits
<1>1. IInv => FreshLogits
  <2> SUFFICES ASSUME IInv, phase = "sample"
               PROVE  /\ logits # None /\ logits.at = fed - 1
                      /\ \A l \in LayerIds :
                           (IF AttentionLayer(l) THEN Len(kv[l])
                            ELSE Len(ssm[l])) = fed
    BY DEF FreshLogits
  <2>1. logits # None /\ logits.at = fed - 1
    BY DEF IInv, LoopInv
  <2>2. PICK t \in [LayerIds -> Positions] :
          CachesHold(t) /\ \A l \in LayerIds : t[l] = fed
    BY DEF IInv, CacheInv, Taken
  <2>3. fed \in Nat /\ Len(Keys(fed)) = fed /\ Len(Upto(fed)) = fed
    <3>1. fed \in Nat
      BY LoopAssumption, PromptAssumption
         DEF IInv, ScalarInv, Positions, MaxLen
    <3> QED BY <3>1 DEF Keys, Upto
  <2>4. ASSUME NEW l \in LayerIds
        PROVE  (IF AttentionLayer(l) THEN Len(kv[l]) ELSE Len(ssm[l])) = fed
    <3>1. CachesHold(t) /\ t[l] = fed
      BY <2>2
    <3>2. /\ AttentionLayer(l) => kv[l] = Keys(t[l])
          /\ ~AttentionLayer(l) => ssm[l] = Upto(t[l])
      BY <3>1, HeldAt
    <3> QED BY <2>3, <3>1, <3>2
  <2> QED BY <2>1, <2>4
<1> QED BY <1>1, InvariantHolds, PTL

(* With the hidden clip an fp16 overflow leaves the logits finite and      *)
(* poisons the cache of one layer at most.                                 *)
THEOREM LogitsStayFinite == Spec => []FiniteLogits
<1>1. IInv => FiniteLogits
  BY DEF IInv
<1> QED BY <1>1, InvariantHolds, PTL
(* What a draw keeps to while it is the last one. *)
LEMMA DrawnStays ==
  ASSUME DrawnAsConfigured, UNCHANGED <<drawn, gen>>
  PROVE  DrawnAsConfigured'
BY DEF DrawnAsConfigured

(* An iteration of the generate loop draws as configured. *)
LEMMA DrawsAsConfigured ==
  ASSUME IInv, GenerateStep
  PROVE  DrawnAsConfigured'
<1>1. gen \in GenConfigs /\ gen' = gen /\ hist \in SUBSET Vocab
  BY DEF IInv, ScalarInv, GenerateStep
<1>2. logits # None /\ logits \in LogitsType
  BY DEF IInv, ScalarInv, LoopInv, GenerateStep
<1>3. PICK tid \in Choices :
        drawn' = [at |-> logits.at, vec |-> logits.vec, hist |-> hist,
                  first |-> out = 0, tid |-> tid]
  BY DEF GenerateStep
<1>4. CASE logits.vec = None
  BY <1>3, <1>4 DEF DrawnAsConfigured
<1>5. CASE logits.vec # None
  <2> DEFINE vec == logits.vec
  <2>1. vec \in LogitSet /\ vec \in [Vocab -> Int]
    BY <1>2, <1>5, LogitAssumption DEF LogitsType
  <2>2. CASE out = 0 /\ gen.firstGreedy
    <3>1. tid = Argmax(vec)
      BY <1>3, <1>5, <2>2 DEF Choices
    <3>2. ASSUME NEW t \in Vocab PROVE vec[tid] >= vec[t]
      <4>1. tid \in Vocab /\ vec[t] <= vec[tid]
        BY <2>1, <3>1, ArgmaxBest
      <4>2. vec[t] \in Int /\ vec[tid] \in Int
        BY <2>1, <4>1
      <4> HIDE DEF vec
      <4> QED BY <4>1, <4>2
    <3> QED BY <1>1, <1>3, <2>2, <3>2 DEF DrawnAsConfigured
  <2>3. CASE ~(out = 0 /\ gen.firstGreedy)
    <3>1. tid \in Sample(vec, gen, hist)
      BY <1>3, <1>5, <2>3 DEF Choices
    <3>2. Sample(vec, gen, hist) = Drawable(vec, gen, hist)
      BY <1>1, <2>1, SampleIsDrawable
    <3> QED BY <1>1, <1>3, <2>3, <3>1, <3>2 DEF DrawnAsConfigured
  <2> QED BY <2>2, <2>3
<1> QED BY <1>4, <1>5

(* A token is drawn from what the settings allow, given the logits and the *)
(* history at that moment: the sorting, thresholds and floors of           *)
(* sampling.py keep exactly the tokens the settings promise, ties and      *)
(* boundary values of top-k and top-p included; a greedy first token is a  *)
(* best one.                                                               *)
THEOREM DrawsAreConfigured == Spec => []DrawnAsConfigured
<1>1. Init => DrawnAsConfigured
  BY DEF Init, DrawnAsConfigured
<1>2. ASSUME IInv, DrawnAsConfigured, [Next]_vars PROVE DrawnAsConfigured'
  <2>1. CASE StartRequest
    BY <2>1 DEF StartRequest, DrawnAsConfigured
  <2>2. CASE GenerateStep
    BY <1>2, <2>2, DrawsAsConfigured
  <2>3. CASE LayerCall
    BY <1>2, <2>3, DrawnStays DEF LayerCall
  <2>4. CASE PromptForwardEnd
    BY <1>2, <2>4, DrawnStays DEF PromptForwardEnd
  <2>5. CASE StepEnd
    BY <1>2, <2>5, DrawnStays DEF StepEnd
  <2>6. CASE GenerateCap
    BY <1>2, <2>6, DrawnStays DEF GenerateCap
  <2>7. CASE UNCHANGED vars
    BY <1>2, <2>7, DrawnStays DEF vars
  <2> QED BY <1>2, <2>1, <2>2, <2>3, <2>4, <2>5, <2>6, <2>7
          DEF Next, EngineStep
<1> QED BY <1>1, <1>2, InvariantHolds, PTL DEF Spec

=============================================================================
